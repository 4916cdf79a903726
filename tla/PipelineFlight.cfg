\* Two replicas dispatch; locks overrun; the engine, the database and instances fail.
SPECIFICATION FairSpec
CONSTANTS
  t1 = t1
  t2 = t2
  i1 = i1
  i2 = i2
  None = None
  Orphaned = Orphaned
  NoId = NoId
  Monitors = {m1}
  Ids = {d1, d2}
  Consumers = {c1}
  Faults = {"engine", "db", "crash", "garbled"}
  UserActions = {"window"}
  MaxTargets = 2
  MaxLog = 2
  Ticks = {t1, t2}
  Instances = {i1, i2}
  Owner <- OneTickEach
  MayOverrun = TRUE
CHECK_DEADLOCK FALSE
INVARIANTS
  SingleFlight
PROPERTIES
  KeepsBeingDispatched
  PartitionNeverBlocks
