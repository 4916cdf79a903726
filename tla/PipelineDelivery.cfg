\* Results are stored twice, outlive their markers and are handled by two owners.
SPECIFICATION Spec
CONSTANTS
  t1 = t1
  t2 = t2
  i1 = i1
  i2 = i2
  None = None
  Orphaned = Orphaned
  NoId = NoId
  Monitors = {m1}
  Ids = {d1, d2}
  Consumers = {c1, c2}
  Faults = {"rewrite", "reprobe", "rebalance", "crash", "db", "redis", "expiry", "garbled"}
  UserActions = {"pause", "checkNow"}
  MaxTargets = 1
  MaxLog = 3
  Ticks = {t1}
  Instances = {i1}
  Owner <- JustOne
  MayOverrun = TRUE
CHECK_DEADLOCK FALSE
SYMMETRY Interchangeable
INVARIANTS
  
  SkippedHadItsTurn
