\* Violated: a failed result is passed with its batch, and its marker would have it skipped.
SPECIFICATION Spec
CONSTANTS
  t1 = t1
  t2 = t2
  i1 = i1
  i2 = i2
  None = None
  Orphaned = Orphaned
  NoId = NoId
  Monitors = {m1}
  Ids = {d1}
  Consumers = {c1}
  Faults = {"db"}
  UserActions = {}
  MaxTargets = 1
  MaxLog = 1
  Ticks = {t1}
  Instances = {i1}
  Owner <- JustOne
  MayOverrun = TRUE
CHECK_DEADLOCK FALSE
INVARIANTS
  FailedIsRedelivered
