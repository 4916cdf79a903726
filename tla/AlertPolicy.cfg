\* A consumer and a request page, two replicas remind, users mute, pause, resolve.
SPECIFICATION PolicyFairSpec
CONSTANTS
  t1 = t1
  t2 = t2
  i1 = i1
  i2 = i2
  None = None
  Orphaned = Orphaned
  Appliers = {a1}
  Incidents = {o1, o2}
  Cooldown = 1
  Interval = 2
  Ticks = {t1, t2}
  Instances = {i1, i2}
  Owner <- OneTickEach
  MayOverrun = FALSE
CHECK_DEADLOCK FALSE
INVARIANTS
  QuietSoon
PROPERTIES
  PagesAreSpaced
  RemindersAreSpaced
  RemindersKeepComing
