\* Three replicas, crashes and failing statements; batches smaller than a day.
SPECIFICATION FairSpec
CONSTANTS
  t1 = t1
  t2 = t2
  t3 = t3
  i1 = i1
  i2 = i2
  i3 = i3
  None = None
  Orphaned = Orphaned
  NoSummary = NoSummary
  Ticks = {t1, t2, t3}
  Instances = {i1, i2, i3}
  Owner <- OneTickEach
  MayOverrun = FALSE
  MaxDay = 4
  MaxChecks = 2
  RetentionDays = 2
  BatchSize = 1
  MaxBatches = 2
CHECK_DEADLOCK FALSE
INVARIANTS
  AtMostOneWorks
  HistoryKeptUnlessCut
PROPERTIES
  SummarisedBeforeDropped
  ReleasesOwnGrant
  OldChecksGo
