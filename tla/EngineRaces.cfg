\* A consumer and a "check now" request race with every user action.
SPECIFICATION Spec
CONSTANTS
  Consumers = {c1}
  Manuals = {m1}
  Beats = {}
  Sweepers = {}
  Users = {u1}
  Incidents = {i1, i2}
  Grace = 2
  MaxFailures = 3
  UserActions = {"pause", "window", "delete"}
  Alerted = TRUE
CONSTRAINT OneAlertUnderWay
SYMMETRY Interchangeable
CHECK_DEADLOCK FALSE
INVARIANTS
  AtMostOneActive
  FaultIsBacked
  ResolvedPageIsTrue
PROPERTIES
  OpensAtThreshold
  ResolvesOnRecovery
  OpenedPageIsOwn
  TimelineSpec
