\* One consumer applies every result; nobody else writes.
SPECIFICATION FairSpec
CONSTANTS
  Consumers = {c1}
  Manuals = {}
  Beats = {}
  Sweepers = {}
  Users = {}
  Incidents = {i1, i2}
  Grace = 3
  MaxFailures = 4
  UserActions = {}
  Alerted = FALSE
ACTION_CONSTRAINT KeepsAnIdentity
CHECK_DEADLOCK FALSE
INVARIANTS
  OutageHasIncident
PROPERTIES
  FailureIsReported
  RecoveryIsReported
