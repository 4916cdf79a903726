\* A push monitor: beats, two replicas sweeping, pauses and windows.
SPECIFICATION FairSpec
CONSTANTS
  Consumers = {}
  Manuals = {}
  Beats = {b1}
  Sweepers = {s1, s2}
  Users = {}
  Incidents = {i1, i2}
  Grace = 2
  MaxFailures = 3
  UserActions = {"pause", "window"}
  Alerted = FALSE
ACTION_CONSTRAINT KeepsAnIdentity
CHECK_DEADLOCK FALSE
PROPERTIES
  SilenceHasIncident
