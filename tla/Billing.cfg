\* Events delivered again, late and by two requests at once; one failure.
SPECIFICATION FairSpec
CONSTANTS
  None = None
  Subs = {s1, s2}
  Ending = {s1}
  Verified = {s2}
  Requests = {r1, r2}
  MaxFaults = 1
  Limit = 1
  MaxMonitors = 3
INVARIANTS
  PaidOnce
  AckedOrLost
  FreeIsLimited
PROPERTIES
  EventsSettle
