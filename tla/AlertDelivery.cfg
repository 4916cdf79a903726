\* Two alerts, a channel that two failures bench, a webhook, every fault.
SPECIFICATION FairSpec
CONSTANTS
  a1 = a1
  a2 = a2
  c1 = c1
  h1 = h1
  Alerts = {a1, a2}
  Channels = {c1}
  Hooks = {h1}
  Subscribed <- Interests
  Threshold = 2
  Attempts = 2
  Faults = {"db", "queue", "crash"}
CHECK_DEADLOCK FALSE
CONSTRAINT OneJobAtWork
INVARIANTS
  KnownIsNotResent
  BenchIsEarned
PROPERTIES
  EveryAlertSettles
