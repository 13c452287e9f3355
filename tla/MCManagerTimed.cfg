\* Fair behaviours: every snooze ends, every stale record is retired.
SPECIFICATION FairSpec
CONSTANTS
  None = None
  s1 = s1
  s2 = s2
  c1 = c1
  c2 = c2
  u1 = u1
  a1 = a1
  a2 = a2
  Ids = {n1}
  Skills = {s1}
  Consumers = {c1, c2}
  Users = {u1}
  Actions = {a1}
  AllowGlobal = {s1}
  AllowNonRemovable = {s1}
  AllowedConsumers = None
  BlockedConsumers = {}
  RateLimit = 1
  RateWindow = 0
  Payloads <- TimedPayloads
  Contexts <- TimedContexts
  Durations = {1, 2}
  Retention = 1
  MaxTime = 3
PROPERTIES
  SnoozeEnds
  StaleRetired
