\* A blocked consumer and an action that dismisses.
SPECIFICATION Spec
CONSTANTS
  None = None
  s1 = s1
  s2 = s2
  c1 = c1
  c2 = c2
  u1 = u1
  a1 = a1
  a2 = a2
  Ids = {n1}
  Skills = {s1}
  Consumers = {c1, c2}
  Users = {u1}
  Actions = {a1}
  AllowGlobal = {s1}
  AllowNonRemovable = {s1}
  AllowedConsumers = None
  BlockedConsumers = {c1}
  RateLimit = 1
  RateWindow = 0
  Payloads <- TimedPayloads
  Contexts <- OneIdContexts
  Durations = {1}
  Retention = 1
  MaxTime = 1
PROPERTIES
  BlockedNeverDismisses
