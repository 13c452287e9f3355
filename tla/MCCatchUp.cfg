\* A node that catches up whenever it likes.
SPECIFICATION CatchUpSpec
CONSTANTS
  None = None
  s1 = s1
  s2 = s2
  c1 = c1
  c2 = c2
  u1 = u1
  a1 = a1
  a2 = a2
  Ids = {n1}
  Skills = {s1}
  Consumers = {c1, c2}
  Users = {u1}
  Actions = {a1}
  AllowGlobal = {s1}
  AllowNonRemovable = {s1}
  AllowedConsumers = None
  BlockedConsumers = {}
  RateLimit = 1
  RateWindow = 0
  Payloads <- CatchUpPayloads
  Contexts <- CatchUpContexts
  Durations <- CatchUpDurations
  Retention = 1
  MaxTime = 4
  Node = c1
  User = None
INVARIANTS
  CatchUpTypeOK
PROPERTIES
  CaughtUp
