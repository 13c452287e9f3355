\* One notification id with every kind of payload, restarts included.
SPECIFICATION Spec
CONSTANTS
  None = None
  s1 = s1
  s2 = s2
  c1 = c1
  c2 = c2
  u1 = u1
  a1 = a1
  a2 = a2
  Ids = {n1}
  Skills = {s1, s2}
  Consumers = {c1, c2}
  Users = {u1}
  Actions = {a1, a2}
  AllowGlobal = {s1}
  AllowNonRemovable = {s1}
  AllowedConsumers = None
  BlockedConsumers = {c2}
  RateLimit = 2
  RateWindow = 1
  Payloads <- OneIdPayloads
  Contexts <- OneIdContexts
  Durations <- OneIdDurations
  Retention = 1
  MaxTime = 4
INVARIANTS
  TypeOK
  SnoozedIsArmed
  LastEventAgrees
PROPERTIES
  ImplementsLifecycle
  DismissalAuthorized
  PerClientOnlyHides
  NeverEarly
