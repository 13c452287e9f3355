\* Two ids that may share an owner: bulk removal, requester identities, policies.
SPECIFICATION Spec
CONSTANTS
  None = None
  s1 = s1
  s2 = s2
  c1 = c1
  c2 = c2
  u1 = u1
  a1 = a1
  a2 = a2
  Ids = {n1, n2}
  Skills = {s1, s2}
  Consumers = {c1, c2}
  Users = {u1}
  Actions = {a1}
  AllowGlobal = {s1}
  AllowNonRemovable = {s1}
  AllowedConsumers = {c1, s2}
  BlockedConsumers = {s2}
  RateLimit = 2
  RateWindow = 0
  Payloads <- TwoIdPayloads
  Contexts <- TwoIdContexts
  Durations = {1}
  Retention = 0
  MaxTime = 1
INVARIANTS
  LastEventAgrees
PROPERTIES
  DismissalAuthorized
