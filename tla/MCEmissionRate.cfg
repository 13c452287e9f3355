\* Two threads in one deque: the limit holds until they overlap, refusals are
\* earned even when they do.
SPECIFICATION Spec
CONSTANTS
  Workers = {w1, w2}
  RateLimit = 2
  RateWindow = 2
  MaxTime = 6
INVARIANTS
  RateHeld
PROPERTIES
  RefusedOnlyWhenFull
