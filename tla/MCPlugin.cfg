\* A message of any kind and what it leaves behind, from the constructor to the shutdown.
SPECIFICATION FairSpec
CONSTANTS
  None = None
  s1 = s1
  s2 = s2
  Skills = {s1, s2}
  Styles = {"info", "warning"}
  MaxSent = 1
  MaxCopies = 2
  Payloads <- Forms
INVARIANTS
  TypeOK
  RestoredFirst
  ForwardedOnce
  NoTimerLeft
PROPERTIES
  AsAsked
  ThreadEnds
  
CHECK_DEADLOCK FALSE
