\* A set whose notification is no dict.
SPECIFICATION FairSpec
CONSTANTS
  None = None
  s1 = s1
  s2 = s2
  Skills = {s1, s2}
  Styles = {"info", "warning"}
  MaxSent = 1
  MaxCopies = 2
  Payloads <- Forms
PROPERTIES
  EveryRequestAnswered
CHECK_DEADLOCK FALSE
