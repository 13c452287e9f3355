\* A worker, the ticking thread and two timer threads on the records of one id.
SPECIFICATION Spec
CONSTANTS
  None = None
  Ids = {n1}
  Timers = {t1, t2}
  Dues = {1}
  MaxTime = 1
  Workers = {w1}
  Objects = {o1, o2, o3}
  Expiries = {None, 1}
  Durations = {1, 2}
  Retention = 0
VIEW View
INVARIANTS
  TypeOK
  ListedTimersFire
  SleeperHasTimer
PROPERTIES
  NeverEarly
