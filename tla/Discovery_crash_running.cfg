SPECIFICATION FairSpec
CONSTANTS
  t1 = t1
  a1 = a1
  p1 = p1
  r1 = r1
  b1 = b1
  Tasks = {t1}
  Attempts = {a1}
  Planners = {p1}
  Requests = {r1}
  MaxVersion = 1
  MaxPage = 1
  Ids = {b1}
  RetryLimit = 1
  Faults = {"crash"}
PROPERTY RunningEnds
CHECK_DEADLOCK FALSE
