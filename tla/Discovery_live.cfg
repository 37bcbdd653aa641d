SPECIFICATION FairSpec
CONSTANTS
  t1 = t1
  a1 = a1
  a2 = a2
  p1 = p1
  r1 = r1
  b1 = b1
  Tasks = {t1}
  Attempts = {a1, a2}
  Planners = {p1}
  Requests = {r1}
  MaxVersion = 1
  MaxPage = 2
  Ids = {b1}
  RetryLimit = 1
  Faults = {"provider", "send", "crash", "usage", "rollback"}
INVARIANT WaitingIsDriven
PROPERTIES SearchesFinish
CHECK_DEADLOCK FALSE
