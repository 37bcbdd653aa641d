SPECIFICATION Spec
CONSTANTS
  t1 = t1
  a1 = a1
  a2 = a2
  p1 = p1
  r1 = r1
  b1 = b1
  Tasks = {t1}
  Attempts = {a1, a2}
  Planners = {p1}
  Requests = {r1}
  MaxVersion = 4
  MaxPage = 2
  Ids = {b1}
  RetryLimit = 0
  Faults = {"expire", "crash", "api", "provider"}
SYMMETRY Symmetry
INVARIANTS ClaimExclusive GenerationMeansDiscovering
CHECK_DEADLOCK FALSE
