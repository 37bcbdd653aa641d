SPECIFICATION CampaignSpec
CONSTANTS
  r1 = r1
  r2 = r2
  p1 = p1
  Requests = {r1, r2}
  Planners = {p1}
  MaxVersion = 4
  RetryLimit = 1
  Faults = {"send"}
INVARIANT DraftHasNoPlanJob
CHECK_DEADLOCK FALSE
