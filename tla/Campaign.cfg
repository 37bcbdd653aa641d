SPECIFICATION CampaignFairSpec
CONSTANTS
  r1 = r1
  r2 = r2
  p1 = p1
  p2 = p2
  Requests = {r1, r2}
  Planners = {p1, p2}
  MaxVersion = 4
  RetryLimit = 1
  Faults = {"send", "orphan", "api", "crash", "expire"}
INVARIANTS CampaignTypeOK DiscoveringIsPlanned PlanningIsDriven PlanKeyIsFresh
PROPERTIES CancelledIsFinal PlanningEnds
CHECK_DEADLOCK FALSE
