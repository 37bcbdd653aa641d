CONSTANTS
  Feeds <- SteadyFeeds
  Prompt = TRUE
  Batch = 1
  Interpreter = FALSE
  PageSize = 1
  MaxSeen = 500
  MaxRounds = 100
  MaxEmpty = 3
  RetryLimit = 0
SPECIFICATION Spec
INVARIANT NothingMissed
CHECK_DEADLOCK FALSE
