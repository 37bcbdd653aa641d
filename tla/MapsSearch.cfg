CONSTANTS
  Feeds <- ChangingFeeds
  Prompt = FALSE
  Batch = 1
  Interpreter = TRUE
  PageSize = 2
  MaxSeen = 3
  MaxRounds = 4
  MaxEmpty = 2
  RetryLimit = 1
SPECIFICATION FairSpec
INVARIANTS TypeOK CursorIsWhatWasFound EndIsComplete
PROPERTIES CallsEnd SearchEnds
CHECK_DEADLOCK FALSE
