SPECIFICATION FairSpec
CONSTANTS
  Callers <- MCCallers
  Items <- MCItems
  BaseKey <- MCBaseKey
  Bulk <- MCCallers
  Controls <- MCControls
  Subject <- MCSubject
  Capacity = 1
  RetryLimit = 1
  Faults = {"send", "answer", "delete", "caller", "database", "crash", "expire"}
  MaxFaults = 1
INVARIANTS TypeOK AnswersStand BulkIsNotMerged OneJobPerKey AttemptsAreTries StatusAgrees CancelStands
PROPERTIES TableRefinement JobsEnd
CHECK_DEADLOCK FALSE
