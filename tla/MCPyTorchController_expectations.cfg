CONSTANTS
  NumWorkers = 0
  NoLimit = NoLimit
  MaxLag = 1
  MaxRequeues = 0
  JobSpecs <- NeverJobs
  Budget <- NoBudget
SPECIFICATION Safety
PROPERTIES SyncOnlyWhenSatisfied
CHECK_DEADLOCK FALSE
