CONSTANTS
  NumWorkers = 0
  NoLimit = NoLimit
  MaxLag = 1
  MaxRequeues = 1
  JobSpecs <- BackoffJobs
  Budget <- FailAndEditBudget
SPECIFICATION Safety
INVARIANTS BackoffKillIsFinal
CHECK_DEADLOCK FALSE
