CONSTANTS
  NumWorkers = 0
  NoLimit = NoLimit
  MaxLag = 1
  MaxRequeues = 0
  JobSpecs <- NeverJobs
  Budget <- OneErrorBudget
SPECIFICATION Spec
PROPERTIES ServiceIsCleaned
CHECK_DEADLOCK FALSE
