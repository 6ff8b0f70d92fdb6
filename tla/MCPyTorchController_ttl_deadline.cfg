CONSTANTS
  NumWorkers = 0
  NoLimit = NoLimit
  MaxLag = 1
  MaxRequeues = 0
  JobSpecs <- TTLDeadlineJobs
  Budget <- NoBudget
SPECIFICATION Spec
PROPERTIES DeadlineEnforced
CHECK_DEADLOCK FALSE
