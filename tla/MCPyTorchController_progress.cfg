CONSTANTS
  NumWorkers = 0
  NoLimit = NoLimit
  MaxLag = 1
  MaxRequeues = 0
  JobSpecs <- ProgressJobs
  Budget <- OutcomeBudget
SPECIFICATION Spec
PROPERTIES JobGetsItsPods RetryableIsReplaced OutcomeIsReported PodsAreCleaned DeadlineEnforced TTLDeletesJob
CHECK_DEADLOCK FALSE
