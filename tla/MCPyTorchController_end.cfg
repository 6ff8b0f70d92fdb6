CONSTANTS
  NumWorkers = 0
  NoLimit = NoLimit
  MaxLag = 1
  MaxRequeues = 1
  JobSpecs <- EndJobs
  Budget <- EndBudget
SPECIFICATION Safety
INVARIANTS CleanedIsOver ConditionsAgree
PROPERTIES NoPodAfterCleanup ReplacesOnlyFailed LifecycleSpec
VIEW Counted
CHECK_DEADLOCK FALSE
