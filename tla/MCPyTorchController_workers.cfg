CONSTANTS
  NumWorkers = 1
  NoLimit = NoLimit
  MaxLag = 1
  MaxRequeues = 0
  JobSpecs <- TwoReplicaJobs
  Budget <- TwoReplicaBudget
SPECIFICATION Spec
INVARIANTS TypeOK CountsAddUp
PROPERTIES ReplacesOnlyFailed LifecycleSpec OutcomeIsReported PodsAreCleaned
VIEW Relevant
