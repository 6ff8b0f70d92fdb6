CONSTANTS
  NumWorkers = 1
  NoLimit = NoLimit
  MaxLag = 1
  MaxRequeues = 0
  JobSpecs <- NeverJobs
  Budget <- TwoReplicaBudget
SPECIFICATION Safety
INVARIANTS MasterSuccessWins
VIEW Relevant
CHECK_DEADLOCK FALSE
