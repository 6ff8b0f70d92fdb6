CONSTANTS
  Procs = {a, b, c}
  LeaseDuration = 6
  RenewDeadline = 2
  RetryPeriod = 1
  MaxCrashes = 1
  MaxSignals = 1
SPECIFICATION Spec
INVARIANTS TypeOK OneLeader
PROPERTIES JobsAreSynced
