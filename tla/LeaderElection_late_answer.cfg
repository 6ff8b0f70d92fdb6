CONSTANTS
  Procs = {a, b}
  LeaseDuration = 15
  RenewDeadline = 5
  RetryPeriod = 3
  MaxCrashes = 0
  MaxSignals = 0
SPECIFICATION Safety
INVARIANTS NeverBothActive
