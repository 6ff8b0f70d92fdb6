CONSTANTS
  Keys = {k1, k2, k3}
  Workers = {w1, w2}
  NoKey = NoKey
  MaxFailures = 1
SPECIFICATION Spec
INVARIANTS TypeOK OneWorkerPerKey QueueHoldsIdleDirty ProcessingIsHeld DrainedAtExit
PROPERTIES WorkSpec MarkedKeyIsTaken DelayedKeyIsSynced
CHECK_DEADLOCK FALSE
