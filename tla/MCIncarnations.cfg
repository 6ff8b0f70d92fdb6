CONSTANTS
  Unset = Unset
  NilSpec = NilSpec
  Absent = Absent
  MaxWrites = 2
  MaxLag = 1
  Scenarios <- SomeScenarios
SPECIFICATION Spec
CHECK_DEADLOCK FALSE
INVARIANTS TypeOK SuccessIsItsOwn ValidSpecsAreUsable RanksFormTheWorld
PROPERTIES SyncActsOnItsOwn OutcomeIsFinal NewJobGetsItsPod
