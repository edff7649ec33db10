SPECIFICATION Spec
CONSTANTS
  Policies <- ProtectedGroup
  Observations <- GroupObserved
  Missing = Missing
  NoDecision = NoDecision
  WordMax = 100
  kStreakSaturation = 3
  kMaxCarryUnits = 3
  MaxRecords = 3
  MaxService = 9
  MaxWindow = 4
  MaxSkip = 1
INVARIANT GroupObligationHeld
CHECK_DEADLOCK FALSE
