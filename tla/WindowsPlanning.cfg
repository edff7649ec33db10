SPECIFICATION Spec
CONSTANTS
  Policies <- TwoPolicies
  Observations <- MCObservations
  Missing = Missing
  NoDecision = NoDecision
  WordMax = 100
  kStreakSaturation = 3
  kMaxCarryUnits = 3
  MaxRecords = 3
  MaxService = 9
  MaxWindow = 4
  MaxSkip = 1
INVARIANTS PlanBalances ProtectedFloorHeld StarvationFirst StarvationReported CooldownHolds PopulationCancels Reopenable GroupsAddUp
CHECK_DEADLOCK FALSE
