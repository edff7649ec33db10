SPECIFICATION Spec
CONSTANTS
  Policies <- MCPolicies
  MaxWhole = 6
  MaxWeight = 2
INVARIANTS Conserves FloorsMet StrongestFirst WithinQuota
PROPERTY WeightMonotone
CHECK_DEADLOCK FALSE
