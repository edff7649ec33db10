SPECIFICATION Spec
CONSTANTS
  Policies <- MCPolicies
  Evidence <- MCEvidence
  Epochs = {1, 2}
  MaxStaged = 1
  MaxAge = 1
  MaxBoots = 3
  MaxDecisions = 2
INVARIANTS TypeOK AcknowledgedSurvive SerialHistory MemoryIsDurable NeverRollsBack StagedIsCurrent
PROPERTIES LedgerSpec
CHECK_DEADLOCK FALSE
