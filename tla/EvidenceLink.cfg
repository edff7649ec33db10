SPECIFICATION LinkFairSpec
CONSTANTS
  Connections = {1, 2}
  Loads <- MCLoads
  EvaluateOnIngest = TRUE
  WritesFail = TRUE
  Policies <- MCPolicies
  Evidence <- MCEvidence
  Epochs = {1, 2}
  MaxStaged = 1
  MaxAge = 1
  MaxBoots = 1
  MaxDecisions = 2
INVARIANTS SequenceInStep AnswerIsTrue
PROPERTY Answered
CHECK_DEADLOCK FALSE
