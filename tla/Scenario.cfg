SPECIFICATION Spec
CONSTANTS
  Lines <- MCLines
  MaxLines = 7
  U64Max = 7
  U32Max = 3
INVARIANTS AcceptsTheGrammar MeansWhatItSays
CHECK_DEADLOCK FALSE
