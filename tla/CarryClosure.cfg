SPECIFICATION CarrySpec
CONSTANTS
  WordMax = 7
  Nets <- MCNets
  Bounds = {0, 2, 4}
INVARIANTS CarryTypeOK Closes Bounded
