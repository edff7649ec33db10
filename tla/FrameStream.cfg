SPECIFICATION StreamSpec
CONSTANTS
  HeaderSize = 2
  PayloadSizes <- MCPayloadSizes
  ServerMax = 1
  LinkMax = 2
  MaxFrames = 3
INVARIANT InStep
PROPERTIES ImplementsChannel ReadReturns
CHECK_DEADLOCK FALSE
