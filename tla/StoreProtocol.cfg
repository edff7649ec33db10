SPECIFICATION Spec
CONSTANTS
  Payloads = {p1}
  NoPayload = none
  MaxGeneration = 3
  Faults <- TornOnly
INVARIANTS TypeOK CommittedSurvives FailureChangesNothing
PROPERTY AbstractSpec
