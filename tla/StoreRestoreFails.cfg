SPECIFICATION Spec
CONSTANTS
  Payloads = {p1, p2}
  NoPayload = none
  MaxGeneration = 2
  Faults <- TornAndRestore
INVARIANT CommittedSurvives
