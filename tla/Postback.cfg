SPECIFICATION Spec
CONSTANTS
  Calls = {c1, c2}
  Null = Null
  Batch = 2
  MaxAttempts = 2
  MaxFaults = 2
  RetryInFlight = TRUE
  LostAnswers = TRUE
  BrokenBodies = TRUE
INVARIANTS
  NoNeedlessDuplicates
PROPERTIES
  KeepsPromise
