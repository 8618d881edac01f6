SPECIFICATION LiveSpec
CONSTANTS
  Calls = {c1}
  Reporting = {c1}
  Null = Null
  Limits = {4, 5}
  Poll = 0
  Farewell = 0
  Drain = 1
  MaxAge = 8
  MaxTurns = 1
  LateRefer = FALSE
  EarlyRequeue = FALSE
INVARIANTS
  HealthyRowsCarryNoFailure
  
  LengthIsTheCallsOwn
  NoLiveCallSwept
  PayloadMatchesRow
PROPERTIES
  ImplementsLedger
  EveryRowCloses
