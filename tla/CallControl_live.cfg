\* The marker route alone, with confirmation on.
SPECIFICATION LiveCallsSpec
CONSTANTS
  Routes = {"marker"}
  Confirm = TRUE
  Prompts = 2
  MaxTurns = 2
  Null = Null
  l1 = l1
  l2 = l2
  Lookups = {l1, l2}
  MaxSpoken = 2
PROPERTIES EveryCallEnds
CHECK_DEADLOCK FALSE
