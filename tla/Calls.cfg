\* Both transfer routes with confirmation on; two turns of the caller's and
\* two lookups.
SPECIFICATION CallsSpec
CONSTANTS
  Routes = {"tool", "marker"}
  Confirm = TRUE
  Prompts = 2
  MaxTurns = 2
  Null = Null
  l1 = l1
  l2 = l2
  Lookups = {l1, l2}
  MaxSpoken = 2
SYMMETRY Alike
INVARIANTS
  ConsentBeforeHandoff
  GreetingComesFirst
  WaitsAreExplained
PROPERTIES
  NoHangupMidHandoff
  NoPromptOverSpeech
CHECK_DEADLOCK FALSE
