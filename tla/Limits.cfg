\* Three calls at a campaign of one slot, of two, or without a limit; and
\* three turns of two visitors, on three days; and two calls to two
\* numbers, with two edits of the tables.
SPECIFICATION LimitsSpec
CONSTANTS
  a1 = a1
  a2 = a2
  a3 = a3
  ann = ann
  bob = bob
  d1 = d1
  d2 = d2
  Calls = {a1, a2, a3}
  Limits = {1, 2}
  MaxWait = 1
  Message = 2
  Gap = 2
  Null = Null
  Turns = {a1, a2, a3}
  Visitors = {ann, bob}
  DailyCap = 2
  MaxTurns = 2
  MaxRounds = 2
  Day = 2
  MaxTime = 2
  MaxDeletes = 1
  Clients = {"us", "them"}
  Campaigns = {"own", "new", "other"}
  ClientOf <- Owner
  Numbers = {"700", "701"}
  DiallerIds = {"x", "y"}
  Dials = {d1, d2}
  Capacity <- Allowed
  Nothing = Nothing
  Startup <- Tables
  MaxEdits = 2
SYMMETRY Alike
INVARIANTS
  OnlyACrowdOvershoots
  SlotsAreLegs
  WaitIsBounded
  ChatKeepsItsBounds
  RecordsAreKept
 
CHECK_DEADLOCK FALSE
