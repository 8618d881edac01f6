\* Two calls and batches of one, so that a row waits behind another; one
\* rule, evaluated by the timer and by a person.
SPECIFICATION BackgroundSpec
CONSTANTS
  c1 = c1
  c2 = c2
  Calls = {c1, c2}
  Null = Null
  Batch = 1
  MaxAttempts = 2
  MaxFaults = 2
  RetryInFlight = FALSE
  LostAnswers = TRUE
  BrokenBodies = FALSE
  r1 = r1
  timer = timer
  person = person
  Rules = {r1}
  Runs = {timer, person}
  Timer = timer
  NoAlert = NoAlert
  MaxEvents = 4
  MaxMishaps = 1
INVARIANTS
  PatienceIsBounded
  AlertsMatchBreaches
PROPERTIES
  EveryPostbackSettles
  LastingBreachFires
