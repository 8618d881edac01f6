-------------------------------- MODULE Hours --------------------------------
(***************************************************************************)
(* The office and calling hours of a campaign (agent/hours.py): is the     *)
(* window open, when does it open next, and what the caller is told.  An   *)
(* instant is a day and a tick of that day on the campaign's own clock; a  *)
(* schedule maps the weekdays it names to what is written for them.        *)
(***************************************************************************)
EXTENDS Integers

CONSTANTS
  Week,        \* DAYS: weekdays are 0 .. Week - 1
  LastTick,    \* the last time of a day that can be written, 23:59
  Horizon,     \* _HORIZON_DAYS
  Unreadable,  \* what _parse_hhmm cannot read
  Never        \* next_open's None

ASSUME HoursAssumption ==
  /\ Week \in Nat \ {0} /\ LastTick \in Nat /\ Horizon \in Nat \ {0}
  /\ Unreadable \notin 0 .. LastTick

Times == 0 .. LastTick
Instant == [day : Nat, time : Times]
ASSUME NeverAssumption == Never \notin Instant

Weekday(d) == d % Week

(* What can stand for a weekday: two times, either of them unreadable.  A  *)
(* weekday outside the schedule's domain has nothing, or not two.          *)
Written == [opens : Times \cup {Unreadable}, closes : Times \cup {Unreadable}]
Schedules == UNION {[D -> Written] : D \in SUBSET (0 .. Week - 1)}

HasWindow(hours, d) ==
  /\ Weekday(d) \in DOMAIN hours
  /\ hours[Weekday(d)].opens # Unreadable
  /\ hours[Weekday(d)].closes # Unreadable
  /\ hours[Weekday(d)].opens < hours[Weekday(d)].closes

Opens(hours, d) == hours[Weekday(d)].opens
Closes(hours, d) == hours[Weekday(d)].closes

InWindow(hours, i) ==
  HasWindow(hours, i.day) /\ Opens(hours, i.day) <= i.time /\ i.time < Closes(hours, i.day)

Configured(hours) == DOMAIN hours # {}

OpenNow(hours, holidays, now) ==
  Configured(hours) => now.day \notin holidays /\ InWindow(hours, now)

Before(i, j) == i.day < j.day \/ (i.day = j.day /\ i.time < j.time)

OpeningOn(hours, d) == [day |-> d, time |-> Opens(hours, d)]

(* The days the loop of next_open stops at.                                *)
Candidates(hours, holidays, now) ==
  {d \in now.day .. now.day + Horizon - 1 :
     /\ d \notin holidays /\ HasWindow(hours, d)
     /\ Before(now, OpeningOn(hours, d)) \/ (d = now.day /\ InWindow(hours, now))}

EarliestOpening(hours, holidays, now, days) ==
  IF days = {} THEN Never
  ELSE LET d == CHOOSE d \in days : \A e \in days : d <= e
       IN IF Before(now, OpeningOn(hours, d)) THEN OpeningOn(hours, d) ELSE now

NextOpen(hours, holidays, now) ==
  EarliestOpening(hours, holidays, now, Candidates(hours, holidays, now))

(* describe: the word for the day, here with the weekday it names.         *)
DayWord(when, now) ==
  CASE when = Never -> <<"later", 0>>
    [] when # Never /\ when.day = now.day -> <<"today", 0>>
    [] when # Never /\ when.day = now.day + 1 -> <<"tomorrow", 0>>
    [] OTHER -> <<"weekday", Weekday(when.day)>>

(* The gate of request_transfer and what the caller hears: three readings  *)
(* of the clock, one in is_open, one in next_open and one in describe.     *)
Refused(hours, holidays, asked) == ~OpenNow(hours, holidays, asked)

(* Mutant: one reading of the clock, before the message is put together.   *)
ClosedMessageOfOneReading(hours, holidays, looked, spoken) ==
  LET when == NextOpen(hours, holidays, looked)
  IN [when |-> when, day |-> DayWord(when, looked)]

ClosedMessage(hours, holidays, looked, spoken) ==
  LET when == NextOpen(hours, holidays, looked)
  IN [when |-> when, day |-> DayWord(when, spoken)]

-----------------------------------------------------------------------------
(* What a person takes the word to mean: a weekday is the next one after   *)
(* tomorrow.                                                               *)
DayMeant(word, now) ==
  CASE word[1] = "today" -> now.day
    [] word[1] = "tomorrow" -> now.day + 1
    [] OTHER -> CHOOSE d \in now.day + 2 .. now.day + 1 + Week : Weekday(d) = word[2]

InstantsFrom(i) ==
  {j \in [day : i.day .. i.day + Horizon - 1, time : Times] : ~Before(j, i)}

(* n is the first instant at or after `from` at which the window is open,  *)
(* or there is none on the days looked at.                                 *)
FirstOpening(hours, holidays, from, n) ==
  IF n = Never
  THEN \A i \in InstantsFrom(from) : ~OpenNow(hours, holidays, i)
  ELSE /\ n \in InstantsFrom(from) /\ OpenNow(hours, holidays, n)
       /\ \A i \in InstantsFrom(from) : Before(i, n) => ~OpenNow(hours, holidays, i)
=============================================================================
