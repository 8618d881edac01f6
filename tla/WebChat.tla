------------------------------- MODULE WebChat -------------------------------
(***************************************************************************)
(* The chat widget on a customer's website: a visitor's turns, the cap on  *)
(* what a day may cost, and the conversation each turn is answered from.   *)
(*                                                                         *)
(* A turn is a request.  It reads what the day has cost, reads its         *)
(* conversation, has the model reply in rounds that cost a token each, and *)
(* stores question, answer and cost in one transaction at the end.  Every  *)
(* step is a statement of its own; turns of one visitor overlap when he    *)
(* has two pages open or does not wait.  A transaction takes no time.      *)
(***************************************************************************)
EXTENDS Integers, Sequences, FiniteSets

CONSTANTS
  Turns, Visitors,
  DailyCap,     \* daily_token_cap
  MaxTurns,     \* MAX_TURNS
  MaxRounds,    \* MAX_TOOL_ROUNDS
  Day,          \* 24 hours
  MaxTime, MaxDeletes   \* bounds

(* A cap is at least 1000 tokens (WidgetIn, schemas.py:1637).              *)
ASSUME ChatAssumption ==
  /\ IsFiniteSet(Turns) /\ IsFiniteSet(Visitors)
  /\ DailyCap \in Nat \ {0} /\ MaxTurns \in Nat \ {0}
  /\ MaxRounds \in Nat /\ Day \in Nat /\ MaxTime \in Nat /\ MaxDeletes \in Nat

VARIABLES
  widget,   \* chat_widgets: none, on or off
  made,     \* how many widgets were deleted before this one
  conv,     \* chat_conversations, by session_id
  written,  \* chat_messages by their ids, which one undone keeps: seen or not
  turn,     \* a request: where it is, and what it has read
  clock,
  abreast     \* history: the most turns that were under way at once

cvars == <<widget, made, conv, written, turn, clock, abreast>>

Absent == [open |-> FALSE, tokens |-> 0, last |-> 0]
Unasked == [step |-> "idle", of |-> Absent, reading |-> {}, rounds |-> 0,
            made |-> 0, at |-> 0]

ChatInit ==
  /\ widget = "none" /\ made = 0 /\ clock = 0 /\ abreast = 0
  /\ conv = [v \in Visitors |-> Absent]
  /\ written = <<>> /\ turn = [t \in Turns |-> Unasked]

At(t, step) == turn[t].step = step
Goes(t, step) == turn' = [turn EXCEPT ![t].step = step]
Ends(t) == turn' = [turn EXCEPT ![t] = [Unasked EXCEPT !.step = "over"]]
AtRest(t) == turn[t].step \in {"idle", "over", "stored"}

-----------------------------------------------------------------------------
(* widget_chat *)

Ask(t, v) ==
  /\ At(t, "idle") /\ widget = "on"
  /\ turn' = [turn EXCEPT ![t].step = "cap", ![t].of = v, ![t].made = made]
  /\ UNCHANGED <<widget, made, conv, written, clock>>

Recent(c) == clock - c.last < Day

(* What f comes to over S: its tokens, one by one.                         *)
Units(f, S) == UNION {{x} \X (1 .. f[x]) : x \in S}
Total(f, S) == Cardinality(Units(f, S))

Spent(t, V) ==
  IF turn[t].made # made THEN 0
  ELSE Total([v \in Visitors |-> conv[v].tokens], {v \in V : conv[v].open /\ Recent(conv[v])})

(* Mutant of Used: what the visitor's own conversation has cost.           *)
UsedByOne(t) == Spent(t, {turn[t].of})

Used(t) == Spent(t, Visitors)

Cap(t) ==
  /\ At(t, "cap")
  /\ IF Used(t) >= DailyCap THEN Ends(t) ELSE Goes(t, "find")
  /\ UNCHANGED <<widget, made, conv, written, clock>>

(* The campaign has no configuration or no key for its model.              *)
Unavailable(t) ==
  /\ At(t, "find") /\ Ends(t)
  /\ UNCHANGED <<widget, made, conv, written, clock>>

(* Mutant of Visible: the three statements are not one transaction.        *)
VisibleAtOnce(u) == turn[u].made = made /\ turn[u].step \in {"answer", "count", "stored"}

Visible(u) == turn[u].made = made /\ At(u, "stored")

(* What a conversation is answered from: the ids of its messages.          *)
History(v) == {i \in DOMAIN written : Visible(written[i].turn) /\ turn[written[i].turn].of = v}

Enter(t, history) ==
  IF Cardinality(history) >= 2 * MaxTurns THEN Ends(t)
  ELSE turn' = [turn EXCEPT ![t].made = made, ![t].step = "reply", ![t].reading = history]

Find(t) ==
  /\ At(t, "find")
  /\ IF conv[turn[t].of].open THEN Enter(t, History(turn[t].of)) ELSE Goes(t, "create")
  /\ UNCHANGED <<widget, made, conv, written, clock>>

(* A session that another turn has just created, or a widget that is gone, *)
(* fails the request.                                                      *)
Create(t) ==
  LET v == turn[t].of IN
  /\ At(t, "create")
  /\ IF conv[v].open \/ turn[t].made # made
     THEN Ends(t) /\ UNCHANGED conv
     ELSE /\ conv' = [conv EXCEPT ![v] = [Absent EXCEPT !.open = TRUE, !.last = clock]]
          /\ Enter(t, {})
  /\ UNCHANGED <<widget, made, written, clock>>

-----------------------------------------------------------------------------
(* reply, and the stream that shows it *)

(* A round ends in an answer or in calls of tools, and then there is       *)
(* another one.                                                            *)
Round(t) ==
  /\ At(t, "reply") /\ turn[t].rounds < MaxRounds
  /\ turn' \in {[turn EXCEPT ![t].rounds = @ + 1],
                [turn EXCEPT ![t].rounds = @ + 1, ![t].step = "question", ![t].reading = {}]}
  /\ UNCHANGED <<widget, made, conv, written, clock>>

OutOfRounds(t) ==
  /\ At(t, "reply") /\ turn[t].rounds = MaxRounds
  /\ turn' = [turn EXCEPT ![t].step = "question", ![t].reading = {}]
  /\ UNCHANGED <<widget, made, conv, written, clock>>

(* The stream ends when the visitor goes; the reply does not, and what it  *)
(* comes to, or costs, is kept by nobody.                                  *)
Leave(t) ==
  /\ At(t, "reply") /\ turn' = [turn EXCEPT ![t] = [Unasked EXCEPT !.step = "left"]]
  /\ UNCHANGED <<widget, made, conv, written, clock>>

(* The model fails, or a reply nobody waits for is over.                   *)
Lost(t) ==
  /\ turn[t].step \in {"reply", "left"} /\ Ends(t)
  /\ UNCHANGED <<widget, made, conv, written, clock>>

-----------------------------------------------------------------------------
(* _store_turn *)

Add(t, role) == written' = Append(written, [turn |-> t, role |-> role])

Question(t) ==
  /\ At(t, "question")
  /\ IF turn[t].made = made THEN Add(t, "user") /\ Goes(t, "answer")
                            ELSE Ends(t) /\ UNCHANGED written
  /\ UNCHANGED <<widget, made, conv, clock>>

AnswerIn(t) ==
  /\ At(t, "answer") /\ Add(t, "assistant") /\ Goes(t, "count")
  /\ UNCHANGED <<widget, made, conv, clock>>

Count(t) ==
  /\ At(t, "count")
  /\ conv' = [conv EXCEPT ![turn[t].of].tokens = @ + turn[t].rounds,
                          ![turn[t].of].last = clock]
  /\ turn' = [turn EXCEPT ![t].step = "stored", ![t].at = clock]
  /\ UNCHANGED <<widget, made, written, clock>>

Storing(t) == turn[t].step \in {"answer", "count"}

(* The visitor goes, or the console restarts: the transaction is undone,   *)
(* and nobody will see what it wrote.                                      *)
RollBack(t) ==
  /\ At(t, "question") \/ Storing(t)
  /\ Ends(t)
  /\ UNCHANGED <<widget, made, conv, written, clock>>

-----------------------------------------------------------------------------
(* The console, and the clock *)

SaveWidget ==
  /\ widget' \in {"on", "off"} \ {widget}
  /\ UNCHANGED <<made, conv, written, turn, clock>>

(* Its conversations go with it; one that is being stored holds it up.     *)
DeleteWidget ==
  /\ widget # "none" /\ made < MaxDeletes /\ \A t \in Turns : ~Storing(t)
  /\ widget' = "none" /\ made' = made + 1
  /\ conv' = [v \in Visitors |-> Absent]
  /\ UNCHANGED <<written, turn, clock>>

Tomorrow ==
  /\ clock < MaxTime /\ \A t \in Turns : ~Storing(t)
  /\ clock' = clock + 1
  /\ UNCHANGED <<widget, made, conv, written, turn>>

TakeTurn(t) ==
  \/ \E v \in Visitors : Ask(t, v)
  \/ Cap(t) \/ Unavailable(t) \/ Find(t) \/ Create(t)
  \/ Round(t) \/ OutOfRounds(t) \/ Leave(t) \/ Lost(t)
  \/ Question(t) \/ AnswerIn(t) \/ Count(t) \/ RollBack(t)

UnderWay == Cardinality({t \in Turns : ~AtRest(t)})

ChatNext ==
  /\ (\E t \in Turns : TakeTurn(t)) \/ SaveWidget \/ DeleteWidget \/ Tomorrow
  /\ abreast' = IF UnderWay' > abreast THEN UnderWay' ELSE abreast

ChatSpec == ChatInit /\ [][ChatNext]_cvars

-----------------------------------------------------------------------------
Lately == {t \in Turns : Visible(t) /\ clock - turn[t].at < Day}

(* What was stored in any 24 hours passes the cap by no more than the      *)
(* turns that were under way at once can cost (widget.py:170), however old *)
(* the conversations are and whoever created them.                         *)
DayIsCapped ==
  Total([t \in Turns |-> turn[t].rounds], Lately) <= DailyCap - 1 + MaxRounds * abreast

(* A conversation ends at MAX_TURNS, passed by as many (widget.py:195).    *)
ConversationsEnd ==
  \A v \in Visitors : Cardinality(History(v)) <= 2 * (MaxTurns - 1 + abreast)

SpendingIsBounded == DayIsCapped /\ ConversationsEnd

(* What the model is shown of a conversation are whole exchanges, each     *)
(* question before its answer and beside it unless two turns were under    *)
(* way at once (_conversation and _store_turn, widget.py:240, :263).       *)
HistoryIsWhole ==
  \A t \in Turns : LET r == turn[t].reading
                       Of(u, role) == {i \in r : written[i] = [turn |-> u, role |-> role]}
                   IN \A u \in {written[i].turn : i \in r} : \E i, j \in r :
                        /\ Of(u, "user") = {i} /\ Of(u, "assistant") = {j} /\ i < j
                        /\ abreast > 1 \/ \A k \in r : ~(i < k /\ k < j)

(* A visitor can neither run up a bill nor be answered out of a broken     *)
(* conversation (chat, widget.py:144).                                     *)
ChatKeepsItsBounds == SpendingIsBounded /\ HistoryIsWhole
=============================================================================
