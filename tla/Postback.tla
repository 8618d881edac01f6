------------------------------ MODULE Postback ------------------------------
(***************************************************************************)
(* The delivery of table `call_postbacks` by admin-api: one sweeper task   *)
(* reads a batch of due rows, then for every row of it reads the           *)
(* campaign's configuration, posts the payload and records the answer,     *)
(* with a database round trip or a network wait between any two of these;  *)
(* an editor switches the postback on and off and presses Retry meanwhile, *)
(* a statement may fail and the process may be restarted.                  *)
(*                                                                         *)
(* next_attempt_at is kept as an order: "due" rows stand behind the rows   *)
(* that were due before them, "later" rows join them when their time comes.*)
(***************************************************************************)
EXTENDS Naturals, Sequences, FiniteSets

CONSTANTS
  Calls,          \* the calls; a call has at most one row (UNIQUE call_id)
  Null,
  Batch,          \* POSTBACK_BATCH
  MaxAttempts,    \* postback_max_attempts
  MaxFaults,      \* bound: restarts, lost answers, failed statements, retries
  RetryInFlight,  \* TRUE: Retry may be pressed on a row the sweeper has read
  LostAnswers,    \* TRUE: the client may take a result and its answer be lost
  BrokenBodies    \* TRUE: reading the body of an error answer may raise

ASSUME PostbackAssumption ==
  /\ IsFiniteSet(Calls)
  /\ Batch \in Nat \ {0}
  /\ MaxAttempts \in Nat \ {0}
  /\ MaxFaults \in Nat
  /\ {RetryInFlight, LostAnswers, BrokenBodies} \subseteq BOOLEAN

VARIABLES
  box,        \* the rows of call_postbacks, Null where there is none
  ahead,      \* ahead[c]: the due rows with an earlier next_attempt_at than c
  enabled,    \* postback_enabled, with a postback_url
  step,       \* where the sweeper is
  batch,      \* the rows it has read and not finished, as it read them
  ok,         \* the last answer was a 2xx
  received,   \* history: how often the client took the result of c
  tries,      \* history: POSTs of c since it was queued or last retried
  lost,       \* history: answers, or records of them, that were lost
  retried,    \* history: how often somebody pressed Retry
  faults      \* how much of MaxFaults is used up

sweeper == <<step, batch, ok>>
history == <<received, tries, lost, retried, faults>>
vars == <<box, ahead, enabled, sweeper, history>>

Row == [status : {"pending", "sent", "failed", "skipped"},
        attempts : Nat, next : {"never", "later", "due"}]

ASSUME NullIsNoRow == Null \notin Row

Steps == {"asleep", "config", "skip", "post", "record"}

IsDue(c) == box[c] # Null /\ box[c].next = "due"
Due == {c \in Calls : IsDue(c)}
IsPending(c) == box[c] # Null /\ box[c].status = "pending"
InFlight(c) == \E i \in DOMAIN batch : batch[i].call = c
Current == Head(batch).call

Init ==
  /\ box = [c \in Calls |-> Null]
  /\ ahead = [c \in Calls |-> {}]
  /\ enabled \in BOOLEAN
  /\ step = "asleep" /\ batch = <<>> /\ ok = FALSE
  /\ received = [c \in Calls |-> 0]
  /\ tries = [c \in Calls |-> 0]
  /\ lost = [c \in Calls |-> 0]
  /\ retried = [c \in Calls |-> 0]
  /\ faults = 0

(* c takes the place in the order behind the rows of S. *)
Place(c, S) ==
  ahead' = [d \in Calls |-> IF d = c THEN S ELSE ahead[d] \ {c}]

Fault == faults < MaxFaults /\ faults' = faults + 1
Lose(c) == Fault /\ lost' = [lost EXCEPT ![c] = @ + 1]

-----------------------------------------------------------------------------
(* The agent, or requeue_postback, inserts the row with its defaults. *)
Enqueue(c) ==
  /\ box[c] = Null
  /\ box' = [box EXCEPT ![c] = [status |-> "pending", attempts |-> 0,
                                next |-> "due"]]
  /\ Place(c, Due)
  /\ UNCHANGED <<enabled, sweeper, history>>

(* now() reaches the next_attempt_at of a waiting row. *)
Ripen(c) ==
  /\ box[c] # Null /\ box[c].next = "later"
  /\ box' = [box EXCEPT ![c].next = "due"]
  /\ Place(c, Due)
  /\ UNCHANGED <<enabled, sweeper, history>>

Retried(r) == [status |-> "pending", attempts |-> 0, next |-> "due"]

(* retry_postback: whatever state the row is in. *)
Retry(c) ==
  /\ box[c] # Null
  /\ InFlight(c) => RetryInFlight
  /\ box' = [box EXCEPT ![c] = Retried(@)]
  /\ Place(c, Due \ {c})
  /\ tries' = [tries EXCEPT ![c] = 0]
  /\ Fault /\ retried' = [retried EXCEPT ![c] = @ + 1]
  /\ UNCHANGED <<enabled, sweeper, received, lost>>

EditConfig ==
  /\ enabled' = ~enabled
  /\ UNCHANGED <<box, ahead, sweeper, history>>

-----------------------------------------------------------------------------
(* The sweeper. *)

Limit == IF Cardinality(Due) < Batch THEN Cardinality(Due) ELSE Batch

(* The first rows in the order of next_attempt_at. *)
Oldest ==
  {s \in [1..Limit -> Due] :
     \A i \in 1..Limit : ahead[s[i]] = {s[j] : j \in 1..(i - 1)}}

SweepRead ==
  /\ step = "asleep"
  /\ Due # {}
  /\ \E s \in Oldest :
       batch' = [i \in 1..Limit |-> [call |-> s[i],
                                     attempts |-> box[s[i]].attempts]]
  /\ step' = "config"
  /\ UNCHANGED <<box, ahead, enabled, ok, history>>

(* deliver_one reads the configuration as it is now, at SEND time. *)
ReadConfig ==
  /\ step = "config"
  /\ step' = IF enabled THEN "post" ELSE "skip"
  /\ UNCHANGED <<box, ahead, enabled, batch, ok, history>>

NextRow ==
  /\ batch' = Tail(batch)
  /\ step' = IF Len(batch) = 1 THEN "asleep" ELSE "config"

Skipped(r) == [r EXCEPT !.status = "skipped", !.next = "never"]

(* Nowhere to send it: finished, and not a failure. *)
Skip ==
  /\ step = "skip"
  /\ box' = [box EXCEPT ![Current] = Skipped(@)]
  /\ Place(Current, {})
  /\ NextRow
  /\ UNCHANGED <<enabled, ok, history>>

Posted(c) == /\ tries' = [tries EXCEPT ![c] = @ + 1]
             /\ step' = "record"
             /\ UNCHANGED <<box, ahead, enabled, batch, retried>>

(* The client takes the result and its 2xx arrives. *)
PostTaken ==
  /\ step = "post"
  /\ Posted(Current)
  /\ ok' = TRUE
  /\ received' = [received EXCEPT ![Current] = @ + 1]
  /\ UNCHANGED <<lost, faults>>

(* The client takes it, and the answer times out or is not a 2xx. *)
PostAnswerLost ==
  /\ step = "post" /\ LostAnswers
  /\ Posted(Current)
  /\ ok' = FALSE
  /\ received' = [received EXCEPT ![Current] = @ + 1]
  /\ Lose(Current)

(* The client refuses it or cannot be reached. *)
PostRefused ==
  /\ step = "post"
  /\ Posted(Current)
  /\ ok' = FALSE
  /\ UNCHANGED <<received, lost, faults>>

(* The client refuses it, and e.read() raises inside the except clause:    *)
(* deliver_one raises, nothing is recorded, the next row follows.  (Past   *)
(* its bound the history stops counting.)                                  *)
PostRaises ==
  /\ step = "post" /\ BrokenBodies
  /\ tries' = [tries EXCEPT ![Current] = IF @ > MaxAttempts + MaxFaults
                                         THEN @ ELSE @ + 1]
  /\ NextRow
  /\ UNCHANGED <<box, ahead, enabled, ok, received, lost, retried, faults>>

(* Mutants of Recorded: one attempt too many; a sent row stays due; any    *)
(* answer is a success; the retry has no time.                             *)
RecordedLate(r, n, taken) ==
  IF taken THEN [status |-> "sent", attempts |-> n, next |-> "never"]
  ELSE IF n > MaxAttempts
  THEN [status |-> "failed", attempts |-> n, next |-> "never"]
  ELSE [status |-> "pending", attempts |-> n, next |-> "later"]

RecordedStaysDue(r, n, taken) ==
  IF taken THEN [status |-> "pending", attempts |-> n, next |-> "later"]
  ELSE [status |-> "failed", attempts |-> n, next |-> "never"]

RecordedAsSent(r, n, taken) ==
  [status |-> "sent", attempts |-> n, next |-> "never"]

RecordedWithoutTime(r, n, taken) ==
  IF taken THEN [status |-> "sent", attempts |-> n, next |-> "never"]
  ELSE [status |-> "pending", attempts |-> n, next |-> "never"]

(* n is the count of the row as the sweep read it, plus one. *)
Recorded(r, n, taken) ==
  IF taken THEN [r EXCEPT !.status = "sent", !.attempts = n, !.next = "never"]
  ELSE IF n >= MaxAttempts
  THEN [r EXCEPT !.status = "failed", !.attempts = n, !.next = "never"]
  ELSE [r EXCEPT !.status = "pending", !.attempts = n, !.next = "later"]

Record ==
  /\ step = "record"
  /\ box' = [box EXCEPT ![Current] =
               Recorded(@, Head(batch).attempts + 1, ok)]
  /\ Place(Current, {})
  /\ NextRow
  /\ UNCHANGED <<enabled, ok, history>>

(* A statement fails: logged by sweep_once, the row stays as it was. *)
StatementFails ==
  /\ step \in {"config", "skip", "record"}
  /\ NextRow
  /\ IF step = "record" THEN Lose(Current)
                        ELSE Fault /\ UNCHANGED lost
  /\ UNCHANGED <<box, ahead, enabled, ok, received, tries, retried>>

(* admin-api restarts: the rows it had read are simply still due. *)
Restart ==
  /\ step # "asleep"
  /\ step' = "asleep" /\ batch' = <<>> /\ ok' = FALSE
  /\ IF step = "record" THEN Lose(Current)
                        ELSE Fault /\ UNCHANGED lost
  /\ UNCHANGED <<box, ahead, enabled, received, tries, retried>>

-----------------------------------------------------------------------------
Deliver == \/ ReadConfig \/ Skip \/ PostTaken \/ PostAnswerLost
           \/ PostRefused \/ PostRaises \/ Record

Next ==
  \/ \E c \in Calls : Enqueue(c) \/ Ripen(c) \/ Retry(c)
  \/ EditConfig
  \/ SweepRead \/ Deliver \/ StatementFails \/ Restart

Spec == Init /\ [][Next]_vars

-----------------------------------------------------------------------------
BatchOK == batch \in Seq([call : Calls, attempts : Nat])

(* The values every variable takes. *)
TypeOK ==
  /\ box \in [Calls -> Row \cup {Null}]
  /\ ahead \in [Calls -> SUBSET Calls]
  /\ enabled \in BOOLEAN
  /\ step \in Steps
  /\ BatchOK
  /\ ok \in BOOLEAN
  /\ received \in [Calls -> Nat]
  /\ tries \in [Calls -> Nat]
  /\ lost \in [Calls -> Nat]
  /\ retried \in [Calls -> Nat]
  /\ faults \in Nat

(* A row is finished exactly when it has no next attempt: the sweeper      *)
(* never posts a finished row, and never forgets an unfinished one.        *)
FinishedRowsRest ==
  \A c \in Calls : box[c] # Null =>
    (box[c].status # "pending" <=> box[c].next = "never")

(* The client receives a call a second time only when an answer or its     *)
(* record was lost, or somebody pressed Retry.                             *)
NoNeedlessDuplicates ==
  \A c \in Calls : received[c] <= 1 + lost[c] + retried[c]

(* However often rows are read, posted, lost and read again, a row is      *)
(* posted no more than postback_max_attempts times for every time it was   *)
(* queued, the attempts that could not be recorded excepted.               *)
PatienceIsBounded ==
  \A c \in Calls : tries[c] <= MaxAttempts + lost[c]

(* Every queued call is sent, given up on or skipped in the end. *)
EveryPostbackSettles ==
  \A c \in Calls : IsPending(c) ~> ~IsPending(c)

(* Why a finished row is never posted: what the sweeper holds is pending,  *)
(* and it holds no row twice.                                              *)
BatchShape ==
  /\ step = "asleep" <=> batch = <<>>
  /\ \A i \in DOMAIN batch : IsPending(batch[i].call)
  /\ \A i, j \in DOMAIN batch : batch[i].call = batch[j].call => i = j
  /\ \A c \in Calls : c \notin ahead[c]

(* The sweeper knows of a delivery of c that the row does not show yet. *)
Unrecorded(c) == step = "record" /\ ok /\ c = Current

(* Why duplicates need a cause: a delivery is either shown by the row,     *)
(* about to be recorded, or covered by a loss or a Retry.                  *)
Deliveries(c) ==
  /\ received[c] <= lost[c] + retried[c]
                    + (IF (box[c] # Null /\ box[c].status = "sent")
                          \/ Unrecorded(c) THEN 1 ELSE 0)
  /\ Unrecorded(c) \/ (box[c] # Null /\ box[c].status = "sent")
       => received[c] > 0

IndInv == /\ TypeOK /\ BatchShape /\ FinishedRowsRest
          /\ \A c \in Calls : Deliveries(c)

(* Why patience is bounded: every POST is counted by its row, by the       *)
(* record to come or by a loss, and what the sweeper holds of a row counts *)
(* no fewer attempts than the row itself.                                  *)
Counted(c) ==
  /\ box[c] = Null => tries[c] = 0
  /\ box[c] # Null =>
       /\ tries[c] <= box[c].attempts + lost[c]
                       + (IF step = "record" /\ c = Current THEN 1 ELSE 0)
       /\ box[c].attempts <= MaxAttempts
       /\ IsPending(c) => box[c].attempts < MaxAttempts

Held == \A i \in DOMAIN batch : /\ batch[i].attempts < MaxAttempts
                                /\ box[batch[i].call].attempts <= batch[i].attempts

CountedInv == IndInv /\ Held /\ \A c \in Calls : Counted(c)

Promise == INSTANCE PostbackPromise WITH
  debt <- [c \in Calls |-> IF box[c] = Null THEN "none"
                           ELSE IF box[c].status = "pending" THEN "owed"
                           ELSE box[c].status],
  taken <- received

(* Postback implements PostbackPromise. *)
KeepsPromise == Promise!Spec
=============================================================================
