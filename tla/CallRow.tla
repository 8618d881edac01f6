------------------------------ MODULE CallRow ------------------------------
(***************************************************************************)
(* The life of one row of table `calls`, from store.start_call to the      *)
(* queued postback, and everyone who writes it: the job process of the     *)
(* call (the end stamp taken at the hangup, the safety net and the real    *)
(* shutdown handler), the stale-call sweep of admin-api and the operator's *)
(* requeue_postback script.  Each SQL statement is one step; the steps of  *)
(* the writers interleave, any statement may fail, and the process may be  *)
(* killed between any two of them.                                         *)
(*                                                                         *)
(* Time is counted per call, in units since started_at.                    *)
(***************************************************************************)
EXTENDS Naturals

CONSTANTS
  Calls,         \* the calls
  Null,          \* SQL NULL / Python None
  Limits,        \* the values max_duration_sec takes, edits included
  Poll,          \* the duration watchdog looks this often
  Farewell,      \* the limit message plays for at most this long
  Drain,         \* livekit's shutdown_process_timeout
  MaxAge,        \* bound: no clock counts further than this
  MaxTurns,      \* bound: the agent speaks at most this often
  Reporting,     \* the calls of campaigns with postback_enabled
  LateRefer,     \* TRUE: a REFER may be answered after the caller's leg left
  EarlyRequeue   \* TRUE: requeue_postback may be run before the job is gone

ASSUME CallRowAssumption ==
  /\ Limits \subseteq Nat \ {0} /\ Limits # {}
  /\ {Poll, Farewell, Drain, MaxAge, MaxTurns} \subseteq Nat
  /\ Reporting \subseteq Calls
  /\ {LateRefer, EarlyRequeue} \subseteq BOOLEAN

VARIABLES
  job,           \* the job process of the call
  flags,         \* what the agent object and session_error say of the call
  spoken,        \* agent.turn_count
  logged,        \* the agent's rows in table turns (the caller's are left out)
  stamp,         \* the mark_ended task: "none", "pending" or "done"
  net,           \* the _safety_net callback: "unset", "armed" or "done"
  shut,          \* how far the _shutdown callback has come
  verdict,       \* the local `reason` of _shutdown
  draft,         \* the payload _shutdown has read and not yet saved
  script,        \* the payload requeue_postback has read and not yet saved
  row,           \* the row of calls, Null before start_call
  queued,        \* the row of call_postbacks, Null while there is none
  age,           \* now() - started_at
  due,           \* the age by which the job must have moved on
  maxDuration    \* agent_config.max_duration_sec, as it is now

jobVars == <<job, flags, spoken, logged, stamp, net>>
shutVars == <<shut, verdict, draft>>
clockVars == <<age, due, maxDuration>>
vars == <<jobVars, shutVars, script, row, queued, clockVars>>

Flags == {"referring", "transferred", "limit", "ended_by", "refused", "error"}
Reasons == {"transferred", "limit", "no_response", "error", "completed"}

SafetyNetOutcome == "the job failed before the session started"
SweptOutcome == "no end was ever recorded - closed by the sweeper"
TransferReason == "transfer reason"
ErrorMessage == "error message"
Outcomes == {SafetyNetOutcome, SweptOutcome, TransferReason, ErrorMessage}

Active == {"setup", "starting", "live", "draining", "closing"}

(* What _queue_postback puts of the row in the payload. *)
Payload == [length : Nat \cup {Null}, reason : Reasons \cup {Null},
            outcome : Outcomes \cup {Null}, turnCount : Nat \cup {Null},
            transferredTo : BOOLEAN]

(* usage: the usage columns are filled, so end_call_usage has run. *)
Row == [endedAt : Nat \cup {Null}, length : Nat \cup {Null},
        reason : Reasons \cup {Null}, outcome : Outcomes \cup {Null},
        turnCount : Nat \cup {Null}, transferredTo : BOOLEAN,
        usage : BOOLEAN]

ASSUME NullAssumption ==
  Null \notin Nat \cup Reasons \cup Outcomes \cup Row \cup Payload

OpenRow == [endedAt |-> Null, length |-> Null, reason |-> Null,
            outcome |-> Null, turnCount |-> Null, transferredTo |-> FALSE,
            usage |-> FALSE]

Coalesce(a, b) == IF a = Null THEN b ELSE a

HasRow(c) == row[c] # Null
IsOpen(c) == HasRow(c) /\ row[c].endedAt = Null

PayloadOf(r) == [length |-> r.length, reason |-> r.reason,
                 outcome |-> r.outcome, turnCount |-> r.turnCount,
                 transferredTo |-> r.transferredTo]

Init ==
  /\ job = [c \in Calls |-> "idle"]
  /\ flags = [c \in Calls |-> {}]
  /\ spoken = [c \in Calls |-> 0]
  /\ logged = [c \in Calls |-> 0]
  /\ stamp = [c \in Calls |-> "none"]
  /\ net = [c \in Calls |-> "unset"]
  /\ shut = [c \in Calls |-> "unset"]
  /\ verdict = [c \in Calls |-> Null]
  /\ draft = [c \in Calls |-> Null]
  /\ script = [c \in Calls |-> Null]
  /\ row = [c \in Calls |-> Null]
  /\ queued = [c \in Calls |-> Null]
  /\ age = [c \in Calls |-> 0]
  /\ due = [c \in Calls |-> 0]
  /\ maxDuration \in Limits

-----------------------------------------------------------------------------
(* The job process up to the end of the conversation. *)

(* The entrypoint turns the call away before it has a row: number not      *)
(* routed, campaign not available, provider key missing.                   *)
Decline(c) ==
  /\ job[c] = "idle"
  /\ job' = [job EXCEPT ![c] = "gone"]
  /\ UNCHANGED <<flags, spoken, logged, stamp, net, shutVars, script, row,
                 queued, clockVars>>

(* start_call and, with no await in between, the safety net.  The job      *)
(* keeps the configuration it read, so its duration limit is fixed here.   *)
StartCall(c) ==
  /\ job[c] = "idle"
  /\ job' = [job EXCEPT ![c] = "setup"]
  /\ row' = [row EXCEPT ![c] = OpenRow]
  /\ net' = [net EXCEPT ![c] = "armed"]
  /\ due' = [due EXCEPT ![c] = maxDuration + Poll]
  /\ UNCHANGED <<flags, spoken, logged, stamp, shutVars, script, queued, age,
                 maxDuration>>

(* Everything is built and _shutdown is registered; session.start begins. *)
Register(c) ==
  /\ job[c] = "setup"
  /\ job' = [job EXCEPT ![c] = "starting"]
  /\ shut' = [shut EXCEPT ![c] = "armed"]
  /\ UNCHANGED <<flags, spoken, logged, stamp, net, verdict, draft, script,
                 row, queued, clockVars>>

SessionStarted(c) ==
  /\ job[c] = "starting"
  /\ job' = [job EXCEPT ![c] = "live"]
  /\ UNCHANGED <<flags, spoken, logged, stamp, net, shutVars, script, row,
                 queued, clockVars>>

(* A constructor or session.start raises: livekit goes straight to the     *)
(* shutdown callbacks that are registered by then.                         *)
EntrypointRaises(c) ==
  /\ job[c] \in {"setup", "starting"}
  /\ job' = [job EXCEPT ![c] = "closing"]
  /\ due' = [due EXCEPT ![c] = age[c] + Drain]
  /\ UNCHANGED <<flags, spoken, logged, stamp, net, shutVars, script, row,
                 queued, age, maxDuration>>

(* The agent speaks.  log_turn is a task of its own and may be lost. *)
AgentTurn(c, written) ==
  /\ job[c] = "live"
  /\ spoken[c] < MaxTurns
  /\ spoken' = [spoken EXCEPT ![c] = @ + 1]
  /\ logged' = IF written THEN [logged EXCEPT ![c] = @ + 1] ELSE logged
  /\ UNCHANGED <<job, flags, stamp, net, shutVars, script, row, queued,
                 clockVars>>

(* request_transfer refused because nobody is at the desk. *)
TransferRefused(c) ==
  /\ job[c] = "live"
  /\ flags' = [flags EXCEPT ![c] = @ \cup {"refused"}]
  /\ UNCHANGED <<job, spoken, logged, stamp, net, shutVars, script, row,
                 queued, clockVars>>

(* request_transfer sends the REFER and waits for livekit's answer... *)
SendRefer(c) ==
  /\ job[c] = "live"
  /\ flags[c] \cap {"referring", "transferred"} = {}
  /\ flags' = [flags EXCEPT ![c] = @ \cup {"referring"}]
  /\ UNCHANGED <<job, spoken, logged, stamp, net, shutVars, script, row,
                 queued, clockVars>>

(* ... which nothing cancels when the caller's leg goes away, so it may    *)
(* come after that.                                                        *)
ReferAnswered(c, ok) ==
  /\ "referring" \in flags[c]
  /\ job[c] = "live" \/ (LateRefer /\ job[c] \in {"draining", "closing"})
  /\ flags' = [flags EXCEPT ![c] = (@ \ {"referring"})
                                   \cup IF ok THEN {"transferred"} ELSE {}]
  /\ UNCHANGED <<job, spoken, logged, stamp, net, shutVars, script, row,
                 queued, clockVars>>

(* _on_error keeps the first error; it may arrive from the teardown. *)
SessionError(c) ==
  /\ job[c] \in {"starting", "live", "draining"}
  /\ flags' = [flags EXCEPT ![c] = @ \cup {"error"}]
  /\ UNCHANGED <<job, spoken, logged, stamp, net, shutVars, script, row,
                 queued, clockVars>>

(* enforce_limit, for the duration or any other cap; its farewell plays    *)
(* before the room is deleted.                                             *)
EnforceLimit(c) ==
  /\ job[c] \in {"starting", "live"}
  /\ "limit" \notin flags[c]
  /\ flags' = [flags EXCEPT ![c] = @ \cup {"limit"}]
  /\ due' = [due EXCEPT ![c] = age[c] + Farewell]
  /\ UNCHANGED <<job, spoken, logged, stamp, net, shutVars, script, row,
                 queued, age, maxDuration>>

(* The caller hangs up, or the room is deleted under the call (why is      *)
(* "no_response" for the silence watchdog): _stamp_end starts mark_ended,  *)
(* once, and livekit disconnects the room.                                 *)
Leave(c, why) ==
  /\ job[c] \in {"starting", "live"}
  /\ why = "no_response" => job[c] = "live"
  /\ job' = [job EXCEPT ![c] = "draining"]
  /\ flags' = IF why = "no_response"
              THEN [flags EXCEPT ![c] = @ \cup {"ended_by"}] ELSE flags
  /\ stamp' = [stamp EXCEPT ![c] = IF @ = "none" THEN "pending" ELSE @]
  /\ due' = [due EXCEPT ![c] = age[c] + Drain]
  /\ UNCHANGED <<spoken, logged, net, shutVars, script, row, queued, age,
                 maxDuration>>

(* room.disconnect returned: only now do the shutdown callbacks run. *)
Disconnected(c) ==
  /\ job[c] = "draining"
  /\ job' = [job EXCEPT ![c] = "closing"]
  /\ UNCHANGED <<flags, spoken, logged, stamp, net, shutVars, script, row,
                 queued, clockVars>>

-----------------------------------------------------------------------------
(* The writers of the row inside the job. *)

Stamped(r, a, turns) ==
  [r EXCEPT !.endedAt = a, !.length = a, !.turnCount = turns]

(* mark_ended: the end of the call, at the moment it ends.  ok is whether  *)
(* the statement succeeded; a failure is logged and forgotten.             *)
MarkEnded(c, ok) ==
  /\ stamp[c] = "pending" /\ job[c] \in Active
  /\ stamp' = [stamp EXCEPT ![c] = "done"]
  /\ row' = IF ok /\ IsOpen(c)
            THEN [row EXCEPT ![c] = Stamped(@, age[c], spoken[c])]
            ELSE row
  /\ UNCHANGED <<job, flags, spoken, logged, net, shutVars, script, queued,
                 clockVars>>

Abandoned(r, a) ==
  [r EXCEPT !.endedAt = a, !.length = a, !.reason = "error",
            !.outcome = SafetyNetOutcome]

(* Mutant of SafetyNet: without its WHERE ended_at IS NULL. *)
SafetyNetOverwrites(c, ok) ==
  /\ job[c] = "closing" /\ net[c] = "armed"
  /\ net' = [net EXCEPT ![c] = "done"]
  /\ row' = IF ok
            THEN [row EXCEPT ![c] = Abandoned(@, age[c])]
            ELSE row
  /\ UNCHANGED <<job, flags, spoken, logged, stamp, shutVars, script, queued,
                 clockVars>>

(* _safety_net: end_call_if_open.  Runs beside _shutdown, in either order. *)
SafetyNet(c, ok) ==
  /\ job[c] = "closing" /\ net[c] = "armed"
  /\ net' = [net EXCEPT ![c] = "done"]
  /\ row' = IF ok /\ IsOpen(c)
            THEN [row EXCEPT ![c] = Abandoned(@, age[c])]
            ELSE row
  /\ UNCHANGED <<job, flags, spoken, logged, stamp, shutVars, script, queued,
                 clockVars>>

(* Mutant of Reason: errors first. *)
ReasonErrorFirst(f) == IF "error" \in f THEN "error"
                       ELSE IF "transferred" \in f THEN "transferred"
                       ELSE IF "limit" \in f THEN "limit"
                       ELSE IF "ended_by" \in f THEN "no_response"
                       ELSE "completed"

(* The order in which _shutdown looks at what happened. *)
Reason(f) == IF "transferred" \in f THEN "transferred"
             ELSE IF "limit" \in f THEN "limit"
             ELSE IF "ended_by" \in f THEN "no_response"
             ELSE IF "error" \in f THEN "error"
             ELSE "completed"

(* _shutdown computes the reason, then waits for the database. *)
ShutBegin(c) ==
  /\ job[c] = "closing" /\ shut[c] = "armed"
  /\ shut' = [shut EXCEPT ![c] = "usage"]
  /\ verdict' = [verdict EXCEPT ![c] = Reason(flags[c])]
  /\ UNCHANGED <<jobVars, draft, script, row, queued, clockVars>>

(* Mutants of WithUsage: the safety net's message stays; now() over the    *)
(* stored end; now() over the stored length.                               *)
WithUsageKeepsOutcome(r, a, why, turns) ==
  [r EXCEPT !.endedAt = Coalesce(@, a), !.length = Coalesce(@, a),
            !.reason = why, !.turnCount = turns, !.usage = TRUE]

WithUsageMovesEnd(r, a, why, turns) ==
  [r EXCEPT !.endedAt = a, !.length = a, !.reason = why,
            !.outcome = IF @ = SafetyNetOutcome THEN Null ELSE @,
            !.turnCount = turns, !.usage = TRUE]

WithUsageStretches(r, a, why, turns) ==
  [r EXCEPT !.endedAt = Coalesce(@, a), !.length = a, !.reason = why,
            !.outcome = IF @ = SafetyNetOutcome THEN Null ELSE @,
            !.turnCount = turns, !.usage = TRUE]

(* end_call_usage, as one row update. *)
WithUsage(r, a, why, turns) ==
  [r EXCEPT !.endedAt = Coalesce(@, a), !.length = Coalesce(@, a),
            !.reason = why,
            !.outcome = IF @ = SafetyNetOutcome THEN Null ELSE @,
            !.turnCount = turns, !.usage = TRUE]

ShutUsage(c) ==
  /\ job[c] = "closing" /\ shut[c] = "usage"
  /\ shut' = [shut EXCEPT ![c] = "outcome"]
  /\ row' = [row EXCEPT ![c] = WithUsage(@, age[c], verdict[c], spoken[c])]
  /\ UNCHANGED <<jobVars, verdict, draft, script, queued, clockVars>>

(* The flags are read again here, after the await. *)
WithOutcome(r, f) ==
  IF "transferred" \in f
  THEN [r EXCEPT !.transferredTo = TRUE, !.outcome = TransferReason]
  ELSE IF "refused" \in f THEN r
  ELSE IF "error" \in f THEN [r EXCEPT !.outcome = ErrorMessage]
  ELSE r

ShutOutcome(c) ==
  /\ job[c] = "closing" /\ shut[c] = "outcome"
  /\ shut' = [shut EXCEPT ![c] = "prepare"]
  /\ row' = [row EXCEPT ![c] = WithOutcome(@, flags[c])]
  /\ UNCHANGED <<jobVars, verdict, draft, script, queued, clockVars>>

(* _queue_postback reads the row, then spends up to 20 s extracting. *)
ShutPrepare(c) ==
  /\ job[c] = "closing" /\ shut[c] = "prepare"
  /\ IF c \in Reporting
     THEN /\ shut' = [shut EXCEPT ![c] = "save"]
          /\ draft' = [draft EXCEPT ![c] = PayloadOf(row[c])]
     ELSE /\ shut' = [shut EXCEPT ![c] = "done"]
          /\ UNCHANGED draft
  /\ UNCHANGED <<jobVars, verdict, script, row, queued, clockVars>>

(* save_postback: INSERT ... ON CONFLICT (call_id) DO NOTHING. *)
SavePostback(c, p) == queued' = [queued EXCEPT ![c] = Coalesce(@, p)]

ShutSave(c) ==
  /\ job[c] = "closing" /\ shut[c] = "save"
  /\ shut' = [shut EXCEPT ![c] = "done"]
  /\ SavePostback(c, draft[c])
  /\ draft' = [draft EXCEPT ![c] = Null]
  /\ UNCHANGED <<jobVars, verdict, script, row, clockVars>>

(* Any statement of _shutdown raises: logged, and the rest is skipped. *)
ShutFails(c) ==
  /\ job[c] = "closing"
  /\ shut[c] \in {"usage", "outcome", "prepare", "save"}
  /\ shut' = [shut EXCEPT ![c] = "done"]
  /\ draft' = [draft EXCEPT ![c] = Null]
  /\ UNCHANGED <<jobVars, verdict, script, row, queued, clockVars>>

(* The process goes: at the end of its callbacks, at the deadline livekit  *)
(* sets, or killed at any moment.  Whatever it had not written is lost.    *)
ProcessExits(c) ==
  /\ job[c] \in Active
  /\ job' = [job EXCEPT ![c] = "gone"]
  /\ draft' = [draft EXCEPT ![c] = Null]
  /\ UNCHANGED <<flags, spoken, logged, stamp, net, shut, verdict, script,
                 row, queued, clockVars>>

-----------------------------------------------------------------------------
(* The writers outside the job. *)

(* Mutants of Stale: no half again; minutes taken for seconds. *)
StaleAtLimit(c) == IsOpen(c) /\ age[c] > maxDuration

StaleInMinutes(c) == IsOpen(c) /\ 2 * age[c] > 3 * 60 * maxDuration

(* STALE_FACTOR is 1.5, of the limit in the table now. *)
Stale(c) == IsOpen(c) /\ 2 * age[c] > 3 * maxDuration

(* The rows of turns of this call and role: _on_item writes "agent" for    *)
(* what livekit calls "assistant".                                         *)
CountTurns(c, role) == IF role = "agent" THEN logged[c] ELSE 0

Swept(c) == [row[c] EXCEPT !.endedAt = age[c], !.reason = "error",
                           !.outcome = Coalesce(@, SweptOutcome),
                           !.turnCount = CountTurns(c, "assistant")]

(* sweep_stale_calls: one UPDATE over every stale row. *)
Sweep ==
  /\ \E c \in Calls : Stale(c)
  /\ row' = [c \in Calls |-> IF Stale(c) THEN Swept(c) ELSE row[c]]
  /\ UNCHANGED <<jobVars, shutVars, script, queued, clockVars>>

(* requeue_postback refuses a call that is open or already queued... *)
RequeueRead(c) ==
  /\ script[c] = Null
  /\ HasRow(c) /\ ~IsOpen(c)
  /\ queued[c] = Null
  /\ c \in Reporting
  /\ EarlyRequeue \/ job[c] = "gone"
  /\ script' = [script EXCEPT ![c] = PayloadOf(row[c])]
  /\ UNCHANGED <<jobVars, shutVars, row, queued, clockVars>>

(* ... and saves, unless the attempt fails, through the same INSERT. *)
RequeueSave(c, ok) ==
  /\ script[c] # Null
  /\ IF ok THEN SavePostback(c, script[c]) ELSE UNCHANGED queued
  /\ script' = [script EXCEPT ![c] = Null]
  /\ UNCHANGED <<jobVars, shutVars, row, clockVars>>

(* An editor saves another duration limit; jobs in progress do not see it. *)
EditLimit(l) ==
  /\ l # maxDuration
  /\ maxDuration' = l
  /\ UNCHANGED <<jobVars, shutVars, script, row, queued, age, due>>

(* Time passes for a call.  An active job does not let its deadline pass;  *)
(* a row that is finished and has no job left has no use for the clock.    *)
Tick(c) ==
  /\ HasRow(c)
  /\ job[c] \in Active \/ IsOpen(c)
  /\ job[c] \in Active => age[c] < due[c]
  /\ age[c] < MaxAge
  /\ age' = [age EXCEPT ![c] = @ + 1]
  /\ UNCHANGED <<jobVars, shutVars, script, row, queued, due, maxDuration>>

-----------------------------------------------------------------------------
Conversation(c) ==
  \/ Decline(c) \/ StartCall(c) \/ Register(c) \/ SessionStarted(c)
  \/ EntrypointRaises(c) \/ TransferRefused(c) \/ SendRefer(c)
  \/ SessionError(c) \/ EnforceLimit(c) \/ Disconnected(c)
  \/ \E ok \in BOOLEAN : AgentTurn(c, ok) \/ ReferAnswered(c, ok)
  \/ \E why \in {"hangup", "no_response"} : Leave(c, why)

Closing(c) ==
  \/ \E ok \in BOOLEAN : MarkEnded(c, ok) \/ SafetyNet(c, ok)
  \/ ShutBegin(c) \/ ShutUsage(c) \/ ShutOutcome(c) \/ ShutPrepare(c)
  \/ ShutSave(c) \/ ShutFails(c) \/ ProcessExits(c)

Outside(c) ==
  \/ RequeueRead(c)
  \/ \E ok \in BOOLEAN : RequeueSave(c, ok)
  \/ Tick(c)

Next ==
  \/ \E c \in Calls : Conversation(c) \/ Closing(c) \/ Outside(c)
  \/ Sweep
  \/ \E l \in Limits : EditLimit(l)

Spec == Init /\ [][Next]_vars

(* A job at its deadline moves on: the watchdog closes the call, the room  *)
(* is deleted under it, or livekit kills the process.                      *)
Deadline(c) ==
  /\ age[c] = due[c]
  /\ EnforceLimit(c) \/ Leave(c, "hangup") \/ ProcessExits(c)

(* The sweep runs every minute as long as admin-api does, time passes, and *)
(* deadlines are kept.  Nothing else is assumed of the job, which may be   *)
(* stuck until its deadline or gone at any moment.                         *)
Fairness ==
  /\ WF_vars(Sweep)
  /\ \A c \in Calls : WF_vars(Tick(c)) /\ WF_vars(Deadline(c))

LiveSpec == Spec /\ Fairness

-----------------------------------------------------------------------------
(* The values every variable takes. *)
TypeOK ==
  /\ job \in [Calls -> Active \cup {"idle", "gone"}]
  /\ flags \in [Calls -> SUBSET Flags]
  /\ spoken \in [Calls -> Nat]
  /\ logged \in [Calls -> Nat]
  /\ stamp \in [Calls -> {"none", "pending", "done"}]
  /\ net \in [Calls -> {"unset", "armed", "done"}]
  /\ shut \in [Calls -> {"unset", "armed", "usage", "outcome", "prepare",
                         "save", "done"}]
  /\ verdict \in [Calls -> Reasons \cup {Null}]
  /\ draft \in [Calls -> Payload \cup {Null}]
  /\ script \in [Calls -> Payload \cup {Null}]
  /\ row \in [Calls -> Row \cup {Null}]
  /\ queued \in [Calls -> Payload \cup {Null}]
  /\ age \in [Calls -> Nat]
  /\ due \in [Calls -> Nat]
  /\ maxDuration \in Limits

(* A call whose usage was stored does not carry the safety net's message,  *)
(* whichever of the two shutdown callbacks ran first (call 583).           *)
HealthyRowsCarryNoFailure ==
  \A c \in Calls : HasRow(c) /\ row[c].usage
                      => row[c].outcome # SafetyNetOutcome

(* The reason stored with the usage outranks whatever else happened on the *)
(* call, however the teardown went: a transfer is never recorded as        *)
(* anything else, a decision never as an error, a failure never as         *)
(* completed.                                                              *)
ReasonIsWhatHappened ==
  \A c \in Calls : HasRow(c) /\ row[c].usage =>
    /\ (row[c].reason = "transferred") <=> "transferred" \in flags[c]
    /\ row[c].reason = "error" => flags[c] \subseteq {"error", "refused", "referring"}
    /\ row[c].reason = "completed" => flags[c] \subseteq {"refused", "referring"}

(* The length of a call is measured to the moment the row says it ended,   *)
(* never to a later moment of the teardown.                                *)
LengthIsTheCallsOwn ==
  \A c \in Calls : HasRow(c) /\ row[c].length # Null
                      => row[c].length = row[c].endedAt

(* sweep_stale_calls never closes a call that still has a worker on it. *)
NoLiveCallSwept ==
  \A c \in Calls : HasRow(c) /\ row[c].outcome = SweptOutcome
                      => job[c] = "gone"

(* What was queued for the client is what the row of the call says. *)
PayloadMatchesRow ==
  \A c \in Calls : queued[c] # Null => queued[c] = PayloadOf(row[c])

(* No row stays open for ever, whatever becomes of its job: the sweep      *)
(* closes what no worker will.                                             *)
EveryRowCloses == \A c \in Calls : HasRow(c) ~> ~IsOpen(c)

(* Why the row keeps its promises: it exists for as long as its job does,  *)
(* it is ended before anything is queued for it, and the usage statement   *)
(* runs once and leaves it ended.                                          *)
Shape(c) ==
  /\ job[c] = "idle" => row[c] = Null
  /\ job[c] \in {"idle", "setup"} => shut[c] = "unset"
  /\ job[c] \in Active => row[c] # Null
  /\ shut[c] = "usage" => verdict[c] \in Reasons
  /\ shut[c] \in {"outcome", "prepare", "save"} => row[c] # Null
                                                  /\ row[c].usage
  /\ shut[c] \in {"unset", "armed", "usage"} /\ row[c] # Null
       => ~row[c].usage
  /\ row[c] # Null /\ row[c].usage
       => row[c].endedAt # Null /\ row[c].outcome # SafetyNetOutcome
  /\ draft[c] # Null \/ script[c] # Null \/ queued[c] # Null
       => row[c] # Null /\ row[c].endedAt # Null

IndInv == TypeOK /\ \A c \in Calls : Shape(c)

(* Every value of the limit leaves the job of a call that began under any  *)
(* other value the time to finish before the sweep takes it for abandoned. *)
Generous == \A l1, l2 \in Limits :
              2 * (l1 + Poll + Farewell + Drain) <= 3 * l2

(* The job of c moves on by the age the limit it read allows, and then as  *)
(* much again as extra.                                                    *)
Within(c, extra) == \E l \in Limits : due[c] <= l + Poll + extra

(* Why the sweep finds no live call: a deadline is kept, and each phase of *)
(* the call adds only its own allowance to the limit.                      *)
OnTime(c) ==
  /\ job[c] = "idle" => age[c] = 0
  /\ job[c] \in Active => age[c] <= due[c]
  /\ job[c] \in {"setup", "starting", "live"} =>
       /\ Within(c, Farewell)
       /\ "limit" \in flags[c] \/ Within(c, 0)
  /\ job[c] \in Active => Within(c, Farewell + Drain)

(* Why a length is the length to the end: until the sweep may close the    *)
(* row, the two are always written together.                               *)
Lengths(c) ==
  row[c] # Null =>
    /\ row[c].endedAt = Null => row[c].length = Null
    /\ row[c].length # Null => row[c].length = row[c].endedAt
    /\ job[c] # "gone" => /\ row[c].length = row[c].endedAt
                          /\ row[c].outcome # SweptOutcome

TimedInv == IndInv /\ \A c \in Calls : OnTime(c) /\ Lengths(c)

(* Why a reason is what happened: between the moment it is computed and    *)
(* the moment nothing of the call is left, nothing more happens to it.     *)
Judged(c) ==
  /\ shut[c] \notin {"unset", "armed"} => job[c] \in {"closing", "gone"}
  /\ shut[c] = "usage" => verdict[c] = Reason(flags[c])
  /\ row[c] # Null /\ row[c].usage
       => row[c].reason = Reason(flags[c]) /\ shut[c] \notin {"unset", "armed"}

JudgedInv == IndInv /\ \A c \in Calls : Judged(c)

(* Why a report is the row: it is read of a row that nobody writes any     *)
(* more, the shutdown being past its last statement or the job gone.       *)
Filed(c) ==
  /\ draft[c] # Null => shut[c] = "save" /\ draft[c] = PayloadOf(row[c])
  /\ script[c] # Null => job[c] = "gone" /\ script[c] = PayloadOf(row[c])
  /\ queued[c] # Null => /\ job[c] = "gone" \/ shut[c] = "done"
                         /\ queued[c] = PayloadOf(row[c])

FiledInv == IndInv /\ \A c \in Calls : Filed(c)

(* What the readers of the row are promised. *)
Ledger == INSTANCE CallLedger WITH
  life <- [c \in Calls |-> IF row[c] = Null THEN "absent"
                           ELSE IF row[c].endedAt = Null THEN "open"
                           ELSE "closed"],
  moment <- [c \in Calls |-> IF row[c] = Null THEN Null ELSE row[c].endedAt],
  judgement <- [c \in Calls |-> IF row[c] = Null THEN Null
                                ELSE IF row[c].usage THEN row[c].reason
                                ELSE Null],
  reported <- {c \in Calls : queued[c] # Null}

(* CallRow implements CallLedger: a call is closed at one moment that no   *)
(* later statement moves, judged once, and reported once and when closed.  *)
ImplementsLedger == Ledger!Spec
=============================================================================
