----------------------------- MODULE CallControl -----------------------------
(***************************************************************************)
(* Who ends a call, and how: the coroutines of entrypoint() that speak     *)
(* into one session and may end it.                                        *)
(*                                                                         *)
(*   watch  call_watchdog, which once a second acts on the markers the     *)
(*          model wrote and on the caller's silence                        *)
(*   tool   transfer_to_human, when the model calls it                     *)
(*   limit  enforce_limit, started by the duration watchdog or a counter   *)
(*                                                                         *)
(* They run on one event loop, so a step is the code between two awaits.   *)
(* Each awaits its own speeches, which the session plays one at a time.    *)
(* Time is not counted: silence, and the limit, come when they come.       *)
(***************************************************************************)
EXTENDS Naturals, Sequences, FiniteSets

CONSTANTS
  Routes,    \* the ways to ask for a person: "tool", "marker" or both
  Confirm,   \* transfer_confirm
  Prompts,   \* the number of silence_prompts
  MaxTurns,  \* bound: what the caller says, in final transcripts
  Null

ASSUME ControlAssumption ==
  /\ Routes \subseteq {"tool", "marker"}
  /\ Prompts \in Nat \ {0}
  /\ MaxTurns \in Nat
  /\ Confirm \in BOOLEAN
  /\ Null \notin Nat

VARIABLES
  phase,       \* "up", caller "left", room "deleted", session "closed"
  floor,       \* who has a speech with the session, in the order of playing
  playing,     \* the first of them is being heard
  stuck,       \* and will never end
  busy,        \* agent_busy
  owed,        \* livekit owes the caller a reply
  silent,      \* the silence timeout has passed since last_activity
  at,          \* where each coroutine is
  endRequested, transferRequested,
  askedAt,     \* transfer_asked_at
  userTurns,
  silenceAttempts,
  transferred,
  limitHit,
  endedBy,     \* ended_by is "no_response"
  heard,       \* history: how far the confirmation question came
  answers      \* history: how far it had come when the caller spoke

markers == <<endRequested, transferRequested>>
session == <<phase, floor, playing, stuck, busy, owed>>
caller == <<userTurns, answers>>
silence == <<silent, silenceAttempts>>
handoff == <<askedAt, heard, transferred>>
vars == <<session, at, markers, caller, silence, handoff, limitHit, endedBy>>

Coroutines == {"watch", "tool", "limit"}
Answers == {"unasked", "asked", "heard"}

(* The speeches somebody may be waiting for, and the state he waits in. *)
Waits == {"asking", "told", "handing", "prompt", "lastprompt", "farewell"}
WatchStates == {"asleep", "asking", "told", "handing", "referring",
                "prompt", "lastprompt", "deleting", "done"}
ToolStates == {"idle", "asking", "told", "handing", "referring"}
LimitStates == {"idle", "farewell", "deleting", "done"}

OnFloor(r) == \E i \in DOMAIN floor : floor[i] = r
Spoken(r) == at[r] \in Waits /\ ~OnFloor(r)
Handing(r) == at[r] \in {"handing", "referring"}

Init ==
  /\ phase = "up"
  /\ floor = <<"greeting">> /\ playing = FALSE /\ stuck = FALSE
  /\ busy = FALSE /\ owed = FALSE
  /\ at = [watch |-> "asleep", tool |-> "idle", limit |-> "idle"]
  /\ endRequested = FALSE /\ transferRequested = FALSE
  /\ userTurns = 0 /\ answers = {}
  /\ silent = FALSE /\ silenceAttempts = 0
  /\ askedAt = Null /\ heard = "unasked"
  /\ transferred = FALSE
  /\ limitHit = FALSE /\ endedBy = FALSE

(* session.say: queued behind the rest; refused by a session that closed. *)
Say(r) ==
  /\ floor' = IF phase = "closed" THEN floor ELSE Append(floor, r)
  /\ UNCHANGED <<phase, playing, stuck>>

Silently == UNCHANGED <<phase, floor, playing, stuck>>

Move(r, to) == at' = [at EXCEPT ![r] = to]

-----------------------------------------------------------------------------
(* The session and the caller. *)

(* Mutant of BusyIn: the agent has the floor only while it speaks. *)
BusyIfSpeaking(state) == state = "speaking"

(* _on_agent_state: thinking counts as much as speaking. *)
BusyIn(state) == state # "listening"

AgentState(state) ==
  /\ busy' = BusyIn(state)
  /\ silent' = (silent /\ state # "listening")

SpeechStarts ==
  /\ floor # <<>> /\ ~playing
  /\ phase \in {"up", "left"}
  /\ playing' = TRUE
  /\ AgentState("speaking")
  /\ heard' = IF Head(floor) \in Coroutines /\ at[Head(floor)] = "asking"
                THEN "heard" ELSE heard
  /\ UNCHANGED <<phase, floor, stuck, owed, at, markers, caller,
                 silenceAttempts, askedAt, transferred, limitHit,
                 endedBy>>

(* After it livekit listens, unless more is to come. *)
SpeechEnds ==
  /\ playing /\ ~stuck
  /\ floor' = Tail(floor) /\ playing' = FALSE
  /\ \/ AgentState("listening")
     \/ (floor' # <<>> \/ at.tool # "idle") /\ AgentState("thinking")
  /\ UNCHANGED <<phase, stuck, owed, at, markers, caller, silenceAttempts,
                 handoff, limitHit, endedBy>>

SpeechHangs ==
  /\ playing /\ ~stuck
  /\ stuck' = TRUE
  /\ UNCHANGED <<phase, floor, playing, busy, owed, at, markers, caller,
                 silence, handoff, limitHit, endedBy>>

ReplyStarts ==
  /\ owed /\ ~OnFloor("reply")
  /\ phase \in {"up", "left"}
  /\ owed' = FALSE
  /\ floor' = Append(floor, "reply")
  /\ AgentState("thinking")
  /\ UNCHANGED <<phase, playing, stuck, at, markers, caller,
                 silenceAttempts, handoff, limitHit, endedBy>>

(* tts_node finds a marker in the reply, and only raises its flag. *)
MarkerSeen ==
  /\ OnFloor("reply")
  /\ \/ /\ endRequested' = TRUE
        /\ UNCHANGED transferRequested
     \/ /\ "marker" \in Routes
        /\ transferRequested' = TRUE
        /\ UNCHANGED endRequested
  /\ UNCHANGED <<session, at, caller, silence, handoff, limitHit, endedBy>>

(* _on_user_input: any speech clears the silence, a final transcript counts *)
(* as a turn. A turn taken during the greeting may go without a reply.      *)
CallerSpeaks(final) ==
  /\ phase = "up"
  /\ silent' = FALSE /\ silenceAttempts' = 0
  /\ IF final
       THEN /\ userTurns < MaxTurns
            /\ userTurns' = userTurns + 1
            /\ answers' = answers \cup ({heard} \ {"unasked"})
            /\ owed' \in IF OnFloor("greeting") THEN {owed, TRUE} ELSE {TRUE}
       ELSE UNCHANGED <<userTurns, answers, owed>>
  /\ UNCHANGED <<phase, floor, playing, stuck, busy, at, markers, handoff,
                 limitHit, endedBy>>

(* Nobody has spoken for silence_timeout_sec while the agent listened. *)
Quiet ==
  /\ ~silent /\ ~busy /\ phase # "closed"
  /\ silent' = TRUE
  /\ UNCHANGED <<session, at, markers, caller, silenceAttempts, handoff,
                 limitHit, endedBy>>

CallerLeaves ==
  /\ phase = "up"
  /\ phase' = "left"
  /\ UNCHANGED <<floor, playing, stuck, busy, owed, at, markers, caller,
                 silence, handoff, limitHit, endedBy>>

(* _on_close. After a hangup livekit first waits for what is being said. *)
SessionCloses ==
  /\ phase = "deleted" \/ (phase = "left" /\ ~stuck)
  /\ phase' = "closed"
  /\ floor' = <<>> /\ playing' = FALSE /\ stuck' = FALSE /\ owed' = FALSE
  /\ AgentState("listening")
  /\ UNCHANGED <<at, markers, caller, silenceAttempts, handoff, limitHit,
                 endedBy>>

DeleteRoom(r) ==
  /\ at[r] = "deleting"
  /\ phase' = IF phase \in {"up", "left"} THEN "deleted" ELSE phase
  /\ Move(r, "done")
  /\ UNCHANGED <<floor, playing, stuck, busy, owed, markers, caller, silence,
                 handoff, limitHit, endedBy>>

-----------------------------------------------------------------------------
(* request_transfer, from the tool and from the marker. *)

(* Mutant of WatchOn: a session that closed does not stop the loop. *)
WatchOnForever(handedOver) == ~limitHit /\ ~handedOver

(* The condition of call_watchdog's loop. *)
WatchOn(handedOver) == ~limitHit /\ ~handedOver /\ phase # "closed"

(* A tool's result makes livekit ask the model for another reply. *)
Return(r) ==
  /\ Move(r, IF r = "tool" THEN "idle" ELSE
             IF WatchOn(transferred') THEN "asleep" ELSE "done")
  /\ owed' = (owed \/ (r = "tool" /\ phase # "closed"))

(* Mutant of Answered: having asked is enough. *)
HasAsked == askedAt # Null

(* The gate: the caller has spoken since he was asked. *)
Answered == askedAt # Null /\ userTurns > askedAt

RefuseClosed(r) ==
  /\ Say(r) /\ Move(r, "told")
  /\ UNCHANGED <<askedAt, heard, owed>>

AskFirst(r) ==
  /\ Confirm /\ askedAt = Null
  /\ askedAt' = userTurns
  /\ heard' = "asked"
  /\ Say(r) /\ Move(r, "asking")
  /\ UNCHANGED <<owed>>

TurnDown(r) ==
  /\ \/ Confirm /\ askedAt # Null /\ ~Answered
     \/ (Confirm => Answered) /\ phase # "up"
  /\ Return(r)
  /\ Silently
  /\ UNCHANGED <<askedAt, heard>>

Announce(r) ==
  /\ Confirm => Answered
  /\ phase = "up"
  /\ Say(r) /\ Move(r, "handing")
  /\ UNCHANGED <<askedAt, heard, owed>>

(* Whether a colleague is there is looked up at every request. *)
RequestTransfer(r) ==
  /\ UNCHANGED transferred
  /\ RefuseClosed(r) \/ AskFirst(r) \/ TurnDown(r) \/ Announce(r)

(* The question, or the closed-hours message, has been heard. *)
QuestionSpoken(r) ==
  /\ Spoken(r) /\ at[r] \in {"asking", "told"}
  /\ Silently
  /\ UNCHANGED <<busy, markers, caller, silence, handoff, limitHit, endedBy>>
  /\ Return(r)

HandoffSpoken(r) ==
  /\ Spoken(r) /\ at[r] = "handing"
  /\ Move(r, "referring")
  /\ UNCHANGED <<session, markers, caller, silence, handoff, limitHit,
                 endedBy>>

(* transfer_sip_participant answers; it needs the caller in the room. *)
ReferAnswered(r) ==
  /\ at[r] = "referring"
  /\ transferred' \in IF phase = "up" THEN {transferred, TRUE}
                                      ELSE {transferred}
  /\ Return(r)
  /\ Silently
  /\ UNCHANGED <<busy, markers, caller, silence, askedAt, heard,
                 limitHit, endedBy>>

CallTool ==
  /\ "tool" \in Routes
  /\ OnFloor("reply") /\ at.tool = "idle"
  /\ RequestTransfer("tool")
  /\ AgentState("thinking")
  /\ UNCHANGED <<markers, caller, silenceAttempts, limitHit, endedBy>>

-----------------------------------------------------------------------------
(* One round of call_watchdog, from the end of its sleep to the next await. *)

Awake == at.watch = "asleep" /\ ~busy

StayAwake ==
  /\ at.watch = "asleep" /\ busy
  /\ Silently
  /\ UNCHANGED <<busy, markers, caller, silence, handoff, limitHit, endedBy>>
  /\ Return("watch")

(* Transfer wins over end-of-call, and clears it. *)
ActOnTransfer ==
  /\ Awake /\ transferRequested
  /\ transferRequested' = FALSE /\ endRequested' = FALSE
  /\ RequestTransfer("watch")
  /\ UNCHANGED <<busy, caller, silence, limitHit, endedBy>>

(* Mutant of HandoffPending: a handoff is pending until the caller answers. *)
AnswerPending == askedAt # Null /\ ~transferred /\ ~Answered

HandoffPending == askedAt # Null /\ ~transferred

IgnoreEnd ==
  /\ Awake /\ ~transferRequested /\ ~transferred
  /\ endRequested /\ HandoffPending
  /\ endRequested' = FALSE
  /\ Silently
  /\ UNCHANGED <<transferRequested, busy, caller, silence, handoff, limitHit,
                 endedBy>>
  /\ Return("watch")

ActOnEnd ==
  /\ Awake /\ ~transferRequested /\ ~transferred
  /\ endRequested /\ ~HandoffPending
  /\ Move("watch", "deleting")
  /\ UNCHANGED <<session, markers, caller, silence, handoff, limitHit,
                 endedBy>>

StopWatching ==
  /\ Awake /\ ~transferRequested /\ transferred
  /\ Move("watch", "done")
  /\ UNCHANGED <<session, markers, caller, silence, handoff, limitHit,
                 endedBy>>

Listening == Awake /\ ~transferRequested /\ ~transferred /\ ~endRequested

KeepListening ==
  /\ Listening /\ ~silent
  /\ Silently
  /\ UNCHANGED <<busy, markers, caller, silence, handoff, limitHit, endedBy>>
  /\ Return("watch")

IsLast(attempt) == attempt >= Prompts

(* A prompt; a session that closed raises, and ends the loop. *)
Prompt ==
  /\ Listening /\ silent
  /\ silenceAttempts' = silenceAttempts + 1
  /\ Say("watch")
  /\ Move("watch", IF phase = "closed" THEN "done" ELSE
                   IF IsLast(silenceAttempts') THEN "lastprompt"
                                               ELSE "prompt")
  /\ UNCHANGED <<busy, owed, markers, caller, silent, handoff, limitHit,
                 endedBy>>

PromptSpoken ==
  /\ Spoken("watch") /\ at.watch = "prompt"
  /\ silent' = FALSE
  /\ Silently
  /\ UNCHANGED <<busy, markers, caller, silenceAttempts, handoff, limitHit,
                 endedBy>>
  /\ Return("watch")

(* _hangup("no_response") after the last one. *)
LastPromptSpoken ==
  /\ Spoken("watch") /\ at.watch = "lastprompt"
  /\ endedBy' = TRUE
  /\ Move("watch", "deleting")
  /\ UNCHANGED <<session, markers, caller, silence, handoff, limitHit>>

-----------------------------------------------------------------------------
(* enforce_limit: the deadline passed, or a counter is over its limit. *)

Limit ==
  /\ ~limitHit /\ phase # "closed"
  /\ limitHit' = TRUE
  /\ Say("limit") /\ Move("limit", "farewell")
  /\ UNCHANGED <<busy, owed, markers, caller, silence, handoff, endedBy>>

FarewellSpoken ==
  /\ Spoken("limit")
  /\ Move("limit", "deleting")
  /\ UNCHANGED <<session, markers, caller, silence, handoff, limitHit,
                 endedBy>>

-----------------------------------------------------------------------------
Session ==
  \/ SpeechStarts \/ SpeechEnds \/ SpeechHangs \/ ReplyStarts \/ MarkerSeen
  \/ Quiet \/ CallerLeaves \/ SessionCloses
  \/ \E final \in BOOLEAN : CallerSpeaks(final)

Transfer(r) == QuestionSpoken(r) \/ HandoffSpoken(r) \/ ReferAnswered(r)

Watch ==
  \/ StayAwake \/ ActOnTransfer \/ IgnoreEnd \/ ActOnEnd \/ StopWatching
  \/ KeepListening \/ Prompt \/ PromptSpoken \/ LastPromptSpoken
  \/ Transfer("watch") \/ DeleteRoom("watch")

Tool == CallTool \/ Transfer("tool")

Limiter == Limit \/ FarewellSpoken \/ DeleteRoom("limit")

Next == Session \/ Watch \/ Tool \/ Limiter

Spec == Init /\ [][Next]_vars

(* The event loop serves every coroutine, the duration limit is reached, a *)
(* speech that can be played is, and a REFER is answered.                  *)
Fairness ==
  /\ WF_vars(Watch) /\ WF_vars(Transfer("tool")) /\ WF_vars(Limiter)
  /\ WF_vars(SpeechStarts) /\ WF_vars(SpeechEnds) /\ WF_vars(SessionCloses)

LiveSpec == Spec /\ Fairness

-----------------------------------------------------------------------------
(* Properties. *)

FloorOK == floor \in Seq(Coroutines \cup {"greeting", "reply"})
AtOK == at \in [watch : WatchStates, tool : ToolStates, limit : LimitStates]

(* The variables have their types: the coroutines are only where the code *)
(* awaits, and no counter leaves its range.                               *)
TypeOK ==
  /\ phase \in {"up", "left", "deleted", "closed"}
  /\ FloorOK /\ AtOK
  /\ {playing, stuck, busy, owed, silent, endRequested, transferRequested,
      transferred, limitHit, endedBy} \subseteq BOOLEAN
  /\ askedAt \in Nat \cup {Null} /\ userTurns \in Nat
  /\ silenceAttempts \in 0..Prompts
  /\ heard \in Answers /\ answers \subseteq Answers \ {"unasked"}

(* request_transfer: where the campaign wants the caller asked, whichever *)
(* route and however many at once, no handoff starts unless the caller    *)
(* has said something since transfer_asked_at was set.                    *)
ConsentBeforeHandoff ==
  Confirm => \A r \in {"watch", "tool"} : Handing(r) => answers # {}

HangsUp(r) == at[r] # "deleting" /\ at'[r] = "deleting"
Referring == \E r \in {"watch", "tool"} : at[r] = "referring"
Unanswered == heard # "unasked" /\ answers = {} /\ ~transferred

(* call_watchdog: no end-of-call marker ends a call whose caller is there, *)
(* while its REFER is in flight, or he was asked and has not answered.     *)
NoHangupMidHandoff ==
  [][HangsUp("watch") /\ ~endedBy' /\ phase = "up"
       => ~Referring /\ ~Unanswered]_vars

(* _on_agent_state: the silence prompt is never queued while the caller is *)
(* hearing a speech of the agent.                                          *)
NoPromptOverSpeech ==
  [][silenceAttempts' > silenceAttempts => ~playing]_vars

(* Every call is closed in the end, by the caller or by a limit, and then *)
(* its watchdog stops, provided that every speech comes to its end.        *)
EveryCallEnds == []~stuck => <>[](phase = "closed" /\ at.watch = "done")

=============================================================================
