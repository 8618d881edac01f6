------------------------------ MODULE Admission ------------------------------
(***************************************************************************)
(* The calls a campaign may have with the agent at once, as Asterisk's     *)
(* dialplan keeps them: every call looks at the group of those that hold a *)
(* slot, waits while it is full, joins it, and leaves it when its leg to   *)
(* the agent is over.                                                      *)
(*                                                                         *)
(* A channel runs its dialplan in a thread of its own. A step is the run   *)
(* of priorities up to the next one that another channel can tell apart:   *)
(* looking and joining are two. The dialplan takes no time, playing the    *)
(* message and waiting do, in seconds.                                     *)
(***************************************************************************)
EXTENDS Naturals, FiniteSets

CONSTANTS
  Calls,
  Limits,    \* the values max_parallel_calls is given in the console
  MaxWait,   \* queue_max_wait_seconds
  Message,   \* the length of the message, in seconds
  Gap,       \* queue_gap_seconds
  Null       \* no limit, or none that could be read

ASSUME AdmissionAssumption ==
  /\ IsFiniteSet(Calls)
  /\ Limits \subseteq Nat
  /\ MaxWait \in Nat /\ Message \in Nat \ {0} /\ Gap \in Nat \ {0}
  /\ Null \notin Nat

VARIABLES
  limit,    \* agent_config.max_parallel_calls
  at,       \* where each call is, by the labels of the dialplan
  qmax,     \* QMAX, as the call read it
  waited,   \* EPOCH since QUNTIL was set
  left,     \* until Playback or Wait returns
  qi,       \* QI
  group,    \* the channels in GROUP(aiq)
  tested,   \* history: the limit the last call to get in was held against
  crowd     \* history: who got in with it, each before another had joined

clocks == <<waited, left, qi>>
history == <<tested, crowd>>
vars == <<limit, at, qmax, clocks, group, history>>

Held == {"playing", "wait"}
Looking == {"qcheck", "qgap"}
Queue == Held \cup Looking
Legs == {"ai", "agent", "referred"}
Over == {"human", "bye"}
Places == {"new", "qtake", "gone"} \cup Queue \cup Legs \cup Over

(* Bound of the clock: past every comparison the dialplan makes. *)
Late == MaxWait + Message + 1

Taking == {c \in Calls : at[c] = "qtake"}

Go(c, to) == at' = [at EXCEPT ![c] = to]

(* Past the wait the dialplan reads its clock no more. *)
Forget(c) ==
  /\ waited' = [waited EXCEPT ![c] = 0]
  /\ left' = [left EXCEPT ![c] = 0]
  /\ qi' = [qi EXCEPT ![c] = 0]

Init ==
  /\ limit \in Limits \cup {Null}
  /\ at = [c \in Calls |-> "new"]
  /\ qmax = [c \in Calls |-> Null]
  /\ waited = [c \in Calls |-> 0]
  /\ left = [c \in Calls |-> 0]
  /\ qi = [c \in Calls |-> 0]
  /\ group = {}
  /\ tested = 1 /\ crowd = {}

EditLimit ==
  /\ limit' \in Limits \cup {Null}
  /\ UNCHANGED <<at, qmax, clocks, group, history>>

-----------------------------------------------------------------------------
(* The wait, before the Dial. *)

(* The lookup may fail, which is no limit: such a call takes no slot. *)
Arrive(c) ==
  /\ at[c] = "new"
  /\ \E read \in {limit, Null} :
       /\ qmax' = [qmax EXCEPT ![c] = read]
       /\ Go(c, IF read = Null THEN "ai" ELSE "qcheck")
  /\ UNCHANGED <<limit, clocks, group, history>>

(* Mutant of Room: a campaign of one slot more. *)
RoomForOneMore(c) == Cardinality(group) <= qmax[c]

Room(c) == Cardinality(group) < qmax[c]

(* Mutant of TimeUp: a message may play over the second it looks for. *)
TimeIs(c) == waited[c] = MaxWait

TimeUp(c) == waited[c] > MaxWait

InGap(seconds) == seconds < Gap

Pass(c) ==
  /\ at[c] \in Looking /\ Room(c)
  /\ Go(c, "qtake")
  /\ tested' = qmax[c]
  /\ crowd' = IF Taking = {} THEN {c} ELSE crowd \cup {c}
  /\ Forget(c)
  /\ UNCHANGED <<limit, qmax, group>>

(* Waited out, or nothing to hold them with: queue_timeout_action. No audio *)
(* is found out at the first look.                                          *)
GiveUp(c) ==
  /\ at[c] \in Looking /\ ~Room(c)
  /\ TimeUp(c) \/ (at[c] = "qcheck" /\ waited[c] = 0)
  /\ \E to \in Over : Go(c, to)
  /\ Forget(c)
  /\ UNCHANGED <<limit, qmax, group, history>>

(* A file that is gone ends the Playback at once. *)
PlayMessage(c) ==
  /\ at[c] = "qcheck" /\ ~Room(c) /\ ~TimeUp(c)
  /\ Go(c, "playing")
  /\ \E length \in {0, Message} : left' = [left EXCEPT ![c] = length]
  /\ UNCHANGED <<limit, qmax, waited, qi, group, history>>

MessageEnds(c) ==
  /\ at[c] = "playing" /\ left[c] = 0
  /\ Go(c, "qgap")
  /\ qi' = [qi EXCEPT ![c] = 0]
  /\ UNCHANGED <<limit, qmax, waited, left, group, history>>

WaitASecond(c) ==
  /\ at[c] = "qgap" /\ ~Room(c) /\ ~TimeUp(c)
  /\ Go(c, "wait")
  /\ left' = [left EXCEPT ![c] = 1]
  /\ UNCHANGED <<limit, qmax, waited, qi, group, history>>

SecondEnds(c) ==
  /\ at[c] = "wait" /\ left[c] = 0
  /\ qi' = [qi EXCEPT ![c] = @ + 1]
  /\ Go(c, IF InGap(qi'[c]) THEN "qgap" ELSE "qcheck")
  /\ UNCHANGED <<limit, qmax, waited, left, group, history>>

Take(c) ==
  /\ at[c] = "qtake"
  /\ group' = group \cup {c}
  /\ Go(c, "ai")
  /\ UNCHANGED <<limit, qmax, clocks, history>>

Tick ==
  /\ \E c \in Calls : at[c] \in Held
  /\ \A c \in Calls : /\ at[c] \notin Looking \cup {"qtake"}
                      /\ at[c] \in Held => left[c] > 0
  /\ waited' = [c \in Calls |->
                  IF at[c] \in Held /\ waited[c] < Late
                    THEN waited[c] + 1 ELSE waited[c]]
  /\ left' = [c \in Calls |->
                IF at[c] \in Held THEN left[c] - 1 ELSE left[c]]
  /\ UNCHANGED <<limit, at, qmax, qi, group, history>>

-----------------------------------------------------------------------------
(* The leg to the agent, and the end of the call. *)

AgentAnswers(c) ==
  /\ at[c] = "ai"
  /\ Go(c, "agent")
  /\ UNCHANGED <<limit, qmax, clocks, group, history>>

(* Mutant of AfterLeg: the fallback keeps the slot. *)
KeepAfterLeg(c) == group

AfterLeg(c) == group \ {c}

(* The Dial failed: the slot is given back and a person takes the call. *)
AgentUnavailable(c) ==
  /\ at[c] = "ai"
  /\ Go(c, "human")
  /\ group' = AfterLeg(c)
  /\ crowd' = crowd \ {c}
  /\ UNCHANGED <<limit, qmax, clocks, tested>>

(* A REFER moves the channel to extension 800, with its groups. *)
Refer(c) ==
  /\ at[c] = "agent"
  /\ Go(c, "referred")
  /\ UNCHANGED <<limit, qmax, clocks, group, history>>

(* A channel that ends is in no group, and its variables go with it. *)
ChannelEnds(c) ==
  /\ at[c] \notin {"new", "gone"}
  /\ Go(c, "gone")
  /\ group' = group \ {c}
  /\ crowd' = crowd \ {c}
  /\ qmax' = [qmax EXCEPT ![c] = Null]
  /\ Forget(c)
  /\ UNCHANGED <<limit, tested>>

-----------------------------------------------------------------------------
Waiting(c) ==
  \/ Pass(c) \/ GiveUp(c) \/ PlayMessage(c) \/ MessageEnds(c)
  \/ WaitASecond(c) \/ SecondEnds(c) \/ Take(c)

Leg(c) ==
  \/ AgentAnswers(c) \/ AgentUnavailable(c) \/ Refer(c) \/ ChannelEnds(c)

Next == EditLimit \/ Tick \/ \E c \in Calls : Arrive(c) \/ Waiting(c) \/ Leg(c)

Spec == Init /\ [][Next]_vars

-----------------------------------------------------------------------------
(* Properties. *)

(* The variables have their types: QI counts the seconds of one gap. *)
TypeOK ==
  /\ limit \in Limits \cup {Null}
  /\ at \in [Calls -> Places]
  /\ qmax \in [Calls -> Limits \cup {Null}]
  /\ waited \in [Calls -> 0..Late]
  /\ left \in [Calls -> 0..Message]
  /\ qi \in [Calls -> 0..Gap]
  /\ \A c \in Calls : at[c] = "qgap" => qi[c] < Gap
  /\ group \subseteq Calls /\ crowd \subseteq Calls
  /\ tested \in Nat

(* qcheck, qtake: more calls than the limit hold or take a slot only as    *)
(* far as they looked before one another had joined. A call that looked    *)
(* alone never makes them more.                                            *)
OnlyACrowdOvershoots ==
  Cardinality(group \cup Taking) + 1 <= tested + Cardinality(crowd)

(* A slot is held exactly by the calls under a limit whose channel has gone *)
(* through to the agent, and it is not lost by any way out: the failed Dial *)
(* gives it back before the person answers.                                 *)
SlotsAreLegs ==
  group = {c \in Calls : at[c] \in Legs /\ qmax[c] # Null}

(* queue_max_wait_seconds: nobody is held longer than that and one message. *)
WaitIsBounded ==
  \A c \in Calls : at[c] \in Queue => waited[c] <= MaxWait + Message

=============================================================================
