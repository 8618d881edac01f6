------------------------------ MODULE Answering ------------------------------
(***************************************************************************)
(* From what a caller says to what he hears: the gate that stays shut      *)
(* until the greeting was heard, the sounds and the words that fill a      *)
(* pause, the lookups a reply waits for, and the turns that are written of *)
(* it all, each with what filled the wait for it.                          *)
(*                                                                         *)
(* Everything runs in one event loop, and a step is what runs between two  *)
(* awaits.  The session plays speeches one at a time, in the order they    *)
(* were made; that, and when it reports what was said, is its own affair.  *)
(* Time is counted in the ends of what the caller says.                    *)
(***************************************************************************)
EXTENDS Integers, Sequences, SequencesExt

CONSTANTS
  Lookups,     \* tool calls and searches that may be made
  MaxSpoken    \* bound: times the caller says something

ASSUME AnsweringAssumption == MaxSpoken \in Nat

VARIABLES
  gate,      \* greeting_done
  overdue,   \* GREETING_GATE_MAX_SEC are over
  opening,   \* the greeting: not said yet, in line, heard or failed
  speeches,  \* the session's: what is being said, and what is to be
  aloud,     \* the first of them is being heard, since the caller's `aloud`th
             \* end of speech; or -1
  spoken,    \* how often the caller has stopped speaking
  turn,      \* the caller's turns, by their number
  look,      \* tools.run and search_knowledge_base
  happened, awaiting,
  stopped,   \* caller_stopped_at, 0 for none
  timeline,  \* what a turn is written with, for as long as it is written
  answered   \* history: the turns whose answer the caller has begun to hear

rvars == <<gate, overdue, opening, speeches, aloud, spoken, turn, look, happened,
           awaiting, stopped, timeline, answered>>
playback == <<speeches, aloud, answered>>
notes == <<happened, awaiting, stopped>>
greeting == <<gate, overdue, opening>>

Numbers == 1 .. MaxSpoken
Filler(kind, n, of) == [kind |-> kind, turn |-> n, of |-> of]
Speech(kind, n) == Filler(kind, n, n)
Fillers == {"sound", "wait", "wait, written"}
(* Which speeches become an item of the conversation.                      *)
InTranscript == {"greeting", "preamble", "answer", "wait, written"}
Waitless(step) == [step |-> step, turn |-> 0, began |-> 0, timer |-> "off", tool |-> FALSE]

AnsweringInit ==
  /\ gate = FALSE /\ overdue = FALSE /\ opening = "unsaid"
  /\ speeches = <<>> /\ aloud = -1 /\ spoken = 0 /\ answered = {}
  /\ turn = [n \in Numbers |-> [step |-> "unsaid", item |-> FALSE]]
  /\ look = [l \in Lookups |-> Waitless("unused")]
  /\ happened = {} /\ awaiting = FALSE /\ stopped = 0
  /\ timeline = {}

Speaks(speech) == speeches' = Append(speeches, speech)
Becomes(n, step) == turn' = [turn EXCEPT ![n].step = step]

-----------------------------------------------------------------------------
(* The greeting and its gate. *)

(* A campaign may have nothing to say.                                     *)
SpeakGreeting ==
  /\ opening = "unsaid"
  /\ \/ opening' = "none" /\ gate' = TRUE /\ UNCHANGED speeches
     \/ opening' = "said" /\ Speaks(Speech("greeting", 0)) /\ UNCHANGED gate
  /\ UNCHANGED <<overdue, aloud, answered, spoken, turn, look, notes>>

(* Mutant of OpenGate: the greeting is not awaited.                        *)
OpenGateOnceSaid == opening \in {"said", "over"}

OpenGate == opening = "over"

GreetingDone ==
  /\ OpenGate /\ ~gate /\ gate' = TRUE
  /\ UNCHANGED <<overdue, opening, playback, spoken, turn, look, notes>>

GateIsOverdue ==
  /\ ~overdue /\ ~gate /\ overdue' = TRUE
  /\ UNCHANGED <<gate, opening, playback, spoken, turn, look, notes>>

(* The caller has said something; his turn may be complete much later.     *)
CallerStops ==
  /\ spoken < MaxSpoken /\ spoken' = spoken + 1
  /\ turn' = [turn EXCEPT ![spoken + 1].step = "heard"]
  /\ UNCHANGED <<greeting, playback, look, notes>>

InTurn(n) == turn[n].step = "heard" /\ \A m \in 1 .. n - 1 : turn[m].step # "heard"

DeclineTurn(n) ==
  /\ InTurn(n) /\ ~gate /\ ~overdue /\ Becomes(n, "over")
  /\ UNCHANGED <<greeting, playback, spoken, look, notes>>

(* The sound is in line before the reply is, or it would follow it.        *)
TakeUpTurn(n) ==
  /\ InTurn(n) /\ (gate \/ overdue)
  /\ gate' = TRUE
  /\ \E sound \in {<<>>, <<Speech("sound", n)>>} :
       speeches' = speeches \o sound \o <<Speech("reply", n)>>
  /\ Becomes(n, "thinking")
  /\ UNCHANGED <<overdue, opening, aloud, answered, spoken, look, notes>>

-----------------------------------------------------------------------------
(* The model's reply, and what it looks up. *)

ReplyBecomes(n, kind) ==
  speeches' = [i \in DOMAIN speeches |->
                 IF speeches[i] = Speech("reply", n) THEN Speech(kind, n) ELSE speeches[i]]
(* It is in line once, or not at all.                                      *)
Places(n) == {i \in DOMAIN speeches : speeches[i] = Speech("reply", n)}
ReplyIsDropped(n) ==
  IF Places(n) = {} THEN UNCHANGED speeches
  ELSE \E i \in Places(n) : speeches' = RemoveAt(speeches, i)

(* When it is first in line, and the caller's turn was reported.           *)
MayReply(n) ==
  /\ turn[n].step = "thinking" /\ turn[n].item
  /\ speeches # <<>> /\ Head(speeches) = Speech("reply", n)

Answer(n) ==
  /\ MayReply(n) /\ Becomes(n, "answered")
  /\ ReplyBecomes(n, "answer")
  /\ UNCHANGED <<greeting, aloud, answered, spoken, look, notes>>

(* With a few words first, or without.                                     *)
LookUpFor(n, L) ==
  /\ MayReply(n) /\ Becomes(n, "looking")
  /\ \A l \in L : look[l].step = "unused"
  /\ ReplyBecomes(n, "preamble") \/ ReplyIsDropped(n)
  /\ \E tool \in BOOLEAN :
       look' = [l \in Lookups |->
                  IF l \in L THEN [step |-> "asked", turn |-> n, began |-> spoken,
                                   timer |-> "set", tool |-> tool]
                             ELSE look[l]]
  /\ UNCHANGED <<greeting, aloud, answered, spoken, notes>>

(* hold_on: the time is up and the filler is said.  Only a tool's becomes  *)
(* part of the conversation.                                               *)
HoldOn(l) ==
  /\ look[l].timer = "set"
  /\ look' = [look EXCEPT ![l].timer = "off"]
  /\ Speaks(Filler(IF look[l].tool THEN "wait, written" ELSE "wait", look[l].turn, l))
  /\ UNCHANGED <<greeting, aloud, answered, spoken, turn, notes>>

Finished == Waitless("over")

(* The lookup in the timeline, from when it began.                         *)
Noted(l) == happened \cup {[what |-> "lookup", of |-> l, at |-> look[l].began]}

(* A search is over with its answer.                                       *)
SearchEnds(l) ==
  /\ look[l].step = "asked" /\ ~look[l].tool
  /\ look' = [look EXCEPT ![l] = Finished]
  /\ happened' = Noted(l)
  /\ UNCHANGED <<greeting, playback, spoken, turn, awaiting, stopped>>

(* An answer ends the hold-on before it is recorded, a failure after that. *)
ToolAnswers(l) ==
  /\ look[l].step = "asked" /\ look[l].tool
  /\ \E timer \in {"off", look[l].timer} :
       look' = [look EXCEPT ![l] = [@ EXCEPT !.step = "recording", !.timer = timer]]
  /\ happened' = Noted(l)
  /\ UNCHANGED <<greeting, playback, spoken, turn, awaiting, stopped>>

ToolRecorded(l) ==
  /\ look[l].step = "recording"
  /\ look' = [look EXCEPT ![l] = Finished]
  /\ UNCHANGED <<greeting, playback, spoken, turn, notes>>

LookedUp(n) == \A l \in Lookups : look[l].turn = n => look[l].step = "over"

ReplyAgain(n) ==
  /\ turn[n].step = "looking" /\ LookedUp(n) /\ Becomes(n, "thinking")
  /\ Speaks(Speech("reply", n))
  /\ UNCHANGED <<greeting, aloud, answered, spoken, look, notes>>

Searches(n) == {l \in Lookups : look[l].turn = n /\ look[l].step = "asked" /\ ~look[l].tool}

(* The caller went on speaking: a reply that has not come to its answer is *)
(* dropped, and what it looks up is cancelled or left to end by itself.    *)
DropReply(n) ==
  /\ turn[n].step \in {"thinking", "looking"} /\ spoken > n
  /\ Becomes(n, "over")
  /\ ReplyIsDropped(n)
  /\ \/ UNCHANGED <<look, happened>>
     \/ /\ look' = [l \in Lookups |-> IF look[l].turn = n THEN Finished ELSE look[l]]
        /\ happened' = happened \cup UNION {Noted(l) : l \in Searches(n)}
  /\ UNCHANGED <<greeting, aloud, answered, spoken, awaiting, stopped>>

-----------------------------------------------------------------------------
(* What is heard, and what is written of it. *)

(* Mutant of SinceStopped: whatever was heard.                             *)
SinceAlways(events, when) == events

SinceStopped(events, when) == {e \in events : e.at >= when}

(* _on_item, of the caller's turn.  The end of his speech is this turn's,  *)
(* or the last that was noticed where the session has none for it.         *)
CallerItem(n) ==
  /\ turn[n].step \notin {"unsaid", "heard", "over"} /\ ~turn[n].item
  /\ turn' = [turn EXCEPT ![n].item = TRUE]
  /\ awaiting' = TRUE /\ stopped' \in {n, spoken}
  /\ happened' = SinceStopped(happened, stopped')
  /\ UNCHANGED <<greeting, playback, spoken, look>>

(* What is first in line is heard; a filler is noted by its speech.        *)
Begins ==
  /\ speeches # <<>> /\ aloud = -1 /\ Head(speeches).kind # "reply"
  /\ LET s == Head(speeches) IN
       /\ happened' = happened \cup {[what |-> kind, of |-> s.of, at |-> spoken] :
                                     kind \in {s.kind} \cap Fillers}
       /\ answered' = IF s.kind = "answer" THEN answered \cup {s.turn} ELSE answered
  /\ aloud' = spoken
  /\ UNCHANGED <<greeting, speeches, spoken, turn, look, awaiting, stopped>>

(* _on_item, of the agent's turn: the wait is the session's measure, which *)
(* it has of replies alone, or the time from the caller's last word to the *)
(* first speech after it.                                                  *)
AgentItem(s) ==
  \E measured \in {FALSE, s.kind \in {"answer", "preamble"}} :
    LET waited == measured \/ (awaiting /\ stopped # 0 /\ aloud >= stopped)
    IN /\ awaiting' = (awaiting /\ ~waited)
       /\ happened' = IF waited THEN {} ELSE happened
       /\ timeline' = IF waited THEN SinceStopped(happened, stopped) ELSE {}

(* It has been heard to its end, or it failed, or the caller spoke over    *)
(* it; the greeting is not his to interrupt.                               *)
Ends ==
  /\ speeches # <<>> /\ Head(speeches).kind # "reply"
  /\ LET s == Head(speeches) IN
       /\ IF s.kind \in InTranscript /\ aloud # -1 THEN AgentItem(s)
          ELSE timeline' = {} /\ UNCHANGED <<happened, awaiting>>
       /\ opening' = IF s.kind = "greeting" THEN "over" ELSE opening
  /\ speeches' = Tail(speeches) /\ aloud' = -1
  /\ UNCHANGED <<gate, overdue, answered, spoken, turn, look, stopped>>

AnsweringNext ==
  \/ Ends
  \/ /\ timeline' = {}
     /\ \/ SpeakGreeting \/ GreetingDone \/ GateIsOverdue \/ CallerStops \/ Begins
        \/ \E n \in Numbers :
             \/ DeclineTurn(n) \/ TakeUpTurn(n) \/ Answer(n) \/ ReplyAgain(n)
             \/ DropReply(n) \/ CallerItem(n)
             \/ \E L \in (SUBSET Lookups) \ {{}} : LookUpFor(n, L)
        \/ \E l \in Lookups :
             HoldOn(l) \/ SearchEnds(l) \/ ToolAnswers(l) \/ ToolRecorded(l)

AnsweringSpec == AnsweringInit /\ [][AnsweringNext]_rvars

-----------------------------------------------------------------------------
(* Nothing is said in reply before the greeting was heard in full or its   *)
(* ceiling has passed (on_user_turn_completed, voice_agent.py:606, and     *)
(* _speak_greeting, :2955), whatever the caller says before it is in line  *)
(* and over it.                                                            *)
GreetingComesFirst ==
  opening \in {"unsaid", "said"} /\ ~overdue =>
    \A i \in DOMAIN speeches : speeches[i].kind = "greeting"

(* Nobody is asked to wait for an answer he has begun to hear, or that is  *)
(* in line before the words that ask him: not when a lookup fails, and not *)
(* when several are made at once (tools.run, tools.py:266, hold_on, :227,  *)
(* search_knowledge_base, voice_agent.py:1059, _start_reply_filler, :637). *)
NoWaitAfterTheAnswer ==
  \A i \in DOMAIN speeches : speeches[i].kind \in Fillers =>
    /\ speeches[i].turn \notin answered
    /\ \A j \in 1 .. i - 1 : speeches[j] # Speech("answer", speeches[i].turn)

(* A pause is explained once, and by nothing that came before the caller's *)
(* last word, though lookups are noted when they end and turns when the    *)
(* session reports them (_wait_and_timeline, voice_agent.py:398).          *)
PausesAreExplainedOnce ==
  \A e \in timeline : e.at >= stopped /\ e \notin happened

(* What a caller is told of a wait, and what its turn says of it, is true. *)
WaitsAreExplained == NoWaitAfterTheAnswer /\ PausesAreExplainedOnce

Kinds == {"greeting", "preamble", "answer", "reply"} \cup Fillers
Steps == {"unsaid", "heard", "thinking", "looking", "answered", "over"}

Sayings == [kind : Kinds, turn : Numbers \cup {0}, of : Numbers \cup {0} \cup Lookups]

AnsweringOK ==
  /\ speeches \in Seq(Sayings)
  /\ spoken \in 0 .. MaxSpoken
  /\ turn \in [Numbers -> [step : Steps, item : BOOLEAN]]
  /\ look \in [Lookups -> [step : {"unused", "asked", "recording", "over"},
                           turn : Numbers \cup {0}, began : 0 .. MaxSpoken,
                           timer : {"set", "off"}, tool : BOOLEAN]]
  /\ \A n \in Numbers : n > spoken => turn[n].step = "unsaid"

(* Before the greeting is over nobody's turn has been taken up.            *)
NothingYet ==
  opening \in {"unsaid", "said"} /\ ~overdue =>
    /\ ~gate
    /\ \A n \in Numbers : turn[n].step \in {"unsaid", "heard", "over"}
    /\ \A l \in Lookups : look[l].timer = "off"
    /\ GreetingComesFirst

(* A reply and an answer in line are their turn's step, and a reply is in  *)
(* line once.                                                              *)
LineIsTheTurns ==
  \A i \in DOMAIN speeches :
    /\ speeches[i].kind = "reply" =>
         /\ speeches[i] = Speech("reply", speeches[i].turn)
         /\ speeches[i].turn \in Numbers /\ turn[speeches[i].turn].step = "thinking"
         /\ \A j \in DOMAIN speeches : speeches[j] = speeches[i] => j = i
    /\ speeches[i].kind = "answer" =>
         /\ speeches[i].turn \in Numbers /\ turn[speeches[i].turn].step = "answered"

(* A filler may still be said only of a turn that looks something up, or   *)
(* has been given up.                                                      *)
HoldsAreOpen ==
  \A l \in Lookups : look[l].timer = "set" =>
    /\ look[l].step \in {"asked", "recording"} /\ look[l].turn \in Numbers
    /\ turn[look[l].turn].step \in {"looking", "over"}

(* What fills a pause stands before what ends it.                          *)
FillersFirst ==
  /\ \A i, j \in DOMAIN speeches :
       /\ speeches[i].kind \in Fillers /\ speeches[j].kind \in {"reply", "answer"}
       /\ speeches[i].turn = speeches[j].turn
       => i < j
  /\ \A i \in DOMAIN speeches :
       speeches[i].kind \in Fillers => speeches[i].turn \notin answered
  /\ \A n \in answered : n \in Numbers /\ turn[n].step = "answered"

AnsweringInv ==
  /\ AnsweringOK /\ NothingYet /\ LineIsTheTurns /\ HoldsAreOpen
  /\ FillersFirst /\ PausesAreExplainedOnce
=============================================================================
