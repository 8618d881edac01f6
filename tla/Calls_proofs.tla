---------------------------- MODULE Calls_proofs ----------------------------
(* The safety of the coroutines of one call, for every number of prompts,  *)
(* turns and lookups: those that end it or hand it over (CallControl),     *)
(* then those that answer the caller (Answering), and those that hear him  *)
(* (Listening).                                                            *)
EXTENDS CallControl, Answering, Listening, SequenceTheorems, TLAPS

(* Why nobody is handed over unasked: the question is remembered with the *)
(* turn it was asked at, and what is said after that turn is an answer.   *)
Asked ==
  /\ askedAt = Null <=> heard = "unasked"
  /\ askedAt # Null => askedAt <= userTurns
  /\ askedAt # Null /\ userTurns > askedAt => answers # {}

Gate == \A r \in {"watch", "tool"} :
          /\ at[r] = "asking" => askedAt # Null
          /\ Confirm /\ Handing(r) => answers # {} /\ askedAt # Null

(* Why the prompts run out: who has begun the last one never comes back. *)
Counted == silenceAttempts < Prompts
           \/ at.watch \in {"lastprompt", "deleting", "done"}

(* Why no prompt is queued over speech: the agent is busy while it plays. *)
Playing == playing => busy /\ floor # <<>>

Safe == Asked /\ Gate /\ Counted /\ Playing

IndInv == TypeOK /\ Safe

-----------------------------------------------------------------------------
LEMMA SayFacts ==
  ASSUME FloorOK, NEW r \in Coroutines, Say(r)
  PROVE  /\ FloorOK'
         /\ playing' = playing /\ phase' = phase
         /\ floor # <<>> => floor' # <<>>
  BY DEF Say, FloorOK

LEMMA TailFacts ==
  ASSUME FloorOK, floor # <<>>
  PROVE  Tail(floor) \in Seq(Coroutines \cup {"greeting", "reply"})
  BY DEF FloorOK

LEMMA ReplyFacts ==
  ASSUME FloorOK
  PROVE  /\ Append(floor, "reply") \in Seq(Coroutines \cup {"greeting", "reply"})
         /\ Append(floor, "reply") # <<>>
  BY DEF FloorOK

LEMMA WatchMoves ==
  ASSUME AtOK, NEW to \in WatchStates, Move("watch", to)
  PROVE  /\ AtOK' /\ at'.watch = to
         /\ at'.tool = at.tool /\ at'.limit = at.limit
  BY DEF AtOK, Move

LEMMA ToolMoves ==
  ASSUME AtOK, NEW to \in ToolStates, Move("tool", to)
  PROVE  /\ AtOK' /\ at'.tool = to
         /\ at'.watch = at.watch /\ at'.limit = at.limit
  BY DEF AtOK, Move

LEMMA LimitMoves ==
  ASSUME AtOK, NEW to \in LimitStates, Move("limit", to)
  PROVE  /\ AtOK' /\ at'.limit = to
         /\ at'.watch = at.watch /\ at'.tool = at.tool
  BY DEF AtOK, Move

(* A coroutine that ends its round. *)
LEMMA WatchReturns ==
  ASSUME TypeOK, Return("watch")
  PROVE  /\ AtOK' /\ at'.watch \in {"asleep", "done"}
         /\ at'.tool = at.tool /\ at'.limit = at.limit
         /\ owed' = owed
<1> DEFINE to == IF WatchOn(transferred') THEN "asleep" ELSE "done"
<1>1. to \in {"asleep", "done"} /\ to \in WatchStates
  BY DEF WatchStates
<1>2. Move("watch", to) /\ owed' = (owed \/ FALSE)
  BY DEF Return
<1> HIDE DEF to
<1>3. AtOK /\ owed \in BOOLEAN
  BY DEF TypeOK
<1> QED
  BY <1>1, <1>2, <1>3, WatchMoves

LEMMA ToolReturns ==
  ASSUME TypeOK, Return("tool")
  PROVE  /\ AtOK' /\ at'.tool = "idle"
         /\ at'.watch = at.watch /\ at'.limit = at.limit
         /\ owed' \in BOOLEAN
<1>1. Move("tool", "idle") /\ "idle" \in ToolStates
  BY DEF Return, ToolStates
<1>2. owed' \in BOOLEAN
  BY DEF Return
<1> QED
  BY <1>1, <1>2, ToolMoves DEF TypeOK

(* A request by a coroutine that may make one. *)
LEMMA Requests ==
  ASSUME TypeOK, Asked, NEW r \in {"watch", "tool"}, RequestTransfer(r),
         owed \in BOOLEAN
  PROVE  /\ FloorOK' /\ AtOK' /\ owed' \in BOOLEAN
         /\ phase' = phase /\ playing' = playing /\ stuck' = stuck
         /\ floor # <<>> => floor' # <<>>
         /\ r = "watch" => at'.tool = at.tool
                           /\ at'.watch \notin {"lastprompt", "deleting"}
         /\ r = "tool" => at'.watch = at.watch
         /\ askedAt' \in Nat \cup {Null} /\ heard' \in Answers
         /\ transferred' = transferred
         /\ askedAt' = Null <=> heard' = "unasked"
         /\ askedAt' # Null => askedAt' <= userTurns
         /\ askedAt' # Null /\ userTurns > askedAt' => answers # {}
         /\ askedAt # Null => askedAt' = askedAt
         /\ Confirm /\ at'[r] \in {"handing", "referring"}
              => answers # {} /\ askedAt' # Null
         /\ at'[r] = "asking" => askedAt' # Null
<1> DEFINE Moved(to) == IF r = "watch" THEN at'.watch = to /\ at'.tool = at.tool
                        ELSE at'.tool = to /\ at'.watch = at.watch
<1>m. ASSUME NEW to \in {"told", "asking", "handing"}, Move(r, to)
      PROVE  AtOK' /\ Moved(to)
  <2>1. to \in WatchStates /\ to \in ToolStates /\ AtOK
    BY DEF WatchStates, ToolStates, TypeOK
  <2> QED
    BY <1>m, <2>1, WatchMoves, ToolMoves
<1>s. ASSUME Say(r)
      PROVE  /\ FloorOK' /\ playing' = playing /\ phase' = phase
             /\ stuck' = stuck /\ (floor # <<>> => floor' # <<>>)
  BY <1>s, SayFacts DEF TypeOK, Say, Coroutines
<1>1. CASE RefuseClosed(r)
  <2>1. AtOK' /\ Moved("told")
    BY <1>1, <1>m DEF RefuseClosed
  <2> QED
    BY <1>1, <1>s, <2>1 DEF RefuseClosed, RequestTransfer, TypeOK, Asked
<1>2. CASE AskFirst(r)
  <2>1. AtOK' /\ Moved("asking")
    BY <1>2, <1>m DEF AskFirst
  <2>2. /\ askedAt' = userTurns /\ heard' = "asked" /\ userTurns \in Nat
        /\ askedAt' # Null /\ askedAt = Null
    BY <1>2, ControlAssumption DEF AskFirst, TypeOK
  <2> QED
    BY <1>2, <1>s, <2>1, <2>2 DEF AskFirst, RequestTransfer, Answers
<1>3. CASE TurnDown(r)
  <2>1. AtOK' /\ owed' \in BOOLEAN
        /\ \/ r = "watch" /\ at'.watch \in {"asleep", "done"} /\ at'.tool = at.tool
           \/ r = "tool" /\ at'.tool = "idle" /\ at'.watch = at.watch
    BY <1>3, WatchReturns, ToolReturns DEF TurnDown
  <2> QED
    BY <1>3, <2>1
       DEF TurnDown, RequestTransfer, Silently, TypeOK, Asked, FloorOK
<1>4. CASE Announce(r)
  <2>1. AtOK' /\ Moved("handing")
    BY <1>4, <1>m DEF Announce
  <2>2. Confirm => askedAt # Null /\ answers # {}
    BY <1>4 DEF Announce, Answered, Asked
  <2> QED
    BY <1>4, <1>s, <2>1, <2>2 DEF Announce, RequestTransfer, TypeOK, Asked
<1> QED
  BY <1>1, <1>2, <1>3, <1>4 DEF RequestTransfer

-----------------------------------------------------------------------------
(* What the session and the caller do leaves every coroutine where it is. *)
LEMMA SessionStep == IndInv /\ Session => IndInv'
<1> SUFFICES ASSUME IndInv, Session PROVE IndInv'
  OBVIOUS
<1>a. TypeOK /\ Asked /\ Gate /\ Counted /\ Playing
  BY DEF IndInv, Safe
<1> USE DEF IndInv, Safe, Asked, Gate, Counted, Playing, Handing, session,
            caller, silence, handoff, markers
<1>1. CASE SpeechStarts
  <2>1. heard' = heard \/ (heard' = "heard" /\ \E r \in Coroutines : at[r] = "asking")
    BY <1>1 DEF SpeechStarts
  <2>2. at.limit # "asking"
    BY <1>a DEF TypeOK, AtOK, LimitStates
  <2>3. heard' \in Answers /\ (askedAt = Null <=> heard' = "unasked")
    BY <1>a, <2>1, <2>2 DEF TypeOK, Answers, Coroutines
  <2> QED
    BY <1>a, <1>1, <2>3 DEF SpeechStarts, AgentState, BusyIn, TypeOK, AtOK, FloorOK
<1>2. CASE SpeechEnds
  <2>1. FloorOK' /\ ~playing'
    BY <1>a, <1>2, TailFacts DEF SpeechEnds, TypeOK, FloorOK
  <2> QED
    BY <1>a, <1>2, <2>1 DEF SpeechEnds, AgentState, BusyIn, TypeOK, AtOK
<1>3. CASE SpeechHangs
  BY <1>a, <1>3 DEF SpeechHangs, TypeOK, AtOK, FloorOK
<1>4. CASE ReplyStarts
  <2>1. FloorOK' /\ floor' # <<>>
    BY <1>a, <1>4, ReplyFacts DEF ReplyStarts, TypeOK, FloorOK
  <2> QED
    BY <1>a, <1>4, <2>1 DEF ReplyStarts, AgentState, BusyIn, TypeOK, AtOK
<1>5. CASE MarkerSeen
  <2>1. {endRequested', transferRequested'} \subseteq BOOLEAN
    <3>1. CASE endRequested' = TRUE /\ UNCHANGED transferRequested
      BY <1>a, <3>1 DEF TypeOK
    <3>2. CASE transferRequested' = TRUE /\ UNCHANGED endRequested
      BY <1>a, <3>2 DEF TypeOK
    <3> QED
      BY <1>5, <3>1, <3>2 DEF MarkerSeen
  <2> QED
    BY <1>a, <1>5, <2>1 DEF MarkerSeen, TypeOK, AtOK, FloorOK
<1>6. CASE Quiet
  BY <1>a, <1>6 DEF Quiet, TypeOK, AtOK, FloorOK
<1>7. CASE CallerLeaves
  BY <1>a, <1>7 DEF CallerLeaves, TypeOK, AtOK, FloorOK
<1>8. CASE SessionCloses
  <2>1. FloorOK' /\ ~playing'
    BY <1>8 DEF SessionCloses, FloorOK
  <2> QED
    BY <1>a, <1>8, <2>1 DEF SessionCloses, AgentState, BusyIn, TypeOK, AtOK
<1>9. ASSUME NEW final \in BOOLEAN, CallerSpeaks(final)
      PROVE  IndInv'
  <2>s. /\ silent' = FALSE /\ silenceAttempts' = 0 /\ 0 < Prompts
        /\ at' = at /\ floor' = floor /\ playing' = playing /\ busy' = busy
        /\ UNCHANGED <<phase, stuck, markers, handoff, limitHit, endedBy>>
    BY <1>9, ControlAssumption DEF CallerSpeaks
  <2>k. /\ FloorOK' /\ AtOK' /\ silenceAttempts' \in 0..Prompts
        /\ {silent', endRequested', transferRequested', transferred',
            limitHit', endedBy', stuck', playing', busy'} \subseteq BOOLEAN
        /\ askedAt' \in Nat \cup {Null} /\ heard' \in Answers
        /\ phase' \in {"up", "left", "deleted", "closed"}
    <3>1. FloorOK' /\ AtOK'
      BY <1>a, <2>s DEF TypeOK, FloorOK, AtOK
    <3>2. silenceAttempts' \in 0..Prompts
      BY <2>s, ControlAssumption
    <3>3. {silent', endRequested', transferRequested', transferred',
           limitHit', endedBy', stuck', playing', busy'} \subseteq BOOLEAN
      BY <1>a, <2>s DEF TypeOK
    <3> QED
      BY <1>a, <2>s, <3>1, <3>2, <3>3 DEF TypeOK
  <2>1. CASE final
    <3>1. owed' \in BOOLEAN
      BY <1>a, <1>9, <2>1 DEF CallerSpeaks, TypeOK
    <3>2. /\ userTurns' = userTurns + 1
          /\ answers' = answers \cup ({heard} \ {"unasked"})
      BY <1>9, <2>1 DEF CallerSpeaks
    <3>3. userTurns \in Nat /\ userTurns' \in Nat
      BY <1>a, <3>2 DEF TypeOK
    <3>4. /\ answers' \subseteq Answers \ {"unasked"}
          /\ answers # {} \/ heard # "unasked" => answers' # {}
      BY <1>a, <3>2 DEF TypeOK
    <3>5. askedAt # Null => askedAt \in Nat /\ askedAt <= userTurns'
      BY <1>a, <3>2, <3>3 DEF TypeOK
    <3>6. Asked'
      BY <1>a, <2>s, <3>4, <3>5
    <3>7. TypeOK'
      BY <2>k, <3>1, <3>3, <3>4 DEF TypeOK
    <3> QED
      BY <1>a, <2>s, <3>4, <3>6, <3>7
  <2>2. CASE ~final
    <3>1. UNCHANGED <<userTurns, answers, owed>>
      BY <1>9, <2>2 DEF CallerSpeaks
    <3>2. TypeOK'
      BY <1>a, <2>k, <3>1 DEF TypeOK
    <3> QED
      BY <1>a, <2>s, <3>1, <3>2
  <2> QED
    BY <2>1, <2>2
<1> QED
  BY <1>1, <1>2, <1>3, <1>4, <1>5, <1>6, <1>7, <1>8, <1>9 DEF Session

-----------------------------------------------------------------------------
(* A round of the watchdog. *)
LEMMA WatchStep == IndInv /\ Watch => IndInv'
<1> SUFFICES ASSUME IndInv, Watch PROVE IndInv'
  OBVIOUS
<1>a. TypeOK /\ AtOK /\ Asked /\ Gate /\ Counted /\ Playing
  BY DEF IndInv, Safe, TypeOK
<1> USE DEF IndInv, Safe, Asked, Gate, Counted, Playing, Handing, session,
            caller, silence, handoff, markers, Silently
<1>1. CASE StayAwake
  <2>1. /\ AtOK' /\ at'.watch \in {"asleep", "done"}
        /\ at'.tool = at.tool /\ owed' = owed
    BY <1>a, <1>1, WatchReturns DEF StayAwake
  <2>2. silenceAttempts < Prompts
    BY <1>a, <1>1 DEF StayAwake, Awake, Spoken

  <2> QED
    BY <1>a, <1>1, <2>1, <2>2 DEF StayAwake, TypeOK, FloorOK
<1>2. CASE ActOnTransfer
  <2>1. silenceAttempts < Prompts
    BY <1>a, <1>2 DEF ActOnTransfer, Awake
  <2>2. owed \in BOOLEAN /\ RequestTransfer("watch")
    BY <1>a, <1>2 DEF ActOnTransfer, TypeOK
  <2>3. TypeOK'
    BY <1>a, <1>2, <2>2, Requests DEF ActOnTransfer, TypeOK
  <2>4. floor # <<>> => floor' # <<>>
    BY <1>a, <2>2, Requests
  <2>5. Asked' /\ Gate'
    BY <1>a, <1>2, <2>2, Requests DEF ActOnTransfer
  <2> QED
    BY <1>a, <1>2, <2>1, <2>2, <2>3, <2>4, <2>5, Requests DEF ActOnTransfer
<1>3. CASE IgnoreEnd
  <2>1. /\ AtOK' /\ at'.watch \in {"asleep", "done"}
        /\ at'.tool = at.tool /\ owed' = owed
    BY <1>a, <1>3, WatchReturns DEF IgnoreEnd
  <2>2. silenceAttempts < Prompts
    BY <1>a, <1>3 DEF IgnoreEnd, Awake, Spoken

  <2> QED
    BY <1>a, <1>3, <2>1, <2>2 DEF IgnoreEnd, TypeOK, FloorOK
<1>4. CASE ActOnEnd
  <2>1. AtOK' /\ at'.watch = "deleting" /\ at'.tool = at.tool
    BY <1>a, <1>4, WatchMoves DEF ActOnEnd, WatchStates
  <2> QED
    BY <1>a, <1>4, <2>1 DEF ActOnEnd, TypeOK, FloorOK
<1>5. CASE StopWatching
  <2>1. AtOK' /\ at'.watch = "done" /\ at'.tool = at.tool
    BY <1>a, <1>5, WatchMoves DEF StopWatching, WatchStates
  <2> QED
    BY <1>a, <1>5, <2>1 DEF StopWatching, TypeOK, FloorOK
<1>6. CASE KeepListening
  <2>1. /\ AtOK' /\ at'.watch \in {"asleep", "done"}
        /\ at'.tool = at.tool /\ owed' = owed
    BY <1>a, <1>6, WatchReturns DEF KeepListening
  <2>2. silenceAttempts < Prompts
    BY <1>a, <1>6 DEF KeepListening, Listening, Awake

  <2> QED
    BY <1>a, <1>6, <2>1, <2>2 DEF KeepListening, TypeOK, FloorOK
<1>7. CASE Prompt
  <2> DEFINE to == IF phase = "closed" THEN "done" ELSE
                   IF IsLast(silenceAttempts + 1) THEN "lastprompt" ELSE "prompt"
  <2>1. silenceAttempts < Prompts /\ silenceAttempts \in Nat /\ Prompts \in Nat
    BY <1>a, <1>7, ControlAssumption DEF Prompt, Listening, Awake, TypeOK
  <2>2. /\ silenceAttempts' \in 0..Prompts
        /\ silenceAttempts' < Prompts \/ to \in {"lastprompt", "done"}
    BY <1>7, <2>1 DEF Prompt, IsLast
  <2>3. to \in WatchStates /\ to \in {"done", "lastprompt", "prompt"}
    BY DEF WatchStates
  <2>4. Move("watch", to) /\ Say("watch")
    BY <1>7 DEF Prompt
  <2> HIDE DEF to
  <2>5. AtOK' /\ at'.watch = to /\ at'.tool = at.tool
    BY <1>a, <2>3, <2>4, WatchMoves
  <2>6. /\ FloorOK' /\ playing' = playing /\ phase' = phase /\ stuck' = stuck
        /\ floor # <<>> => floor' # <<>>
    BY <1>a, <2>4, SayFacts DEF TypeOK, Coroutines, Say
  <2>7. ~playing
    BY <1>a, <1>7 DEF Prompt, Listening, Awake
  <2>8. TypeOK'
    BY <1>a, <1>7, <2>2, <2>5, <2>6 DEF Prompt, TypeOK
  <2> QED
    BY <1>a, <1>7, <2>2, <2>3, <2>5, <2>6, <2>7, <2>8 DEF Prompt
<1>8. CASE PromptSpoken
  <2>1. /\ AtOK' /\ at'.watch \in {"asleep", "done"}
        /\ at'.tool = at.tool /\ owed' = owed
    BY <1>a, <1>8, WatchReturns DEF PromptSpoken
  <2>2. silenceAttempts < Prompts
    BY <1>a, <1>8 DEF PromptSpoken, Awake, Spoken

  <2> QED
    BY <1>a, <1>8, <2>1, <2>2 DEF PromptSpoken, TypeOK, FloorOK
<1>9. CASE LastPromptSpoken
  <2>1. AtOK' /\ at'.watch = "deleting" /\ at'.tool = at.tool
    BY <1>a, <1>9, WatchMoves DEF LastPromptSpoken, WatchStates
  <2> QED
    BY <1>a, <1>9, <2>1 DEF LastPromptSpoken, TypeOK, FloorOK
<1>10. CASE QuestionSpoken("watch")
  <2>1. /\ AtOK' /\ at'.watch \in {"asleep", "done"}
        /\ at'.tool = at.tool /\ owed' = owed
    BY <1>a, <1>10, WatchReturns DEF QuestionSpoken
  <2>2. silenceAttempts < Prompts
    BY <1>a, <1>10 DEF QuestionSpoken, Awake, Spoken

  <2> QED
    BY <1>a, <1>10, <2>1, <2>2 DEF QuestionSpoken, TypeOK, FloorOK
<1>11. CASE HandoffSpoken("watch")
  <2>1. AtOK' /\ at'.watch = "referring" /\ at'.tool = at.tool
    BY <1>a, <1>11, WatchMoves DEF HandoffSpoken, WatchStates
  <2> QED
    BY <1>a, <1>11, <2>1 DEF HandoffSpoken, TypeOK, FloorOK, Spoken
<1>12. CASE ReferAnswered("watch")
  <2>1. /\ AtOK' /\ at'.watch \in {"asleep", "done"}
        /\ at'.tool = at.tool /\ owed' = owed
    BY <1>a, <1>12, WatchReturns DEF ReferAnswered
  <2>2. silenceAttempts < Prompts
    BY <1>a, <1>12 DEF ReferAnswered, Awake, Spoken

  <2> QED
    BY <1>a, <1>12, <2>1, <2>2 DEF ReferAnswered, TypeOK, FloorOK
<1>13. CASE DeleteRoom("watch")
  <2>1. AtOK' /\ at'.watch = "done" /\ at'.tool = at.tool
    BY <1>a, <1>13, WatchMoves DEF DeleteRoom, WatchStates
  <2> QED
    BY <1>a, <1>13, <2>1 DEF DeleteRoom, TypeOK, FloorOK
<1> QED
  BY <1>1, <1>2, <1>3, <1>4, <1>5, <1>6, <1>7, <1>8, <1>9, <1>10, <1>11,
     <1>12, <1>13 DEF Watch, Transfer

-----------------------------------------------------------------------------
(* The tool. *)
LEMMA ToolStep == IndInv /\ Tool => IndInv'
<1> SUFFICES ASSUME IndInv, Tool PROVE IndInv'
  OBVIOUS
<1>a. TypeOK /\ AtOK /\ Asked /\ Gate /\ Counted /\ Playing
  BY DEF IndInv, Safe, TypeOK
<1> USE DEF IndInv, Safe, Asked, Gate, Counted, Playing, Handing, session,
            caller, silence, handoff, markers, Silently
<1>1. CASE CallTool
  <2>1. owed \in BOOLEAN /\ RequestTransfer("tool") /\ busy' = TRUE
    BY <1>a, <1>1 DEF CallTool, TypeOK, AgentState, BusyIn
  <2>2. silent' \in BOOLEAN
    BY <1>a, <1>1 DEF CallTool, TypeOK, AgentState
  <2>3. TypeOK'
    BY <1>a, <1>1, <2>1, <2>2, Requests DEF CallTool, TypeOK
  <2>4. Asked' /\ Gate'
    BY <1>a, <1>1, <2>1, Requests DEF CallTool
  <2>5. Counted' /\ Playing'
    BY <1>a, <1>1, <2>1, Requests DEF CallTool
  <2> QED
    BY <2>3, <2>4, <2>5
<1>2. CASE QuestionSpoken("tool")
  <2>1. /\ AtOK' /\ at'.tool = "idle"
        /\ at'.watch = at.watch /\ owed' \in BOOLEAN
    BY <1>a, <1>2, ToolReturns DEF QuestionSpoken
  <2> QED
    BY <1>a, <1>2, <2>1 DEF QuestionSpoken, TypeOK, FloorOK
<1>3. CASE HandoffSpoken("tool")
  <2>1. AtOK' /\ at'.tool = "referring" /\ at'.watch = at.watch
    BY <1>a, <1>3, ToolMoves DEF HandoffSpoken, ToolStates
  <2> QED
    BY <1>a, <1>3, <2>1 DEF HandoffSpoken, TypeOK, FloorOK, Spoken
<1>4. CASE ReferAnswered("tool")
  <2>1. /\ AtOK' /\ at'.tool = "idle"
        /\ at'.watch = at.watch /\ owed' \in BOOLEAN
    BY <1>a, <1>4, ToolReturns DEF ReferAnswered
  <2> QED
    BY <1>a, <1>4, <2>1 DEF ReferAnswered, TypeOK, FloorOK
<1> QED
  BY <1>1, <1>2, <1>3, <1>4 DEF Tool, Transfer

-----------------------------------------------------------------------------
(* The limit. *)
LEMMA LimitStep == IndInv /\ Limiter => IndInv'
<1> SUFFICES ASSUME IndInv, Limiter PROVE IndInv'
  OBVIOUS
<1>a. TypeOK /\ AtOK /\ Asked /\ Gate /\ Counted /\ Playing
  BY DEF IndInv, Safe, TypeOK
<1> USE DEF IndInv, Safe, Asked, Gate, Counted, Playing, Handing, session,
            caller, silence, handoff, markers, Silently
<1>1. CASE Limit
  <2>1. AtOK' /\ at'.watch = at.watch /\ at'.tool = at.tool
    BY <1>a, <1>1, LimitMoves DEF Limit, LimitStates
  <2>2. /\ FloorOK' /\ playing' = playing /\ phase' = phase /\ stuck' = stuck
        /\ floor # <<>> => floor' # <<>>
    BY <1>a, <1>1, SayFacts DEF Limit, TypeOK, Coroutines, Say
  <2> QED
    BY <1>a, <1>1, <2>1, <2>2 DEF Limit, TypeOK
<1>2. CASE FarewellSpoken
  <2>1. AtOK' /\ at'.limit = "deleting" /\ at'.watch = at.watch /\ at'.tool = at.tool
    BY <1>a, <1>2, LimitMoves DEF FarewellSpoken, LimitStates
  <2> QED
    BY <1>a, <1>2, <2>1 DEF FarewellSpoken, TypeOK, FloorOK
<1>3. CASE DeleteRoom("limit")
  <2>1. AtOK' /\ at'.limit = "done" /\ at'.watch = at.watch /\ at'.tool = at.tool
    BY <1>a, <1>3, LimitMoves DEF DeleteRoom, LimitStates
  <2> QED
    BY <1>a, <1>3, <2>1 DEF DeleteRoom, TypeOK, FloorOK
<1> QED
  BY <1>1, <1>2, <1>3 DEF Limiter

-----------------------------------------------------------------------------
(* What a call remembers of its question, its prompts and what is playing *)
(* holds in every state of every call.                                    *)
THEOREM Inductive == Spec => []IndInv
<1>1. Init => IndInv
  <2> SUFFICES ASSUME Init PROVE IndInv
    OBVIOUS
  <2>1. FloorOK /\ AtOK
    BY DEF Init, FloorOK, AtOK, WatchStates, ToolStates, LimitStates
  <2>2. silenceAttempts \in 0..Prompts /\ silenceAttempts < Prompts
    BY ControlAssumption DEF Init
  <2>3. TypeOK
    BY <2>1, <2>2 DEF Init, TypeOK, Answers
  <2>4. at.watch = "asleep" /\ at.tool = "idle"
    BY DEF Init
  <2>5. Asked /\ Playing
    BY DEF Init, Asked, Playing
  <2>6. Gate /\ Counted
    BY <2>2, <2>4 DEF Gate, Counted, Handing
  <2> QED
    BY <2>3, <2>5, <2>6 DEF IndInv, Safe
<1>2. IndInv /\ [Next]_vars => IndInv'
  <2> SUFFICES ASSUME IndInv, [Next]_vars PROVE IndInv'
    OBVIOUS
  <2>1. CASE UNCHANGED vars
    BY <2>1 DEF vars, IndInv, TypeOK, FloorOK, AtOK, Safe, Asked, Gate,
                Counted, Playing, Handing, session, markers, caller, silence,
                handoff
  <2> QED
    BY <2>1, SessionStep, WatchStep, ToolStep, LimitStep DEF Next
<1> QED
  BY <1>1, <1>2, PTL DEF Spec

(* Every coroutine is only where the code awaits. *)
THEOREM TypeCorrect == Spec => []TypeOK
<1>1. IndInv => TypeOK
  BY DEF IndInv
<1> QED
  BY <1>1, Inductive, PTL

(* request_transfer: nobody is handed over before he has said something *)
(* since he was asked, by whichever route and however many at once.     *)
THEOREM ConsentIsGiven == Spec => []ConsentBeforeHandoff
<1>1. IndInv => ConsentBeforeHandoff
  BY DEF IndInv, Safe, Gate, ConsentBeforeHandoff
<1> QED
  BY <1>1, Inductive, PTL

(* call_watchdog: where the campaign wants the caller asked, no marker of *)
(* the model hangs up on a handoff, or on a caller who has not answered.  *)
THEOREM HandoffsAreNotHungUp == Confirm => (Spec => NoHangupMidHandoff)
<1> SUFFICES ASSUME Confirm PROVE Spec => NoHangupMidHandoff
  OBVIOUS
<1>1. IndInv /\ [Next]_vars =>
        [HangsUp("watch") /\ ~endedBy' /\ phase = "up"
           => ~Referring /\ ~Unanswered]_vars
  <2> SUFFICES ASSUME IndInv, Next, HangsUp("watch"), ~endedBy'
               PROVE  ~Referring /\ ~Unanswered
    OBVIOUS
  <2>1. AtOK /\ TypeOK
    BY DEF IndInv, TypeOK
  <2>2. at.watch # "deleting" /\ at'.watch = "deleting"
    BY DEF HangsUp
  <2>3. CASE ActOnEnd
    <3>1. at.watch = "asleep" /\ askedAt = Null
      BY <2>3 DEF ActOnEnd, Awake, HandoffPending
    <3> QED
      BY <3>1 DEF IndInv, Safe, Asked, Gate, Handing, Referring, Unanswered
  <2>4. CASE LastPromptSpoken
    BY <2>4 DEF LastPromptSpoken
  <2>5. CASE Session
    BY <2>2, <2>5 DEF Session, SpeechStarts, SpeechEnds, SpeechHangs,
       ReplyStarts, MarkerSeen, Quiet, CallerLeaves, SessionCloses,
       CallerSpeaks
  <2>6. CASE Tool
    <3>1. CASE CallTool
      <4>1. owed \in BOOLEAN /\ RequestTransfer("tool") /\ Asked
        BY <2>1, <3>1 DEF CallTool, TypeOK, IndInv, Safe
      <4> QED
        BY <2>1, <2>2, <4>1, Requests
    <3>2. CASE QuestionSpoken("tool") \/ ReferAnswered("tool")
      BY <2>1, <2>2, <3>2, ToolReturns DEF QuestionSpoken, ReferAnswered
    <3>3. CASE HandoffSpoken("tool")
      BY <2>1, <2>2, <3>3, ToolMoves DEF HandoffSpoken, ToolStates
    <3> QED
      BY <2>6, <3>1, <3>2, <3>3 DEF Tool, Transfer
  <2>7. CASE Limiter
    BY <2>1, <2>2, <2>7, LimitMoves
       DEF Limiter, Limit, FarewellSpoken, DeleteRoom, LimitStates
  <2>8. CASE Watch /\ ~ActOnEnd /\ ~LastPromptSpoken
    <3>1. CASE ActOnTransfer
      <4>1. owed \in BOOLEAN /\ RequestTransfer("watch") /\ Asked
        BY <2>1, <3>1 DEF ActOnTransfer, TypeOK, IndInv, Safe
      <4> QED
        BY <2>1, <2>2, <4>1, Requests
    <3>2. CASE StayAwake \/ IgnoreEnd \/ KeepListening \/ PromptSpoken
               \/ QuestionSpoken("watch") \/ ReferAnswered("watch")
      BY <2>1, <2>2, <3>2, WatchReturns
         DEF StayAwake, IgnoreEnd, KeepListening, PromptSpoken,
             QuestionSpoken, ReferAnswered
    <3>3. CASE StopWatching \/ HandoffSpoken("watch") \/ DeleteRoom("watch")
      BY <2>1, <2>2, <3>3, WatchMoves
         DEF StopWatching, HandoffSpoken, DeleteRoom, WatchStates
    <3>4. CASE Prompt
      BY <2>1, <2>2, <3>4, WatchMoves DEF Prompt, WatchStates
    <3> QED
      BY <2>8, <3>1, <3>2, <3>3, <3>4 DEF Watch, Transfer
  <2> QED
    BY <2>3, <2>4, <2>5, <2>6, <2>7, <2>8 DEF Next
<1> QED
  BY <1>1, Inductive, PTL DEF Spec, NoHangupMidHandoff

(* _on_agent_state: no prompt is queued while the caller hears the agent. *)
THEOREM PromptsWait == Spec => NoPromptOverSpeech
<1>1. IndInv /\ [Next]_vars =>
        [silenceAttempts' > silenceAttempts => ~playing]_vars
  <2> SUFFICES ASSUME IndInv, Next, silenceAttempts' > silenceAttempts
               PROVE  ~playing
    OBVIOUS
  <2>1. silenceAttempts \in Nat /\ TypeOK
    BY ControlAssumption DEF IndInv, TypeOK
  <2>2. CASE Prompt
    BY <2>2 DEF Prompt, Listening, Awake, IndInv, Safe, Playing
  <2>3. CASE \E final \in BOOLEAN : CallerSpeaks(final)
    BY <2>1, <2>3 DEF CallerSpeaks
  <2>4. ASSUME ~Prompt, ~\E final \in BOOLEAN : CallerSpeaks(final)
        PROVE  silenceAttempts' = silenceAttempts
    <3>1. CASE Session
      BY <2>4, <3>1 DEF Session, SpeechStarts, SpeechEnds, SpeechHangs,
         ReplyStarts, MarkerSeen, Quiet, CallerLeaves, SessionCloses, silence
    <3>2. CASE Watch
      BY <2>4, <3>2 DEF Watch, StayAwake, ActOnTransfer, IgnoreEnd, ActOnEnd,
         StopWatching, KeepListening, PromptSpoken, LastPromptSpoken,
         Transfer, QuestionSpoken, HandoffSpoken, ReferAnswered, DeleteRoom,
         silence
    <3>3. CASE Tool \/ Limiter
      BY <3>3 DEF Tool, Limiter, CallTool, Transfer, QuestionSpoken,
         HandoffSpoken, ReferAnswered, Limit, FarewellSpoken, DeleteRoom,
         silence
    <3> QED
      BY <3>1, <3>2, <3>3 DEF Next
  <2> QED
    BY <2>1, <2>2, <2>3, <2>4
<1> QED
  BY <1>1, Inductive, PTL DEF Spec, NoPromptOverSpeech
-----------------------------------------------------------------------------
(* Answering a caller.  A step leaves the line of speeches as it is, puts  *)
(* something at its end, names a speech of it anew or takes one away.      *)

Same == speeches' = speeches

(* The speech at p is taken away. *)
Gone(p) ==
  /\ p \in DOMAIN speeches /\ speeches' \in Seq(Sayings)
  /\ \A i \in DOMAIN speeches' :
       \/ i < p /\ i \in DOMAIN speeches /\ speeches'[i] = speeches[i]
       \/ i >= p /\ i + 1 \in DOMAIN speeches /\ speeches'[i] = speeches[i + 1]

(* What is said is put at the end. *)
Longer(s) ==
  /\ s \in Sayings /\ speeches' \in Seq(Sayings)
  /\ Len(speeches') = Len(speeches) + 1
  /\ speeches'[Len(speeches')] = s
  /\ \A i \in DOMAIN speeches : i \in DOMAIN speeches' /\ speeches'[i] = speeches[i]

LEMMA TailIsGone ==
  ASSUME AnsweringOK, speeches # <<>>, speeches' = Tail(speeches)
  PROVE  Gone(1)
  BY DEF AnsweringOK, Gone

LEMMA RemovedIsGone ==
  ASSUME AnsweringOK, NEW p \in DOMAIN speeches, speeches' = RemoveAt(speeches, p)
  PROVE  Gone(p)
<1>1. /\ speeches \in Seq(Sayings) /\ p \in 1 .. Len(speeches)
  BY DEF AnsweringOK
<1>2. speeches' = SubSeq(speeches, 1, p - 1) \o SubSeq(speeches, p + 1, Len(speeches))
  BY DEF RemoveAt
<1> DEFINE before == SubSeq(speeches, 1, p - 1)
           after == SubSeq(speeches, p + 1, Len(speeches))
<1>3. /\ before \in Seq(Sayings) /\ Len(before) = p - 1
      /\ \A i \in 1 .. p - 1 : before[i] = speeches[i]
  BY <1>1
<1>4. /\ after \in Seq(Sayings) /\ Len(after) = Len(speeches) - p
      /\ \A i \in 1 .. Len(speeches) - p : after[i] = speeches[p + i]
  BY <1>1
<1>5. speeches' = before \o after
  BY <1>2
<1> HIDE DEF before, after
<1>6. /\ speeches' \in Seq(Sayings) /\ Len(speeches') = Len(speeches) - 1
      /\ \A i \in 1 .. Len(speeches) - 1 :
           speeches'[i] = IF i <= p - 1 THEN before[i] ELSE after[i - (p - 1)]
  <2>1. Len(before) + Len(after) = Len(speeches) - 1
    BY <1>1, <1>3, <1>4
  <2>2. /\ before \o after \in Seq(Sayings)
        /\ Len(before \o after) = Len(before) + Len(after)
        /\ \A i \in 1 .. Len(before) + Len(after) :
             (before \o after)[i] = IF i <= Len(before) THEN before[i]
                                     ELSE after[i - Len(before)]
    <3>1. before \in Seq(Sayings) /\ after \in Seq(Sayings)
      BY <1>3, <1>4
    <3> QED
      BY <3>1, ConcatProperties, Zenon
  <2> QED
    BY <1>3, <1>5, <2>1, <2>2
<1>7. ASSUME NEW i \in 1 .. Len(speeches) - 1
      PROVE  /\ i < p => speeches'[i] = speeches[i]
             /\ i >= p => speeches'[i] = speeches[i + 1]
  <2>1. CASE i < p
    BY <1>1, <1>3, <1>6, <2>1
  <2>2. CASE i >= p
    <3>1. speeches'[i] = after[i - (p - 1)]
      BY <1>1, <1>6, <2>2
    <3>2. i - (p - 1) \in 1 .. Len(speeches) - p /\ p + (i - (p - 1)) = i + 1
      BY <1>1, <2>2
    <3>3. after[i - (p - 1)] = speeches[p + (i - (p - 1))]
      BY <1>4, <3>2
    <3> QED
      BY <1>1, <2>2, <3>1, <3>2, <3>3
  <2> QED
    BY <2>1, <2>2
<1>8. DOMAIN speeches' = 1 .. Len(speeches) - 1 /\ DOMAIN speeches = 1 .. Len(speeches)
  BY <1>1, <1>6
<1> QED
  BY <1>1, <1>6, <1>7, <1>8 DEF Gone

LEMMA AppendedIsLonger ==
  ASSUME AnsweringOK, NEW s \in Sayings, Speaks(s)
  PROVE  Longer(s)
  BY DEF AnsweringOK, Speaks, Longer

LEMMA LastIsNew ==
  ASSUME AnsweringOK, NEW s, Longer(s)
  PROVE  \A i \in DOMAIN speeches' \ DOMAIN speeches :
           i = Len(speeches') /\ speeches'[i] = s
<1>1. speeches \in Seq(Sayings) /\ speeches' \in Seq(Sayings)
  BY DEF AnsweringOK, Longer
<1>2. DOMAIN speeches = 1 .. Len(speeches) /\ DOMAIN speeches' = 1 .. Len(speeches')
  BY <1>1
<1>3. Len(speeches) \in Nat /\ Len(speeches') = Len(speeches) + 1
  BY <1>1 DEF Longer
<1>4. speeches'[Len(speeches')] = s
  BY DEF Longer
<1> QED
  BY <1>2, <1>3, <1>4

LEMMA SpeechIsSaying ==
  ASSUME NEW n \in Numbers \cup {0}, NEW kind \in Kinds,
         NEW of \in Numbers \cup {0} \cup Lookups
  PROVE  Speech(kind, n) \in Sayings /\ Filler(kind, n, of) \in Sayings
  BY DEF Speech, Filler, Sayings

LEMMA NumbersAreNat == Numbers \subseteq Nat \ {0}
  BY AnsweringAssumption DEF Numbers

(* A reply that is dropped was in line once, or not at all. *)
LEMMA DroppedReply ==
  ASSUME AnsweringOK, LineIsTheTurns, NEW n \in Numbers, ReplyIsDropped(n)
  PROVE  /\ Same \/ \E p \in DOMAIN speeches : Gone(p)
         /\ speeches' \in Seq(Sayings)
         /\ \A i \in DOMAIN speeches' :
              ~(speeches'[i].kind = "reply" /\ speeches'[i].turn = n)
<1>1. \A i \in DOMAIN speeches : speeches[i].kind = "reply" /\ speeches[i].turn = n
        => i \in Places(n) /\ \A j \in Places(n) : i = j
  BY DEF LineIsTheTurns, Places
<1>2. CASE Places(n) = {}
  BY <1>1, <1>2 DEF ReplyIsDropped, Same, AnsweringOK
<1>3. CASE Places(n) # {}
  <2>1. PICK p \in Places(n) : speeches' = RemoveAt(speeches, p)
    BY <1>3 DEF ReplyIsDropped
  <2>2. p \in DOMAIN speeches
    BY DEF Places
  <2>3. Gone(p)
    BY <2>1, <2>2, RemovedIsGone
  <2>4. ASSUME NEW i \in DOMAIN speeches', speeches'[i].kind = "reply",
               speeches'[i].turn = n
        PROVE  FALSE
    <3>1. p \in Nat /\ i \in Nat
      BY <2>2, <2>3 DEF Gone, AnsweringOK
    <3> QED
      BY <1>1, <2>3, <2>4, <3>1 DEF Gone
  <2> QED
    BY <2>2, <2>3, <2>4 DEF Gone
<1> QED
  BY <1>2, <1>3

(* A reply that is named anew keeps its place. *)
LEMMA NamedReply ==
  ASSUME AnsweringOK, LineIsTheTurns, NEW n \in Numbers,
         NEW kind \in Kinds, ReplyBecomes(n, kind)
  PROVE  /\ speeches' \in Seq(Sayings) /\ DOMAIN speeches' = DOMAIN speeches
         /\ \A i \in DOMAIN speeches :
              IF speeches[i].kind = "reply" /\ speeches[i].turn = n
                THEN speeches'[i].kind = kind /\ speeches'[i].turn = n
                ELSE speeches'[i] = speeches[i]
<1>1. speeches \in Seq(Sayings) /\ Speech(kind, n) \in Sayings
  BY SpeechIsSaying DEF AnsweringOK
<1>2. \A i \in DOMAIN speeches :
        speeches[i].kind = "reply" /\ speeches[i].turn = n <=> speeches[i] = Speech("reply", n)
  BY DEF LineIsTheTurns, Speech, Filler
<1>3. /\ DOMAIN speeches' = DOMAIN speeches
      /\ \A i \in DOMAIN speeches :
           speeches'[i] = IF speeches[i] = Speech("reply", n) THEN Speech(kind, n)
                          ELSE speeches[i]
  BY DEF ReplyBecomes
<1>4. speeches' \in Seq(Sayings)
  <2>1. DOMAIN speeches = 1 .. Len(speeches) /\ Len(speeches) \in Nat
    BY <1>1
  <2>2. speeches' = [i \in 1 .. Len(speeches) |->
           IF speeches[i] = Speech("reply", n) THEN Speech(kind, n) ELSE speeches[i]]
    BY <2>1 DEF ReplyBecomes
  <2>3. \A i \in 1 .. Len(speeches) :
          (IF speeches[i] = Speech("reply", n) THEN Speech(kind, n) ELSE speeches[i])
            \in Sayings
    BY <1>1
  <2> QED
    BY <2>1, <2>2, <2>3
<1>5. Speech(kind, n).kind = kind /\ Speech(kind, n).turn = n
  BY DEF Speech, Filler
<1> QED
  BY <1>2, <1>3, <1>4, <1>5

(* Two speeches at the end, or one. *)
LEMMA SoundAndReply ==
  ASSUME AnsweringOK, NEW n \in Numbers, TakeUpTurn(n)
  PROVE  /\ speeches' \in Seq(Sayings)
         /\ \A i \in DOMAIN speeches : i \in DOMAIN speeches' /\ speeches'[i] = speeches[i]
         /\ \A i \in DOMAIN speeches' \ DOMAIN speeches :
              \/ i = Len(speeches') /\ speeches'[i] = Speech("reply", n)
              \/ speeches'[i] = Speech("sound", n)
<1>1. PICK sound \in {<<>>, <<Speech("sound", n)>>} :
        speeches' = speeches \o sound \o <<Speech("reply", n)>>
  BY DEF TakeUpTurn
<1>2. /\ speeches \in Seq(Sayings)
      /\ Speech("reply", n) \in Sayings /\ Speech("sound", n) \in Sayings
  BY SpeechIsSaying DEF AnsweringOK, Kinds, Fillers
<1>3. CASE sound = <<>>
  <2>1. speeches' = speeches \o <<Speech("reply", n)>>
    BY <1>1, <1>2, <1>3
  <2> QED
    BY <1>2, <2>1
<1>4. CASE sound = <<Speech("sound", n)>>
  <2>1. speeches' = Append(Append(speeches, Speech("sound", n)), Speech("reply", n))
    BY <1>1, <1>2, <1>4
  <2> QED
    BY <1>2, <2>1
<1> QED
  BY <1>1, <1>3, <1>4

Looking == [step : {"unused", "asked", "recording", "over"},
            turn : Numbers \cup {0}, began : 0 .. MaxSpoken,
            timer : {"set", "off"}, tool : BOOLEAN]

(* A lookup that is over waits for nothing any more. *)
LEMMA FinishedLook ==
  Finished \in Looking /\ Finished.step = "over" /\ Finished.timer = "off"
  BY AnsweringAssumption DEF Finished, Waitless, Looking, Numbers

LEMMA TypesKept ==
  ASSUME AnsweringOK, LineIsTheTurns, AnsweringNext
  PROVE  AnsweringOK'
<1> USE AnsweringAssumption DEF AnsweringOK, Numbers
<1>1. CASE Ends
  BY <1>1 DEF Ends
<1>2. CASE SpeakGreeting
  <2>1. Speech("greeting", 0) \in Sayings
    BY SpeechIsSaying DEF Kinds
  <2> QED
    BY <1>2, <2>1, SMTT(60) DEF SpeakGreeting, Speaks, notes
<1>3. CASE GreetingDone \/ GateIsOverdue \/ Begins
  BY <1>3 DEF GreetingDone, GateIsOverdue, Begins, playback, notes
<1>4. CASE CallerStops
  BY <1>4, SMTT(60) DEF CallerStops, playback, notes, Steps
<1>5. ASSUME NEW n \in Numbers, DeclineTurn(n) \/ TakeUpTurn(n)
      PROVE  AnsweringOK'
  <2>1. PICK step \in {"over", "thinking"} : turn' = [turn EXCEPT ![n].step = step]
    BY <1>5 DEF DeclineTurn, TakeUpTurn, Becomes
  <2>2. UNCHANGED <<spoken, look>> /\ turn[n].step = "heard"
    BY <1>5 DEF DeclineTurn, TakeUpTurn, InTurn, notes
  <2>3. speeches' \in Seq(Sayings)
    BY <1>5, SoundAndReply DEF DeclineTurn, playback
  <2> QED
    BY <2>1, <2>2, <2>3, SMTT(60) DEF Steps
<1>6. ASSUME NEW n \in Numbers, Answer(n) PROVE AnsweringOK'
  <2>1. speeches' \in Seq(Sayings)
    BY <1>6, NamedReply DEF Answer, Kinds
  <2> QED
    BY <1>6, <2>1 DEF Answer, MayReply, Becomes, Steps
<1>7. ASSUME NEW n \in Numbers, ReplyAgain(n) PROVE AnsweringOK'
  <2>1. Speech("reply", n) \in Sayings
    BY SpeechIsSaying DEF Kinds
  <2> QED
    BY <1>7, <2>1 DEF ReplyAgain, Speaks, Becomes, Steps
<1>8. ASSUME NEW n \in Numbers, DropReply(n) PROVE AnsweringOK'
  <2>1. speeches' \in Seq(Sayings)
    BY <1>8, DroppedReply DEF DropReply
  <2>2. look' \in [Lookups -> Looking]
    <3>1. Finished \in Looking
      BY FinishedLook
    <3>2. look \in [Lookups -> Looking]
      BY DEF Looking
    <3> QED
      BY <1>8, <3>1, <3>2 DEF DropReply
  <2>3. /\ turn' = [turn EXCEPT ![n].step = "over"] /\ spoken' = spoken
        /\ turn[n].step # "unsaid"
    BY <1>8 DEF DropReply, Becomes
  <2>4. /\ turn' \in [Numbers -> [step : Steps, item : BOOLEAN]]
        /\ \A m \in Numbers : turn'[m].step = "unsaid" <=> turn[m].step = "unsaid"
    BY <2>3 DEF Steps
  <2> QED
    BY <2>1, <2>2, <2>3, <2>4 DEF Looking
<1>9. ASSUME NEW n \in Numbers, CallerItem(n) PROVE AnsweringOK'
  BY <1>9, ZenonT(60) DEF CallerItem, playback
<1>10. ASSUME NEW n \in Numbers, NEW L \in SUBSET Lookups, LookUpFor(n, L)
       PROVE  AnsweringOK'
  <2>1. speeches' \in Seq(Sayings)
    BY <1>10, NamedReply, DroppedReply DEF LookUpFor, Kinds
  <2>2. look' \in [Lookups -> [step : {"unused", "asked", "recording", "over"},
                               turn : Numbers \cup {0}, began : 0 .. MaxSpoken,
                               timer : {"set", "off"}, tool : BOOLEAN]]
    BY <1>10 DEF LookUpFor
  <2> QED
    BY <1>10, <2>1, <2>2 DEF LookUpFor, MayReply, Becomes, Steps
<1>11. ASSUME NEW l \in Lookups, HoldOn(l) PROVE AnsweringOK'
  <2>1. \A kind \in {"wait", "wait, written"} :
          Filler(kind, look[l].turn, l) \in Sayings
    BY DEF Filler, Sayings, Kinds, Fillers
  <2>2. PICK s \in Sayings : speeches' = Append(speeches, s)
    BY <1>11, <2>1 DEF HoldOn, Speaks
  <2>3. speeches' \in Seq(Sayings)
    BY <2>2
  <2> QED
    BY <1>11, <2>3, ZenonT(60) DEF HoldOn
<1>12. ASSUME NEW l \in Lookups, SearchEnds(l) \/ ToolAnswers(l) \/ ToolRecorded(l)
       PROVE  AnsweringOK'
  <2>1. look \in [Lookups -> Looking] /\ Finished \in Looking
    BY FinishedLook DEF Looking
  <2>2. look' \in [Lookups -> Looking]
    <3>1. CASE look' = [look EXCEPT ![l] = Finished]
      BY <2>1, <3>1
    <3>2. CASE \E timer \in {"off", look[l].timer} :
                 look' = [look EXCEPT ![l] = [@ EXCEPT !.step = "recording", !.timer = timer]]
      <4>1. PICK timer \in {"off", look[l].timer} :
              look' = [look EXCEPT ![l] = [@ EXCEPT !.step = "recording", !.timer = timer]]
        BY <3>2
      <4>2. [look[l] EXCEPT !.step = "recording", !.timer = timer] \in Looking
        BY <2>1 DEF Looking
      <4> QED
        BY <2>1, <4>1, <4>2
    <3> QED
      BY <1>12, <3>1, <3>2 DEF SearchEnds, ToolAnswers, ToolRecorded
  <2> QED
    BY <1>12, <2>2 DEF SearchEnds, ToolAnswers, ToolRecorded, playback, Looking
<1> QED
  BY <1>1, <1>2, <1>3, <1>4, <1>5, <1>6, <1>7, <1>8, <1>9, <1>10, <1>11, <1>12
     DEF AnsweringNext

(* Until the greeting is over no turn has been taken up, whatever the *)
(* caller says.                                                       *)
LEMMA NothingYetKept ==
  ASSUME AnsweringOK, LineIsTheTurns, NothingYet, AnsweringNext
  PROVE  NothingYet'
<1> SUFFICES ASSUME opening' \in {"unsaid", "said"}, ~overdue'
             PROVE  /\ ~gate'
                    /\ \A n \in Numbers : turn'[n].step \in {"unsaid", "heard", "over"}
                    /\ \A l \in Lookups : look'[l].timer = "off"
                    /\ \A i \in DOMAIN speeches' : speeches'[i].kind = "greeting"
  BY DEF NothingYet, GreetingComesFirst
<1> USE DEF AnsweringOK, Numbers
<1>a. opening \in {"unsaid", "said"} /\ ~overdue =>
        /\ ~gate
        /\ \A n \in Numbers : turn[n].step \in {"unsaid", "heard", "over"}
        /\ \A l \in Lookups : look[l].timer = "off"
        /\ \A i \in DOMAIN speeches : speeches[i].kind = "greeting"
  BY DEF NothingYet, GreetingComesFirst
<1>1. CASE Ends
  <2>1. Gone(1)
    BY <1>1, TailIsGone DEF Ends
  <2>2. opening \in {"unsaid", "said"} /\ ~overdue
    BY <1>1 DEF Ends
  <2> QED
    BY <1>1, <1>a, <2>1, <2>2 DEF Ends, Gone
<1>2. CASE SpeakGreeting
  <2>1. Speech("greeting", 0) \in Sayings /\ Speech("greeting", 0).kind = "greeting"
    BY SpeechIsSaying DEF Kinds, Speech, Filler
  <2>2. speeches' = Append(speeches, Speech("greeting", 0))
    BY <1>2 DEF SpeakGreeting, Speaks
  <2>3. \A i \in DOMAIN speeches' : speeches'[i].kind = "greeting"
    BY <1>2, <1>a, <2>1, <2>2 DEF SpeakGreeting
  <2> QED
    BY <1>2, <1>a, <2>3 DEF SpeakGreeting, notes
<1>3. CASE GreetingDone \/ GateIsOverdue \/ Begins
  <2>1. ~GreetingDone
    BY DEF GreetingDone, OpenGate
  <2>2. ~GateIsOverdue
    BY DEF GateIsOverdue
  <2>3. UNCHANGED <<gate, overdue, opening, look, turn, speeches>>
    BY <1>3, <2>1, <2>2 DEF Begins, greeting
  <2> QED
    BY <1>a, <2>3
<1>4. CASE CallerStops
  BY <1>4, <1>a DEF CallerStops, playback, notes, greeting
<1>5. ASSUME NEW n \in Numbers, DeclineTurn(n)
      PROVE  /\ UNCHANGED <<gate, overdue, opening, look, speeches>>
             /\ turn' = [turn EXCEPT ![n].step = "over"]
  BY <1>5 DEF DeclineTurn, Becomes, playback, notes, greeting
<1>6. ASSUME NEW n \in Numbers,
             TakeUpTurn(n) \/ Answer(n) \/ ReplyAgain(n) \/ DropReply(n)
      PROVE  FALSE
  <2>1. UNCHANGED <<overdue, opening>>
    BY <1>6 DEF TakeUpTurn, Answer, ReplyAgain, DropReply, greeting
  <2>2. gate \/ turn[n].step \in {"thinking", "looking"}
    BY <1>6, <2>1 DEF TakeUpTurn, Answer, MayReply, ReplyAgain, DropReply
  <2> QED
    BY <1>a, <2>1, <2>2
<1>7. ASSUME NEW n \in Numbers, CallerItem(n)
      PROVE  /\ UNCHANGED <<gate, overdue, opening, look, speeches>>
             /\ \A m \in Numbers : turn'[m].step = turn[m].step
  BY <1>7 DEF CallerItem, playback, greeting
<1>8. ASSUME NEW n \in Numbers, NEW L \in SUBSET Lookups, LookUpFor(n, L)
      PROVE  FALSE
  BY <1>8, <1>a DEF LookUpFor, MayReply, greeting
<1>9. ASSUME NEW l \in Lookups, HoldOn(l) PROVE FALSE
  BY <1>9, <1>a DEF HoldOn, greeting
<1>10. ASSUME NEW l \in Lookups, SearchEnds(l) \/ ToolAnswers(l) \/ ToolRecorded(l)
       PROVE  /\ UNCHANGED <<gate, overdue, opening, turn, speeches>>
              /\ \A k \in Lookups : look'[k].timer \in {"off", look[k].timer}
  <2>1. UNCHANGED <<gate, overdue, opening, turn, speeches>>
    BY <1>10 DEF SearchEnds, ToolAnswers, ToolRecorded, playback, greeting
  <2>2. ASSUME NEW k \in Lookups PROVE look'[k].timer \in {"off", look[k].timer}
    <3>1. CASE SearchEnds(l) \/ ToolRecorded(l)
      <4>1. look'[k] \in {look[k], Finished}
        BY <3>1 DEF SearchEnds, ToolRecorded
      <4> QED
        BY <4>1, FinishedLook
    <3>2. CASE ToolAnswers(l)
      <4>1. PICK timer \in {"off", look[l].timer} :
              look' = [look EXCEPT ![l] = [@ EXCEPT !.step = "recording", !.timer = timer]]
        BY <3>2 DEF ToolAnswers
      <4> QED
        BY <4>1
    <3> QED
      BY <1>10, <3>1, <3>2
  <2> QED
    BY <2>1, <2>2
<1>11. CASE \E n \in Numbers : DeclineTurn(n)
  BY <1>5, <1>11, <1>a, ZenonT(60)
<1>12. CASE \E n \in Numbers : CallerItem(n)
  BY <1>7, <1>12, <1>a
<1>13. CASE \E l \in Lookups : SearchEnds(l) \/ ToolAnswers(l) \/ ToolRecorded(l)
  BY <1>10, <1>13, <1>a
<1> QED
  BY <1>1, <1>2, <1>3, <1>4, <1>6, <1>8, <1>9, <1>11, <1>12, <1>13 DEF AnsweringNext

(* A lookup's time is up only while its turn looks something up, or after *)
(* the turn was given up.                                                 *)
LEMMA HoldsKept ==
  ASSUME AnsweringOK, HoldsAreOpen, AnsweringNext
  PROVE  HoldsAreOpen'
<1> USE DEF AnsweringOK, Numbers
<1> DEFINE Open(l) == look[l].timer = "set" =>
             /\ look[l].step \in {"asked", "recording"} /\ look[l].turn \in Numbers
             /\ turn[look[l].turn].step \in {"looking", "over"}
<1>a. \A l \in Lookups : Open(l)
  BY DEF HoldsAreOpen
<1>b. SUFFICES ASSUME NEW l \in Lookups PROVE Open(l)'
  BY DEF HoldsAreOpen
<1>1. CASE UNCHANGED <<turn, look>>
  BY <1>1, <1>a
<1>2. CASE CallerStops
  BY <1>2, <1>a, AnsweringAssumption DEF CallerStops, notes
<1>3. ASSUME NEW n \in Numbers, DeclineTurn(n) \/ TakeUpTurn(n) \/ Answer(n)
      PROVE  Open(l)'
  <2>1. /\ look' = look /\ turn[n].step \in {"heard", "thinking"}
        /\ \A m \in Numbers : m # n => turn'[m] = turn[m]
    BY <1>3 DEF DeclineTurn, TakeUpTurn, Answer, InTurn, MayReply, Becomes, notes
  <2> QED
    BY <1>a, <2>1, SMTT(60)
<1>4. ASSUME NEW n \in Numbers, ReplyAgain(n) PROVE Open(l)'
  <2>1. /\ look' = look /\ \A m \in Numbers : m # n => turn'[m] = turn[m]
        /\ look[l].turn = n => look[l].step = "over"
    BY <1>4 DEF ReplyAgain, LookedUp, Becomes, notes
  <2> QED
    BY <1>a, <2>1
<1>5. ASSUME NEW n \in Numbers, DropReply(n) PROVE Open(l)'
  <2>1. /\ look'[l] \in {look[l], Finished}
        /\ turn' = [turn EXCEPT ![n].step = "over"]
    BY <1>5 DEF DropReply, Becomes
  <2> QED
    BY <1>a, <2>1, FinishedLook
<1>6. ASSUME NEW n \in Numbers, CallerItem(n) PROVE Open(l)'
  BY <1>6, <1>a DEF CallerItem
<1>7. ASSUME NEW n \in Numbers, NEW L \in SUBSET Lookups, LookUpFor(n, L)
      PROVE  Open(l)'
  <2>1. turn' = [turn EXCEPT ![n].step = "looking"] /\ turn[n].step = "thinking"
    BY <1>7 DEF LookUpFor, MayReply, Becomes
  <2>2. PICK tool \in BOOLEAN :
          look'[l] = IF l \in L THEN [step |-> "asked", turn |-> n, began |-> spoken,
                                      timer |-> "set", tool |-> tool]
                     ELSE look[l]
    BY <1>7 DEF LookUpFor
  <2>3. CASE l \in L
    BY <2>1, <2>2, <2>3
  <2>4. CASE l \notin L
    BY <1>a, <2>1, <2>2, <2>4
  <2> QED
    BY <2>3, <2>4
<1>8. ASSUME NEW k \in Lookups, HoldOn(k) PROVE Open(l)'
  <2>1. turn' = turn /\ look' = [look EXCEPT ![k].timer = "off"]
    BY <1>8 DEF HoldOn
  <2> QED
    BY <1>a, <2>1
<1>9. ASSUME NEW k \in Lookups, SearchEnds(k) \/ ToolAnswers(k) \/ ToolRecorded(k)
      PROVE  Open(l)'
  <2>1. turn' = turn
    BY <1>9 DEF SearchEnds, ToolAnswers, ToolRecorded
  <2>2. CASE SearchEnds(k) \/ ToolRecorded(k)
    BY <1>a, <2>1, <2>2, FinishedLook DEF SearchEnds, ToolRecorded
  <2>3. CASE ToolAnswers(k)
    BY <1>a, <2>1, <2>3 DEF ToolAnswers
  <2> QED
    BY <1>9, <2>2, <2>3
<1>10. CASE Ends \/ SpeakGreeting \/ GreetingDone \/ GateIsOverdue \/ Begins
  BY <1>1, <1>10 DEF Ends, SpeakGreeting, GreetingDone, GateIsOverdue, Begins
<1> QED
  BY <1>2, <1>3, <1>4, <1>5, <1>6, <1>7, <1>8, <1>9, <1>10 DEF AnsweringNext

Line == LineIsTheTurns /\ FillersFirst

(* A line that keeps its order and loses nothing but what it may. *)
LEMMA ShorterLine ==
  ASSUME AnsweringOK, Line, answered' = answered,
         Same \/ \E p \in DOMAIN speeches : Gone(p),
         \A n \in Numbers : turn[n].step = "answered" => turn'[n].step = "answered",
         \A i \in DOMAIN speeches' : speeches'[i].kind = "reply"
           => turn'[speeches'[i].turn].step = "thinking"
  PROVE  Line'
<1> USE DEF AnsweringOK
<1>1. /\ \A i \in DOMAIN speeches' : i \in Nat
      /\ speeches' \in Seq(Sayings)
  BY DEF Same, Gone
<1>2. PICK p \in Nat :
        \A i \in DOMAIN speeches' :
          \/ i < p /\ i \in DOMAIN speeches /\ speeches'[i] = speeches[i]
          \/ i >= p /\ i + 1 \in DOMAIN speeches /\ speeches'[i] = speeches[i + 1]
  <2>1. CASE Same
    <3>1. \A i \in DOMAIN speeches' : i < Len(speeches) + 1
      BY <2>1 DEF Same
    <3> QED
      BY <2>1, <3>1 DEF Same
  <2>2. CASE \E p \in DOMAIN speeches : Gone(p)
    <3>1. PICK q \in DOMAIN speeches : Gone(q)
      BY <2>2
    <3>2. q \in Nat
      OBVIOUS
    <3> QED
      BY <3>1, <3>2 DEF Gone
  <2> QED
    BY <2>1, <2>2
<1> DEFINE old(i) == IF i < p THEN i ELSE i + 1
<1>o. /\ \A i \in DOMAIN speeches' :
           old(i) \in DOMAIN speeches /\ speeches'[i] = speeches[old(i)]
      /\ \A i, j \in DOMAIN speeches' :
           (old(i) < old(j) => i < j) /\ (old(i) = old(j) => i = j)
  BY <1>1, <1>2
<1> HIDE DEF old
<1>3. LineIsTheTurns'
  <2> SUFFICES ASSUME NEW i \in DOMAIN speeches'
               PROVE  /\ speeches'[i].kind = "reply" =>
                           /\ speeches'[i] = Speech("reply", speeches'[i].turn)
                           /\ speeches'[i].turn \in Numbers
                           /\ turn'[speeches'[i].turn].step = "thinking"
                           /\ \A j \in DOMAIN speeches' :
                                speeches'[j] = speeches'[i] => j = i
                      /\ speeches'[i].kind = "answer" =>
                           /\ speeches'[i].turn \in Numbers
                           /\ turn'[speeches'[i].turn].step = "answered"
    BY DEF LineIsTheTurns
  <2>1. \A j \in DOMAIN speeches :
          /\ speeches[j].kind = "reply" =>
               /\ speeches[j] = Speech("reply", speeches[j].turn)
               /\ speeches[j].turn \in Numbers
               /\ \A k \in DOMAIN speeches : speeches[k] = speeches[j] => k = j
          /\ speeches[j].kind = "answer" =>
               speeches[j].turn \in Numbers /\ turn[speeches[j].turn].step = "answered"
    BY DEF Line, LineIsTheTurns
  <2>2. old(i) \in DOMAIN speeches /\ speeches'[i] = speeches[old(i)]
    BY <1>o
  <2>3. speeches'[i].kind = "reply" =>
          \A j \in DOMAIN speeches' : speeches'[j] = speeches'[i] => j = i
    BY <1>o, <2>1, <2>2
  <2> QED
    BY <2>1, <2>2, <2>3
<1>4. FillersFirst'
  <2>1. \A i, j \in DOMAIN speeches :
          /\ speeches[i].kind \in Fillers /\ speeches[j].kind \in {"reply", "answer"}
          /\ speeches[i].turn = speeches[j].turn
          => i < j
    BY DEF Line, FillersFirst
  <2>2. \A i, j \in DOMAIN speeches' :
          /\ speeches'[i].kind \in Fillers /\ speeches'[j].kind \in {"reply", "answer"}
          /\ speeches'[i].turn = speeches'[j].turn
          => i < j
    BY <1>o, <2>1
  <2>3. /\ \A i \in DOMAIN speeches' :
             speeches'[i].kind \in Fillers => speeches'[i].turn \notin answered
        /\ \A n \in answered : n \in Numbers /\ turn[n].step = "answered"
    BY <1>o DEF Line, FillersFirst
  <2> QED
    BY <2>2, <2>3 DEF FillersFirst, Fillers
<1> QED
  BY <1>3, <1>4 DEF Line

(* A line that grows by a filler of a turn without a reply, and by the *)
(* reply of a turn that had none.                                      *)
LEMMA LongerLine ==
  ASSUME AnsweringOK, Line, answered' = answered, speeches' \in Seq(Sayings),
         \A i \in DOMAIN speeches : i \in DOMAIN speeches' /\ speeches'[i] = speeches[i],
         \A n \in Numbers : turn[n].step \in {"thinking", "answered"}
           => turn'[n].step = turn[n].step,
         \A i \in DOMAIN speeches' \ DOMAIN speeches :
           /\ speeches'[i].kind \in Fillers \cup {"reply", "greeting"}
           /\ speeches'[i].kind # "greeting" =>
                /\ speeches'[i].turn \in Numbers
                /\ turn[speeches'[i].turn].step \notin {"thinking", "answered"}
           /\ speeches'[i].kind = "reply" =>
                /\ i = Len(speeches') /\ speeches'[i] = Speech("reply", speeches'[i].turn)
                /\ turn'[speeches'[i].turn].step = "thinking"
  PROVE  Line'
<1> USE DEF AnsweringOK
<1>1. /\ DOMAIN speeches = 1 .. Len(speeches) /\ Len(speeches) \in Nat
      /\ DOMAIN speeches' = 1 .. Len(speeches') /\ Len(speeches') \in Nat
  OBVIOUS
<1>2. \A j \in DOMAIN speeches :
        /\ speeches[j].kind = "reply" =>
             /\ speeches[j] = Speech("reply", speeches[j].turn)
             /\ speeches[j].turn \in Numbers /\ turn[speeches[j].turn].step = "thinking"
             /\ \A k \in DOMAIN speeches : speeches[k] = speeches[j] => k = j
        /\ speeches[j].kind = "answer" =>
             speeches[j].turn \in Numbers /\ turn[speeches[j].turn].step = "answered"
  BY DEF Line, LineIsTheTurns
<1>3. LineIsTheTurns'
  <2> SUFFICES ASSUME NEW i \in DOMAIN speeches'
               PROVE  /\ speeches'[i].kind = "reply" =>
                           /\ speeches'[i] = Speech("reply", speeches'[i].turn)
                           /\ speeches'[i].turn \in Numbers
                           /\ turn'[speeches'[i].turn].step = "thinking"
                           /\ \A j \in DOMAIN speeches' :
                                speeches'[j] = speeches'[i] => j = i
                      /\ speeches'[i].kind = "answer" =>
                           /\ speeches'[i].turn \in Numbers
                           /\ turn'[speeches'[i].turn].step = "answered"
    BY DEF LineIsTheTurns
  <2>1. CASE i \in DOMAIN speeches
    BY <1>2, <2>1
  <2>2. CASE i \notin DOMAIN speeches
    <3>1. speeches'[i].kind # "answer"
      BY <2>2 DEF Fillers
    <3>2. ASSUME speeches'[i].kind = "reply", NEW j \in DOMAIN speeches',
                 speeches'[j] = speeches'[i]
          PROVE  j = i
      <4>1. i = Len(speeches') /\ turn[speeches'[i].turn].step # "thinking"
        BY <2>2, <3>2
      <4>2. CASE j \in DOMAIN speeches
        BY <1>2, <3>2, <4>1, <4>2
      <4>3. CASE j \notin DOMAIN speeches
        BY <3>2, <4>1, <4>3
      <4> QED
        BY <4>2, <4>3
    <3> QED
      BY <2>2, <3>1, <3>2
  <2> QED
    BY <2>1, <2>2
<1>4. FillersFirst'
  <2>1. /\ \A i, j \in DOMAIN speeches :
             /\ speeches[i].kind \in Fillers /\ speeches[j].kind \in {"reply", "answer"}
             /\ speeches[i].turn = speeches[j].turn
             => i < j
        /\ \A i \in DOMAIN speeches :
             speeches[i].kind \in Fillers => speeches[i].turn \notin answered
        /\ \A n \in answered : n \in Numbers /\ turn[n].step = "answered"
    BY DEF Line, FillersFirst
  <2>2. ASSUME NEW i \in DOMAIN speeches', NEW j \in DOMAIN speeches',
               speeches'[i].kind \in Fillers, speeches'[j].kind \in {"reply", "answer"},
               speeches'[i].turn = speeches'[j].turn
        PROVE  i < j
    <3>1. CASE i \in DOMAIN speeches /\ j \in DOMAIN speeches
      BY <2>1, <2>2, <3>1
    <3>2. CASE j \in DOMAIN speeches /\ i \notin DOMAIN speeches
      <4>1. speeches'[i].kind # "greeting"
        BY <2>2 DEF Fillers
      <4>2. turn[speeches'[i].turn].step \notin {"thinking", "answered"}
        BY <3>2, <4>1
      <4>3. speeches'[j] = speeches[j]
        BY <3>2
      <4> QED
        BY <1>2, <2>2, <3>2, <4>2, <4>3
    <3>3. CASE j \notin DOMAIN speeches
      <4>1. speeches'[j].kind = "reply"
        BY <2>2, <3>3 DEF Fillers
      <4>2. j = Len(speeches') /\ i # j
        BY <2>2, <3>3, <4>1 DEF Fillers
      <4> QED
        BY <1>1, <4>2
    <3> QED
      BY <3>1, <3>2, <3>3
  <2>3. \A i \in DOMAIN speeches' :
          speeches'[i].kind \in Fillers => speeches'[i].turn \notin answered
    BY <2>1 DEF Fillers
  <2> QED
    BY <2>1, <2>2, <2>3 DEF FillersFirst, Fillers
<1> QED
  BY <1>3, <1>4 DEF Line

(* A reply that has come to its answer, or to words before a lookup. *)
LEMMA NamedLine ==
  ASSUME AnsweringOK, Line, answered' = answered, NEW n \in Numbers,
         NEW kind \in {"answer", "preamble"}, ReplyBecomes(n, kind),
         turn[n].step = "thinking",
         \A m \in Numbers \ {n} : turn'[m].step = turn[m].step,
         kind = "answer" => turn'[n].step = "answered"
  PROVE  Line'
<1> USE DEF AnsweringOK
<1>1. /\ speeches' \in Seq(Sayings) /\ DOMAIN speeches' = DOMAIN speeches
      /\ \A i \in DOMAIN speeches :
           IF speeches[i].kind = "reply" /\ speeches[i].turn = n
             THEN speeches'[i].kind = kind /\ speeches'[i].turn = n
             ELSE speeches'[i] = speeches[i]
  BY NamedReply DEF Line, Kinds
<1>2. \A j \in DOMAIN speeches :
        /\ speeches[j].kind = "reply" =>
             /\ speeches[j] = Speech("reply", speeches[j].turn)
             /\ speeches[j].turn \in Numbers /\ turn[speeches[j].turn].step = "thinking"
             /\ \A k \in DOMAIN speeches : speeches[k] = speeches[j] => k = j
        /\ speeches[j].kind = "answer" =>
             speeches[j].turn \in Numbers /\ turn[speeches[j].turn].step = "answered"
  BY DEF Line, LineIsTheTurns
<1>3. LineIsTheTurns'
  BY <1>1, <1>2 DEF LineIsTheTurns
<1>4. /\ \A i, j \in DOMAIN speeches :
           /\ speeches[i].kind \in Fillers /\ speeches[j].kind \in {"reply", "answer"}
           /\ speeches[i].turn = speeches[j].turn
           => i < j
      /\ \A i \in DOMAIN speeches :
           speeches[i].kind \in Fillers => speeches[i].turn \notin answered
      /\ \A m \in answered : m \in Numbers /\ turn[m].step = "answered"
  BY DEF Line, FillersFirst
<1>5. FillersFirst'
  <2>1. \A i \in DOMAIN speeches' :
          /\ speeches'[i].kind \in Fillers => speeches'[i] = speeches[i]
          /\ speeches'[i].kind \in {"reply", "answer"} =>
               /\ speeches[i].kind \in {"reply", "answer"}
               /\ speeches'[i].turn = speeches[i].turn
    BY <1>1, ZenonT(60) DEF Fillers
  <2>2. \A i, j \in DOMAIN speeches' :
          /\ speeches'[i].kind \in Fillers /\ speeches'[j].kind \in {"reply", "answer"}
          /\ speeches'[i].turn = speeches'[j].turn
          => i < j
    BY <1>1, <1>4, <2>1
  <2>3. \A i \in DOMAIN speeches' :
          speeches'[i].kind \in Fillers => speeches'[i].turn \notin answered
    BY <1>1, <1>4, <2>1
  <2>4. \A m \in answered : m \in Numbers /\ turn'[m].step = "answered"
    BY <1>4
  <2> QED
    BY <2>2, <2>3, <2>4 DEF FillersFirst, Fillers
<1> QED
  BY <1>3, <1>5 DEF Line

(* Every step keeps the line in order: what fills a pause before what ends *)
(* it, and each reply and answer with its turn's step.                     *)
LEMMA LineKept ==
  ASSUME AnsweringInv, AnsweringNext
  PROVE  Line'
<1>0. AnsweringOK /\ AnsweringOK' /\ Line /\ LineIsTheTurns /\ HoldsAreOpen
  BY TypesKept DEF AnsweringInv, Line
<1>t. /\ turn \in [Numbers -> [step : Steps, item : BOOLEAN]]
      /\ speeches \in Seq(Sayings)
  BY <1>0 DEF AnsweringOK
<1>r. /\ \A i \in DOMAIN speeches : speeches[i].kind = "reply" =>
           speeches[i].turn \in Numbers /\ turn[speeches[i].turn].step = "thinking"
      /\ \A i \in DOMAIN speeches : speeches[i].kind = "answer" =>
           speeches[i].turn \in Numbers /\ turn[speeches[i].turn].step = "answered"
  BY <1>0 DEF LineIsTheTurns
<1>s. ASSUME Same, answered' = answered, NEW n \in Numbers,
             turn[n].step \notin {"thinking", "answered"},
             \A m \in Numbers \ {n} : turn'[m].step = turn[m].step
      PROVE  Line'
  <2>1. speeches' = speeches
    BY <1>s DEF Same
  <2>2. \A i \in DOMAIN speeches' : speeches'[i].kind = "reply"
          => turn'[speeches'[i].turn].step = "thinking"
    BY <1>r, <1>s, <2>1
  <2> QED
    BY <1>0, <1>s, <2>2, ShorterLine
<1>k. ASSUME Same, answered' = answered,
             \A m \in Numbers : turn'[m].step = turn[m].step
      PROVE  Line'
  <2>1. \A i \in DOMAIN speeches' : speeches'[i].kind = "reply"
          => turn'[speeches'[i].turn].step = "thinking"
    BY <1>r, <1>k DEF Same
  <2> QED
    BY <1>0, <1>k, <2>1, ShorterLine
<1>1. CASE Ends
  <2>1. Gone(1) /\ answered' = answered /\ turn' = turn /\ 1 \in DOMAIN speeches
    BY <1>0, <1>1, TailIsGone DEF Ends, Gone
  <2>2. \A i \in DOMAIN speeches' : speeches'[i].kind = "reply"
          => turn'[speeches'[i].turn].step = "thinking"
    BY <1>r, <2>1 DEF Gone
  <2> QED
    BY <1>0, <2>1, <2>2, ShorterLine
<1>2. CASE SpeakGreeting
  <2>1. answered' = answered /\ turn' = turn
    BY <1>2 DEF SpeakGreeting
  <2>2. CASE speeches' = speeches
    BY <1>k, <2>1, <2>2 DEF Same
  <2>3. CASE Speaks(Speech("greeting", 0))
    <3>1. Speech("greeting", 0) \in Sayings /\ Speech("greeting", 0).kind = "greeting"
      BY SpeechIsSaying DEF Kinds, Speech, Filler
    <3>2. Longer(Speech("greeting", 0))
      BY <1>0, <2>3, <3>1, AppendedIsLonger
    <3>3. \A i \in DOMAIN speeches' \ DOMAIN speeches : speeches'[i].kind = "greeting"
      BY <1>t, <3>1, <3>2 DEF Longer
    <3> QED
      BY <1>0, <2>1, <3>2, <3>3, LongerLine DEF Longer
  <2> QED
    BY <1>2, <2>2, <2>3 DEF SpeakGreeting
<1>3. CASE GreetingDone \/ GateIsOverdue
  <2>1. speeches' = speeches /\ answered' = answered /\ turn' = turn
    BY <1>3 DEF GreetingDone, GateIsOverdue, playback
  <2> QED
    BY <1>k, <2>1 DEF Same
<1>4. CASE CallerStops
  <2>1. /\ speeches' = speeches /\ answered' = answered /\ spoken + 1 \in Numbers
        /\ turn' = [turn EXCEPT ![spoken + 1].step = "heard"]
        /\ turn[spoken + 1].step = "unsaid"
    BY <1>0, <1>4, AnsweringAssumption DEF CallerStops, playback, AnsweringOK, Numbers
  <2>2. \A m \in Numbers \ {spoken + 1} : turn'[m].step = turn[m].step
    BY <1>t, <2>1
  <2> QED
    BY <1>s, <2>1, <2>2 DEF Same
<1>5. CASE Begins
  <2>1. /\ speeches # <<>> /\ speeches' = speeches /\ turn' = turn
        /\ \/ answered' = answered
           \/ /\ Head(speeches).kind = "answer"
              /\ answered' = answered \cup {Head(speeches).turn}
    BY <1>5 DEF Begins
  <2>2. CASE answered' = answered
    BY <1>k, <2>1, <2>2 DEF Same
  <2>3. CASE /\ Head(speeches).kind = "answer"
             /\ answered' = answered \cup {Head(speeches).turn}
    <3>1. 1 \in DOMAIN speeches /\ Head(speeches) = speeches[1]
      BY <1>t, <2>1
    <3>2. \A i \in DOMAIN speeches :
            speeches[i].kind \in Fillers /\ speeches[i].turn = speeches[1].turn => i < 1
      BY <1>0, <2>3, <3>1 DEF Line, FillersFirst
    <3>3. \A i \in DOMAIN speeches : ~(i < 1)
      BY <1>t
    <3>4. \A i \in DOMAIN speeches :
            speeches[i].kind \in Fillers => speeches[i].turn \notin answered'
      BY <1>0, <2>3, <3>1, <3>2, <3>3 DEF Line, FillersFirst
    <3>5. \A n \in answered' : n \in Numbers /\ turn[n].step = "answered"
      BY <1>0, <1>r, <2>3, <3>1 DEF Line, FillersFirst
    <3>6. \A i, j \in DOMAIN speeches :
            /\ speeches[i].kind \in Fillers /\ speeches[j].kind \in {"reply", "answer"}
            /\ speeches[i].turn = speeches[j].turn
            => i < j
      BY <1>0 DEF Line, FillersFirst
    <3>7. FillersFirst'
      BY <2>1, <3>4, <3>5, <3>6 DEF FillersFirst, Fillers
    <3>8. LineIsTheTurns'
      BY <1>0, <2>1 DEF LineIsTheTurns
    <3> QED
      BY <3>7, <3>8 DEF Line
  <2> QED
    BY <2>1, <2>2, <2>3
<1>6. ASSUME NEW n \in Numbers, DeclineTurn(n) PROVE Line'
  <2>1. /\ speeches' = speeches /\ answered' = answered /\ turn[n].step = "heard"
        /\ \A m \in Numbers \ {n} : turn'[m].step = turn[m].step
    BY <1>t, <1>6 DEF DeclineTurn, InTurn, Becomes, playback
  <2> QED
    BY <1>s, <2>1 DEF Same
<1>7. ASSUME NEW n \in Numbers, TakeUpTurn(n) PROVE Line'
  <2>1. /\ answered' = answered /\ turn[n].step = "heard"
        /\ turn' = [turn EXCEPT ![n].step = "thinking"]
    BY <1>7 DEF TakeUpTurn, InTurn, Becomes
  <2>2. turn'[n].step = "thinking" /\ \A m \in Numbers \ {n} : turn'[m].step = turn[m].step
    BY <1>t, <2>1
  <2>3. /\ Speech("reply", n).kind = "reply" /\ Speech("reply", n).turn = n
        /\ Speech("sound", n).kind = "sound" /\ Speech("sound", n).turn = n
    BY DEF Speech, Filler
  <2>4. \A i \in DOMAIN speeches' \ DOMAIN speeches :
          /\ speeches'[i].kind \in Fillers \cup {"reply", "greeting"}
          /\ speeches'[i].turn = n
          /\ speeches'[i].kind = "reply" =>
               i = Len(speeches') /\ speeches'[i] = Speech("reply", n)
    BY <1>0, <1>7, <2>3, SoundAndReply DEF Fillers
  <2> QED
    BY <1>0, <1>7, <2>1, <2>2, <2>4, SoundAndReply, LongerLine
<1>8. ASSUME NEW n \in Numbers, Answer(n) PROVE Line'
  <2>1. /\ answered' = answered /\ turn[n].step = "thinking"
        /\ turn' = [turn EXCEPT ![n].step = "answered"] /\ ReplyBecomes(n, "answer")
    BY <1>8 DEF Answer, MayReply, Becomes
  <2>2. turn'[n].step = "answered" /\ \A m \in Numbers \ {n} : turn'[m].step = turn[m].step
    BY <1>t, <2>1
  <2> QED
    BY <1>0, <2>1, <2>2, NamedLine
<1>d. ASSUME NEW n \in Numbers, ReplyIsDropped(n), answered' = answered,
             turn[n].step # "answered",
             \A m \in Numbers \ {n} : turn'[m].step = turn[m].step
      PROVE  Line'
  <2>1. /\ Same \/ \E p \in DOMAIN speeches : Gone(p)
        /\ \A i \in DOMAIN speeches' :
             ~(speeches'[i].kind = "reply" /\ speeches'[i].turn = n)
    BY <1>0, <1>d, DroppedReply
  <2>2. \A i \in DOMAIN speeches' : speeches'[i].kind = "reply" =>
          speeches'[i].turn \in Numbers /\ turn[speeches'[i].turn].step = "thinking"
    BY <1>r, <2>1 DEF Same, Gone
  <2>3. \A i \in DOMAIN speeches' : speeches'[i].kind = "reply"
          => turn'[speeches'[i].turn].step = "thinking"
    BY <1>d, <2>1, <2>2
  <2> QED
    BY <1>0, <1>d, <2>1, <2>3, ShorterLine
<1>9. ASSUME NEW n \in Numbers, NEW L \in SUBSET Lookups, LookUpFor(n, L) PROVE Line'
  <2>1. /\ answered' = answered /\ turn[n].step = "thinking"
        /\ turn' = [turn EXCEPT ![n].step = "looking"]
        /\ ReplyBecomes(n, "preamble") \/ ReplyIsDropped(n)
    BY <1>9 DEF LookUpFor, MayReply, Becomes
  <2>2. \A m \in Numbers \ {n} : turn'[m].step = turn[m].step
    BY <1>t, <2>1
  <2> QED
    BY <1>0, <1>d, <2>1, <2>2, NamedLine
<1>10. ASSUME NEW n \in Numbers, DropReply(n) PROVE Line'
  <2>1. /\ answered' = answered /\ turn[n].step \in {"thinking", "looking"}
        /\ turn' = [turn EXCEPT ![n].step = "over"] /\ ReplyIsDropped(n)
    BY <1>10 DEF DropReply, Becomes
  <2>2. \A m \in Numbers \ {n} : turn'[m].step = turn[m].step
    BY <1>t, <2>1
  <2> QED
    BY <1>d, <2>1, <2>2
<1>11. ASSUME NEW n \in Numbers, ReplyAgain(n) PROVE Line'
  <2>1. /\ answered' = answered /\ turn[n].step = "looking"
        /\ turn' = [turn EXCEPT ![n].step = "thinking"] /\ Speaks(Speech("reply", n))
    BY <1>11 DEF ReplyAgain, Becomes
  <2>2. turn'[n].step = "thinking" /\ \A m \in Numbers \ {n} : turn'[m].step = turn[m].step
    BY <1>t, <2>1
  <2>3. /\ Speech("reply", n).kind = "reply" /\ Speech("reply", n).turn = n
        /\ Speech("reply", n) \in Sayings
    BY SpeechIsSaying DEF Speech, Filler, Kinds
  <2>4. Longer(Speech("reply", n))
    BY <1>0, <2>1, <2>3, AppendedIsLonger
  <2>5. \A i \in DOMAIN speeches' \ DOMAIN speeches :
          i = Len(speeches') /\ speeches'[i] = Speech("reply", n)
    BY <1>t, <2>4 DEF Longer
  <2> QED
    BY <1>0, <2>1, <2>2, <2>3, <2>4, <2>5, LongerLine DEF Longer
<1>12. ASSUME NEW n \in Numbers, CallerItem(n) PROVE Line'
  <2>1. /\ speeches' = speeches /\ answered' = answered
        /\ turn' = [turn EXCEPT ![n].item = TRUE]
    BY <1>12 DEF CallerItem, playback
  <2>2. \A m \in Numbers : turn'[m].step = turn[m].step
    BY <1>t, <2>1
  <2> QED
    BY <1>k, <2>1, <2>2 DEF Same
<1>13. ASSUME NEW l \in Lookups, HoldOn(l) PROVE Line'
  <2>1. /\ look[l].turn \in Numbers
        /\ turn[look[l].turn].step \in {"looking", "over"}
    BY <1>0, <1>13 DEF HoldsAreOpen, HoldOn
  <2>2. PICK kind \in {"wait", "wait, written"} :
          Speaks(Filler(kind, look[l].turn, l))
    BY <1>13 DEF HoldOn
  <2>3. /\ Filler(kind, look[l].turn, l) \in Sayings
        /\ Filler(kind, look[l].turn, l).kind = kind
        /\ Filler(kind, look[l].turn, l).turn = look[l].turn
    BY <2>1, SpeechIsSaying DEF Filler, Kinds, Fillers
  <2>4. PICK saying \in Sayings :
          Speaks(saying) /\ saying.kind = kind /\ saying.turn = look[l].turn
    BY <2>2, <2>3
  <2>5. Longer(saying)
    BY <1>0, <2>4, AppendedIsLonger
  <2>6. \A i \in DOMAIN speeches' \ DOMAIN speeches : speeches'[i] = saying
    BY <1>0, <2>5, LastIsNew
  <2>7. answered' = answered /\ turn' = turn
    BY <1>13 DEF HoldOn
  <2>8. kind \in Fillers /\ kind # "reply"
    BY DEF Fillers
  <2> QED
    BY <1>0, <2>1, <2>4, <2>5, <2>6, <2>7, <2>8, LongerLine DEF Longer
<1>14. ASSUME NEW l \in Lookups, SearchEnds(l) \/ ToolAnswers(l) \/ ToolRecorded(l)
       PROVE  Line'
  <2>1. speeches' = speeches /\ answered' = answered /\ turn' = turn
    BY <1>14 DEF SearchEnds, ToolAnswers, ToolRecorded, playback
  <2> QED
    BY <1>k, <2>1 DEF Same
<1> QED
  BY <1>1, <1>2, <1>3, <1>4, <1>5, <1>6, <1>7, <1>8, <1>9, <1>10, <1>11, <1>12,
     <1>13, <1>14 DEF AnsweringNext

(* What a turn is written with is taken out of what had happened. *)
LEMMA PausesKept ==
  ASSUME AnsweringNext
  PROVE  PausesAreExplainedOnce'
<1>1. CASE timeline' = {}
  BY <1>1 DEF PausesAreExplainedOnce
<1>2. CASE Ends /\ timeline' # {}
  <2>1. AgentItem(Head(speeches)) /\ stopped' = stopped
    BY <1>2 DEF Ends
  <2>2. timeline' = SinceStopped(happened, stopped) /\ happened' = {}
    BY <1>2, <2>1 DEF AgentItem
  <2> QED
    BY <2>1, <2>2 DEF SinceStopped, PausesAreExplainedOnce
<1> QED
  BY <1>1, <1>2 DEF AnsweringNext

(* For any number of speeches, turns and lookups, the order in which a     *)
(* caller is greeted, kept waiting and answered is AnsweringInv's in every *)
(* reachable state (voice_agent.py, the queue of speeches and its          *)
(* fillers).                                                               *)
THEOREM AnsweringInductive == AnsweringSpec => []AnsweringInv
<1>1. AnsweringInit => AnsweringInv
  <2> SUFFICES ASSUME AnsweringInit PROVE AnsweringInv
    OBVIOUS
  <2>1. speeches = <<>> /\ answered = {} /\ timeline = {}
    BY DEF AnsweringInit
  <2>2. AnsweringOK
    BY AnsweringAssumption
       DEF AnsweringInit, AnsweringOK, Waitless, Steps, Numbers
  <2>3. NothingYet /\ HoldsAreOpen
    BY DEF AnsweringInit, NothingYet, GreetingComesFirst, HoldsAreOpen, Waitless
  <2>4. LineIsTheTurns /\ FillersFirst /\ PausesAreExplainedOnce
    BY <2>1 DEF LineIsTheTurns, FillersFirst, PausesAreExplainedOnce
  <2> QED
    BY <2>2, <2>3, <2>4 DEF AnsweringInv
<1>2. AnsweringInv /\ [AnsweringNext]_rvars => AnsweringInv'
  <2>1. CASE AnsweringInv /\ AnsweringNext
    BY <2>1, TypesKept, NothingYetKept, HoldsKept, LineKept, PausesKept
       DEF AnsweringInv, Line
  <2>2. CASE AnsweringInv /\ UNCHANGED rvars
    BY <2>2 DEF AnsweringInv, AnsweringOK, NothingYet, GreetingComesFirst,
       LineIsTheTurns, HoldsAreOpen, FillersFirst, PausesAreExplainedOnce, rvars
  <2> QED
    BY <2>1, <2>2
<1> QED
  BY <1>1, <1>2, PTL DEF AnsweringSpec

(* on_user_turn_completed, _speak_greeting: nothing is said in reply before *)
(* the greeting was heard or its ceiling has passed.                        *)
THEOREM GreetingIsFirst == AnsweringSpec => []GreetingComesFirst
<1>1. AnsweringInv => GreetingComesFirst
  BY DEF AnsweringInv, NothingYet, GreetingComesFirst
<1> QED
  BY <1>1, AnsweringInductive, PTL

(* tools.run, hold_on, _wait_and_timeline: nobody is asked to wait for an   *)
(* answer he has heard or is about to, and a pause is explained once.       *)
THEOREM WaitsAreTrue == AnsweringSpec => []WaitsAreExplained
<1>1. AnsweringInv => WaitsAreExplained
  <2> SUFFICES ASSUME AnsweringInv PROVE WaitsAreExplained
    OBVIOUS
  <2>1. NoWaitAfterTheAnswer
    <3> SUFFICES ASSUME NEW i \in DOMAIN speeches, speeches[i].kind \in Fillers
                 PROVE  /\ speeches[i].turn \notin answered
                        /\ \A j \in 1 .. i - 1 :
                             speeches[j] # Speech("answer", speeches[i].turn)
      BY DEF NoWaitAfterTheAnswer
    <3>1. speeches \in Seq(Sayings) /\ FillersFirst
      BY DEF AnsweringInv, AnsweringOK
    <3>2. ASSUME NEW j \in 1 .. i - 1, speeches[j] = Speech("answer", speeches[i].turn)
          PROVE  FALSE
      <4>1. /\ j \in DOMAIN speeches /\ i \in Nat /\ j \in Nat /\ ~(i < j)
        BY <3>1
      <4>2. speeches[j].kind = "answer" /\ speeches[j].turn = speeches[i].turn
        BY <3>2 DEF Speech, Filler
      <4> QED
        BY <3>1, <4>1, <4>2 DEF FillersFirst
    <3> QED
      BY <3>1, <3>2 DEF FillersFirst
  <2> QED
    BY <2>1 DEF AnsweringInv, WaitsAreExplained
<1> QED
  BY <1>1, AnsweringInductive, PTL

-----------------------------------------------------------------------------
(* What a caller says is answered once (Listening).  A final is dropped or *)
(* passed on as the texts passed on of its segment say: they have no more  *)
(* words than the last that was promoted.                                  *)
LEMMA FinalGoes ==
  ASSUME ListeningOK, NEW t \in Nat, NEW d \in BOOLEAN, NEW s \in Nat,
         finals' = Append(finals, [text |-> t, of |-> s, dropped |-> d]),
         LateFinalsAreDropped, d <=> Delivered(t, s) # {}
  PROVE  /\ finals' \in Seq(Final) /\ Len(finals') = Len(finals) + 1
         /\ finals'[Len(finals) + 1] = [text |-> t, of |-> s, dropped |-> d]
         /\ \A k \in DOMAIN finals : finals'[k] = finals[k] /\ k \in DOMAIN finals'
         /\ \A k \in DOMAIN finals' : k \in DOMAIN finals \/ k = Len(finals) + 1
         /\ LateFinalsAreDropped'
<1> DEFINE f == [text |-> t, of |-> s, dropped |-> d]
           n == Len(finals) + 1
<1>1. finals \in Seq(Final) /\ f \in Final /\ n \in Nat
  BY DEF ListeningOK, Final
<1>2. /\ finals' \in Seq(Final) /\ Len(finals') = n /\ finals'[n] = f
      /\ \A k \in DOMAIN finals : finals'[k] = finals[k] /\ k \in DOMAIN finals' /\ k < n
      /\ \A k \in DOMAIN finals' : k \in DOMAIN finals \/ k = n
      /\ DOMAIN finals = 1 .. Len(finals)
  BY <1>1
<1>3. ASSUME NEW k \in DOMAIN finals'
      PROVE  (finals[k].dropped <=> \E j \in Delivered(finals[k].text, finals[k].of) : j < k)'
  <2>1. CASE k \in DOMAIN finals
    <3>1. finals[k].dropped <=> \E j \in Delivered(finals[k].text, finals[k].of) : j < k
      BY <2>1 DEF LateFinalsAreDropped
    <3>2. \A j \in DOMAIN finals' : j < k => j \in DOMAIN finals
      BY <1>1, <1>2, <2>1
    <3> QED
      BY <1>2, <2>1, <3>1, <3>2 DEF Delivered
  <2>2. CASE k = n
    <3>1. \A j \in DOMAIN finals' : j < n <=> j \in DOMAIN finals
      BY <1>1, <1>2
    <3>2. finals'[k].text = t /\ finals'[k].of = s /\ finals'[k].dropped = d
      BY <1>2, <2>2
    <3> QED
      BY <1>2, <2>2, <3>1, <3>2 DEF Delivered
  <2> QED
    BY <1>2, <2>1, <2>2
<1> QED
  BY <1>2, <1>3 DEF LateFinalsAreDropped

LEMMA EventFacts ==
  ASSUME NEW q \in Seq(Recognised), NEW i \in DOMAIN q
  PROVE  q[i] \in Recognised /\ q[i].text \in Nat /\ q[i].of \in Nat
<1>1. q[i] \in Recognised
  OBVIOUS
<1>2. q[i].text \in 1 .. MaxWords /\ q[i].of \in Nat
  BY <1>1 DEF Recognised
<1> QED
  BY <1>1, <1>2, ListeningAssumption

(* The queue grows behind.                                                 *)
LEMMA RecogniseStep ==
  ASSUME ListeningInv, Recognise PROVE ListeningInv'
<1> USE ListeningAssumption
<1>0. ListeningOK /\ InOrder /\ HeardInOrder /\ AnsweredOnceInTime
  BY DEF ListeningInv
<1>1. /\ UNCHANGED <<pending, age, lastText, promoted, shown, finals>>
      /\ queue \in Seq(Recognised) /\ Len(queue) \in Nat /\ words \in Nat /\ segment \in Nat
  BY <1>0 DEF Recognise, ListeningOK
<1>2. PICK e \in Recognised :
        /\ queue' = Append(queue, e) /\ e.of = segment /\ e.text >= words /\ words' \in Nat
        /\ IF e.type = "final" THEN segment' = segment + 1 /\ words' = 0
           ELSE segment' = segment /\ words' = e.text
  <2>1. CASE \E n \in 1 .. MaxWords :
               /\ n > words \/ (n = words /\ repeats < MaxRepeats)
               /\ queue' = Append(queue, Event("interim", n))
               /\ words' = n /\ UNCHANGED segment
    <3>1. PICK n \in 1 .. MaxWords :
               /\ n > words \/ (n = words /\ repeats < MaxRepeats)
               /\ queue' = Append(queue, Event("interim", n))
               /\ words' = n /\ UNCHANGED segment
      BY <2>1
    <3>2. Event("interim", n) \in Recognised /\ n \in Nat
      BY <1>1 DEF Event, Recognised
    <3> QED
      BY <1>1, <3>1, <3>2 DEF Event
  <2>2. CASE \E n \in 1 .. MaxWords :
               /\ n >= words
               /\ queue' = Append(queue, Event("final", n))
               /\ segment' = segment + 1 /\ words' = 0
    <3>1. PICK n \in 1 .. MaxWords :
               /\ n >= words
               /\ queue' = Append(queue, Event("final", n))
               /\ segment' = segment + 1 /\ words' = 0
      BY <2>2
    <3>2. Event("final", n) \in Recognised
      BY <1>1 DEF Event, Recognised
    <3> QED
      BY <1>1, <3>1, <3>2 DEF Event
  <2> QED
    BY <2>1, <2>2 DEF Recognise
<1>3. /\ queue' \in Seq(Recognised) /\ Len(queue') = Len(queue) + 1 /\ queue'[Len(queue) + 1] = e
      /\ \A i \in DOMAIN queue : queue'[i] = queue[i]
      /\ DOMAIN queue = 1 .. Len(queue) /\ DOMAIN queue' = 1 .. Len(queue) + 1
      /\ segment' \in Nat
  BY <1>1, <1>2
<1>4. e.text \in Nat /\ e.of \in Nat /\ e.type \in {"interim", "final"}
  BY <1>1, <1>2 DEF Recognised
<1>5. \A i \in 0 .. Len(queue) : SegmentAfter(i)' = SegmentAfter(i)
  BY <1>1, <1>2, <1>3 DEF SegmentAfter
<1>6. \A i \in 0 .. Len(queue) : TextAfter(i)' >= TextAfter(i)
  <2> SUFFICES ASSUME NEW i \in 0 .. Len(queue) PROVE TextAfter(i)' >= TextAfter(i)
    OBVIOUS
  <2>1. CASE i < Len(queue)
    <3>1. i + 1 \in DOMAIN queue
      BY <1>1, <1>3, <2>1
    <3>2. queue[i + 1].text \in Nat
      BY <1>1, <3>1, EventFacts
    <3> QED
      BY <1>1, <1>3, <2>1, <3>1, <3>2 DEF TextAfter
  <2>2. CASE i = Len(queue)
    BY <1>1, <1>2, <1>3, <1>4, <2>2 DEF TextAfter
  <2> QED
    BY <1>1, <2>1, <2>2
<1>7. ListeningOK'
  BY <1>0, <1>1, <1>2, <1>3 DEF ListeningOK
<1>8. \A i \in 0 .. Len(queue) : TextAfter(i) \in Nat /\ TextAfter(i)' \in Nat
  <2> SUFFICES ASSUME NEW i \in 0 .. Len(queue) PROVE TextAfter(i) \in Nat /\ TextAfter(i)' \in Nat
    OBVIOUS
  <2>1. i < Len(queue) => i + 1 \in DOMAIN queue
    BY <1>1, <1>3
  <2>2. i + 1 \in DOMAIN queue'
    BY <1>1, <1>3
  <2>3. \A k \in DOMAIN queue : queue[k].text \in Nat
    BY <1>1, EventFacts
  <2>4. \A k \in DOMAIN queue' : queue'[k].text \in Nat
    BY <1>3, EventFacts
  <2> QED
    BY <1>1, <1>2, <2>1, <2>2, <2>3, <2>4 DEF TextAfter
<1>9. InOrder'
  <2> SUFFICES ASSUME NEW i \in DOMAIN queue'
               PROVE  (IF queue[i].type = "final" THEN SegmentAfter(i) = queue[i].of + 1
                       ELSE SegmentAfter(i) = queue[i].of /\ TextAfter(i) >= queue[i].text)'
    BY DEF InOrder
  <2>1. CASE i \in DOMAIN queue
    <3>1. i \in 0 .. Len(queue) /\ queue[i].text \in Nat
      BY <1>1, <1>3, <2>1, EventFacts
    <3>2. /\ SegmentAfter(i)' = SegmentAfter(i) /\ queue'[i] = queue[i]
          /\ TextAfter(i)' >= TextAfter(i) /\ TextAfter(i) \in Nat /\ TextAfter(i)' \in Nat
      BY <1>3, <1>5, <1>6, <1>8, <2>1, <3>1
    <3> QED
      BY <1>0, <2>1, <3>1, <3>2 DEF InOrder
  <2>2. CASE i = Len(queue) + 1
    <3>1. SegmentAfter(i)' = segment' /\ TextAfter(i)' = words' /\ queue'[i] = e
      BY <1>1, <1>3, <2>2 DEF SegmentAfter, TextAfter
    <3> QED
      BY <1>2, <1>4, <3>1
  <2> QED
    BY <1>1, <1>3, <2>1, <2>2
<1>10. HeardInOrder'
  <2>1. /\ TextAfter(0)' >= TextAfter(0) /\ TextAfter(0) \in Nat /\ TextAfter(0)' \in Nat
        /\ SegmentAfter(0)' = SegmentAfter(0) /\ promoted \in Nat /\ pending \in Nat
    BY <1>0, <1>1, <1>5, <1>6, <1>8, SMTT(60) DEF ListeningOK
  <2>2. TextAfter(0)' >= promoted /\ TextAfter(0)' >= pending
    BY <1>0, <2>1 DEF HeardInOrder
  <2>3. Delivered(promoted, SegmentAfter(0))' = Delivered(promoted, SegmentAfter(0))
    BY <1>1, <2>1 DEF Delivered
  <2> QED
    BY <1>0, <1>1, <2>1, <2>2, <2>3 DEF HeardInOrder
<1>11. AnsweredOnceInTime'
  BY <1>0, <1>1 DEF AnsweredOnceInTime, LateFinalsAreDropped, TheClockRuns, Delivered
<1> QED
  BY <1>7, <1>9, <1>10, <1>11 DEF ListeningInv

(* The first event of the queue is read.                                   *)
LEMMA QueueGoes ==
  ASSUME ListeningOK, InOrder, queue # <<>>, queue' = Tail(queue), UNCHANGED <<segment, words>>
  PROVE  /\ queue' \in Seq(Recognised) /\ Head(queue) \in Recognised /\ InOrder'
         /\ SegmentAfter(0) = Head(queue).of /\ TextAfter(0) = Head(queue).text
         /\ IF Head(queue).type = "final" THEN SegmentAfter(0)' = Head(queue).of + 1
            ELSE SegmentAfter(0)' = Head(queue).of /\ TextAfter(0)' >= Head(queue).text
         /\ TextAfter(0)' \in Nat
<1>0. queue \in Seq(Recognised) /\ segment \in Nat /\ words \in Nat
  BY DEF ListeningOK
<1>1. /\ queue' \in Seq(Recognised) /\ Len(queue) \in Nat /\ Len(queue) >= 1 /\ Len(queue') = Len(queue) - 1
      /\ \A i \in 1 .. Len(queue) - 1 : queue'[i] = queue[i + 1]
      /\ Head(queue) = queue[1] /\ DOMAIN queue = 1 .. Len(queue) /\ DOMAIN queue' = 1 .. Len(queue) - 1
  BY <1>0
<1>2. \A i \in 0 .. Len(queue) - 1 : SegmentAfter(i)' = SegmentAfter(i + 1) /\ TextAfter(i)' = TextAfter(i + 1)
  <2> SUFFICES ASSUME NEW i \in 0 .. Len(queue) - 1
               PROVE  SegmentAfter(i)' = SegmentAfter(i + 1) /\ TextAfter(i)' = TextAfter(i + 1)
    OBVIOUS
  <2>1. i + 1 < Len(queue) => queue'[i + 1] = queue[i + 1 + 1]
    BY <1>1
  <2>2. i < Len(queue') <=> i + 1 < Len(queue)
    BY <1>1
  <2> QED
    BY <2>1, <2>2 DEF SegmentAfter, TextAfter
<1>3. ASSUME NEW i \in DOMAIN queue'
      PROVE  (IF queue[i].type = "final" THEN SegmentAfter(i) = queue[i].of + 1
              ELSE SegmentAfter(i) = queue[i].of /\ TextAfter(i) >= queue[i].text)'
  <2>1. i \in 0 .. Len(queue) - 1 /\ i + 1 \in DOMAIN queue /\ queue'[i] = queue[i + 1]
    BY <1>1
  <2> QED
    BY <1>2, <2>1 DEF InOrder
<1>4. SegmentAfter(0) = Head(queue).of /\ TextAfter(0) = Head(queue).text
  BY <1>1 DEF SegmentAfter, TextAfter
<1>5. IF Head(queue).type = "final" THEN SegmentAfter(0)' = Head(queue).of + 1
      ELSE SegmentAfter(0)' = Head(queue).of /\ TextAfter(0)' >= Head(queue).text
  <2>1. 1 \in DOMAIN queue /\ 0 \in 0 .. Len(queue) - 1
    BY <1>1
  <2>2. SegmentAfter(0)' = SegmentAfter(1) /\ TextAfter(0)' = TextAfter(1)
    BY <1>2, <2>1
  <2> QED
    BY <1>1, <2>1, <2>2 DEF InOrder
<1>6. TextAfter(0)' \in Nat
  <2>1. 0 < Len(queue') => queue'[1].text \in Nat
    BY <1>1, EventFacts
  <2> QED
    BY <1>0, <2>1 DEF TextAfter
<1>7. Head(queue) \in Recognised
  BY <1>0, <1>1
<1>8. InOrder'
  BY <1>3 DEF InOrder
<1> QED
  BY <1>1, <1>4, <1>5, <1>6, <1>7, <1>8

LEMMA ReadStep ==
  ASSUME ListeningInv, TakeEvent PROVE ListeningInv'
<1> PICK e \in Recognised : e = Head(queue)
  BY QueueGoes DEF ListeningInv, TakeEvent
<1> PICK s \in Nat : s = SegmentAfter(0)
  BY QueueGoes DEF ListeningInv, TakeEvent, Recognised
<1>0. /\ ListeningOK /\ InOrder /\ HeardInOrder /\ LateFinalsAreDropped /\ TheClockRuns
      /\ queue # <<>> /\ queue' = Tail(queue) /\ UNCHANGED <<segment, words>>
  BY DEF ListeningInv, AnsweredOnceInTime, TakeEvent
<1>1. /\ queue' \in Seq(Recognised) /\ InOrder' /\ s = e.of /\ TextAfter(0) = e.text
      /\ IF e.type = "final" THEN SegmentAfter(0)' = s + 1
         ELSE SegmentAfter(0)' = s /\ TextAfter(0)' >= e.text
      /\ TextAfter(0)' \in Nat
  BY <1>0, QueueGoes
<1>2. e.text \in Nat /\ e.text # 0 /\ e.type \in {"interim", "final"}
  BY ListeningAssumption DEF Recognised
<1>3. /\ pending \in Nat /\ promoted \in Nat /\ lastText = shown /\ age \in Nat /\ shown \in Nat
      /\ e.text >= promoted /\ e.text >= pending /\ shown \in {0, promoted, pending}
      /\ pending # 0 => pending > promoted /\ shown = pending
      /\ \A k \in DOMAIN finals : finals[k].of <= s /\ (finals[k].of = s => finals[k].text <= promoted)
      /\ promoted # 0 => Delivered(promoted, s) # {}
  BY <1>0, <1>1 DEF ListeningOK, HeardInOrder, TheClockRuns
<1>6. ASSUME NEW k \in DOMAIN finals
      PROVE  finals[k].text \in Nat /\ finals[k].of \in Nat /\ finals[k].dropped \in BOOLEAN
  <2>1. finals[k] \in Final
    BY <1>0 DEF ListeningOK
  <2> QED
    BY <2>1 DEF Final
<1>4. CASE e.type = "interim"
  <2>1. TakeInterim(e)
    BY <1>4 DEF TakeEvent
  <2>2. finals' = finals /\ promoted' = promoted
    BY <2>1 DEF TakeInterim
  <2>3. SegmentAfter(0)' = s /\ TextAfter(0)' >= e.text
    BY <1>1, <1>4
  <2>4. CASE e.text = promoted
    <3>1. UNCHANGED <<pending, age, lastText, promoted, shown, finals>>
      BY <2>1, <2>4 DEF TakeInterim
    <3>2. HeardInOrder'
      BY <1>1, <1>2, <1>3, <2>3, <3>1 DEF HeardInOrder, Delivered
    <3>3. ListeningOK' /\ AnsweredOnceInTime'
      BY <1>0, <1>1, <3>1 DEF ListeningOK, AnsweredOnceInTime, LateFinalsAreDropped, TheClockRuns, Delivered
    <3> QED
      BY <1>1, <3>2, <3>3 DEF ListeningInv
  <2>5. CASE e.text # promoted
    <3>1. /\ shown' = e.text /\ lastText' = e.text /\ age' \in Nat
          /\ pending' = e.text \/ (e.text = lastText /\ pending' = pending)
      BY <1>3, <2>1, <2>5 DEF TakeInterim
    <3>2. pending' = e.text
      BY <1>2, <1>3, <2>5, <3>1
    <3>3. HeardInOrder'
      BY <1>1, <1>2, <1>3, <2>2, <2>3, <2>5, <3>1, <3>2 DEF HeardInOrder, Delivered
    <3>4. ListeningOK'
      BY <1>0, <1>1, <1>2, <2>2, <3>1, <3>2 DEF ListeningOK
    <3>5. AnsweredOnceInTime'
      BY <1>0, <2>2, <3>1, <3>2 DEF AnsweredOnceInTime, LateFinalsAreDropped, TheClockRuns, Delivered
    <3> QED
      BY <1>1, <3>3, <3>4, <3>5 DEF ListeningInv
  <2> QED
    BY <2>4, <2>5
<1>5. CASE e.type = "final"
  <2>1. TakeFinal(e)
    BY <1>5 DEF TakeEvent
  <2>2. pending' = 0 /\ lastText' = 0 /\ promoted' = 0 /\ shown' = 0 /\ age' = age
    BY <2>1 DEF TakeFinal
  <2> PICK d \in BOOLEAN : d = (e.text = promoted)
    OBVIOUS
  <2>3. finals' = Append(finals, [text |-> e.text, of |-> s, dropped |-> d])
    BY <1>1, <2>1 DEF TakeFinal, Passed, Dropped
  <2>4. d <=> Delivered(e.text, s) # {}
    <3>1. CASE e.text = promoted
      BY <1>2, <1>3, <3>1
    <3>2. CASE e.text # promoted
      <4>1. \A k \in DOMAIN finals : finals[k].of = s => finals[k].text # e.text
        BY <1>2, <1>3, <1>6, <3>2
      <4> QED
        BY <3>2, <4>1 DEF Delivered
    <3> QED
      BY <3>1, <3>2
  <2>5. /\ finals' \in Seq(Final) /\ LateFinalsAreDropped'
        /\ finals'[Len(finals) + 1] = [text |-> e.text, of |-> s, dropped |-> d]
        /\ \A k \in DOMAIN finals : finals'[k] = finals[k]
        /\ \A k \in DOMAIN finals' : k \in DOMAIN finals \/ k = Len(finals) + 1
    BY <1>0, <1>2, <2>3, <2>4, FinalGoes
  <2>6. \A k \in DOMAIN finals' : finals'[k].of <= s /\ finals'[k].of \in Nat
    BY <1>1, <1>3, <1>6, <2>5
  <2>7. SegmentAfter(0)' = s + 1
    BY <1>1, <1>5
  <2>8. HeardInOrder'
    BY <1>1, <2>2, <2>6, <2>7 DEF HeardInOrder
  <2>9. ListeningOK'
    BY <1>0, <1>1, <2>2, <2>5 DEF ListeningOK
  <2> QED
    BY <1>1, <2>2, <2>5, <2>8, <2>9 DEF ListeningInv, AnsweredOnceInTime, TheClockRuns
<1> QED
  BY <1>2, <1>4, <1>5

LEMMA PromoteStep ==
  ASSUME ListeningInv, TimeOut PROVE ListeningInv'
<1>0. /\ ListeningOK /\ InOrder /\ HeardInOrder /\ LateFinalsAreDropped /\ TheClockRuns
      /\ queue = <<>> /\ pending # 0 /\ promoted' = pending /\ pending' = 0
      /\ UNCHANGED <<segment, words, repeats, queue, age, lastText, shown>>
  BY DEF ListeningInv, AnsweredOnceInTime, TimeOut
<1>1. /\ SegmentAfter(0) = segment /\ TextAfter(0) = words /\ segment \in Nat /\ words \in Nat
      /\ SegmentAfter(0)' = segment /\ TextAfter(0)' = words
  BY <1>0 DEF SegmentAfter, TextAfter, ListeningOK
<1>2. /\ pending \in Nat /\ promoted \in Nat /\ words >= pending /\ pending > promoted /\ shown = pending
      /\ \A k \in DOMAIN finals : finals[k].of <= segment /\ (finals[k].of = segment => finals[k].text <= promoted)
      /\ \A k \in DOMAIN finals : finals[k] \in Final
  BY <1>0, <1>1 DEF ListeningOK, HeardInOrder
<1>3. finals' = Append(finals, [text |-> pending, of |-> segment, dropped |-> FALSE])
  BY DEF TimeOut, Passed
<1>4. Delivered(pending, segment) = {}
  BY <1>2 DEF Delivered, Final
<1>5. /\ finals' \in Seq(Final) /\ LateFinalsAreDropped' /\ Len(finals') = Len(finals) + 1
      /\ finals'[Len(finals) + 1] = [text |-> pending, of |-> segment, dropped |-> FALSE]
      /\ \A k \in DOMAIN finals : finals'[k] = finals[k]
      /\ \A k \in DOMAIN finals' : k \in DOMAIN finals \/ k = Len(finals) + 1
  BY <1>0, <1>1, <1>2, <1>3, <1>4, FinalGoes
<1>6. \A k \in DOMAIN finals' : finals'[k].of <= segment /\ (finals'[k].of = segment => finals'[k].text <= pending)
  <2>1. ASSUME NEW k \in DOMAIN finals
        PROVE  finals[k].of <= segment /\ (finals[k].of = segment => finals[k].text <= pending)
    <3>1. finals[k] \in Final
      BY <1>2
    <3>2. finals[k].text \in Nat /\ finals[k].of \in Nat
      BY <3>1 DEF Final
    <3> QED
      BY <1>1, <1>2, <3>2
  <2>2. finals'[Len(finals) + 1].of = segment /\ finals'[Len(finals) + 1].text = pending
    BY <1>5
  <2> QED
    BY <1>1, <1>2, <1>5, <2>1, <2>2
<1>7. Delivered(promoted, segment)' # {}
  <2>1. Len(finals) + 1 \in DOMAIN finals'
    BY <1>5
  <2> DEFINE k == Len(finals) + 1
  <2>2. finals'[k].text = pending /\ finals'[k].of = segment /\ finals'[k].dropped = FALSE
    BY <1>5
  <2>3. \E i \in DOMAIN finals' : finals'[i].text = promoted' /\ finals'[i].of = segment /\ ~finals'[i].dropped
    BY <1>0, <2>1, <2>2
  <2> QED
    BY <1>0, <2>3 DEF Delivered
<1>8. HeardInOrder'
  BY <1>0, <1>1, <1>2, <1>6, <1>7 DEF HeardInOrder
<1>9. ListeningOK'
  BY <1>0, <1>2, <1>5 DEF ListeningOK
<1>10. InOrder' /\ TheClockRuns'
  BY <1>0, <1>2 DEF InOrder, TheClockRuns
<1> QED
  BY <1>5, <1>8, <1>9, <1>10 DEF ListeningInv, AnsweredOnceInTime

(* For any words, segments and delays, what is read of a provisional       *)
(* transcript is ListeningInv's in every reachable state (_stt_events,     *)
(* voice_agent.py).                                                        *)
THEOREM ListeningInductive == ListeningSpec => []ListeningInv
<1>1. ListeningInit => ListeningInv
  BY DEF ListeningInit, ListeningInv, ListeningOK, InOrder, HeardInOrder, SegmentAfter, TextAfter,
         AnsweredOnceInTime, LateFinalsAreDropped, TheClockRuns, Delivered
<1>2. ASSUME ListeningInv, [ListeningNext]_lvars PROVE ListeningInv'
  <2>1. CASE Clock
    <3>1. UNCHANGED <<segment, words, queue, pending, lastText, promoted, shown, finals>> /\ age' = age + 1
      BY <2>1 DEF Clock
    <3> QED
      BY <1>2, <3>1 DEF ListeningInv, ListeningOK, InOrder, HeardInOrder, SegmentAfter, TextAfter,
         AnsweredOnceInTime, LateFinalsAreDropped, TheClockRuns, Delivered
  <2>2. CASE UNCHANGED lvars
    BY <1>2, <2>2 DEF lvars, ListeningInv, ListeningOK, InOrder, HeardInOrder, SegmentAfter, TextAfter,
         AnsweredOnceInTime, LateFinalsAreDropped, TheClockRuns, Delivered
  <2> QED
    BY <1>2, <2>1, <2>2, RecogniseStep, ReadStep, PromoteStep DEF ListeningNext
<1> QED
  BY <1>1, <1>2, PTL DEF ListeningSpec

(* _stt_events: nobody is answered twice on the same words, a second "yes" *)
(* is not taken for the first one's late final, and no words wait without  *)
(* a clock, however many are spoken and however late they are called final. *)
THEOREM AnsweredOnce == ListeningSpec => []AnsweredOnceInTime
<1>1. ListeningInv => AnsweredOnceInTime
  BY DEF ListeningInv
<1> QED
  BY <1>1, ListeningInductive, PTL

=============================================================================
