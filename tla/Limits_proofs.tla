---------------------------- MODULE Limits_proofs ----------------------------
(* The safety of what is read by many and acted on afterwards, for any     *)
(* calls, limits and seconds, clients and campaigns: the queue of a        *)
(* campaign (Admission), then the way of a call to its campaign (Routing), *)
(* then what a web chat may cost and what it is answered from (WebChat).   *)
EXTENDS Admission, WebChat, Routing, FiniteSetTheorems, TLAPS

(* The ranges of the variables. *)
Types ==
  /\ limit \in Limits \cup {Null}
  /\ at \in [Calls -> Places]
  /\ qmax \in [Calls -> Limits \cup {Null}]
  /\ waited \in [Calls -> 0..Late]
  /\ left \in [Calls -> 0..Message]
  /\ qi \in [Calls -> 0..Gap]
  /\ group \subseteq Calls /\ crowd \subseteq Calls
  /\ tested \in Nat

(* Whoever plays or waits will be back at the clock in time. *)
InTime(c) ==
  /\ at[c] = "new" => waited[c] = 0
  /\ at[c] \in {"qgap", "wait"} => qi[c] < Gap
  /\ at[c] \in Looking => waited[c] <= MaxWait + Message
  /\ at[c] \in Held => waited[c] + left[c] <= MaxWait + Message

(* Who queues is under a limit, and only who is through holds a slot. *)
Slots ==
  /\ \A c \in Calls : at[c] \in Queue \cup {"qtake"} => qmax[c] # Null
  /\ SlotsAreLegs

(* Without the last crowd there is room. *)
Crowd ==
  /\ Taking \subseteq crowd
  /\ crowd \subseteq group \cup Taking
  /\ Cardinality(group \ crowd) < tested

IndInv == Types /\ (\A c \in Calls : InTime(c)) /\ Slots /\ Crowd

-----------------------------------------------------------------------------
LEMMA TypeStep ==
  ASSUME IndInv, [Next]_vars
  PROVE  Types'
<1> Types
  BY DEF IndInv
<1> USE AdmissionAssumption DEF Types, Places, Queue, Looking, Held, Legs,
                                Over, Go
<1>1. CASE EditLimit
  BY <1>1 DEF EditLimit, clocks, history
<1>2. CASE Tick
  <2>1. waited' \in [Calls -> 0..Late]
    BY <1>2 DEF Tick, Late
  <2>2. left' \in [Calls -> 0..Message]
    BY <1>2 DEF Tick
  <2> QED
    BY <1>2, <2>1, <2>2 DEF Tick, history
<1>3. ASSUME NEW c \in Calls, Arrive(c) PROVE Types'
  BY <1>3 DEF Arrive, clocks, history
<1>4. ASSUME NEW c \in Calls, Waiting(c) PROVE Types'
  <2>1. CASE Pass(c)
    <3>1. Null \notin Nat /\ Limits \subseteq Nat
      OBVIOUS
    <3>2. qmax[c] \in Nat
      BY <2>1, <3>1 DEF Pass, IndInv, Slots
    <3> QED
      BY <2>1, <3>2 DEF Pass, Forget, Late
  <2>2. CASE GiveUp(c)
    BY <2>2 DEF GiveUp, Forget, Late, history
  <2>3. CASE PlayMessage(c)
    BY <2>3 DEF PlayMessage, history
  <2>4. CASE MessageEnds(c)
    BY <2>4 DEF MessageEnds, history
  <2>5. CASE WaitASecond(c)
    BY <2>5 DEF WaitASecond, history
  <2>6. CASE SecondEnds(c)
    <3>1. qi[c] + 1 \in 0..Gap
      BY <2>6 DEF SecondEnds, IndInv, InTime
    <3>2. qi' = [qi EXCEPT ![c] = qi[c] + 1]
      BY <2>6 DEF SecondEnds
    <3>3. qi' \in [Calls -> 0..Gap]
      BY <3>1, <3>2
    <3> QED
      BY <2>6, <3>3 DEF SecondEnds, history
  <2>7. CASE Take(c)
    BY <2>7 DEF Take, clocks, history
  <2> QED
    BY <1>4, <2>1, <2>2, <2>3, <2>4, <2>5, <2>6, <2>7 DEF Waiting
<1>5. ASSUME NEW c \in Calls, Leg(c) PROVE Types'
  <2>1. CASE AgentAnswers(c) \/ Refer(c)
    BY <2>1 DEF AgentAnswers, Refer, clocks, history
  <2>2. CASE AgentUnavailable(c)
    BY <2>2 DEF AgentUnavailable, AfterLeg, clocks
  <2>3. CASE ChannelEnds(c)
    BY <2>3 DEF ChannelEnds, Forget, Late
  <2> QED
    BY <1>5, <2>1, <2>2, <2>3 DEF Leg
<1>6. CASE UNCHANGED vars
  BY <1>6 DEF vars, clocks, history
<1> QED
  BY <1>1, <1>2, <1>3, <1>4, <1>5, <1>6 DEF Next

LEMMA TimeStep ==
  ASSUME IndInv, [Next]_vars, NEW d \in Calls
  PROVE  InTime(d)'
<1> Types /\ InTime(d)
  BY DEF IndInv
<1> USE AdmissionAssumption DEF Types, InTime, Looking, Held, Go
<1>1. CASE EditLimit
  BY <1>1 DEF EditLimit, clocks
<1>2. CASE Tick
  BY <1>2 DEF Tick, Late
<1>3. ASSUME NEW c \in Calls, Arrive(c) PROVE InTime(d)'
  BY <1>3 DEF Arrive, clocks
<1>4. ASSUME NEW c \in Calls, Waiting(c) PROVE InTime(d)'
  <2>1. CASE Pass(c) \/ GiveUp(c) \/ Take(c)
    BY <2>1 DEF Pass, GiveUp, Take, Forget, Over, clocks
  <2>2. CASE PlayMessage(c)
    BY <2>2 DEF PlayMessage, TimeUp
  <2>3. CASE MessageEnds(c)
    BY <2>3 DEF MessageEnds
  <2>4. CASE WaitASecond(c)
    BY <2>4 DEF WaitASecond, TimeUp
  <2>5. CASE SecondEnds(c)
    BY <2>5 DEF SecondEnds, InGap
  <2> QED
    BY <1>4, <2>1, <2>2, <2>3, <2>4, <2>5 DEF Waiting
<1>5. ASSUME NEW c \in Calls, Leg(c) PROVE InTime(d)'
  <2>1. CASE AgentAnswers(c) \/ Refer(c) \/ AgentUnavailable(c)
    BY <2>1 DEF AgentAnswers, Refer, AgentUnavailable, clocks
  <2>2. CASE ChannelEnds(c)
    BY <2>2 DEF ChannelEnds, Forget
  <2> QED
    BY <1>5, <2>1, <2>2 DEF Leg
<1>6. CASE UNCHANGED vars
  BY <1>6 DEF vars, clocks
<1> QED
  BY <1>1, <1>2, <1>3, <1>4, <1>5, <1>6 DEF Next

LEMMA SlotStep ==
  ASSUME IndInv, [Next]_vars
  PROVE  Slots'
<1> Types /\ Slots
  BY DEF IndInv
<1> USE AdmissionAssumption DEF Types, Slots, SlotsAreLegs, Queue, Looking,
                                Held, Legs, Go
<1>1. CASE EditLimit \/ Tick
  BY <1>1 DEF EditLimit, Tick
<1>2. ASSUME NEW c \in Calls, Arrive(c) PROVE Slots'
  BY <1>2 DEF Arrive
<1>3. ASSUME NEW c \in Calls, Waiting(c) PROVE Slots'
  <2>1. CASE Pass(c)
    BY <2>1 DEF Pass
  <2>2. CASE GiveUp(c)
    BY <2>2 DEF GiveUp, Over
  <2>3. CASE PlayMessage(c) \/ MessageEnds(c) \/ WaitASecond(c)
    BY <2>3 DEF PlayMessage, MessageEnds, WaitASecond
  <2>4. CASE SecondEnds(c)
    BY <2>4 DEF SecondEnds
  <2>5. CASE Take(c)
    BY <2>5 DEF Take
  <2> QED
    BY <1>3, <2>1, <2>2, <2>3, <2>4, <2>5 DEF Waiting
<1>4. ASSUME NEW c \in Calls, Leg(c) PROVE Slots'
  <2>1. CASE AgentAnswers(c) \/ Refer(c)
    BY <2>1 DEF AgentAnswers, Refer
  <2>2. CASE AgentUnavailable(c)
    BY <2>2 DEF AgentUnavailable, AfterLeg
  <2>3. CASE ChannelEnds(c)
    BY <2>3 DEF ChannelEnds
  <2> QED
    BY <1>4, <2>1, <2>2, <2>3 DEF Leg
<1>5. CASE UNCHANGED vars
  BY <1>5 DEF vars
<1> QED
  BY <1>1, <1>2, <1>3, <1>4, <1>5 DEF Next

LEMMA Fewer ==
  ASSUME Types, NEW S \in SUBSET Calls, NEW T \in SUBSET S
  PROVE  /\ Cardinality(S) \in Nat /\ Cardinality(T) \in Nat
         /\ Cardinality(T) <= Cardinality(S)
<1>1. IsFiniteSet(S)
  BY FS_Subset, AdmissionAssumption
<1>2. IsFiniteSet(T)
  BY FS_Subset, <1>1
<1> QED
  BY <1>1, <1>2, FS_Subset, FS_CardinalityType

(* Who moves between other places than qtake leaves the crowd alone. *)
LEMMA CrowdKept ==
  ASSUME Crowd, UNCHANGED <<group, history>>, Taking' = Taking
  PROVE  Crowd'
  BY DEF Crowd, history

(* Who leaves takes nothing of the rest with it. *)
LEMMA CrowdLeft ==
  ASSUME Types, Crowd, NEW c \in Calls,
         group' = group \ {c}, crowd' = crowd \ {c}, tested' = tested,
         Taking' = Taking \ {c}
  PROVE  Crowd'
<1>1. /\ group \ crowd \in SUBSET Calls
      /\ group' \ crowd' \in SUBSET (group \ crowd)
  BY DEF Types
<1>2. /\ Cardinality(group' \ crowd') <= Cardinality(group \ crowd)
      /\ Cardinality(group' \ crowd') \in Nat
      /\ Cardinality(group \ crowd) \in Nat
  BY <1>1, Fewer
<1>3. Cardinality(group' \ crowd') < tested'
  BY <1>2 DEF Crowd, Types
<1>4. Taking' \subseteq crowd' /\ crowd' \subseteq group' \cup Taking'
  BY DEF Crowd
<1> QED
  BY <1>3, <1>4 DEF Crowd

LEMMA CrowdStep ==
  ASSUME IndInv, [Next]_vars
  PROVE  Crowd'
<1> Types /\ Crowd
  BY DEF IndInv
<1>1. CASE EditLimit \/ Tick
  BY <1>1, CrowdKept DEF EditLimit, Tick, Taking
<1>2. ASSUME NEW c \in Calls, Arrive(c) PROVE Crowd'
  <2>1. Taking' = Taking
    BY <1>2 DEF Arrive, Taking, Go, Types
  <2> QED
    BY <1>2, <2>1, CrowdKept DEF Arrive
<1>3. ASSUME NEW c \in Calls, Waiting(c) PROVE Crowd'
  <2>1. CASE Pass(c)
    <3>1. Taking' = Taking \cup {c} /\ c \in crowd'
      BY <2>1 DEF Pass, Taking, Go, Types
    <3>2. Taking' \subseteq crowd' /\ crowd' \subseteq group' \cup Taking'
      BY <2>1, <3>1 DEF Pass, Crowd
    <3>3. qmax[c] \in Nat
      BY <2>1, AdmissionAssumption
         DEF Pass, IndInv, Slots, Queue, Looking, Types
    <3>4. /\ Cardinality(group \ crowd') <= Cardinality(group)
          /\ Cardinality(group \ crowd') \in Nat
          /\ Cardinality(group) \in Nat
      BY Fewer DEF Types
    <3>5. Cardinality(group' \ crowd') < tested'
      BY <2>1, <3>3, <3>4 DEF Pass, Room
    <3> QED
      BY <3>2, <3>5 DEF Crowd
  <2>2. CASE Take(c)
    <3>1. Taking' = Taking \ {c} /\ c \in crowd
      BY <2>2 DEF Take, Taking, Go, Types, Crowd
    <3>2. group' \ crowd' = group \ crowd
      BY <2>2, <3>1 DEF Take, history
    <3> QED
      BY <2>2, <3>1, <3>2 DEF Take, Crowd, history
  <2>3. CASE GiveUp(c)
    <3>1. Taking' = Taking
      BY <2>3 DEF GiveUp, Looking, Over, Taking, Go, Types
    <3> QED
      BY <2>3, <3>1, CrowdKept DEF GiveUp
  <2>4. CASE PlayMessage(c) \/ MessageEnds(c) \/ WaitASecond(c)
    <3>1. Taking' = Taking
      BY <2>4 DEF PlayMessage, MessageEnds, WaitASecond, Taking, Go, Types
    <3> QED
      BY <2>4, <3>1, CrowdKept DEF PlayMessage, MessageEnds, WaitASecond
  <2>5. CASE SecondEnds(c)
    <3>1. Taking' = Taking
      BY <2>5 DEF SecondEnds, Taking, Go, Types
    <3> QED
      BY <2>5, <3>1, CrowdKept DEF SecondEnds
  <2> QED
    BY <1>3, <2>1, <2>2, <2>3, <2>4, <2>5 DEF Waiting
<1>4. ASSUME NEW c \in Calls, Leg(c) PROVE Crowd'
  <2>1. CASE AgentAnswers(c) \/ Refer(c)
    <3>1. Taking' = Taking
      BY <2>1 DEF AgentAnswers, Refer, Taking, Go, Types
    <3> QED
      BY <2>1, <3>1, CrowdKept DEF AgentAnswers, Refer
  <2>2. CASE AgentUnavailable(c) \/ ChannelEnds(c)
    <3>1. Taking' = Taking \ {c}
      BY <2>2 DEF AgentUnavailable, ChannelEnds, Taking, Go, Types
    <3> QED
      BY <2>2, <3>1, CrowdLeft DEF AgentUnavailable, ChannelEnds, AfterLeg
  <2> QED
    BY <1>4, <2>1, <2>2 DEF Leg
<1>5. CASE UNCHANGED vars
  BY <1>5, CrowdKept DEF vars, Taking
<1> QED
  BY <1>1, <1>2, <1>3, <1>4, <1>5 DEF Next

-----------------------------------------------------------------------------
(* What the dialplan keeps of a campaign's calls holds in every state. *)
THEOREM Inductive == Spec => []IndInv
<1>1. Init => IndInv
  <2> SUFFICES ASSUME Init PROVE IndInv
    OBVIOUS
  <2>1. Types
    BY AdmissionAssumption DEF Init, Types, Places, Late
  <2>2. \A c \in Calls : InTime(c)
    BY DEF Init, InTime, Looking, Held
  <2>3. Slots
    BY DEF Init, Slots, SlotsAreLegs, Queue, Looking, Held, Legs
  <2>4. Taking = {} /\ Cardinality(group \ crowd) = 0
    BY FS_EmptySet DEF Init, Taking
  <2>5. Crowd
    BY <2>4 DEF Init, Crowd
  <2> QED
    BY <2>1, <2>2, <2>3, <2>5 DEF IndInv
<1>2. IndInv /\ [Next]_vars => IndInv'
  <2> SUFFICES ASSUME IndInv, [Next]_vars PROVE IndInv'
    OBVIOUS
  <2>1. \A c \in Calls : InTime(c)'
    BY TimeStep
  <2> QED
    BY <2>1, TypeStep, SlotStep, CrowdStep DEF IndInv
<1> QED
  BY <1>1, <1>2, PTL DEF Spec

(* The clocks and the counters of the dialplan stay in their ranges. *)
THEOREM TypeCorrect == Spec => []TypeOK
<1>1. IndInv => TypeOK
  BY DEF IndInv, Types, TypeOK, InTime
<1> QED
  BY <1>1, Inductive, PTL

(* qtake: however many calls arrive, only as many pass the limit as looked *)
(* before one another had joined.                                          *)
THEOREM OvershootIsTheCrowd == Spec => []OnlyACrowdOvershoots
<1>1. IndInv => OnlyACrowdOvershoots
  <2> SUFFICES ASSUME IndInv PROVE OnlyACrowdOvershoots
    OBVIOUS
  <2>1. Types /\ Crowd
    BY DEF IndInv
  <2>2. /\ group \ crowd \in SUBSET Calls /\ crowd \in SUBSET Calls
        /\ group \cup Taking = (group \ crowd) \cup crowd
        /\ (group \ crowd) \cap crowd = {}
    BY <2>1 DEF Types, Crowd
  <2>3. IsFiniteSet(group \ crowd) /\ IsFiniteSet(crowd)
    BY <2>2, FS_Subset, AdmissionAssumption
  <2>4. Cardinality(group \cup Taking)
          = Cardinality(group \ crowd) + Cardinality(crowd)
    <3>1. Cardinality({}) = 0
      BY FS_EmptySet
    <3>2. Cardinality((group \ crowd) \cup crowd)
            = Cardinality(group \ crowd) + Cardinality(crowd)
              - Cardinality((group \ crowd) \cap crowd)
      BY <2>3, FS_Union
    <3>3. Cardinality(group \ crowd) \in Nat /\ Cardinality(crowd) \in Nat
      BY <2>3, FS_CardinalityType
    <3>4. Cardinality((group \ crowd) \cap crowd) = 0
      BY <2>2, <3>1, Zenon
    <3>5. Cardinality(group \cup Taking)
            = Cardinality((group \ crowd) \cup crowd)
      BY <2>2, Zenon
    <3> QED
      BY <3>2, <3>3, <3>4, <3>5
  <2>5. Cardinality(group \ crowd) \in Nat /\ Cardinality(crowd) \in Nat
    BY <2>3, FS_CardinalityType
  <2> QED
    BY <2>1, <2>4, <2>5 DEF Crowd, Types, OnlyACrowdOvershoots
<1> QED
  BY <1>1, Inductive, PTL

(* The failed Dial gives its slot back, and nobody on the phone with the *)
(* agent under a limit is without one.                                   *)
THEOREM NoSlotIsLost == Spec => []SlotsAreLegs
<1>1. IndInv => SlotsAreLegs
  BY DEF IndInv, Slots
<1> QED
  BY <1>1, Inductive, PTL

(* queue_max_wait_seconds and one message bound every wait. *)
THEOREM WaitsAreBounded == Spec => []WaitIsBounded
<1>1. IndInv => WaitIsBounded
  <2> SUFFICES ASSUME IndInv, NEW c \in Calls, at[c] \in Queue
               PROVE  waited[c] <= MaxWait + Message
    BY DEF WaitIsBounded
  <2>1. waited[c] \in Nat /\ left[c] \in Nat
    BY AdmissionAssumption DEF IndInv, Types, Late
  <2> QED
    BY <2>1, AdmissionAssumption DEF IndInv, InTime, Queue
<1> QED
  BY <1>1, Inductive, PTL

-----------------------------------------------------------------------------
(* Calls, campaigns and the dialler. *)

(* What is answered of a campaign whose calls are taken, and of another.   *)
LEMMA AnswerIsOf ==
  ASSUME NEW t, NEW c \in Campaigns \cup {Nothing}
  PROVE  /\ Answer(t, c) = "409 off" => c \in Campaigns /\ ~Takes(c)
         /\ Answer(t, c) = "count" => c \in Campaigns /\ Takes(c)
<1>1. CASE t \notin known
  BY <1>1 DEF Answer
<1>2. CASE t \in known /\ (c = Nothing \/ (c # Nothing /\ ClientOf[c] # t))
  <2>1. Answer(t, c) = "404"
    BY <1>2 DEF Answer
  <2> QED
    BY <2>1
<1>3. CASE /\ t \in known /\ c # Nothing /\ ClientOf[c] = t
           /\ t \notin running \/ state[c] # "on"
  BY <1>3 DEF Answer, Takes
<1>4. CASE /\ t \in known /\ c # Nothing /\ ClientOf[c] = t
           /\ t \in running /\ state[c] = "on"
  BY <1>4 DEF Answer, Takes
<1> QED
  BY <1>1, <1>2, <1>3, <1>4

(* What was told of a campaign that nobody touches stays true of it. *)
LEMMA ToldStaysTrue ==
  ASSUME RoutingInv, Outdate
  PROVE  /\ told' \in [Campaigns -> {"nothing", "room", "off"}]
         /\ asking' \in Questions \cup {Nothing}
         /\ ToldOK'
<1> USE RoutingAssumption
<1>1. /\ told \in [Campaigns -> {"nothing", "room", "off"}]
      /\ asking \in Questions \cup {Nothing} /\ ToldOK
  BY DEF RoutingInv, RoutingOK
<1>2. ASSUME NEW c \in Campaigns, ~Touched(c)
      PROVE  /\ Takes(c)' <=> Takes(c)
             /\ ClientOf[c] \in complete' <=> ClientOf[c] \in complete
  BY <1>2 DEF Touched, Takes
<1>3. told' = [c \in Campaigns |-> IF Touched(c) THEN "nothing" ELSE told[c]]
  BY DEF Outdate
<1>4. \A c \in Campaigns :
        /\ told'[c] = "room" => Takes(c)' /\ ClientOf[c] \in complete'
        /\ told'[c] = "off" => ~Takes(c)'
  BY <1>1, <1>2, <1>3 DEF ToldOK
<1>5. CASE asking = Nothing
  BY <1>1, <1>3, <1>4, <1>5 DEF Outdate, ToldOK
<1>6. CASE asking \in Questions
  <2>1. /\ asking.of \in Campaigns /\ asking.stale \in BOOLEAN /\ asking # Nothing
    BY <1>6 DEF Questions
  <2>2. asking' = [asking EXCEPT !.stale = @ \/ Touched(asking.of)]
    BY <2>1 DEF Outdate
  <2>3. /\ asking' \in Questions /\ asking'.of = asking.of
        /\ ~asking'.stale => ~asking.stale /\ ~Touched(asking.of)
    <3> DEFINE touched == asking.stale \/ Touched(asking.of)
    <3>1. asking' = [asking EXCEPT !.stale = touched] /\ touched \in BOOLEAN
      BY <2>2
    <3>2. ~touched => ~asking.stale /\ ~Touched(asking.of)
      OBVIOUS
    <3> HIDE DEF touched
    <3>3. asking' \in Questions /\ asking'.of = asking.of /\ asking'.stale = touched
      BY <1>6, <3>1 DEF Questions
    <3> QED
      BY <3>2, <3>3
  <2>4. ASSUME NEW c \in Campaigns, c = asking.of, ~asking'.stale PROVE Takes(c)'
    <3>1. ~asking.stale /\ ~Touched(c)
      BY <2>3, <2>4
    <3>2. Takes(c)
      BY <1>1, <1>6, <2>4, <3>1 DEF ToldOK
    <3> QED
      BY <1>2, <3>1, <3>2
  <2>5. told' \in [Campaigns -> {"nothing", "room", "off"}]
    BY <1>1, <1>3
  <2>6. (~asking.stale => Takes(asking.of))'
    BY <2>1, <2>3, <2>4 DEF Takes
  <2> QED
    BY <1>4, <2>3, <2>5, <2>6 DEF ToldOK
<1> QED
  BY <1>1, <1>5, <1>6

(* The console's edits leave calls as they are, but for those of a deleted *)
(* campaign.                                                               *)
LEMMA ConsoleStep ==
  ASSUME RoutingInv, Console, Outdate, UNCHANGED overtaken
  PROVE  RoutingInv'
<1> USE RoutingAssumption
<1>1. RoutingOK /\ RowsOK
  BY DEF RoutingInv
<1>2. CASE WriteCampaign /\ console.to # "enable"
  <2> DEFINE c == console.of
  <2>1. console \in Looks /\ c \in Campaigns /\ console.to = "delete"
    BY <1>1, <1>2 DEF WriteCampaign, RoutingOK, Looks
  <2>2. /\ state' = [state EXCEPT ![c] = "gone"]
        /\ leads' = WithoutIt(leads, c)
        /\ registered' = WithoutIt(registered, c)
        /\ dial' = [k \in Dials |-> IF k \in Rows(c)
                      THEN [dial[k] EXCEPT !.of = Nothing] ELSE dial[k]]
        /\ console' = Nothing
    BY <1>2 DEF WriteCampaign
  <2>3. Rows(c) \subseteq overtaken
    BY <1>1, <2>1 DEF RowsOK
  <2> HIDE DEF c
  <2>4. \A k \in Dials :
          /\ dial'[k] \in [at : {"none", "found", "ready", "up", "over",
                                 "declined", "failed"},
                           of : Campaigns \cup {Nothing}]
          /\ dial'[k].at = dial[k].at
          /\ k \notin Rows(c) => dial'[k].of = dial[k].of
    BY <1>1, <2>2 DEF RoutingOK
  <2>5. /\ leads' \in [Numbers -> Campaigns \cup {Nothing}]
        /\ registered' \in [DiallerIds -> Campaigns \cup {Nothing}]
    BY <1>1, <2>2 DEF RoutingOK, WithoutIt
  <2>6. RoutingOK'
    <3>1. state' \in [Campaigns -> {"unborn", "off", "on", "gone"}]
      BY <1>1, <2>1, <2>2 DEF RoutingOK
    <3>2. dial' \in [Dials -> [at : {"none", "found", "ready", "up", "over",
                                     "declined", "failed"},
                               of : Campaigns \cup {Nothing}]]
      BY <2>2, <2>4
    <3> QED
      BY <2>2, <2>5, <3>1, <3>2, ToldStaysTrue DEF RoutingOK
  <2>7. \A k \in Dials : dial'[k].at \in {"found", "ready"} => dial'[k].of # Nothing
    BY <1>1, <2>4 DEF RowsOK, Rows
  <2>8. CallsKeepTheirCampaign'
    BY <1>1, <2>3, <2>4 DEF RowsOK, CallsKeepTheirCampaign
  <2> QED
    BY <2>2, <2>6, <2>7, <2>8, ToldStaysTrue DEF RoutingInv, RowsOK, Looks
<1>3. ASSUME UNCHANGED dial,
             leads' \in [Numbers -> Campaigns \cup {Nothing}],
             registered' \in [DiallerIds -> Campaigns \cup {Nothing}],
             state' \in [Campaigns -> {"unborn", "off", "on", "gone"}],
             \/ console' \in {console, Nothing}
             \/ console' \in Looks /\ (console'.to = "delete" =>
                                         Rows(console'.of) = {})
      PROVE  RoutingInv'
  <2>1. RoutingOK'
    BY <1>1, <1>3, ToldStaysTrue DEF RoutingOK
  <2>2. RowsOK'
    BY <1>1, <1>3 DEF RowsOK, Rows, CallsKeepTheirCampaign
  <2> QED
    BY <2>1, <2>2, ToldStaysTrue DEF RoutingInv
<1>4. CASE WriteCampaign /\ console.to = "enable"
  <2>1. console \in Looks /\ console.of \in Campaigns
    BY <1>1, <1>4 DEF WriteCampaign, RoutingOK, Looks
  <2>2. /\ state' = [state EXCEPT ![console.of] = "on"]
        /\ UNCHANGED <<leads, registered, dial>> /\ console' = Nothing
    BY <1>4 DEF WriteCampaign
  <2> QED
    BY <1>1, <1>3, <2>1, <2>2 DEF RoutingOK
<1>5. CASE EditClient \/ CreateCampaign \/ DisableCampaign \/ HoursPass
  <2>1. UNCHANGED <<leads, registered, console>>
    BY <1>5 DEF EditClient, CreateCampaign, DisableCampaign, HoursPass
  <2>2. state' \in [Campaigns -> {"unborn", "off", "on", "gone"}]
    BY <1>1, <1>5
       DEF EditClient, CreateCampaign, DisableCampaign, HoursPass, RoutingOK
  <2>3. CASE UNCHANGED dial
    BY <1>1, <1>3, <2>1, <2>2, <2>3 DEF RoutingOK
  <2>4. CASE WriteCampaign
    BY <1>2, <1>4, <2>4
  <2> QED
    BY <2>3, <2>4 DEF Console
<1>6. CASE EditRoutes
  <2>1. UNCHANGED <<state, console>>
    BY <1>6 DEF EditRoutes
  <2>2. /\ leads' \in [Numbers -> Campaigns \cup {Nothing}]
        /\ registered' \in [DiallerIds -> Campaigns \cup {Nothing}]
    BY <1>1, <1>6 DEF EditRoutes, RoutingOK
  <2>3. CASE UNCHANGED dial
    BY <1>1, <1>3, <2>1, <2>2, <2>3 DEF RoutingOK
  <2>4. CASE WriteCampaign
    BY <1>2, <1>4, <2>4
  <2> QED
    BY <2>3, <2>4 DEF Console
<1>7. CASE CheckCampaign
  <2>1. UNCHANGED <<state, leads, registered>>
    BY <1>7 DEF CheckCampaign, tables
  <2>2. console' \in Looks /\ (console'.to = "delete" => Rows(console'.of) = {})
    BY <1>7 DEF CheckCampaign, Looks, Deletable
  <2>3. CASE UNCHANGED dial
    BY <1>1, <1>3, <2>1, <2>2, <2>3 DEF RoutingOK
  <2>4. CASE WriteCampaign
    BY <1>2, <1>4, <2>4
  <2> QED
    BY <2>3, <2>4 DEF Console
<1> QED
  BY <1>2, <1>4, <1>5, <1>6, <1>7 DEF Console

(* A call carries its campaign on; its row, opened while the campaign is   *)
(* about to be deleted, was not counted.                                   *)
LEMMA CallStep ==
  ASSUME RoutingInv, NEW k \in Dials, Call(k),
         UNCHANGED <<tables, console, asking, told, edits>>
  PROVE  RoutingInv'
<1> USE RoutingAssumption
<1> DEFINE Put == {"none", "found", "ready", "up", "over", "declined", "failed"}
           Dial == [at : Put, of : Campaigns \cup {Nothing}]
<1>1. RoutingOK /\ RowsOK /\ ToldOK /\ dial \in [Dials -> Dial]
  BY DEF RoutingInv, RoutingOK
<1>2. ToldOK'
  BY <1>1 DEF ToldOK, Takes, tables
<1>3. SUFFICES dial' \in [Dials -> Dial] /\ RowsOK'
  BY <1>1, <1>2 DEF RoutingInv, RoutingOK, tables
<1>4. ASSUME NEW d \in Dial, dial' = [dial EXCEPT ![k] = d],
             overtaken \subseteq overtaken',
             d.at \in {"found", "ready"} => d.of # Nothing,
             d.at \in {"up", "over"} =>
               /\ d.of # Nothing \/ k \in overtaken'
               /\ \/ dial[k].at \in {"up", "over"} /\ d.of = dial[k].of
                  \/ console = [to |-> "delete", of |-> d.of] => k \in overtaken'
      PROVE  dial' \in [Dials -> Dial] /\ RowsOK'
  <2>1. /\ dial' \in [Dials -> Dial] /\ dial'[k] = d
        /\ \A j \in Dials : j # k => dial'[j] = dial[j]
    BY <1>1, <1>4
  <2>2. CallsKeepTheirCampaign'
    BY <1>1, <1>4, <2>1 DEF RowsOK, CallsKeepTheirCampaign
  <2>3. ASSUME console \in Looks, console.to = "delete"
        PROVE  Rows(console.of)' \subseteq overtaken'
    <3>1. console = [to |-> "delete", of |-> console.of]
      BY <2>3 DEF Looks
    <3>2. Rows(console.of) \subseteq overtaken
      BY <1>1, <2>3 DEF RowsOK
    <3> SUFFICES ASSUME NEW j \in Dials, dial'[j].at \in {"up", "over"},
                        dial'[j].of = console.of
                 PROVE  j \in overtaken'
      BY DEF Rows
    <3>3. CASE j # k
      BY <1>4, <2>1, <3>2, <3>3 DEF Rows
    <3>4. CASE j = k
      BY <1>4, <2>1, <3>1, <3>2, <3>4 DEF Rows
    <3> QED
      BY <3>3, <3>4
  <2> QED
    BY <1>1, <1>4, <2>1, <2>2, <2>3 DEF RowsOK
<1> HIDE DEF Dial
<1>5. dial[k] \in Dial /\ dial[k].at \in Put /\ dial[k].of \in Campaigns \cup {Nothing}
  BY <1>1 DEF Dial
<1>6. ASSUME NEW p \in Put
      PROVE  [dial[k] EXCEPT !.at = p] = [at |-> p, of |-> dial[k].of]
  BY <1>5 DEF Dial
<1>7. CASE FindConfig(k)
  <2>1. PICK n \in Numbers :
          dial' = [dial EXCEPT ![k] = [at |-> IF Takes(leads[n]) THEN "found"
                                              ELSE "declined", of |-> leads[n]]]
    BY <1>7 DEF FindConfig
  <2> DEFINE d == [at |-> IF Takes(leads[n]) THEN "found" ELSE "declined",
                   of |-> leads[n]]
  <2>2. d \in Dial /\ d.at \in {"found", "declined"}
        /\ (d.at = "found" => d.of # Nothing)
    BY <1>1 DEF Dial, RoutingOK, Takes
  <2>3. overtaken' = overtaken
    BY <1>7 DEF FindConfig
  <2> HIDE DEF d
  <2> QED
    BY <1>4, <2>1, <2>2, <2>3 DEF d
<1>8. CASE FindKeys(k)
  <2> DEFINE p == IF ClientOf[dial[k].of] \in complete THEN "ready" ELSE "declined"
             d == [at |-> p, of |-> dial[k].of]
  <2>1. dial' = [dial EXCEPT ![k] = d] /\ overtaken' = overtaken
    BY <1>5, <1>6, <1>8 DEF FindKeys, Moves, Dial
  <2>2. d \in Dial /\ d.of # Nothing /\ d.at \in {"ready", "declined"}
    BY <1>1, <1>5, <1>8 DEF FindKeys, Dial, RowsOK
  <2> HIDE DEF d
  <2> QED
    BY <1>4, <2>1, <2>2
<1>9. CASE StartRow(k)
  <2> DEFINE p == IF There(dial[k].of) THEN "up" ELSE "failed"
             d == [at |-> p, of |-> dial[k].of]
  <2>1. dial' = [dial EXCEPT ![k] = d]
    BY <1>5, <1>6, <1>9 DEF StartRow, Moves, Dial
  <2>2. d \in Dial /\ d.of # Nothing /\ d.at \in {"up", "failed"} /\ d.of = dial[k].of
    BY <1>1, <1>5, <1>9 DEF StartRow, Dial, RowsOK
  <2>3. overtaken' = IF console = [to |-> "delete", of |-> dial[k].of]
                       THEN overtaken \cup {k} ELSE overtaken
    BY <1>9 DEF StartRow
  <2> HIDE DEF d
  <2> QED
    BY <1>4, <2>1, <2>2, <2>3
<1>10. CASE EndRow(k)
  <2> DEFINE d == [at |-> "over", of |-> dial[k].of]
  <2>1. dial' = [dial EXCEPT ![k] = d] /\ overtaken' = overtaken
    BY <1>5, <1>6, <1>10 DEF EndRow, Moves, Dial
  <2>2. /\ d \in Dial /\ d.at = "over" /\ d.of = dial[k].of /\ dial[k].at = "up"
        /\ d.of # Nothing \/ k \in overtaken
    BY <1>1, <1>5, <1>10 DEF EndRow, Dial, RowsOK, CallsKeepTheirCampaign
  <2> HIDE DEF d
  <2> QED
    BY <1>4, <2>1, <2>2
<1> QED
  BY <1>7, <1>8, <1>9, <1>10 DEF Call

(* The dialler's questions. *)
LEMMA DiallerStep ==
  ASSUME RoutingInv, Dialler,
         UNCHANGED <<tables, dial, console, overtaken, edits>>
  PROVE  RoutingInv'
<1> USE RoutingAssumption
<1>1. RoutingOK /\ RowsOK /\ ToldOK
  BY DEF RoutingInv
<1>2. RowsOK' /\ \A c : Takes(c)' <=> Takes(c)
  BY <1>1 DEF RowsOK, Rows, CallsKeepTheirCampaign, Takes, tables
<1>3. SUFFICES /\ told' \in [Campaigns -> {"nothing", "room", "off"}]
               /\ asking' \in Questions \cup {Nothing}
               /\ ToldOK'
  BY <1>1, <1>2 DEF RoutingInv, RoutingOK, tables
<1>4. CASE AskCapacity
  <2>1. PICK t \in Clients, i \in DiallerIds :
          LET c == registered[i] IN
          \/ /\ Answer(t, c) = "count"
             /\ asking' = [of |-> c, stale |-> FALSE] /\ UNCHANGED told
          \/ /\ Answer(t, c) = "409 off"
             /\ told' = [told EXCEPT ![c] = "off"] /\ UNCHANGED asking
    BY <1>4 DEF AskCapacity
  <2>2. registered[i] \in Campaigns \cup {Nothing}
    BY <1>1 DEF RoutingOK
  <2>3. CASE Answer(t, registered[i]) = "count"
    <3>1. /\ registered[i] \in Campaigns /\ Takes(registered[i])
          /\ asking' = [of |-> registered[i], stale |-> FALSE] /\ told' = told
      BY <2>1, <2>2, <2>3, AnswerIsOf
    <3> QED
      BY <1>1, <1>2, <3>1 DEF ToldOK, RoutingOK, Questions, tables
  <2>4. CASE Answer(t, registered[i]) = "409 off"
    <3>1. /\ registered[i] \in Campaigns /\ ~Takes(registered[i])
          /\ told' = [told EXCEPT ![registered[i]] = "off"] /\ asking' = asking
      BY <2>1, <2>2, <2>4, AnswerIsOf
    <3> QED
      BY <1>1, <1>2, <3>1 DEF ToldOK, RoutingOK, tables
  <2> QED
    BY <2>1, <2>3, <2>4
<1>5. CASE CountCalls
  <2>1. asking \in Questions /\ asking.of \in Campaigns
    BY <1>1, <1>5 DEF CountCalls, RoutingOK, Questions
  <2>2. /\ asking' = Nothing
        /\ \/ told' = told
           \/ /\ told' = [told EXCEPT ![asking.of] = "room"]
              /\ ~asking.stale /\ ClientOf[asking.of] \in complete
    BY <1>5 DEF CountCalls
  <2> QED
    BY <1>1, <1>2, <2>1, <2>2 DEF ToldOK, RoutingOK, tables
<1> QED
  BY <1>4, <1>5 DEF Dialler

LEMMA RoutingStep == RoutingInv /\ [RoutingNext]_rvars => RoutingInv'
<1> SUFFICES ASSUME RoutingInv, [RoutingNext]_rvars PROVE RoutingInv'
  OBVIOUS
<1>1. CASE UNCHANGED rvars
  BY <1>1 DEF rvars, tables, RoutingInv, RoutingOK, RowsOK, Rows, ToldOK,
     Takes, CallsKeepTheirCampaign
<1> QED
  BY <1>1, ConsoleStep, CallStep, DiallerStep DEF RoutingNext

(* For any clients, campaigns, numbers and calls, every call on its way    *)
(* has a campaign, and what the dialler was told agrees with it, as        *)
(* RoutingInv says (campaigns.py, dialler_api.py, store.py).               *)
THEOREM RoutingInductive == RoutingSpec => []RoutingInv
<1>1. RoutingInit => RoutingInv
  <2> SUFFICES ASSUME RoutingInit PROVE RoutingInv
    OBVIOUS
  <2>1. RoutingOK
    BY RoutingAssumption DEF RoutingInit, RoutingOK
  <2>2. RowsOK /\ ToldOK
    BY RoutingAssumption DEF RoutingInit, RowsOK, ToldOK, CallsKeepTheirCampaign
  <2> QED
    BY <2>1, <2>2 DEF RoutingInv
<1> QED
  BY <1>1, RoutingStep, PTL DEF RoutingSpec

(* delete_campaign, capacity: no call on record loses its campaign but one *)
(* that started after a deletion had counted the calls; and a client is    *)
(* told nothing of another's campaigns.                                    *)
THEOREM RecordsStay == RoutingSpec => []RecordsAreKept
<1>1. RoutingInv => RecordsAreKept
  <2> SUFFICES ASSUME RoutingInv PROVE OthersIdsAreUnknown
    BY DEF RoutingInv, RowsOK, RecordsAreKept
  <2> SUFFICES ASSUME NEW t \in Clients, NEW c \in Campaigns, ClientOf[c] # t
               PROVE  Answer(t, c) = Answer(t, Nothing)
    BY DEF OthersIdsAreUnknown
  <2>1. CASE t \in known
    BY <2>1, RoutingAssumption DEF Answer
  <2>2. CASE t \notin known
    BY <2>2 DEF Answer
  <2> QED
    BY <2>1, <2>2
<1> QED
  BY <1>1, RoutingInductive, PTL

(* capacity, load_config_for_did: what the dialler is told and what        *)
(* becomes of a call agree, whatever is edited in between.                 *)
THEOREM AnswersAgree == RoutingSpec => AnswersAgreeWithCalls
<1>1. RoutingInv /\ [RoutingNext]_rvars =>
        [\A k \in Dials, c \in Campaigns : dial'[k].of = c =>
           /\ told[c] = "room" => dial'[k].at # "declined" \/ dial[k].at = "declined"
           /\ told[c] = "off" => dial'[k].at # "found" \/ dial[k].at = "found"]_rvars
  <2> SUFFICES ASSUME RoutingInv, RoutingNext, NEW k \in Dials,
                      NEW c \in Campaigns, dial'[k].of = c, dial'[k] # dial[k]
               PROVE  /\ told[c] = "room" => \/ dial'[k].at # "declined"
                                             \/ dial[k].at = "declined"
                      /\ told[c] = "off" => \/ dial'[k].at # "found"
                                            \/ dial[k].at = "found"
    BY DEF rvars
  <2>1. /\ dial \in [Dials -> [at : {"none", "found", "ready", "up", "over",
                                     "declined", "failed"},
                               of : Campaigns \cup {Nothing}]]
        /\ told[c] = "room" => Takes(c) /\ ClientOf[c] \in complete
        /\ told[c] = "off" => ~Takes(c)
    BY DEF RoutingInv, RoutingOK, ToldOK
  <2>2. CASE Console
    <3>1. dial'[k].of # c
      <4>1. WriteCampaign /\ dial'[k] = [dial[k] EXCEPT !.of = Nothing]
        BY <2>2 DEF Console, WriteCampaign
      <4>2. dial'[k].of = Nothing
        BY <2>1, <4>1
      <4> QED
        BY <4>2, RoutingAssumption
    <3> QED
      BY <3>1
  <2>3. ASSUME NEW j \in Dials, Call(j) PROVE j = k
    BY <2>1, <2>3 DEF Call, FindConfig, FindKeys, StartRow, EndRow, Moves
  <2>4. CASE FindConfig(k)
    <3>1. PICK n \in Numbers :
            dial' = [dial EXCEPT ![k] = [at |-> IF Takes(leads[n]) THEN "found"
                                                ELSE "declined", of |-> leads[n]]]
      BY <2>4 DEF FindConfig
    <3>2. dial'[k] = [at |-> IF Takes(leads[n]) THEN "found" ELSE "declined",
                      of |-> leads[n]]
      BY <2>1, <3>1
    <3> QED
      BY <2>1, <3>2
  <2>5. CASE FindKeys(k) \/ StartRow(k) \/ EndRow(k)
    <3>1. ASSUME NEW place, Moves(k, place)
          PROVE  dial'[k].at = place /\ dial'[k].of = dial[k].of
      BY <2>1, <3>1 DEF Moves
    <3>2. CASE FindKeys(k)
      <4>1. PICK place \in {"ready", "declined"} :
              /\ Moves(k, place)
              /\ place = "declined" => ClientOf[dial[k].of] \notin complete
        BY <3>2 DEF FindKeys
      <4> QED
        BY <2>1, <3>1, <4>1
    <3>3. CASE StartRow(k) \/ EndRow(k)
      <4>1. PICK place \in {"up", "failed", "over"} : Moves(k, place)
        BY <3>3 DEF StartRow, EndRow
      <4> QED
        BY <3>1, <4>1
    <3> QED
      BY <2>5, <3>2, <3>3
  <2> QED
    BY <2>2, <2>3, <2>4, <2>5 DEF RoutingNext, Call
<1> QED
  BY <1>1, RoutingInductive, PTL DEF RoutingSpec, AnswersAgreeWithCalls

-----------------------------------------------------------------------------
(* Totals: a finite one is a number; it depends on what is totalled alone, *)
(* grows with it by what is added, and is no more than what its parts come *)
(* to, part by part.                                                       *)
LEMMA UnitsAre ==
  ASSUME NEW f, NEW S, NEW u
  PROVE  u \in Units(f, S) <=> \E x \in S : \E i \in 1 .. f[x] : u = <<x, i>>
BY DEF Units

LEMMA TotalIsNat ==
  ASSUME NEW S, IsFiniteSet(S), NEW f, \A x \in S : f[x] \in Nat
  PROVE  IsFiniteSet(Units(f, S)) /\ Total(f, S) \in Nat
<1> DEFINE F(x) == {x} \X (1 .. f[x])
           U == {F(x) : x \in S}
<1>1. \A x \in S : IsFiniteSet(F(x))
  <2> TAKE x \in S
  <2>1. IsFiniteSet({x}) /\ IsFiniteSet(1 .. f[x])
    <3>1. 1 \in Int /\ f[x] \in Int
      OBVIOUS
    <3> QED
      BY <3>1, FS_Singleton, FS_Interval
  <2> QED
    BY <2>1, FS_Product
<1>2. IsFiniteSet(U)
  <2> DEFINE s == [x \in S |-> F(x)]
  <2>1. s \in Surjection(S, U)
    BY DEF Surjection
  <2> QED
    BY <2>1, FS_Surjection
<1>3. IsFiniteSet(UNION U)
  BY <1>1, <1>2, FS_UNION
<1>4. UNION U = Units(f, S)
  BY DEF Units
<1> QED
  BY <1>3, <1>4, FS_CardinalityType DEF Total

LEMMA TotalOfNone == ASSUME NEW f PROVE Total(f, {}) = 0
BY FS_EmptySet DEF Total, Units

LEMMA TotalOfSame ==
  ASSUME NEW f, NEW g, NEW S, \A x \in S : f[x] = g[x]
  PROVE  Total(f, S) = Total(g, S)
<1>1. Units(f, S) = Units(g, S)
  BY DEF Units
<1> QED
  BY <1>1 DEF Total

LEMMA TotalOfFewer ==
  ASSUME NEW S, IsFiniteSet(S), NEW T \in SUBSET S, NEW f, \A x \in S : f[x] \in Nat
  PROVE  Total(f, T) <= Total(f, S)
<1>1. IsFiniteSet(Units(f, S))
  BY TotalIsNat
<1>2. Units(f, T) \in SUBSET Units(f, S)
  BY DEF Units
<1> QED
  BY <1>1, <1>2, FS_Subset DEF Total

LEMMA TotalOfOneMore ==
  ASSUME NEW S, IsFiniteSet(S), NEW y, y \notin S, NEW f,
         \A x \in S \cup {y} : f[x] \in Nat
  PROVE  Total(f, S \cup {y}) = Total(f, S) + f[y]
<1> DEFINE Y == {y} \X (1 .. f[y])
<1>1. IsFiniteSet(Units(f, S)) /\ Total(f, S) \in Nat
  BY TotalIsNat
<1>2. IsFiniteSet({y}) /\ Cardinality({y}) = 1
  BY FS_Singleton
<1>3. IsFiniteSet(1 .. f[y]) /\ Cardinality(1 .. f[y]) = f[y]
  BY FS_Interval
<1>4. IsFiniteSet(Y) /\ Cardinality(Y) = f[y]
  <2>1. IsFiniteSet(Y) /\ Cardinality(Y) = 1 * f[y]
    BY <1>2, <1>3, FS_Product
  <2> QED
    BY <2>1
<1>5. Units(f, S) \cap Y = {}
  <2>1. \A u \in Units(f, S) : u[1] \in S
    BY UnitsAre
  <2>2. \A u \in Y : u[1] = y
    OBVIOUS
  <2> QED
    BY <2>1, <2>2
<1>6. Units(f, S \cup {y}) = Units(f, S) \cup Y
  BY DEF Units
<1>7. Cardinality(Units(f, S) \cup Y) = Cardinality(Units(f, S)) + Cardinality(Y) - 0
  <2> DEFINE A == Units(f, S)
  <2>1. IsFiniteSet(A) /\ IsFiniteSet(Y)
    BY <1>1, <1>4
  <2>2. Cardinality(A \cap Y) = 0
    <3>1. Cardinality({}) = 0
      BY FS_EmptySet
    <3> QED
      BY <1>5, <3>1
  <2> HIDE DEF Y, A
  <2>3. Cardinality(A \cup Y) = Cardinality(A) + Cardinality(Y) - Cardinality(A \cap Y)
    BY <2>1, FS_Union
  <2>4. Cardinality(A \cup Y) = Cardinality(A) + Cardinality(Y) - 0
    BY <2>2, <2>3
  <2> QED
    BY <2>4 DEF A
<1> HIDE DEF Y
<1>8. Total(f, S \cup {y}) = Cardinality(Units(f, S) \cup Y)
  BY <1>6 DEF Total
<1>9. Cardinality(Units(f, S)) = Total(f, S)
  BY DEF Total
<1>10. f[y] \in Nat
  OBVIOUS
<1> QED
  BY <1>1, <1>4, <1>7, <1>8, <1>9, <1>10

LEMMA TotalByParts ==
  ASSUME NEW S, IsFiniteSet(S), NEW f, \A x \in S : f[x] \in Nat,
         NEW V, IsFiniteSet(V), NEW g, \A v \in V : g[v] \in Nat,
         NEW p, \A x \in S : p[x] \in V,
         \A v \in V : Total(f, {x \in S : p[x] = v}) <= g[v]
  PROVE  Total(f, S) <= Total(g, V)
<1> DEFINE Part(v) == Units(f, {x \in S : p[x] = v})
           Size(v) == Cardinality(Part(v))
           H(v) == CHOOSE h : h \in Injection(Part(v), 1 .. g[v])
           m == [u \in Units(f, S) |-> <<p[u[1]], H(p[u[1]])[u]>>]
<1>1. \A v \in V : H(v) \in Injection(Part(v), 1 .. g[v])
  <2> TAKE v \in V
  <2>1. {x \in S : p[x] = v} \in SUBSET S
    OBVIOUS
  <2>2. IsFiniteSet({x \in S : p[x] = v})
    BY <2>1, FS_Subset
  <2>3. IsFiniteSet(Part(v)) /\ Size(v) \in Nat
    BY <2>2, TotalIsNat DEF Total
  <2>4. Size(v) <= g[v]
    BY DEF Total
  <2>5. PICK b : b \in Bijection(1 .. Size(v), Part(v))
    BY <2>3, FS_CardinalityType DEF ExistsBijection
  <2>6. /\ b \in [1 .. Size(v) -> Part(v)] /\ \A i, j \in 1 .. Size(v) : b[i] = b[j] => i = j
        /\ \A u \in Part(v) : \E i \in 1 .. Size(v) : b[i] = u
    BY <2>5 DEF Bijection, Injection, Surjection, IsInjective
  <2> DEFINE h == [u \in Part(v) |-> CHOOSE i \in 1 .. Size(v) : b[i] = u]
  <2>7. \A u \in Part(v) : h[u] \in 1 .. Size(v) /\ b[h[u]] = u
    BY <2>6
  <2>8. h \in [Part(v) -> 1 .. g[v]]
    <3>1. 1 .. Size(v) \subseteq 1 .. g[v]
      BY <2>3, <2>4
    <3> QED
      BY <2>7, <3>1
  <2>9. h \in Injection(Part(v), 1 .. g[v])
    <3>1. \A u, w \in Part(v) : h[u] = h[w] => u = w
      BY <2>7
    <3> HIDE DEF h, Part, Size
    <3> QED
      BY <2>8, <3>1 DEF Injection, IsInjective
  <2> QED
    BY <2>9
<1>2. \A u \in Units(f, S) : p[u[1]] \in V /\ u \in Part(p[u[1]])
  <2> TAKE u \in Units(f, S)
  <2>1. PICK x \in S : \E i \in 1 .. f[x] : u = <<x, i>>
    BY UnitsAre
  <2>2. u[1] = x
    BY <2>1
  <2>3. u \in Part(p[x])
    BY <2>1, UnitsAre
  <2> QED
    BY <2>2, <2>3
<1> HIDE DEF H, Part, Size
<1>3. \A u \in Units(f, S) : m[u] = <<p[u[1]], H(p[u[1]])[u]>>
  OBVIOUS
<1>4. \A u \in Units(f, S) : H(p[u[1]])[u] \in 1 .. g[p[u[1]]]
  BY <1>1, <1>2 DEF Injection
<1> HIDE DEF m
<1>5. \A u \in Units(f, S) : m[u] \in Units(g, V)
  BY <1>2, <1>3, <1>4, UnitsAre
<1>6. \A u, w \in Units(f, S) : m[u] = m[w] => u = w
  <2> SUFFICES ASSUME NEW u \in Units(f, S), NEW w \in Units(f, S), m[u] = m[w]
               PROVE  u = w
    OBVIOUS
  <2>1. p[u[1]] = p[w[1]] /\ H(p[u[1]])[u] = H(p[u[1]])[w]
    BY <1>3
  <2>2. u \in Part(p[u[1]]) /\ w \in Part(p[u[1]]) /\ p[u[1]] \in V
    BY <1>2, <2>1
  <2> QED
    BY <1>1, <2>1, <2>2 DEF Injection, IsInjective
<1>7. m \in Injection(Units(f, S), Units(g, V))
  <2>1. m \in [Units(f, S) -> Units(g, V)]
    BY <1>5 DEF m
  <2> QED
    BY <1>6, <2>1 DEF Injection, IsInjective
<1>8. IsFiniteSet(Units(g, V))
  BY TotalIsNat
<1> QED
  BY <1>7, <1>8, FS_Injection DEF Total

-----------------------------------------------------------------------------
(* Web chat.  A turn has a visitor once it has been asked; a turn that is  *)
(* over has none.                                                          *)
Asked == {"cap", "find", "create", "reply", "question", "answer", "count", "stored"}
Entered == {"reply", "question", "answer", "count"}
Roles == {"user", "assistant"}

ChatTurn == [step : Asked \cup {"idle", "over", "left"}, of : Visitors \cup {Absent},
             reading : SUBSET Nat, rounds : 0 .. MaxRounds, made : Nat, at : Nat]

ChatTypeOK ==
  /\ made \in Nat /\ clock \in Nat /\ abreast \in Nat
  /\ conv \in [Visitors -> [open : BOOLEAN, tokens : Nat, last : Nat]]
  /\ written \in Seq([turn : Turns, role : Roles])
  /\ turn \in [Turns -> ChatTurn]

Rounds == [t \in Turns |-> turn[t].rounds]
Tokens == [v \in Visitors |-> conv[v].tokens]
StoredOf(v) == {t \in Turns : Visible(t) /\ turn[t].of = v}
EnteredOf(v) == {t \in Turns : turn[t].step \in Entered /\ turn[t].made = made /\ turn[t].of = v}
IdsOf(t) == {i \in DOMAIN written : written[i].turn = t}

(* Who has passed the cap, or will whatever the day has cost.              *)
Passed ==
  {t \in Turns : turn[t].step \in Asked \ {"cap", "stored"} \/ (At(t, "cap") /\ turn[t].made # made)}

TurnsAreTheirs ==
  \A t \in Turns : turn[t].step \in Asked =>
    /\ turn[t].of \in Visitors /\ turn[t].made <= made
    /\ Storing(t) => turn[t].made = made
    /\ turn[t].step \in Entered \cup {"stored"} /\ turn[t].made = made => conv[turn[t].of].open

BooksAreRight ==
  /\ \A v \in Visitors : conv[v].last <= clock /\ conv[v].tokens = Total(Rounds, StoredOf(v))
  /\ \A t \in Turns : turn[t].at <= clock
  /\ \A t \in Turns : Visible(t) => turn[t].at <= conv[turn[t].of].last

CrowdIsCounted == UnderWay <= abreast

DayHolds ==
  Total(Rounds, Lately) + MaxRounds * Cardinality(Passed) <= DailyCap - 1 + MaxRounds * abreast

ConversationsHold ==
  \A v \in Visitors :
    Cardinality(StoredOf(v)) + Cardinality(EnteredOf(v)) <= MaxTurns - 1 + abreast

Asks(t, i) == IdsOf(t) = {i} /\ written[i].role = "user" /\ (abreast <= 1 => i = Len(written))
Exchange(t, i, j) ==
  /\ IdsOf(t) = {i, j} /\ i < j
  /\ written[i].role = "user" /\ written[j].role = "assistant"
  /\ abreast <= 1 => j = i + 1

MessagesAreKept ==
  \A t \in Turns :
    /\ turn[t].step \in {"idle", "cap", "find", "create", "reply", "question"} => IdsOf(t) = {}
    /\ At(t, "answer") => \E i \in DOMAIN written : Asks(t, i)
    /\ turn[t].step \in {"count", "stored"} => \E i, j \in DOMAIN written : Exchange(t, i, j)

ReadingsAreWhole ==
  \A t \in Turns : \A i \in turn[t].reading :
    /\ i \in DOMAIN written /\ At(written[i].turn, "stored")
    /\ IdsOf(written[i].turn) \subseteq turn[t].reading

ChatInv ==
  /\ ChatTypeOK /\ TurnsAreTheirs /\ BooksAreRight /\ CrowdIsCounted
  /\ DayHolds /\ ConversationsHold /\ MessagesAreKept /\ ReadingsAreWhole

-----------------------------------------------------------------------------
LEMMA SetsAreFinite ==
  ASSUME NEW S \in SUBSET Turns
  PROVE  IsFiniteSet(S) /\ Cardinality(S) \in Nat
BY ChatAssumption, FS_Subset, FS_CardinalityType

LEMMA ChatCrowdStep ==
  ASSUME ChatTypeOK, ChatNext
  PROVE  abreast' \in Nat /\ abreast <= abreast' /\ CrowdIsCounted'
<1>1. UnderWay' \in Nat
  BY SetsAreFinite DEF UnderWay
<1> QED
  BY <1>1 DEF ChatTypeOK, ChatNext, CrowdIsCounted

(* What a step of a turn does to the others, and to what is not its own.   *)
LEMMA TurnMoves ==
  ASSUME ChatTypeOK, NEW t \in Turns, TakeTurn(t)
  PROVE  /\ made' = made /\ clock' = clock
         /\ DOMAIN turn' = Turns /\ \A u \in Turns \ {t} : turn'[u] = turn[u]
BY DEF ChatTypeOK, TakeTurn, Ask, Cap, Unavailable, Find, Create, Round, OutOfRounds, Leave, Lost,
       Question, AnswerIn, Count, RollBack, Goes, Ends, Enter

LEMMA TurnIsTyped ==
  ASSUME ChatTypeOK, TurnsAreTheirs, NEW t \in Turns, TakeTurn(t)
  PROVE  turn' \in [Turns -> ChatTurn]
<1> USE DEF At
<1>0. /\ turn \in [Turns -> ChatTurn] /\ turn[t] \in ChatTurn /\ made \in Nat /\ clock \in Nat
      /\ \A r \in ChatTurn : [turn EXCEPT ![t] = r] \in [Turns -> ChatTurn]
  BY DEF ChatTypeOK
<1>1. ASSUME NEW v \in Visitors, Ask(t, v) PROVE turn' \in [Turns -> ChatTurn]
  <2>1. [turn[t] EXCEPT !.step = "cap", !.of = v, !.made = made] \in ChatTurn
    BY <1>0 DEF ChatTurn, Asked
  <2>2. turn' = [turn EXCEPT ![t] = [turn[t] EXCEPT !.step = "cap", !.of = v, !.made = made]]
    BY <1>0, <1>1 DEF Ask
  <2> QED
    BY <1>0, <2>1, <2>2
<1>2. ASSUME NEW step \in {"over", "left"},
             turn' = [turn EXCEPT ![t] = [Unasked EXCEPT !.step = step]]
      PROVE  turn' \in [Turns -> ChatTurn]
  <2>1. 0 \in 0 .. MaxRounds
    BY ChatAssumption
  <2>2. [Unasked EXCEPT !.step = step] \in ChatTurn
    BY <2>1 DEF ChatTurn, Unasked
  <2> QED
    BY <1>0, <1>2, <2>2
<1>4. ASSUME NEW H \in SUBSET Nat, Enter(t, H) PROVE turn' \in [Turns -> ChatTurn]
  <2>1. [turn[t] EXCEPT !.made = made, !.step = "reply", !.reading = H] \in ChatTurn
    BY <1>0 DEF ChatTurn, Asked
  <2>2. turn' = [turn EXCEPT ![t] = [turn[t] EXCEPT !.made = made, !.step = "reply", !.reading = H]]
          \/ Ends(t)
    BY <1>0, <1>4 DEF Enter
  <2> QED
    BY <1>0, <1>2, <2>1, <2>2 DEF Ends
<1>5. History(turn[t].of) \in SUBSET Nat
  <2>1. DOMAIN written \subseteq Nat
    BY DEF ChatTypeOK
  <2> QED
    BY <2>1 DEF History
<1>6. ASSUME NEW step \in Asked, Goes(t, step) PROVE turn' \in [Turns -> ChatTurn]
  <2>1. [turn[t] EXCEPT !.step = step] \in ChatTurn
    BY <1>0 DEF ChatTurn
  <2> QED
    BY <1>0, <1>6, <2>1 DEF Goes
<1>7. CASE Cap(t) \/ Unavailable(t) \/ Lost(t) \/ RollBack(t)
  BY <1>2, <1>6, <1>7 DEF Cap, Unavailable, Lost, RollBack, Ends, Asked
<1>8. CASE Find(t)
  BY <1>4, <1>5, <1>6, <1>8 DEF Find, Asked
<1>9. CASE Create(t)
  BY <1>2, <1>4, <1>9 DEF Create, Ends
<1>10. CASE Round(t) \/ OutOfRounds(t)
  <2>1. turn[t].rounds \in 0 .. MaxRounds
    BY <1>0 DEF ChatTurn
  <2>2. turn[t].rounds < MaxRounds => turn[t].rounds + 1 \in 0 .. MaxRounds
    BY <2>1, ChatAssumption
  <2>3. ASSUME NEW n \in 0 .. MaxRounds
        PROVE  /\ [turn[t] EXCEPT !.rounds = n] \in ChatTurn
               /\ [turn[t] EXCEPT !.rounds = n, !.step = "question", !.reading = {}] \in ChatTurn
    BY <1>0 DEF ChatTurn, Asked
  <2>4. [turn[t] EXCEPT !.step = "question", !.reading = {}] \in ChatTurn
    BY <1>0 DEF ChatTurn, Asked
  <2>5. CASE OutOfRounds(t)
    <3>1. turn' = [turn EXCEPT ![t] = [turn[t] EXCEPT !.step = "question", !.reading = {}]]
      BY <1>0, <2>5 DEF OutOfRounds
    <3> QED
      BY <1>0, <2>4, <3>1
  <2>6. CASE Round(t)
    <3> DEFINE n == turn[t].rounds + 1
    <3>1. \/ turn' = [turn EXCEPT ![t] = [turn[t] EXCEPT !.rounds = n]]
          \/ turn' = [turn EXCEPT ![t] =
                        [turn[t] EXCEPT !.rounds = n, !.step = "question", !.reading = {}]]
      BY <1>0, <2>6 DEF Round
    <3>2. n \in 0 .. MaxRounds
      BY <2>2, <2>6 DEF Round
    <3> HIDE DEF n
    <3> QED
      BY <1>0, <2>3, <3>1, <3>2
  <2> QED
    BY <1>10, <2>5, <2>6
<1>11. CASE Leave(t)
  BY <1>2, <1>11 DEF Leave
<1>12. CASE Question(t) \/ AnswerIn(t)
  BY <1>2, <1>6, <1>12 DEF Question, AnswerIn, Ends, Asked
<1>13. CASE Count(t)
  <2>1. [turn[t] EXCEPT !.step = "stored", !.at = clock] \in ChatTurn
    BY <1>0 DEF ChatTurn, Asked
  <2>2. turn' = [turn EXCEPT ![t] = [turn[t] EXCEPT !.step = "stored", !.at = clock]]
    BY <1>0, <1>13 DEF Count
  <2> QED
    BY <1>0, <2>1, <2>2
<1> QED
  BY <1>1, <1>7, <1>8, <1>9, <1>10, <1>11, <1>12, <1>13 DEF TakeTurn

LEMMA ChatTypeStep ==
  ASSUME ChatTypeOK, TurnsAreTheirs, ChatNext
  PROVE  ChatTypeOK'
<1>1. abreast' \in Nat
  BY ChatCrowdStep
<1> DEFINE Row == [open : BOOLEAN, tokens : Nat, last : Nat]
           Line == [turn : Turns, role : Roles]
           Rest == /\ made' \in Nat /\ clock' \in Nat /\ conv' \in [Visitors -> Row]
                   /\ written' \in Seq(Line) /\ turn' \in [Turns -> ChatTurn]
<1>2. ASSUME NEW t \in Turns, TakeTurn(t) PROVE Rest
  <2>1. made' \in Nat /\ clock' \in Nat
    BY <1>2, TurnMoves DEF ChatTypeOK
  <2>2. conv' \in [Visitors -> Row]
    <3>1. CASE conv' = conv
      BY <3>1 DEF ChatTypeOK
    <3>2. CASE Create(t)
      <4>1. [Absent EXCEPT !.open = TRUE, !.last = clock] \in Row
        BY DEF Absent, ChatTypeOK
      <4> QED
        BY <3>2, <4>1 DEF Create, ChatTypeOK
    <3>3. CASE Count(t)
      <4>1. turn[t].of \in Visitors
        BY <3>3 DEF Count, At, TurnsAreTheirs, Asked
      <4>2. conv[turn[t].of] \in Row /\ turn[t].rounds \in Nat /\ clock \in Nat
        <5>1. turn[t].rounds \in 0 .. MaxRounds
          BY DEF ChatTypeOK, ChatTurn
        <5> QED
          BY <4>1, <5>1, ChatAssumption DEF ChatTypeOK
      <4>3. [conv[turn[t].of] EXCEPT !.tokens = @ + turn[t].rounds, !.last = clock] \in Row
        <5>1. ASSUME NEW c \in Row, NEW n \in Nat, NEW l \in Nat
              PROVE  [c EXCEPT !.tokens = n, !.last = l] \in Row
          OBVIOUS
        <5>2. conv[turn[t].of].tokens + turn[t].rounds \in Nat
          BY <4>2
        <5> QED
          BY <4>2, <5>1, <5>2
      <4>4. conv' = [conv EXCEPT ![turn[t].of] =
                       [conv[turn[t].of] EXCEPT !.tokens = @ + turn[t].rounds, !.last = clock]]
        BY <3>3, <4>1 DEF Count, ChatTypeOK
      <4> QED
        BY <4>1, <4>3, <4>4 DEF ChatTypeOK
    <3> QED
      BY <1>2, <3>1, <3>2, <3>3 DEF TakeTurn, Ask, Cap, Unavailable, Find, Round, OutOfRounds,
         Leave, Lost, Question, AnswerIn, RollBack
  <2>3. written' \in Seq(Line)
    <3>1. CASE written' = written
      BY <3>1 DEF ChatTypeOK
    <3>2. ASSUME NEW role \in Roles, Add(t, role) PROVE written' \in Seq(Line)
      BY <3>2 DEF Add, ChatTypeOK
    <3> QED
      BY <1>2, <3>1, <3>2 DEF TakeTurn, Ask, Cap, Unavailable, Find, Create, Round, OutOfRounds,
         Leave, Lost, Question, AnswerIn, Count, RollBack, Roles
  <2>4. turn' \in [Turns -> ChatTurn]
    BY <1>2, TurnIsTyped
  <2> QED
    BY <2>1, <2>2, <2>3, <2>4
<1>0. /\ made \in Nat /\ clock \in Nat /\ conv \in [Visitors -> Row]
      /\ written \in Seq(Line) /\ turn \in [Turns -> ChatTurn]
  BY DEF ChatTypeOK
<1> HIDE DEF Row, Line
<1>3. ASSUME SaveWidget \/ Tomorrow PROVE Rest
  BY <1>0, <1>3 DEF SaveWidget, Tomorrow
<1>4. ASSUME DeleteWidget PROVE Rest
  <2>1. Absent \in Row
    BY DEF Absent, Row
  <2>2. made' \in Nat /\ clock' \in Nat
    BY <1>0, <1>4 DEF DeleteWidget
  <2> QED
    BY <1>0, <1>4, <2>1, <2>2 DEF DeleteWidget
<1>5. Rest
  BY <1>2, <1>3, <1>4 DEF ChatNext
<1> QED
  BY <1>1, <1>5 DEF ChatTypeOK, Row, Line

-----------------------------------------------------------------------------
(* What a turn does with its step, as the rest of the proof needs it.      *)
Begins(t) ==
  /\ At(t, "idle") /\ turn'[t].step = "cap" /\ turn'[t].of \in Visitors /\ turn'[t].made = made
  /\ turn'[t].reading = turn[t].reading /\ turn'[t].at = turn[t].at
  /\ UNCHANGED <<conv, written>>

Stops(t) ==
  /\ turn[t].step \notin {"idle", "over", "stored"} /\ turn'[t].step \in {"over", "left"}
  /\ turn'[t].reading = {} /\ turn'[t].at = 0
  /\ UNCHANGED <<conv, written>>

Stays(t) ==
  turn'[t].of = turn[t].of /\ turn'[t].made = turn[t].made /\ turn'[t].at = turn[t].at

MovesOn(t) ==
  /\ Stays(t) /\ turn'[t].reading \in {turn[t].reading, {}}
  /\ \/ At(t, "cap") /\ Used(t) < DailyCap /\ turn'[t].step = "find"
     \/ At(t, "find") /\ turn'[t].step = "create"
     \/ At(t, "reply") /\ turn'[t].step \in {"reply", "question"}
  /\ UNCHANGED <<conv, written>>

Enters(t) ==
  /\ turn'[t].step = "reply" /\ turn'[t].of = turn[t].of /\ turn'[t].made = made
  /\ turn'[t].at = turn[t].at /\ UNCHANGED written
  /\ \/ /\ At(t, "find") /\ conv[turn[t].of].open /\ UNCHANGED conv
        /\ turn'[t].reading = History(turn[t].of)
        /\ ~(Cardinality(History(turn[t].of)) >= 2 * MaxTurns)
     \/ /\ At(t, "create") /\ ~conv[turn[t].of].open /\ turn'[t].reading = {}
        /\ conv' = [conv EXCEPT ![turn[t].of] = [Absent EXCEPT !.open = TRUE, !.last = clock]]

Writes(t) ==
  /\ Stays(t) /\ UNCHANGED conv /\ turn'[t].reading = turn[t].reading
  /\ \/ /\ At(t, "question") /\ turn[t].made = made /\ turn'[t].step = "answer"
        /\ Add(t, "user")
     \/ At(t, "answer") /\ turn'[t].step = "count" /\ Add(t, "assistant")

Stores(t) ==
  /\ At(t, "count") /\ turn'[t].step = "stored" /\ turn'[t].at = clock
  /\ turn'[t].of = turn[t].of /\ turn'[t].made = turn[t].made
  /\ turn'[t].rounds = turn[t].rounds /\ turn'[t].reading = turn[t].reading
  /\ UNCHANGED written
  /\ conv' = [conv EXCEPT ![turn[t].of].tokens = @ + turn[t].rounds, ![turn[t].of].last = clock]

LEMMA TurnCases ==
  ASSUME ChatTypeOK, NEW t \in Turns, TakeTurn(t)
  PROVE  Begins(t) \/ Stops(t) \/ MovesOn(t) \/ Enters(t) \/ Writes(t) \/ Stores(t)
<1> USE DEF At
<1>0. turn \in [Turns -> ChatTurn] /\ turn[t] \in ChatTurn
  BY DEF ChatTypeOK
<1>1. ASSUME NEW v \in Visitors, Ask(t, v) PROVE Begins(t)
  BY <1>0, <1>1 DEF Ask, Begins, ChatTurn
<1>2. ASSUME NEW step \in {"over", "left"}, turn[t].step \notin {"idle", "over", "stored"},
             turn' = [turn EXCEPT ![t] = [Unasked EXCEPT !.step = step]],
             UNCHANGED <<conv, written>>
      PROVE  Stops(t)
  BY <1>0, <1>2 DEF Stops, Unasked
<1>3. CASE Cap(t)
  <2>1. CASE Used(t) >= DailyCap
    BY <1>2, <1>3, <2>1 DEF Cap, Ends
  <2>2. CASE ~(Used(t) >= DailyCap)
    <3>1. Used(t) \in Nat
      <4>1. /\ {v \in Visitors : conv[v].open /\ Recent(conv[v])} \in SUBSET Visitors
            /\ \A v \in Visitors : [w \in Visitors |-> conv[w].tokens][v] \in Nat
        BY DEF ChatTypeOK
      <4>2. IsFiniteSet({v \in Visitors : conv[v].open /\ Recent(conv[v])})
        BY <4>1, ChatAssumption, FS_Subset
      <4>3. Total([v \in Visitors |-> conv[v].tokens],
                  {v \in Visitors : conv[v].open /\ Recent(conv[v])}) \in Nat
        BY <4>1, <4>2, TotalIsNat
      <4> QED
        BY <4>3 DEF Used, Spent
    <3>2. Used(t) < DailyCap
      BY <2>2, <3>1, ChatAssumption
    <3>3. turn' = [turn EXCEPT ![t] = [turn[t] EXCEPT !.step = "find"]] /\ UNCHANGED <<conv, written>>
      BY <1>0, <1>3, <2>2 DEF Cap, Goes
    <3>4. turn'[t] = [turn[t] EXCEPT !.step = "find"]
      BY <1>0, <3>3
    <3>5. Stays(t) /\ turn'[t].reading = turn[t].reading /\ turn'[t].step = "find"
      BY <1>0, <3>4 DEF Stays, ChatTurn
    <3> QED
      BY <1>3, <3>2, <3>3, <3>5 DEF MovesOn, Cap
  <2> QED
    BY <2>1, <2>2
<1>4. CASE Unavailable(t) \/ Lost(t) \/ RollBack(t) \/ Leave(t)
  BY <1>2, <1>4 DEF Unavailable, Lost, RollBack, Leave, Ends, Storing
<1>5. CASE Find(t)
  <2>1. CASE ~conv[turn[t].of].open
    <3>1. turn'[t] = [turn[t] EXCEPT !.step = "create"]
      BY <1>0, <1>5, <2>1 DEF Find, Goes
    <3>2. Stays(t) /\ turn'[t].reading = turn[t].reading /\ turn'[t].step = "create"
      BY <1>0, <3>1 DEF Stays, ChatTurn
    <3> QED
      BY <1>5, <3>2 DEF MovesOn, Find
  <2>2. CASE conv[turn[t].of].open
    <3> DEFINE H == History(turn[t].of)
    <3>1. Enter(t, H) /\ At(t, "find") /\ UNCHANGED <<conv, written>>
      BY <1>5, <2>2 DEF Find
    <3>2. CASE Cardinality(H) >= 2 * MaxTurns
      BY <1>2, <3>1, <3>2 DEF Enter, Ends
    <3>3. CASE ~(Cardinality(H) >= 2 * MaxTurns)
      <4>1. turn'[t] = [turn[t] EXCEPT !.made = made, !.step = "reply", !.reading = H]
        BY <1>0, <3>1, <3>3 DEF Enter
      <4> QED
        BY <1>0, <2>2, <3>1, <3>3, <4>1 DEF Enters, ChatTurn
    <3> QED
      BY <3>2, <3>3
  <2> QED
    BY <2>1, <2>2
<1>6. CASE Create(t)
  <2>1. CASE conv[turn[t].of].open \/ turn[t].made # made
    BY <1>2, <1>6, <2>1 DEF Create, Ends
  <2>2. CASE ~(conv[turn[t].of].open \/ turn[t].made # made)
    <3>1. 2 * MaxTurns \in Nat /\ ~(0 >= 2 * MaxTurns)
      BY ChatAssumption
    <3>2. Cardinality({}) = 0
      BY FS_EmptySet
    <3>3. turn'[t] = [turn[t] EXCEPT !.made = made, !.step = "reply", !.reading = {}]
      BY <1>0, <1>6, <2>2, <3>1, <3>2 DEF Create, Enter
    <3> QED
      BY <1>0, <1>6, <2>2, <3>3 DEF Enters, Create, ChatTurn
  <2> QED
    BY <2>1, <2>2
<1>7. CASE Round(t) \/ OutOfRounds(t)
  <2>1. \/ turn'[t] = [turn[t] EXCEPT !.rounds = turn[t].rounds + 1]
        \/ turn'[t] = [turn[t] EXCEPT !.rounds = turn[t].rounds + 1, !.step = "question", !.reading = {}]
        \/ turn'[t] = [turn[t] EXCEPT !.step = "question", !.reading = {}]
    BY <1>0, <1>7 DEF Round, OutOfRounds
  <2>2. /\ Stays(t) /\ turn'[t].reading \in {turn[t].reading, {}}
        /\ turn'[t].step \in {turn[t].step, "question"}
    BY <1>0, <2>1 DEF Stays, ChatTurn
  <2> QED
    BY <1>7, <2>2 DEF Round, OutOfRounds, MovesOn
<1>8. CASE Question(t)
  <2>1. CASE turn[t].made # made
    BY <1>2, <1>8, <2>1 DEF Question, Ends
  <2>2. CASE turn[t].made = made
    <3>1. turn'[t] = [turn[t] EXCEPT !.step = "answer"]
      BY <1>0, <1>8, <2>2 DEF Question, Goes
    <3>2. Stays(t) /\ turn'[t].reading = turn[t].reading /\ turn'[t].step = "answer"
      BY <1>0, <3>1 DEF Stays, ChatTurn
    <3> QED
      BY <1>8, <2>2, <3>2 DEF Question, Writes
  <2> QED
    BY <2>1, <2>2
<1>9. CASE AnswerIn(t)
  <2>1. turn'[t] = [turn[t] EXCEPT !.step = "count"]
    BY <1>0, <1>9 DEF AnswerIn, Goes
  <2>2. Stays(t) /\ turn'[t].reading = turn[t].reading /\ turn'[t].step = "count"
    BY <1>0, <2>1 DEF Stays, ChatTurn
  <2> QED
    BY <1>9, <2>2 DEF AnswerIn, Writes
<1>10. CASE Count(t)
  <2>1. turn'[t] = [turn[t] EXCEPT !.step = "stored", !.at = clock]
    BY <1>0, <1>10 DEF Count
  <2>2. /\ turn'[t].step = "stored" /\ turn'[t].at = clock
        /\ turn'[t].of = turn[t].of /\ turn'[t].made = turn[t].made
        /\ turn'[t].rounds = turn[t].rounds /\ turn'[t].reading = turn[t].reading
    BY <1>0, <2>1 DEF ChatTurn
  <2> QED
    BY <1>10, <2>2 DEF Stores, Count
<1> QED
  BY <1>1, <1>3, <1>4, <1>5, <1>6, <1>7, <1>8, <1>9, <1>10 DEF TakeTurn

-----------------------------------------------------------------------------
LEMMA RowsAfter ==
  ASSUME ChatTypeOK, TurnsAreTheirs, NEW t \in Turns, TakeTurn(t)
  PROVE  /\ \A v \in Visitors : conv[v].open => conv'[v].open
         /\ ~Stores(t) => \A v \in Visitors : conv[v].open => conv'[v] = conv[v]
         /\ Enters(t) => conv'[turn[t].of].open
         /\ ~Stores(t) => \A v \in Visitors : conv'[v] # conv[v] =>
              conv'[v].tokens = 0 /\ conv'[v].last = clock
         /\ Stores(t) => \A v \in Visitors :
              IF v = turn[t].of
              THEN conv'[v].tokens = conv[v].tokens + turn[t].rounds /\ conv'[v].last = clock
              ELSE conv'[v] = conv[v]
<1> DEFINE Row == [open : BOOLEAN, tokens : Nat, last : Nat]
<1>1. conv \in [Visitors -> Row]
  BY DEF ChatTypeOK
<1>2. CASE UNCHANGED conv /\ ~Stores(t) /\ ~Enters(t)
  BY <1>2
<1>3. CASE Enters(t)
  <2>1. turn[t].of \in Visitors
    BY <1>3 DEF Enters, At, TurnsAreTheirs, Asked
  <2>2. ~Stores(t)
    BY <1>3 DEF Enters, Stores
  <2>3. CASE UNCHANGED conv /\ conv[turn[t].of].open
    BY <2>2, <2>3
  <2>4. CASE /\ ~conv[turn[t].of].open
             /\ conv' = [conv EXCEPT ![turn[t].of] = [Absent EXCEPT !.open = TRUE, !.last = clock]]
    <3> DEFINE new == [Absent EXCEPT !.open = TRUE, !.last = clock]
    <3>1. new.open /\ new.tokens = 0 /\ new.last = clock
      BY DEF Absent
    <3>2. /\ conv'[turn[t].of] = new
          /\ \A v \in Visitors : v # turn[t].of => conv'[v] = conv[v]
      BY <1>1, <2>1, <2>4
    <3> HIDE DEF new, Row
    <3> QED
      BY <2>2, <2>4, <3>1, <3>2
  <2> QED
    BY <1>3, <2>3, <2>4 DEF Enters
<1>4. CASE Stores(t)
  <2>1. turn[t].of \in Visitors
    BY <1>4 DEF Stores, At, TurnsAreTheirs, Asked
  <2>2. /\ conv'[turn[t].of].tokens = conv[turn[t].of].tokens + turn[t].rounds
        /\ conv'[turn[t].of].last = clock
        /\ \A v \in Visitors : v # turn[t].of => conv'[v] = conv[v]
    BY <1>1, <1>4, <2>1 DEF Stores
  <2>3. conv'[turn[t].of].open = conv[turn[t].of].open
    BY <1>1, <1>4, <2>1 DEF Stores
  <2>4. ~Enters(t)
    BY <1>4 DEF Enters, Stores
  <2> QED
    BY <1>4, <2>1, <2>2, <2>3, <2>4
<1> QED
  BY <1>2, <1>3, <1>4, TurnCases DEF Begins, Stops, MovesOn, Writes

LEMMA TheirsStep ==
  ASSUME ChatTypeOK, TurnsAreTheirs, ChatNext
  PROVE  TurnsAreTheirs'
<1>1. ASSUME NEW t \in Turns, TakeTurn(t) PROVE TurnsAreTheirs'
  <2>1. /\ made' = made /\ \A u \in Turns \ {t} : turn'[u] = turn[u]
        /\ \A v \in Visitors : conv[v].open => conv'[v].open
        /\ Enters(t) => conv'[turn[t].of].open
    BY <1>1, TurnMoves, RowsAfter
  <2> SUFFICES ASSUME NEW u \in Turns, turn'[u].step \in Asked
               PROVE  /\ turn'[u].of \in Visitors /\ turn'[u].made <= made'
                      /\ Storing(u)' => turn'[u].made = made'
                      /\ turn'[u].step \in Entered \cup {"stored"} /\ turn'[u].made = made'
                           => conv'[turn'[u].of].open
    BY DEF TurnsAreTheirs
  <2>2. CASE u # t
    BY <2>1, <2>2 DEF TurnsAreTheirs, Storing
  <2>3. CASE u = t
    <3>1. CASE Begins(t)
      <4>1. made <= made
        BY DEF ChatTypeOK
      <4> QED
        BY <2>1, <2>3, <3>1, <4>1 DEF Begins, Entered, Storing
    <3>2. CASE Stops(t)
      BY <2>3, <3>2 DEF Stops, Asked
    <3>3. CASE MovesOn(t)
      BY <2>1, <2>3, <3>3 DEF MovesOn, Stays, At, TurnsAreTheirs, Asked, Entered, Storing
    <3>4. CASE Enters(t)
      <4>1. made <= made
        BY DEF ChatTypeOK
      <4> QED
        BY <2>1, <2>3, <3>4, <4>1 DEF Enters, At, TurnsAreTheirs, Asked, Entered, Storing
    <3>5. CASE Writes(t)
      BY <2>1, <2>3, <3>5 DEF Writes, Stays, At, TurnsAreTheirs, Asked, Entered, Storing
    <3>6. CASE Stores(t)
      BY <2>1, <2>3, <3>6 DEF Stores, At, TurnsAreTheirs, Asked, Entered, Storing
    <3> QED
      BY <1>1, <3>1, <3>2, <3>3, <3>4, <3>5, <3>6, TurnCases
  <2> QED
    BY <2>2, <2>3
<1>2. CASE SaveWidget \/ Tomorrow
  BY <1>2 DEF SaveWidget, Tomorrow, TurnsAreTheirs, Storing
<1>3. CASE DeleteWidget
  <2>1. made \in Nat /\ made' = made + 1 /\ turn' = turn /\ \A t \in Turns : ~Storing(t)
    BY <1>3 DEF DeleteWidget, ChatTypeOK
  <2>2. \A t \in Turns : turn[t].made \in Nat
    BY DEF ChatTypeOK, ChatTurn
  <2>3. \A t \in Turns : turn[t].step \in Asked =>
          /\ turn[t].of \in Visitors /\ turn[t].made <= made' /\ turn[t].made # made'
    BY <2>1, <2>2 DEF TurnsAreTheirs
  <2> QED
    BY <2>1, <2>3 DEF TurnsAreTheirs, Storing
<1> QED
  BY <1>1, <1>2, <1>3 DEF ChatNext

-----------------------------------------------------------------------------
(* Most steps store nothing; what has been stored stays as it is.          *)
LEMMA NobodyStores ==
  ASSUME ChatTypeOK, NEW t \in Turns, TakeTurn(t), ~Stores(t)
  PROVE  /\ Lately' = Lately /\ \A v \in Visitors : StoredOf(v)' = StoredOf(v)
         /\ \A u \in Turns : Visible(u)' <=> Visible(u)
         /\ \A u \in Turns : Visible(u) => turn'[u] = turn[u]
<1>1. made' = made /\ clock' = clock /\ \A u \in Turns \ {t} : turn'[u] = turn[u]
  BY TurnMoves
<1>2. ~At(t, "stored") /\ ~At(t, "stored")'
  BY TurnCases DEF Begins, Stops, MovesOn, Enters, Writes, At
<1>3. \A u \in Turns : (Visible(u)' <=> Visible(u)) /\ (Visible(u) => turn'[u] = turn[u])
  BY <1>1, <1>2 DEF Visible, At
<1> QED
  BY <1>1, <1>3 DEF Lately, StoredOf

LEMMA OneStores ==
  ASSUME ChatTypeOK, TurnsAreTheirs, NEW t \in Turns, TakeTurn(t), Stores(t)
  PROVE  /\ Lately' \subseteq Lately \cup {t} /\ t \notin Lately
         /\ \A v \in Visitors :
              StoredOf(v)' = IF v = turn[t].of THEN StoredOf(v) \cup {t} ELSE StoredOf(v)
         /\ \A v \in Visitors : t \notin StoredOf(v)
         /\ \A u \in Turns : Visible(u)' <=> u = t \/ Visible(u)
<1>1. made' = made /\ clock' = clock /\ \A u \in Turns \ {t} : turn'[u] = turn[u]
  BY TurnMoves
<1>2. ~Visible(t) /\ Visible(t)' /\ turn'[t].of = turn[t].of
  BY <1>1 DEF Stores, Visible, At, TurnsAreTheirs, Asked, Storing
<1>3. \A u \in Turns : (Visible(u)' <=> u = t \/ Visible(u))
  BY <1>1, <1>2 DEF Visible, At
<1>4. Lately' \subseteq Lately \cup {t} /\ t \notin Lately
  BY <1>1, <1>2, <1>3 DEF Lately
<1>5. /\ \A v \in Visitors :
           StoredOf(v)' = IF v = turn[t].of THEN StoredOf(v) \cup {t} ELSE StoredOf(v)
      /\ \A v \in Visitors : t \notin StoredOf(v)
  BY <1>1, <1>2, <1>3 DEF StoredOf
<1> QED
  BY <1>3, <1>4, <1>5

-----------------------------------------------------------------------------
(* A deletion leaves nothing stored.                                       *)
LEMMA DeletedIsGone ==
  ASSUME ChatTypeOK, TurnsAreTheirs, DeleteWidget
  PROVE  /\ \A u \in Turns : ~Visible(u)'
         /\ Lately' = {} /\ \A v \in Visitors : StoredOf(v)' = {} /\ EnteredOf(v)' = {}
<1>1. made \in Nat /\ made' = made + 1 /\ turn' = turn
  BY DEF DeleteWidget, ChatTypeOK
<1>2. \A t \in Turns : turn[t].made \in Nat
  BY DEF ChatTypeOK, ChatTurn
<1>3. \A t \in Turns : turn[t].step \in Asked => turn[t].made # made'
  BY <1>1, <1>2 DEF TurnsAreTheirs
<1>4. \A u \in Turns : ~Visible(u)'
  BY <1>1, <1>3 DEF Visible, At, Asked
<1>5. \A v \in Visitors : EnteredOf(v)' = {}
  BY <1>1, <1>3 DEF EnteredOf, Asked, Entered
<1> QED
  BY <1>4, <1>5 DEF Lately, StoredOf

LEMMA StoredAreFinite ==
  ASSUME ChatTypeOK
  PROVE  /\ \A t \in Turns : Rounds[t] = turn[t].rounds /\ Rounds[t] \in Nat
         /\ IsFiniteSet(Lately) /\ \A v \in Visitors : IsFiniteSet(StoredOf(v))
<1>1. \A t \in Turns : turn[t].rounds \in 0 .. MaxRounds
  BY DEF ChatTypeOK, ChatTurn
<1>2. \A t \in Turns : Rounds[t] = turn[t].rounds /\ Rounds[t] \in Nat
  BY <1>1, ChatAssumption DEF Rounds
<1>3. Lately \in SUBSET Turns /\ \A v \in Visitors : StoredOf(v) \in SUBSET Turns
  BY DEF Lately, StoredOf
<1> QED
  BY <1>2, <1>3, SetsAreFinite

LEMMA BooksStep ==
  ASSUME ChatTypeOK, TurnsAreTheirs, BooksAreRight, ChatNext
  PROVE  BooksAreRight'
<1> DEFINE Row == [open : BOOLEAN, tokens : Nat, last : Nat]
<1>0. /\ conv \in [Visitors -> Row] /\ clock \in Nat /\ \A v \in Visitors : conv[v].last \in Nat
      /\ \A t \in Turns : turn[t].at \in Nat /\ turn[t].rounds \in 0 .. MaxRounds
  BY DEF ChatTypeOK, ChatTurn
<1> HIDE DEF Row
<1>1. ASSUME NEW t \in Turns, TakeTurn(t) PROVE BooksAreRight'
  <2>0. made' = made /\ clock' = clock /\ \A u \in Turns \ {t} : turn'[u] = turn[u]
    BY <1>1, TurnMoves
  <2>1. \A u \in Turns : turn'[u].at <= clock'
    <3>1. turn'[t].at \in {turn[t].at, 0, clock}
      BY <1>1, TurnCases DEF Begins, Stops, MovesOn, Enters, Writes, Stores, Stays
    <3> QED
      BY <1>0, <2>0, <3>1 DEF BooksAreRight
  <2>2. \A u \in Turns : Visible(u) => turn[u].of \in Visitors /\ conv[turn[u].of].open
    BY DEF Visible, At, TurnsAreTheirs, Asked
  <2>3. CASE ~Stores(t)
    <3>1. /\ \A v \in Visitors : conv[v].open => conv'[v] = conv[v]
          /\ \A v \in Visitors : conv'[v] # conv[v] => conv'[v].tokens = 0 /\ conv'[v].last = clock
      BY <1>1, <2>3, RowsAfter
    <3>2. /\ \A v \in Visitors : StoredOf(v)' = StoredOf(v)
          /\ \A u \in Turns : Visible(u)' <=> Visible(u)
          /\ \A u \in Turns : Visible(u) => turn'[u] = turn[u]
      BY <1>1, <2>3, NobodyStores
    <3>3. ASSUME NEW v \in Visitors
          PROVE  conv'[v].last <= clock' /\ conv'[v].tokens = Total(Rounds, StoredOf(v))'
      <4>1. \A u \in StoredOf(v) : Rounds[u] = Rounds'[u]
        BY <3>2 DEF StoredOf, Rounds
      <4>2. Total(Rounds', StoredOf(v)) = Total(Rounds, StoredOf(v))
        BY <4>1, TotalOfSame
      <4>3. Total(Rounds, StoredOf(v))' = Total(Rounds, StoredOf(v))
        BY <3>2, <4>2
      <4>4. CASE conv'[v] = conv[v]
        BY <2>0, <4>3, <4>4 DEF BooksAreRight
      <4>5. CASE conv'[v] # conv[v]
        <5>1. StoredOf(v) = {}
          BY <2>2, <3>1, <4>5 DEF StoredOf
        <5>2. conv'[v].tokens = Total(Rounds, StoredOf(v))'
          BY <3>1, <4>3, <4>5, <5>1, TotalOfNone
        <5> QED
          BY <1>0, <2>0, <3>1, <4>5, <5>2
      <4> QED
        BY <4>4, <4>5
    <3>4. \A u \in Turns : Visible(u)' => turn'[u].at <= conv'[turn'[u].of].last
      BY <2>2, <3>1, <3>2 DEF BooksAreRight
    <3> QED
      BY <2>1, <3>3, <3>4 DEF BooksAreRight
  <2>4. CASE Stores(t)
    <3> DEFINE w == turn[t].of
    <3>1. \A v \in Visitors :
            IF v = w THEN conv'[v].tokens = conv[v].tokens + turn[t].rounds /\ conv'[v].last = clock
            ELSE conv'[v] = conv[v]
      BY <1>1, <2>4, RowsAfter
    <3>2. /\ \A v \in Visitors :
               StoredOf(v)' = IF v = w THEN StoredOf(v) \cup {t} ELSE StoredOf(v)
          /\ t \notin StoredOf(w)
          /\ \A u \in Turns : Visible(u)' <=> u = t \/ Visible(u)
      <4>1. w \in Visitors
        BY <2>4 DEF Stores, At, TurnsAreTheirs, Asked
      <4> HIDE DEF w
      <4> QED
        BY <1>1, <2>4, <4>1, OneStores DEF w
    <3>3. w \in Visitors /\ turn'[t].rounds = turn[t].rounds /\ turn'[t].at = clock
          /\ turn'[t].of = w
      BY <2>4 DEF Stores, At, TurnsAreTheirs, Asked
    <3>4. \A u \in Turns : Rounds[u] = Rounds'[u]
      BY <2>0, <3>3 DEF Rounds
    <3>5. \A v \in Visitors : StoredOf(v) \subseteq Turns
      BY DEF StoredOf
    <3>6. /\ IsFiniteSet(StoredOf(w)) /\ \A u \in StoredOf(w) \cup {t} : Rounds[u] \in Nat
          /\ Rounds[t] = turn[t].rounds
      BY <3>3, <3>5, StoredAreFinite
    <3>7. Total(Rounds, StoredOf(w) \cup {t}) = Total(Rounds, StoredOf(w)) + Rounds[t]
      BY <3>2, <3>6, TotalOfOneMore
    <3> HIDE DEF w
    <3>8. ASSUME NEW v \in Visitors
          PROVE  conv'[v].last <= clock' /\ conv'[v].tokens = Total(Rounds, StoredOf(v))'
      <4>1. Total(Rounds', StoredOf(v)') = Total(Rounds, StoredOf(v)')
        <5>1. \A u \in StoredOf(v)' : Rounds'[u] = Rounds[u]
          BY <3>4 DEF StoredOf
        <5> QED
          BY <5>1, TotalOfSame
      <4>2. CASE v = w
        <5>1. conv'[v].tokens = Total(Rounds, StoredOf(w)) + Rounds[t] /\ conv'[v].last = clock
          BY <3>1, <3>6, <4>2 DEF BooksAreRight
        <5>2. Total(Rounds', StoredOf(v)') = Total(Rounds, StoredOf(w)) + Rounds[t]
          BY <3>2, <3>7, <4>1, <4>2
        <5> QED
          BY <1>0, <2>0, <5>1, <5>2
      <4>3. CASE v # w
        BY <2>0, <3>1, <3>2, <4>1, <4>3 DEF BooksAreRight
      <4> QED
        BY <4>2, <4>3
    <3>9. ASSUME NEW u \in Turns, Visible(u)'
          PROVE  turn'[u].at <= conv'[turn'[u].of].last
      <4>1. CASE u = t
        BY <1>0, <3>1, <3>3, <4>1
      <4>2. CASE u # t
        <5>1. Visible(u) /\ turn'[u] = turn[u] /\ turn[u].of \in Visitors
          BY <2>0, <2>2, <3>2, <3>9, <4>2
        <5>2. turn[u].at <= clock /\ turn[u].at <= conv[turn[u].of].last
          BY <5>1 DEF BooksAreRight
        <5> QED
          BY <3>1, <5>1, <5>2
      <4> QED
        BY <4>1, <4>2
    <3> QED
      BY <2>1, <3>8, <3>9 DEF BooksAreRight
  <2> QED
    BY <2>3, <2>4
<1>2. CASE SaveWidget \/ Tomorrow
  <2>1. made' = made /\ conv' = conv /\ turn' = turn /\ clock' \in {clock, clock + 1}
    BY <1>2 DEF SaveWidget, Tomorrow
  <2>2. Rounds' = Rounds /\ \A v \in Visitors : StoredOf(v)' = StoredOf(v)
    BY <2>1 DEF Rounds, StoredOf, Visible, At
  <2>3. \A v \in Visitors : Total(Rounds, StoredOf(v))' = Total(Rounds, StoredOf(v))
    BY <2>2
  <2>4. \A u \in Turns : Visible(u)' <=> Visible(u)
    BY <2>1 DEF Visible, At
  <2>5. \A n \in Nat : n <= clock => n <= clock'
    BY <1>0, <2>1
  <2> QED
    BY <1>0, <2>1, <2>3, <2>4, <2>5 DEF BooksAreRight
<1>3. CASE DeleteWidget
  <2>1. turn' = turn /\ clock' = clock /\ \A v \in Visitors : conv'[v] = Absent
    BY <1>3 DEF DeleteWidget
  <2>2. /\ \A u \in Turns : ~Visible(u)'
        /\ \A v \in Visitors : StoredOf(v)' = {}
    BY <1>3, DeletedIsGone
  <2>3. \A v \in Visitors : Total(Rounds, StoredOf(v))' = 0
    BY <2>2, TotalOfNone
  <2>4. Absent.tokens = 0 /\ Absent.last = 0 /\ 0 <= clock
    BY <1>0 DEF Absent
  <2> QED
    BY <2>1, <2>2, <2>3, <2>4 DEF BooksAreRight
<1> QED
  BY <1>1, <1>2, <1>3 DEF ChatNext

-----------------------------------------------------------------------------
(* The arithmetic of a crowd: K is what one of it may cost.                *)
LEMMA TimesKeepsOrder ==
  ASSUME NEW K \in Nat, NEW x \in Nat, NEW y \in Nat, x <= y
  PROVE  K * x \in Nat /\ K * y \in Nat /\ K * x <= K * y
<1>1. PICK d \in Nat : y = x + d
  <2>1. y - x \in Nat /\ y = x + (y - x)
    OBVIOUS
  <2> QED
    BY <2>1
<1>2. K * y = K * x + K * d
  BY <1>1
<1>3. K * x \in Nat /\ K * d \in Nat
  OBVIOUS
<1> QED
  BY <1>2, <1>3

LEMMA BudgetKept ==
  ASSUME NEW K \in Nat, NEW D \in Nat, NEW s \in Nat, NEW p \in Nat, NEW a \in Nat,
         NEW s1 \in Nat, NEW p1 \in Nat, NEW a1 \in Nat, a <= a1
  PROVE  /\ s + K * p <= D + K * a /\ s1 <= s /\ p1 <= p => s1 + K * p1 <= D + K * a1
         /\ s + K * p <= D + K * a /\ s1 <= s + K /\ p1 + 1 <= p => s1 + K * p1 <= D + K * a1
         /\ s1 <= D /\ p1 <= a1 => s1 + K * p1 <= D + K * a1
<1>1. K * a \in Nat /\ K * a1 \in Nat /\ K * a <= K * a1
  BY TimesKeepsOrder
<1>2. K * p1 \in Nat /\ K * p \in Nat /\ K * (p1 + 1) = K * p1 + K
  OBVIOUS
<1>3. p1 <= p => K * p1 <= K * p
  BY TimesKeepsOrder
<1>4. p1 + 1 <= p => K * (p1 + 1) <= K * p
  <2>1. p1 + 1 \in Nat
    OBVIOUS
  <2> QED
    BY <2>1, TimesKeepsOrder
<1>5. p1 <= a1 => K * p1 <= K * a1
  BY TimesKeepsOrder
<1> DEFINE ka == K * a
           ka1 == K * a1
           kp == K * p
           kp1 == K * p1
           kp2 == K * (p1 + 1)
<1>6. /\ ka \in Nat /\ ka1 \in Nat /\ ka <= ka1 /\ kp1 \in Nat /\ kp \in Nat /\ kp2 = kp1 + K
      /\ p1 <= p => kp1 <= kp
      /\ p1 + 1 <= p => kp2 <= kp
      /\ p1 <= a1 => kp1 <= ka1
  BY <1>1, <1>2, <1>3, <1>4, <1>5
<1> HIDE DEF ka, ka1, kp, kp1, kp2
<1>7. /\ s + kp <= D + ka /\ s1 <= s /\ p1 <= p => s1 + kp1 <= D + ka1
      /\ s + kp <= D + ka /\ s1 <= s + K /\ p1 + 1 <= p => s1 + kp1 <= D + ka1
      /\ s1 <= D /\ p1 <= a1 => s1 + kp1 <= D + ka1
  BY <1>6
<1> QED
  BY <1>7 DEF ka, ka1, kp, kp1, kp2

(* The cap is held against no less than what the last day has cost.        *)
LEMMA UsedCoversTheDay ==
  ASSUME ChatTypeOK, TurnsAreTheirs, BooksAreRight, NEW t \in Turns, turn[t].made = made
  PROVE  Total(Rounds, Lately) <= Used(t) /\ Total(Rounds, Lately) \in Nat /\ Used(t) \in Nat
<1> DEFINE V == {v \in Visitors : conv[v].open /\ Recent(conv[v])}
           Owner == [u \in Turns |-> turn[u].of]
<1>1. Used(t) = Total(Tokens, V)
  BY DEF Used, Spent, Tokens
<1>2. IsFiniteSet(V)
  <2>1. V \in SUBSET Visitors
    OBVIOUS
  <2> QED
    BY <2>1, ChatAssumption, FS_Subset
<1>3. \A v \in V : Tokens[v] \in Nat /\ Tokens[v] = Total(Rounds, StoredOf(v))
  BY DEF Tokens, ChatTypeOK, BooksAreRight
<1>4. \A u \in Lately : Owner[u] \in V
  <2> TAKE u \in Lately
  <2>1. Visible(u) /\ u \in Turns /\ clock - turn[u].at < Day
    BY DEF Lately
  <2>2. Owner[u] \in Visitors /\ conv[Owner[u]].open
    BY <2>1 DEF Visible, At, TurnsAreTheirs, Asked
  <2>3. clock - conv[Owner[u]].last < Day
    <3>1. turn[u].at <= conv[Owner[u]].last
      BY <2>1 DEF BooksAreRight
    <3>2. clock \in Nat /\ turn[u].at \in Nat /\ conv[Owner[u]].last \in Nat /\ Day \in Nat
      BY <2>1, <2>2, ChatAssumption DEF ChatTypeOK, ChatTurn
    <3> HIDE DEF Owner
    <3> QED
      BY <2>1, <3>1, <3>2
  <2> QED
    BY <2>2, <2>3 DEF Recent
<1>5. \A v \in V : Total(Rounds, {u \in Lately : Owner[u] = v}) <= Tokens[v]
  <2> TAKE v \in V
  <2>1. {u \in Lately : Owner[u] = v} \in SUBSET StoredOf(v)
    BY DEF Lately, StoredOf
  <2>2. IsFiniteSet(StoredOf(v)) /\ \A u \in StoredOf(v) : Rounds[u] \in Nat
    BY StoredAreFinite DEF StoredOf
  <2> HIDE DEF Owner, V
  <2>3. Total(Rounds, {u \in Lately : Owner[u] = v}) <= Total(Rounds, StoredOf(v))
    BY <2>1, <2>2, TotalOfFewer
  <2> QED
    BY <1>3, <2>3
<1>6. IsFiniteSet(Lately) /\ \A u \in Lately : Rounds[u] \in Nat
  BY StoredAreFinite DEF Lately
<1> HIDE DEF Owner, V
<1>7. Total(Rounds, Lately) <= Total(Tokens, V)
  BY <1>2, <1>3, <1>4, <1>5, <1>6, TotalByParts
<1>8. Total(Rounds, Lately) \in Nat /\ Total(Tokens, V) \in Nat
  BY <1>2, <1>3, <1>6, TotalIsNat
<1> QED
  BY <1>1, <1>7, <1>8

LEMMA PassedAreUnderWay ==
  ASSUME ChatTypeOK
  PROVE  /\ Cardinality(Passed) \in Nat /\ UnderWay \in Nat /\ Cardinality(Passed) <= UnderWay
         /\ IsFiniteSet(Passed)
<1>1. Passed \in SUBSET {t \in Turns : ~AtRest(t)}
  BY DEF Passed, AtRest, At, Asked
<1>2. {t \in Turns : ~AtRest(t)} \in SUBSET Turns /\ Passed \in SUBSET Turns
  BY DEF Passed
<1>3. IsFiniteSet({t \in Turns : ~AtRest(t)}) /\ UnderWay \in Nat /\ Cardinality(Passed) \in Nat
  BY <1>2, SetsAreFinite DEF UnderWay
<1> QED
  BY <1>1, <1>2, <1>3, FS_Subset, SetsAreFinite DEF UnderWay

LEMMA PassedStep ==
  ASSUME ChatTypeOK, TurnsAreTheirs, NEW t \in Turns, TakeTurn(t)
  PROVE  /\ Stores(t) => t \in Passed /\ Passed' = Passed \ {t}
         /\ \/ Stores(t)
            \/ Passed' \subseteq Passed
            \/ At(t, "cap") /\ turn[t].made = made /\ Used(t) < DailyCap
<1>1. made' = made /\ \A u \in Turns \ {t} : turn'[u] = turn[u]
  BY TurnMoves
<1>2. \A u \in Turns \ {t} : u \in Passed' <=> u \in Passed
  BY <1>1 DEF Passed, At
<1>3. CASE Begins(t) \/ Stops(t)
  <2>1. t \notin Passed'
    BY <1>1, <1>3 DEF Begins, Stops, Passed, At, Asked
  <2>2. ~Stores(t)
    BY <1>3 DEF Begins, Stops, Stores, At
  <2>3. Passed' \subseteq Passed
    BY <1>2, <2>1 DEF Passed
  <2> QED
    BY <2>2, <2>3
<1>4. CASE MovesOn(t) \/ Enters(t) \/ Writes(t)
  <2>1. ~Stores(t)
    BY <1>4 DEF MovesOn, Enters, Writes, Stores, At
  <2>2. t \in Passed \/ (At(t, "cap") /\ turn[t].made = made /\ Used(t) < DailyCap)
    BY <1>4 DEF MovesOn, Enters, Writes, Passed, At, Asked
  <2>3. t \in Passed => Passed' \subseteq Passed
    BY <1>2 DEF Passed
  <2> QED
    BY <2>1, <2>2, <2>3
<1>5. CASE Stores(t)
  <2>1. t \in Passed /\ t \notin Passed'
    BY <1>1, <1>5 DEF Stores, Passed, At, Asked
  <2>2. Passed \subseteq Turns /\ Passed' \subseteq Turns
    BY DEF Passed
  <2> QED
    BY <1>2, <1>5, <2>1, <2>2
<1> QED
  BY <1>3, <1>4, <1>5, TurnCases

LEMMA DayStep ==
  ASSUME ChatTypeOK, TurnsAreTheirs, BooksAreRight, DayHolds, ChatNext
  PROVE  DayHolds'
<1> DEFINE s == Total(Rounds, Lately)
           p == Cardinality(Passed)
           D == DailyCap - 1
           Holds(s1, p1, a1) == s1 + MaxRounds * p1 <= D + MaxRounds * a1
<1>1. abreast \in Nat /\ abreast' \in Nat /\ abreast <= abreast' /\ UnderWay' <= abreast'
  BY ChatCrowdStep DEF CrowdIsCounted, ChatTypeOK
<1>2. ChatTypeOK'
  BY ChatTypeStep
<1>3. p \in Nat /\ p' \in Nat /\ UnderWay' \in Nat /\ p' <= UnderWay' /\ IsFiniteSet(Passed)
  <2>1. p \in Nat /\ IsFiniteSet(Passed)
    BY PassedAreUnderWay
  <2> DEFINE B == {t \in Turns : ~AtRest(t)'}
  <2>2. Passed' \in SUBSET B /\ UnderWay' = Cardinality(B)
    BY DEF Passed, UnderWay, AtRest, At, Asked
  <2>3. B \in SUBSET Turns
    OBVIOUS
  <2>4. IsFiniteSet(B) /\ Cardinality(B) \in Nat
    BY <2>3, SetsAreFinite
  <2> HIDE DEF B
  <2> QED
    BY <2>1, <2>2, <2>4, FS_Subset, FS_CardinalityType
<1>4. p' <= abreast'
  BY <1>1, <1>3
<1>5. IsFiniteSet(Lately) /\ s \in Nat
  BY StoredAreFinite, TotalIsNat DEF Lately
<1>6. IsFiniteSet(Lately') /\ s' \in Nat
  <2>1. IsFiniteSet(Lately') /\ \A t \in Lately' : Rounds'[t] \in Nat
    <3>1. \A t \in Turns : turn'[t].rounds \in Nat
      <4>1. \A t \in Turns : turn'[t].rounds \in 0 .. MaxRounds
        BY <1>2 DEF ChatTypeOK, ChatTurn
      <4> QED
        BY <4>1, ChatAssumption
    <3>2. Lately' \in SUBSET Turns
      BY DEF Lately
    <3> QED
      BY <3>1, <3>2, SetsAreFinite DEF Rounds
  <2> QED
    BY <2>1, TotalIsNat
<1>7. D \in Nat /\ MaxRounds \in Nat
  BY ChatAssumption
<1>8. Holds(s, p, abreast)
  BY DEF DayHolds
<1> SUFFICES Holds(s', p', abreast')
  BY DEF DayHolds
<1>9. ASSUME NEW t \in Turns, TakeTurn(t) PROVE Holds(s', p', abreast')
  <2>1. CASE Stores(t)
    <3>1. /\ Lately' \subseteq Lately \cup {t} /\ t \notin Lately
          /\ t \in Passed /\ Passed' = Passed \ {t}
      BY <1>9, <2>1, OneStores, PassedStep
    <3>2. \A u \in Turns : Rounds'[u] = Rounds[u] /\ Rounds[u] \in Nat
      BY <1>9, <2>1, TurnMoves, StoredAreFinite DEF Stores, Rounds
    <3>3. \A u \in Lately \cup {t} : Rounds[u] \in Nat
      BY <3>2 DEF Lately
    <3>4. Total(Rounds, Lately \cup {t}) = s + Rounds[t]
      BY <1>5, <3>1, <3>3, TotalOfOneMore
    <3>5. Total(Rounds, Lately') <= Total(Rounds, Lately \cup {t})
      <4>1. IsFiniteSet(Lately \cup {t})
        BY <1>5, FS_AddElement
      <4> QED
        BY <3>1, <3>3, <4>1, TotalOfFewer
    <3>6. s' = Total(Rounds, Lately')
      <4>1. \A u \in Lately' : Rounds'[u] = Rounds[u]
        BY <3>2 DEF Lately
      <4> QED
        BY <4>1, TotalOfSame
    <3>7. Rounds[t] <= MaxRounds
      <4>1. turn[t].rounds \in 0 .. MaxRounds
        BY DEF ChatTypeOK, ChatTurn
      <4> QED
        BY <4>1 DEF Rounds
    <3>8. p' = p - 1
      BY <1>3, <3>1, FS_RemoveElement
    <3> HIDE DEF s, p, D
    <3>9. s' <= s + MaxRounds /\ p' + 1 <= p
      BY <1>3, <1>5, <1>6, <1>7, <3>2, <3>4, <3>5, <3>6, <3>7, <3>8
    <3> QED
      BY <1>1, <1>3, <1>5, <1>6, <1>7, <1>8, <3>9, BudgetKept
  <2>2. CASE ~Stores(t)
    <3>1. Lately' = Lately /\ \A u \in Lately : Rounds'[u] = Rounds[u]
      BY <1>9, <2>2, NobodyStores DEF Lately, Rounds
    <3>2. s' = s
      BY <3>1, TotalOfSame
    <3>3. CASE Passed' \subseteq Passed
      <4>1. p' <= p
        BY <1>3, <3>3, FS_Subset
      <4> HIDE DEF s, p, D
      <4>2. s' <= s
        BY <1>5, <3>2
      <4> QED
        BY <1>1, <1>3, <1>5, <1>6, <1>7, <1>8, <4>1, <4>2, BudgetKept
    <3>4. CASE turn[t].made = made /\ Used(t) < DailyCap
      <4>1. s <= Used(t) /\ Used(t) \in Nat
        BY <3>4, UsedCoversTheDay
      <4>2. s' <= D
        <5> HIDE DEF s
        <5> QED
          BY <1>5, <3>2, <3>4, <4>1, ChatAssumption
      <4> HIDE DEF s, p, D
      <4> QED
        BY <1>1, <1>3, <1>4, <1>5, <1>6, <1>7, <4>2, BudgetKept
    <3> QED
      BY <1>9, <2>2, <3>3, <3>4, PassedStep
  <2> QED
    BY <2>1, <2>2
<1>10. ASSUME SaveWidget \/ Tomorrow PROVE Holds(s', p', abreast')
  <2>1. made' = made /\ turn' = turn /\ clock' \in {clock, clock + 1}
    BY <1>10 DEF SaveWidget, Tomorrow
  <2>2. Rounds' = Rounds /\ Passed' = Passed
    BY <2>1 DEF Rounds, Passed, At
  <2>3. Lately' \subseteq Lately
    <3>1. \A u \in Turns : Visible(u)' <=> Visible(u)
      BY <2>1 DEF Visible, At
    <3>2. \A u \in Turns : clock' - turn'[u].at < Day => clock - turn[u].at < Day
      <4>1. clock \in Nat /\ Day \in Nat /\ \A u \in Turns : turn[u].at \in Nat
        BY ChatAssumption DEF ChatTypeOK, ChatTurn
      <4> QED
        BY <2>1, <4>1
    <3> QED
      BY <3>1, <3>2 DEF Lately
  <2>4. \A u \in Lately : Rounds[u] \in Nat
    BY StoredAreFinite DEF Lately
  <2>5. s' <= s
    BY <1>5, <2>2, <2>3, <2>4, TotalOfFewer
  <2>6. p' <= p
    BY <1>3, <2>2
  <2> HIDE DEF s, p, D
  <2> QED
    BY <1>1, <1>3, <1>5, <1>6, <1>7, <1>8, <2>5, <2>6, BudgetKept
<1>11. ASSUME DeleteWidget PROVE Holds(s', p', abreast')
  <2>1. s' = 0
    BY <1>11, DeletedIsGone, TotalOfNone
  <2> HIDE DEF s, p
  <2>2. s' <= D
    BY <1>7, <2>1
  <2> HIDE DEF D
  <2> QED
    BY <1>1, <1>3, <1>4, <1>5, <1>6, <1>7, <2>2, BudgetKept
<1> QED
  BY <1>9, <1>10, <1>11 DEF ChatNext

-----------------------------------------------------------------------------
(* The messages of a conversation are two for each turn stored in it.      *)
LEMMA LinesAre ==
  ASSUME ChatTypeOK, NEW i \in DOMAIN written
  PROVE  written[i].turn \in Turns /\ written[i].role \in Roles
<1> DEFINE Line == [turn : Turns, role : Roles]
<1>1. written \in Seq(Line)
  BY DEF ChatTypeOK
<1>2. written[i] \in Line
  <2> HIDE DEF Line
  <2> QED
    BY <1>1
<1> QED
  BY <1>2

LEMMA HistoryCounts ==
  ASSUME ChatTypeOK, MessagesAreKept, NEW v \in Visitors
  PROVE  /\ Cardinality(StoredOf(v)) \in Nat
         /\ Cardinality(History(v)) = 2 * Cardinality(StoredOf(v))
<1> DEFINE H == History(v)
           P == StoredOf(v) \X Roles
           m == [i \in H |-> <<written[i].turn, written[i].role>>]
<1>1. \A i \in DOMAIN written : written[i].turn \in Turns /\ written[i].role \in Roles
  BY LinesAre
<1>2. \A u \in StoredOf(v) : \E i, j \in DOMAIN written : Exchange(u, i, j)
  BY DEF MessagesAreKept, StoredOf, Visible, At
<1>3. m \in [H -> P]
  <2>1. \A i \in H : written[i].turn \in StoredOf(v) /\ written[i].role \in Roles
    BY <1>1 DEF History, StoredOf
  <2> QED
    BY <2>1
<1>4. \A i, j \in H : m[i] = m[j] => i = j
  <2> SUFFICES ASSUME NEW i \in H, NEW j \in H, m[i] = m[j] PROVE i = j
    OBVIOUS
  <2>1. written[i].turn = written[j].turn /\ written[i].role = written[j].role
    OBVIOUS
  <2> DEFINE u == written[i].turn
  <2>2. u \in StoredOf(v) /\ i \in IdsOf(u) /\ j \in IdsOf(u)
    BY <1>1, <2>1 DEF History, StoredOf, IdsOf
  <2>3. PICK a, b \in DOMAIN written : Exchange(u, a, b)
    BY <1>2, <2>2
  <2> QED
    BY <2>1, <2>2, <2>3 DEF Exchange
<1>5. \A q \in P : \E i \in H : m[i] = q
  <2> TAKE q \in P
  <2>0. PICK u \in StoredOf(v), role \in Roles : q = <<u, role>>
    OBVIOUS
  <2>1. PICK a, b \in DOMAIN written : Exchange(u, a, b)
    BY <1>2
  <2>2. a \in IdsOf(u) /\ b \in IdsOf(u)
    BY <2>1 DEF Exchange
  <2>3. /\ written[a].turn = u /\ written[b].turn = u
        /\ written[a].role = "user" /\ written[b].role = "assistant"
    BY <2>1, <2>2 DEF Exchange, IdsOf
  <2>4. a \in H /\ b \in H
    BY <2>1, <2>3 DEF History, StoredOf
  <2> QED
    BY <2>0, <2>3, <2>4 DEF Roles
<1> HIDE DEF m, H
<1>6. m \in Bijection(H, P)
  <2> HIDE DEF P
  <2> QED
    BY <1>3, <1>4, <1>5 DEF Bijection, Injection, Surjection, IsInjective
<1>7. IsFiniteSet(StoredOf(v)) /\ Cardinality(StoredOf(v)) \in Nat
  <2>1. StoredOf(v) \in SUBSET Turns
    BY DEF StoredOf
  <2> QED
    BY <2>1, SetsAreFinite
<1>8. IsFiniteSet(Roles) /\ Cardinality(Roles) = 2
  <2>1. IsFiniteSet({"user"}) /\ Cardinality({"user"}) = 1
    BY FS_Singleton
  <2>2. Roles = {"user"} \cup {"assistant"} /\ "assistant" \notin {"user"}
    BY DEF Roles
  <2> QED
    BY <2>1, <2>2, FS_AddElement
<1>9. IsFiniteSet(P) /\ Cardinality(P) = Cardinality(StoredOf(v)) * 2
  <2>1. IsFiniteSet(P) /\ Cardinality(P) = Cardinality(StoredOf(v)) * Cardinality(Roles)
    BY <1>7, <1>8, FS_Product
  <2> QED
    BY <1>8, <2>1
<1>10. Cardinality(P) = Cardinality(H)
  <2>1. m \in Injection(H, P) /\ m \in Surjection(H, P)
    BY <1>6 DEF Bijection
  <2> HIDE DEF P
  <2>2. Cardinality(H) = Cardinality(P)
    BY <1>9, <2>1, FS_Injection
  <2> QED
    BY <2>2
<1> QED
  BY <1>7, <1>9, <1>10 DEF H

LEMMA EnteredStep ==
  ASSUME ChatTypeOK, TurnsAreTheirs, NEW t \in Turns, TakeTurn(t), NEW v \in Visitors
  PROVE  /\ ~Enters(t) \/ v # turn[t].of => EnteredOf(v)' \subseteq EnteredOf(v)
         /\ Stores(t) /\ v = turn[t].of =>
              t \in EnteredOf(v) /\ EnteredOf(v)' = EnteredOf(v) \ {t}
<1>1. made' = made /\ \A u \in Turns \ {t} : turn'[u] = turn[u]
  BY TurnMoves
<1>2. \A u \in Turns \ {t} : u \in EnteredOf(v)' <=> u \in EnteredOf(v)
  BY <1>1 DEF EnteredOf
<1>3. EnteredOf(v) \subseteq Turns /\ EnteredOf(v)' \subseteq Turns
  BY DEF EnteredOf
<1>4. ~Enters(t) \/ v # turn[t].of => (t \in EnteredOf(v)' => t \in EnteredOf(v))
  BY <1>1, TurnCases
     DEF Begins, Stops, MovesOn, Enters, Writes, Stores, Stays, EnteredOf, At, Entered
<1>5. Stores(t) /\ v = turn[t].of => t \in EnteredOf(v) /\ t \notin EnteredOf(v)'
  BY <1>1 DEF Stores, EnteredOf, At, Entered, TurnsAreTheirs, Asked, Storing
<1> QED
  BY <1>2, <1>3, <1>4, <1>5

LEMMA ConversationStep ==
  ASSUME ChatTypeOK, TurnsAreTheirs, ConversationsHold, MessagesAreKept, ChatNext
  PROVE  ConversationsHold'
<1> SUFFICES ASSUME NEW v \in Visitors
             PROVE  Cardinality(StoredOf(v)') + Cardinality(EnteredOf(v)')
                      <= MaxTurns - 1 + abreast'
  BY DEF ConversationsHold
<1> DEFINE s == Cardinality(StoredOf(v))
           e == Cardinality(EnteredOf(v))
           s1 == Cardinality(StoredOf(v)')
           e1 == Cardinality(EnteredOf(v)')
<1>1. abreast \in Nat /\ abreast' \in Nat /\ abreast <= abreast' /\ UnderWay' <= abreast'
  BY ChatCrowdStep DEF CrowdIsCounted, ChatTypeOK
<1>2. /\ StoredOf(v) \in SUBSET Turns /\ EnteredOf(v) \in SUBSET Turns
      /\ StoredOf(v)' \in SUBSET Turns /\ EnteredOf(v)' \in SUBSET Turns
  BY DEF StoredOf, EnteredOf
<1>3. /\ IsFiniteSet(StoredOf(v)) /\ IsFiniteSet(EnteredOf(v))
      /\ s \in Nat /\ e \in Nat /\ s1 \in Nat /\ e1 \in Nat
  BY <1>2, SetsAreFinite
<1>4. e1 <= abreast'
  <2> DEFINE B == {t \in Turns : ~AtRest(t)'}
  <2>1. EnteredOf(v)' \in SUBSET B /\ UnderWay' = Cardinality(B)
    BY DEF EnteredOf, UnderWay, AtRest, Entered
  <2>2. B \in SUBSET Turns
    OBVIOUS
  <2>3. IsFiniteSet(B) /\ Cardinality(B) \in Nat
    BY <2>2, SetsAreFinite
  <2> HIDE DEF B
  <2>4. e1 <= Cardinality(B)
    BY <2>1, <2>3, FS_Subset
  <2> HIDE DEF e1
  <2> QED
    BY <1>1, <1>3, <2>1, <2>3, <2>4
<1>5. s + e <= MaxTurns - 1 + abreast /\ MaxTurns - 1 \in Nat
  BY ChatAssumption DEF ConversationsHold
<1>6. ASSUME StoredOf(v)' = StoredOf(v), EnteredOf(v)' \subseteq EnteredOf(v)
      PROVE  s1 + e1 <= MaxTurns - 1 + abreast'
  <2>1. s1 = s /\ e1 <= e
    BY <1>3, <1>6, FS_Subset
  <2> HIDE DEF s, s1, e, e1
  <2> QED
    BY <1>1, <1>3, <1>5, <2>1
<1>7. ASSUME s1 <= MaxTurns - 1 PROVE s1 + e1 <= MaxTurns - 1 + abreast'
  <2> HIDE DEF s1, e1
  <2> QED
    BY <1>1, <1>3, <1>4, <1>5, <1>7
<1>8. ASSUME NEW t \in Turns, TakeTurn(t) PROVE s1 + e1 <= MaxTurns - 1 + abreast'
  <2>1. CASE Stores(t)
    <3>1. CASE v = turn[t].of
      <4>1. /\ StoredOf(v)' = StoredOf(v) \cup {t} /\ t \notin StoredOf(v)
            /\ t \in EnteredOf(v) /\ EnteredOf(v)' = EnteredOf(v) \ {t}
        BY <1>8, <2>1, <3>1, OneStores, EnteredStep
      <4>2. s1 = s + 1
        BY <1>3, <4>1, FS_AddElement
      <4>3. e1 = e - 1
        BY <1>3, <4>1, FS_RemoveElement
      <4> HIDE DEF s, s1, e, e1
      <4> QED
        BY <1>1, <1>3, <1>5, <4>2, <4>3
    <3>2. CASE v # turn[t].of
      BY <1>6, <1>8, <2>1, <3>2, OneStores, EnteredStep
    <3> QED
      BY <3>1, <3>2
  <2>2. CASE ~Stores(t)
    <3>1. StoredOf(v)' = StoredOf(v)
      BY <1>8, <2>2, NobodyStores
    <3>2. CASE ~Enters(t) \/ v # turn[t].of
      BY <1>6, <1>8, <3>1, <3>2, EnteredStep
    <3>3. CASE Enters(t) /\ v = turn[t].of
      <4>1. CASE ~(Cardinality(History(turn[t].of)) >= 2 * MaxTurns)
        <5>1. Cardinality(History(v)) = 2 * s
          BY HistoryCounts
        <5>2. ~(2 * s >= 2 * MaxTurns)
          BY <3>3, <4>1, <5>1
        <5> HIDE DEF s
        <5>3. s <= MaxTurns - 1
          BY <1>3, <5>2, ChatAssumption
        <5> QED
          BY <1>7, <3>1, <5>3 DEF s
      <4>2. CASE ~conv[turn[t].of].open
        <5>1. StoredOf(v) = {}
          BY <3>3, <4>2 DEF StoredOf, Visible, At, TurnsAreTheirs, Asked
        <5>2. s1 = 0
          BY <3>1, <5>1, FS_EmptySet
        <5> HIDE DEF s1
        <5> QED
          BY <1>5, <1>7, <5>2 DEF s1
      <4> QED
        BY <3>3, <4>1, <4>2 DEF Enters
    <3> QED
      BY <3>2, <3>3
  <2> QED
    BY <2>1, <2>2
<1>9. ASSUME SaveWidget \/ Tomorrow PROVE s1 + e1 <= MaxTurns - 1 + abreast'
  <2>1. made' = made /\ turn' = turn
    BY <1>9 DEF SaveWidget, Tomorrow
  <2>2. StoredOf(v)' = StoredOf(v) /\ EnteredOf(v)' = EnteredOf(v)
    BY <2>1 DEF StoredOf, EnteredOf, Visible, At
  <2> QED
    BY <1>6, <2>2
<1>10. ASSUME DeleteWidget PROVE s1 + e1 <= MaxTurns - 1 + abreast'
  <2>1. s1 = 0
    BY <1>10, DeletedIsGone, FS_EmptySet
  <2> HIDE DEF s1
  <2> QED
    BY <1>5, <1>7, <2>1 DEF s1
<1> QED
  BY <1>8, <1>9, <1>10 DEF ChatNext

-----------------------------------------------------------------------------
(* What is written: the ids of a turn change with its own statements only. *)
LEMMA IdsAfter ==
  ASSUME ChatTypeOK, NEW t \in Turns, TakeTurn(t)
  PROVE  /\ ~Writes(t) => written' = written
         /\ Writes(t) => /\ Len(written') = Len(written) + 1
                         /\ Len(written') \in DOMAIN written'
                         /\ DOMAIN written' = DOMAIN written \cup {Len(written')}
                         /\ \A i \in DOMAIN written : written'[i] = written[i] /\ i < Len(written')
                         /\ written'[Len(written')].turn = t
<1>1. ~Writes(t) => written' = written
  BY TurnCases DEF Begins, Stops, MovesOn, Enters, Stores
<1>2. ASSUME Writes(t)
      PROVE  \E m : m.turn = t /\ written' = Append(written, m)
  BY <1>2 DEF Writes, Add
<1>3. \A m : LET w == Append(written, m) IN
         /\ Len(w) = Len(written) + 1 /\ Len(w) \in DOMAIN w
         /\ DOMAIN w = DOMAIN written \cup {Len(w)}
         /\ \A i \in DOMAIN written : w[i] = written[i] /\ i < Len(w)
         /\ w[Len(w)] = m
  BY DEF ChatTypeOK
<1> QED
  BY <1>1, <1>2, <1>3

LEMMA TwoAreACrowd ==
  ASSUME ChatTypeOK, CrowdIsCounted, NEW t \in Turns, NEW u \in Turns, t # u, ~AtRest(t), ~AtRest(u)
  PROVE  ~(abreast <= 1)
<1> DEFINE B == {x \in Turns : ~AtRest(x)}
<1>1. B \in SUBSET Turns /\ {t, u} \in SUBSET B
  OBVIOUS
<1>2. IsFiniteSet(B) /\ Cardinality(B) \in Nat
  BY <1>1, SetsAreFinite
<1>3. IsFiniteSet({t}) /\ Cardinality({t}) = 1 /\ {t, u} = {t} \cup {u} /\ u \notin {t}
  BY FS_Singleton
<1>4. Cardinality({t, u}) = 2
  BY <1>3, FS_AddElement
<1>5. Cardinality(B) = UnderWay
  BY DEF UnderWay
<1> HIDE DEF B
<1>6. 2 <= Cardinality(B)
  BY <1>1, <1>2, <1>4, FS_Subset
<1> QED
  BY <1>2, <1>5, <1>6 DEF CrowdIsCounted, ChatTypeOK

LEMMA MessageStep ==
  ASSUME ChatTypeOK, CrowdIsCounted, MessagesAreKept, ChatNext
  PROVE  MessagesAreKept'
<1> DEFINE None == {"idle", "cap", "find", "create", "reply", "question"}
<1>1. abreast \in Nat /\ abreast' \in Nat /\ abreast <= abreast'
  BY ChatCrowdStep DEF ChatTypeOK
<1>2. abreast' <= 1 => abreast <= 1
  BY <1>1
<1>3. ASSUME NEW u \in Turns, written' = written, turn'[u].step = turn[u].step
      PROVE  /\ turn'[u].step \in None => IdsOf(u)' = {}
             /\ turn'[u].step = "answer" => \E i \in DOMAIN written' : Asks(u, i)'
             /\ turn'[u].step \in {"count", "stored"} =>
                  \E i, j \in DOMAIN written' : Exchange(u, i, j)'
  <2>1. IdsOf(u)' = IdsOf(u)
    BY <1>3 DEF IdsOf
  <2>2. /\ \A i \in DOMAIN written : Asks(u, i) => Asks(u, i)'
        /\ \A i, j \in DOMAIN written : Exchange(u, i, j) => Exchange(u, i, j)'
    BY <1>2, <1>3, <2>1 DEF Asks, Exchange
  <2> QED
    BY <1>3, <2>1, <2>2 DEF MessagesAreKept, At
<1>4. ASSUME NEW t \in Turns, TakeTurn(t) PROVE MessagesAreKept'
  <2>0. \A u \in Turns \ {t} : turn'[u] = turn[u]
    BY <1>4, TurnMoves
  <2> SUFFICES ASSUME NEW u \in Turns
               PROVE  /\ turn'[u].step \in None => IdsOf(u)' = {}
                      /\ turn'[u].step = "answer" => \E i \in DOMAIN written' : Asks(u, i)'
                      /\ turn'[u].step \in {"count", "stored"} =>
                           \E i, j \in DOMAIN written' : Exchange(u, i, j)'
    BY DEF MessagesAreKept, At
  <2>1. CASE ~Writes(t)
    <3>1. written' = written
      BY <1>4, <2>1, IdsAfter
    <3>2. CASE u # t
      BY <1>3, <2>0, <3>1, <3>2
    <3>3. CASE u = t
      <4>1. IdsOf(u)' = IdsOf(u)
        BY <3>1 DEF IdsOf
      <4>2. CASE Begins(t) \/ MovesOn(t) \/ Enters(t)
        <5>1. turn'[t].step \in None /\ turn[t].step \in None
          BY <4>2 DEF Begins, MovesOn, Enters, At
        <5> QED
          BY <3>3, <4>1, <5>1 DEF MessagesAreKept
      <4>3. CASE Stops(t)
        BY <3>3, <4>3 DEF Stops
      <4>4. CASE Stores(t)
        <5>1. \A i, j \in DOMAIN written : Exchange(u, i, j) => Exchange(u, i, j)'
          BY <1>2, <3>1, <4>1 DEF Exchange
        <5> QED
          BY <3>1, <3>3, <4>4, <5>1 DEF Stores, MessagesAreKept, At
      <4> QED
        BY <1>4, <2>1, <4>2, <4>3, <4>4, TurnCases
    <3> QED
      BY <3>2, <3>3
  <2>2. CASE Writes(t)
    <3>0. PICK n : n = Len(written')
      OBVIOUS
    <3>1. /\ n = Len(written') /\ n = Len(written) + 1 /\ n \in DOMAIN written'
          /\ DOMAIN written' = DOMAIN written \cup {n}
          /\ \A i \in DOMAIN written : written'[i] = written[i] /\ i < n
          /\ written'[n].turn = t
      BY <1>4, <2>2, <3>0, IdsAfter
    <3>2. CASE u # t
      <4>1. IdsOf(u)' = IdsOf(u)
        BY <3>1, <3>2 DEF IdsOf
      <4>2. \A i, j \in DOMAIN written : Exchange(u, i, j) => Exchange(u, i, j)'
        BY <1>2, <3>1, <4>1 DEF Exchange
      <4>3. \A i \in DOMAIN written : Asks(u, i) /\ At(u, "answer") => Asks(u, i)'
        <5>1. At(u, "answer") => ~(abreast <= 1)
          BY <2>2, <3>2, TwoAreACrowd DEF Writes, At, AtRest
        <5> QED
          BY <1>2, <3>1, <4>1, <5>1 DEF Asks
      <4> QED
        BY <2>0, <3>1, <3>2, <4>1, <4>2, <4>3 DEF MessagesAreKept, At
    <3>3. CASE u = t /\ At(t, "question")
      <4>1. IdsOf(t) = {} /\ turn'[t].step = "answer" /\ written'[n].role = "user"
        <5>1. Add(t, "user") /\ turn'[t].step = "answer"
          BY <2>2, <3>3 DEF Writes, At
        <5>2. written'[n] = [turn |-> t, role |-> "user"]
          BY <3>1, <5>1 DEF Add, ChatTypeOK
        <5> QED
          BY <3>3, <5>1, <5>2 DEF MessagesAreKept, At
      <4>2. IdsOf(t)' = {n}
        BY <3>1, <4>1 DEF IdsOf
      <4>3. Asks(t, n)'
        BY <3>1, <4>1, <4>2 DEF Asks
      <4> QED
        BY <3>1, <3>3, <4>1, <4>3
    <3>4. CASE u = t /\ At(t, "answer")
      <4>1. turn'[t].step = "count" /\ written'[n].role = "assistant"
        <5>1. Add(t, "assistant") /\ turn'[t].step = "count"
          BY <2>2, <3>4 DEF Writes, At
        <5>2. written'[n] = [turn |-> t, role |-> "assistant"]
          BY <3>1, <5>1 DEF Add, ChatTypeOK
        <5> QED
          BY <5>1, <5>2
      <4>2. PICK i \in DOMAIN written : Asks(t, i)
        BY <3>4 DEF MessagesAreKept
      <4>3. IdsOf(t)' = {i, n}
        BY <3>1, <4>2 DEF IdsOf, Asks
      <4>4. Exchange(t, i, n)'
        <5>1. i < n /\ written'[i].role = "user"
          BY <3>1, <4>2 DEF Asks
        <5>2. abreast' <= 1 => n = i + 1
          BY <1>2, <3>1, <4>2 DEF Asks
        <5> QED
          BY <4>1, <4>3, <5>1, <5>2 DEF Exchange
      <4> QED
        BY <3>1, <3>4, <4>1, <4>4
    <3> QED
      BY <2>2, <3>2, <3>3, <3>4 DEF Writes
  <2> QED
    BY <2>1, <2>2
<1>5. CASE SaveWidget \/ Tomorrow \/ DeleteWidget
  <2>1. written' = written /\ turn' = turn
    BY <1>5 DEF SaveWidget, Tomorrow, DeleteWidget
  <2> QED
    BY <1>3, <2>1 DEF MessagesAreKept, At
<1> QED
  BY <1>4, <1>5 DEF ChatNext

LEMMA ReadingStep ==
  ASSUME ChatTypeOK, ReadingsAreWhole, ChatNext
  PROVE  ReadingsAreWhole'
<1>1. ASSUME NEW t \in Turns, TakeTurn(t) PROVE ReadingsAreWhole'
  <2>0. /\ \A u \in Turns \ {t} : turn'[u] = turn[u]
        /\ \A i \in DOMAIN written : written[i].turn \in Turns
    BY <1>1, TurnMoves, LinesAre
  <2>1. turn[t].step # "stored"
    BY <1>1, TurnCases DEF Begins, Stops, MovesOn, Enters, Writes, Stores, At
  <2>2. ASSUME NEW u \in Turns, turn[u].step = "stored"
        PROVE  turn'[u].step = "stored" /\ IdsOf(u)' = IdsOf(u)
    <3>1. u # t /\ turn'[u].step = "stored"
      BY <2>0, <2>1, <2>2
    <3>2. CASE ~Writes(t)
      BY <1>1, <3>1, <3>2, IdsAfter DEF IdsOf
    <3>3. CASE Writes(t)
      BY <1>1, <3>1, <3>3, IdsAfter DEF IdsOf
    <3> QED
      BY <3>1, <3>2, <3>3
  <2>3. \A i \in DOMAIN written : i \in DOMAIN written' /\ written'[i] = written[i]
    BY <1>1, IdsAfter
  <2>4. ASSUME NEW R, NEW i, i \in DOMAIN written, NEW w \in Turns, w = written[i].turn,
               turn[w].step = "stored", IdsOf(w) \subseteq R
        PROVE  /\ i \in DOMAIN written' /\ written'[i].turn = w
               /\ turn'[w].step = "stored" /\ IdsOf(w)' \subseteq R
    BY <2>2, <2>3, <2>4
  <2>5. ASSUME NEW u \in Turns, NEW i \in turn'[u].reading
        PROVE  \E w \in Turns : /\ i \in DOMAIN written' /\ written'[i].turn = w
                                /\ turn'[w].step = "stored" /\ IdsOf(w)' \subseteq turn'[u].reading
    <3>1. CASE turn'[u].reading = turn[u].reading
      <4>1. /\ i \in DOMAIN written /\ turn[written[i].turn].step = "stored"
            /\ IdsOf(written[i].turn) \subseteq turn[u].reading
        BY <2>5, <3>1 DEF ReadingsAreWhole, At
      <4>2. written[i].turn \in Turns
        BY <2>0, <4>1
      <4> QED
        BY <2>4, <3>1, <4>1, <4>2
    <3>2. CASE turn'[u].reading # turn[u].reading
      <4>1. u = t
        BY <2>0, <3>2
      <4>2. turn'[t].reading = History(turn[t].of)
        BY <1>1, <2>5, <3>2, <4>1, TurnCases
           DEF Begins, Stops, MovesOn, Enters, Writes, Stores
      <4>3. i \in History(turn[t].of)
        BY <2>5, <4>1, <4>2
      <4>4. /\ i \in DOMAIN written /\ turn[written[i].turn].step = "stored"
            /\ IdsOf(written[i].turn) \subseteq History(turn[t].of)
        BY <4>3 DEF History, Visible, At, IdsOf
      <4>5. written[i].turn \in Turns
        BY <2>0, <4>4
      <4> QED
        BY <2>4, <4>1, <4>2, <4>4, <4>5
    <3> QED
      BY <3>1, <3>2
  <2>6. ASSUME NEW u \in Turns, NEW i \in turn'[u].reading
        PROVE  /\ i \in DOMAIN written' /\ turn'[written'[i].turn].step = "stored"
               /\ {j \in DOMAIN written' : written'[j].turn = written'[i].turn} \subseteq turn'[u].reading
    BY <2>5 DEF IdsOf
  <2> QED
    BY <2>6 DEF ReadingsAreWhole, At, IdsOf
<1>2. CASE SaveWidget \/ Tomorrow \/ DeleteWidget
  <2>1. written' = written /\ turn' = turn
    BY <1>2 DEF SaveWidget, Tomorrow, DeleteWidget
  <2> QED
    BY <2>1 DEF ReadingsAreWhole, At, IdsOf
<1> QED
  BY <1>1, <1>2 DEF ChatNext

-----------------------------------------------------------------------------
LEMMA ChatBegins == ChatInit => ChatInv
<1> SUFFICES ASSUME ChatInit PROVE ChatInv
  OBVIOUS
<1>0. /\ \A t \in Turns : turn[t] = Unasked
      /\ \A v \in Visitors : conv[v] = Absent
      /\ written = <<>> /\ made = 0 /\ clock = 0 /\ abreast = 0
  BY DEF ChatInit
<1>1. ChatTypeOK
  <2>1. Unasked \in ChatTurn
    <3>1. 0 \in 0 .. MaxRounds
      BY ChatAssumption
    <3> QED
      BY <3>1 DEF Unasked, ChatTurn
  <2>2. Absent \in [open : BOOLEAN, tokens : Nat, last : Nat]
    BY DEF Absent
  <2>3. written \in Seq([turn : Turns, role : Roles])
    BY <1>0
  <2> QED
    BY <2>1, <2>2, <2>3 DEF ChatInit, ChatTypeOK
<1>2. TurnsAreTheirs /\ ReadingsAreWhole
  BY <1>0 DEF TurnsAreTheirs, ReadingsAreWhole, Unasked, Asked
<1>3. /\ \A t \in Turns : ~Visible(t) /\ AtRest(t)
      /\ Lately = {} /\ Passed = {} /\ UnderWay = Cardinality({})
      /\ \A v \in Visitors : StoredOf(v) = {} /\ EnteredOf(v) = {}
  <2>1. \A t \in Turns : ~Visible(t) /\ AtRest(t) /\ turn[t].step = "idle"
    BY <1>0 DEF Visible, At, Unasked, AtRest
  <2> QED
    BY <2>1 DEF Lately, Passed, UnderWay, StoredOf, EnteredOf, At, Asked, Entered
<1>4. BooksAreRight
  <2>1. Absent.tokens = 0 /\ Absent.last = 0 /\ Unasked.at = 0
    BY DEF Absent, Unasked
  <2>2. \A v \in Visitors : Total(Rounds, StoredOf(v)) = 0
    BY <1>3, TotalOfNone
  <2>3. /\ \A v \in Visitors : conv[v].last <= clock /\ conv[v].tokens = Total(Rounds, StoredOf(v))
        /\ \A t \in Turns : turn[t].at <= clock
    BY <1>0, <2>1, <2>2
  <2> QED
    BY <1>3, <2>3 DEF BooksAreRight
<1>5. CrowdIsCounted
  BY <1>0, <1>3, FS_EmptySet DEF CrowdIsCounted
<1>6. DayHolds
  <2>1. Total(Rounds, Lately) = 0 /\ Cardinality(Passed) = 0
    BY <1>3, TotalOfNone, FS_EmptySet
  <2> QED
    BY <1>0, <2>1, ChatAssumption DEF DayHolds
<1>7. ConversationsHold
  <2>1. \A v \in Visitors : Cardinality(StoredOf(v)) = 0 /\ Cardinality(EnteredOf(v)) = 0
    BY <1>3, FS_EmptySet
  <2> QED
    BY <1>0, <2>1, ChatAssumption DEF ConversationsHold
<1>8. MessagesAreKept
  BY <1>0 DEF MessagesAreKept, IdsOf, Unasked, At
<1> QED
  BY <1>1, <1>2, <1>4, <1>5, <1>6, <1>7, <1>8 DEF ChatInv

LEMMA ChatInvStep == ChatInv /\ [ChatNext]_cvars => ChatInv'
<1> SUFFICES ASSUME ChatInv, [ChatNext]_cvars PROVE ChatInv'
  OBVIOUS
<1>1. CASE ChatNext
  BY <1>1, ChatTypeStep, TheirsStep, BooksStep, ChatCrowdStep, DayStep, ConversationStep,
     MessageStep, ReadingStep DEF ChatInv
<1>2. CASE UNCHANGED cvars
  <2>1. /\ made' = made /\ conv' = conv /\ written' = written /\ turn' = turn
        /\ clock' = clock /\ abreast' = abreast
    BY <1>2 DEF cvars
  <2>2. ChatTypeOK' /\ TurnsAreTheirs' /\ CrowdIsCounted'
    BY <2>1 DEF ChatInv, ChatTypeOK, TurnsAreTheirs, Storing, CrowdIsCounted, UnderWay, AtRest
  <2>3. /\ \A u \in Turns : Visible(u)' <=> Visible(u)
        /\ Rounds' = Rounds /\ Lately' = Lately /\ Passed' = Passed
        /\ \A v \in Visitors : StoredOf(v)' = StoredOf(v) /\ EnteredOf(v)' = EnteredOf(v)
    BY <2>1 DEF Rounds, Lately, Passed, StoredOf, EnteredOf, Visible, At
  <2>4. BooksAreRight'
    BY <2>1, <2>3 DEF ChatInv, BooksAreRight
  <2>5. DayHolds' /\ ConversationsHold'
    BY <2>1, <2>3 DEF ChatInv, DayHolds, ConversationsHold
  <2>6. MessagesAreKept'
    BY <2>1 DEF ChatInv, MessagesAreKept, At, IdsOf, Asks, Exchange
  <2>7. ReadingsAreWhole'
    BY <2>1 DEF ChatInv, ReadingsAreWhole, At, IdsOf
  <2> QED
    BY <2>2, <2>4, <2>5, <2>6, <2>7 DEF ChatInv
<1> QED
  BY <1>1, <1>2


(* The invariant of a web chat, for any turns, visitors and limits.        *)
THEOREM ChatInductive == ChatSpec => []ChatInv
<1>1. ChatInit => ChatInv
  BY ChatBegins
<1>2. ChatInv /\ [ChatNext]_cvars => ChatInv'
  BY ChatInvStep
<1> QED
  BY <1>1, <1>2, PTL DEF ChatSpec

(* What a day costs passes the cap, and a conversation its length, by no   *)
(* more than who was under way at once; and the model is shown whole       *)
(* exchanges (widget_chat, widget.py:144).                                 *)
THEOREM ChatIsBounded == ChatSpec => []ChatKeepsItsBounds
<1>1. ChatInv => DayIsCapped
  <2> SUFFICES ASSUME ChatInv PROVE DayIsCapped
    OBVIOUS
  <2> DEFINE s == Total(Rounds, Lately)
             p == Cardinality(Passed)
  <2>1. /\ ChatTypeOK
        /\ s + MaxRounds * p <= DailyCap - 1 + MaxRounds * abreast
    BY DEF ChatInv, DayHolds
  <2>2. s \in Nat
    BY <2>1, StoredAreFinite, TotalIsNat DEF Lately
  <2>3. p \in Nat /\ abreast \in Nat
    BY <2>1, PassedAreUnderWay DEF ChatTypeOK
  <2> HIDE DEF s, p
  <2>4. MaxRounds * p \in Nat /\ MaxRounds * abreast \in Nat
    BY <2>3, ChatAssumption
  <2>5. s <= DailyCap - 1 + MaxRounds * abreast
    BY <2>1, <2>2, <2>4, ChatAssumption
  <2> QED
    BY <2>5 DEF s, DayIsCapped, Rounds
<1>2. ChatInv => ConversationsEnd
  <2> SUFFICES ASSUME ChatInv, NEW v \in Visitors
               PROVE  Cardinality(History(v)) <= 2 * (MaxTurns - 1 + abreast)
    BY DEF ConversationsEnd
  <2> DEFINE s == Cardinality(StoredOf(v))
             e == Cardinality(EnteredOf(v))
  <2>1. /\ ChatTypeOK /\ MessagesAreKept /\ abreast \in Nat
        /\ s + e <= MaxTurns - 1 + abreast
    BY DEF ChatInv, ConversationsHold, ChatTypeOK
  <2>2. s \in Nat /\ Cardinality(History(v)) = 2 * s
    BY <2>1, HistoryCounts
  <2>3. e \in Nat
    <3>1. EnteredOf(v) \in SUBSET Turns
      BY DEF EnteredOf
    <3> QED
      BY <3>1, SetsAreFinite
  <2> HIDE DEF s, e
  <2> QED
    BY <2>1, <2>2, <2>3, ChatAssumption
<1>3. ChatInv => HistoryIsWhole
  <2> SUFFICES ASSUME ChatInv, NEW t \in Turns, NEW k \in turn[t].reading
               PROVE  LET r == turn[t].reading
                          u == written[k].turn
                          Of(role) == {i \in r : written[i] = [turn |-> u, role |-> role]}
                      IN \E i, j \in r :
                           /\ Of("user") = {i} /\ Of("assistant") = {j} /\ i < j
                           /\ abreast > 1 \/ \A l \in r : ~(i < l /\ l < j)
    BY DEF HistoryIsWhole
  <2> DEFINE r == turn[t].reading
             u == written[k].turn
             Of(role) == {i \in r : written[i] = [turn |-> u, role |-> role]}
  <2>1. /\ \A i \in r : i \in DOMAIN written
        /\ k \in DOMAIN written /\ turn[u].step = "stored" /\ IdsOf(u) \subseteq r
    BY DEF ChatInv, ReadingsAreWhole, At
  <2>2. u \in Turns
    BY <2>1, LinesAre DEF ChatInv
  <2>3. PICK i, j \in DOMAIN written : Exchange(u, i, j)
    BY <2>1, <2>2 DEF ChatInv, MessagesAreKept
  <2>4. /\ IdsOf(u) = {i, j} /\ i < j /\ i \in r /\ j \in r
        /\ written[i].turn = u /\ written[j].turn = u
        /\ written[i].role = "user" /\ written[j].role = "assistant"
    BY <2>1, <2>3 DEF Exchange, IdsOf
  <2>5. \A l \in r : written[l] = [turn |-> written[l].turn, role |-> written[l].role]
    <3> DEFINE Line == [turn : Turns, role : Roles]
    <3>1. written \in Seq(Line)
      BY DEF ChatInv, ChatTypeOK
    <3>2. \A l \in r : written[l] \in Line
      <4> HIDE DEF Line
      <4> QED
        BY <2>1, <3>1
    <3> QED
      BY <3>2
  <2>6. \A l \in r, role \in Roles : l \in Of(role) <=> l \in {i, j} /\ written[l].role = role
    BY <2>1, <2>4, <2>5 DEF IdsOf
  <2>7. Of("user") = {i} /\ Of("assistant") = {j}
    BY <2>4, <2>6 DEF Roles
  <2>8. abreast > 1 \/ \A l \in r : ~(i < l /\ l < j)
    <3>1. CASE abreast <= 1
      <4>1. j = i + 1
        BY <2>3, <3>1 DEF Exchange
      <4>2. \A l \in DOMAIN written : l \in Nat
        BY DEF ChatInv, ChatTypeOK
      <4>3. i \in Nat /\ \A l \in r : l \in Nat
        BY <2>1, <2>3, <4>2
      <4> HIDE DEF r
      <4> QED
        BY <4>1, <4>3
    <3>2. CASE ~(abreast <= 1)
      BY <3>2 DEF ChatInv, ChatTypeOK
    <3> QED
      BY <3>1, <3>2
  <2> QED
    BY <2>4, <2>7, <2>8
<1>4. ChatInv => ChatKeepsItsBounds
  BY <1>1, <1>2, <1>3 DEF ChatKeepsItsBounds, SpendingIsBounded
<1> QED
  BY <1>4, ChatInductive, PTL
=============================================================================
