--------------------------- MODULE CallRow_proofs ---------------------------
(* Theorems about CallRow, for every set of calls and every configuration. *)
EXTENDS CallRow, TLAPS

(* What the updates of a row make of it. *)
LEMMA StampedIsRow ==
  ASSUME NEW r \in Row, NEW a \in Nat, NEW n \in Nat
  PROVE  /\ Stamped(r, a, n) \in Row
         /\ Stamped(r, a, n).endedAt = a
         /\ Stamped(r, a, n).length = a
         /\ Stamped(r, a, n).usage = r.usage
         /\ Stamped(r, a, n).outcome = r.outcome
  BY DEF Row, Stamped

LEMMA AbandonedIsRow ==
  ASSUME NEW r \in Row, NEW a \in Nat
  PROVE  /\ Abandoned(r, a) \in Row
         /\ Abandoned(r, a).endedAt = a
         /\ Abandoned(r, a).length = a
         /\ Abandoned(r, a).outcome = SafetyNetOutcome
         /\ Abandoned(r, a).usage = r.usage
  BY DEF Row, Abandoned, Reasons, Outcomes

LEMMA WithUsageIsRow ==
  ASSUME NEW r \in Row, NEW a \in Nat, NEW n \in Nat, NEW why \in Reasons
  PROVE  /\ WithUsage(r, a, why, n) \in Row
         /\ WithUsage(r, a, why, n).endedAt = Coalesce(r.endedAt, a)
         /\ WithUsage(r, a, why, n).length = Coalesce(r.length, a)
         /\ WithUsage(r, a, why, n).outcome \in {r.outcome, Null}
         /\ WithUsage(r, a, why, n).usage
         /\ WithUsage(r, a, why, n).reason = why
         /\ WithUsage(r, a, why, n).outcome # SafetyNetOutcome
<1>1. SafetyNetOutcome # Null
  BY NullAssumption DEF Outcomes
<1> QED
  BY <1>1 DEF Row, WithUsage, Coalesce

LEMMA WithOutcomeIsRow ==
  ASSUME NEW r \in Row, NEW f
  PROVE  /\ WithOutcome(r, f) \in Row
         /\ WithOutcome(r, f).endedAt = r.endedAt
         /\ WithOutcome(r, f).length = r.length
         /\ r.outcome # SweptOutcome
              => WithOutcome(r, f).outcome # SweptOutcome
         /\ WithOutcome(r, f).usage = r.usage
         /\ WithOutcome(r, f).reason = r.reason
         /\ r.outcome # SafetyNetOutcome
              => WithOutcome(r, f).outcome # SafetyNetOutcome
  BY DEF Row, WithOutcome, Outcomes, SafetyNetOutcome, SweptOutcome,
         TransferReason, ErrorMessage

LEMMA PayloadOfIsPayload ==
  ASSUME NEW r \in Row
  PROVE  PayloadOf(r) \in Payload
  BY DEF Row, Payload, PayloadOf

LEMMA OpenRowIsRow ==
  /\ OpenRow \in Row
  /\ OpenRow.endedAt = Null
  /\ OpenRow.length = Null
  /\ OpenRow.outcome = Null
  /\ ~OpenRow.usage
  BY DEF OpenRow, Row

LEMMA ReasonIsReason == \A f : Reason(f) \in Reasons
  BY DEF Reason, Reasons

LEMMA CountTurnsIsNat ==
  ASSUME TypeOK, NEW c \in Calls
  PROVE  CountTurns(c, "assistant") \in Nat
  BY DEF CountTurns, TypeOK

LEMMA SweptIsRow ==
  ASSUME TypeOK, NEW c \in Calls, row[c] \in Row
  PROVE  /\ Swept(c) \in Row
         /\ Swept(c).endedAt = age[c]
         /\ Swept(c).length = row[c].length
         /\ Swept(c).usage = row[c].usage
<1> DEFINE n == CountTurns(c, "assistant")
<1>1. n \in Nat
  BY CountTurnsIsNat
<1>2. age[c] \in Nat
  BY DEF TypeOK
<1> HIDE DEF n
<1> QED
  BY <1>1, <1>2 DEF Swept, n, Row, Reasons, Outcomes, Coalesce

(* Every step keeps every variable to its values. *)
LEMMA TypeStep == IndInv /\ [Next]_vars => TypeOK'
<1> SUFFICES ASSUME IndInv, [Next]_vars PROVE TypeOK'
  OBVIOUS
<1>a. TypeOK
  BY DEF IndInv
<1>b. \A c \in Calls : Shape(c)
  BY DEF IndInv
<1> USE DEF TypeOK, jobVars, shutVars, clockVars
<1>1. ASSUME NEW c \in Calls, Decline(c)
     PROVE  TypeOK'
  BY <1>a, <1>1 DEF Decline
<1>2. ASSUME NEW c \in Calls, StartCall(c)
     PROVE  TypeOK'
  <2>1. maxDuration + Poll \in Nat
    BY <1>a, CallRowAssumption
  <2> QED
    BY <1>a, <1>2, <2>1, OpenRowIsRow DEF StartCall, Active
<1>3. ASSUME NEW c \in Calls, Register(c)
     PROVE  TypeOK'
  BY <1>a, <1>3 DEF Register, Active
<1>4. ASSUME NEW c \in Calls, SessionStarted(c)
     PROVE  TypeOK'
  BY <1>a, <1>4 DEF SessionStarted, Active
<1>5. ASSUME NEW c \in Calls, EntrypointRaises(c)
     PROVE  TypeOK'
  BY <1>a, <1>5, CallRowAssumption DEF EntrypointRaises, Active
<1>6. ASSUME NEW c \in Calls, TransferRefused(c)
     PROVE  TypeOK'
  BY <1>a, <1>6 DEF TransferRefused, Flags
<1>7. ASSUME NEW c \in Calls, SendRefer(c)
     PROVE  TypeOK'
  BY <1>a, <1>7 DEF SendRefer, Flags
<1>8. ASSUME NEW c \in Calls, SessionError(c)
     PROVE  TypeOK'
  BY <1>a, <1>8 DEF SessionError, Flags
<1>9. ASSUME NEW c \in Calls, EnforceLimit(c)
     PROVE  TypeOK'
  BY <1>a, <1>9, CallRowAssumption DEF EnforceLimit, Flags
<1>10. ASSUME NEW c \in Calls, Disconnected(c)
     PROVE  TypeOK'
  BY <1>a, <1>10 DEF Disconnected, Active
<1>11. ASSUME NEW c \in Calls, NEW ok \in BOOLEAN, AgentTurn(c, ok)
     PROVE  TypeOK'
  BY <1>a, <1>11 DEF AgentTurn
<1>12. ASSUME NEW c \in Calls, NEW ok \in BOOLEAN, ReferAnswered(c, ok)
     PROVE  TypeOK'
  BY <1>a, <1>12 DEF ReferAnswered, Flags
<1>13. ASSUME NEW c \in Calls, NEW why \in {"hangup", "no_response"},
              Leave(c, why)
     PROVE  TypeOK'
  BY <1>a, <1>13, CallRowAssumption DEF Leave, Active, Flags
<1>14. ASSUME NEW c \in Calls, NEW ok \in BOOLEAN, MarkEnded(c, ok)
     PROVE  TypeOK'
  <2>1. row[c] # Null => Stamped(row[c], age[c], spoken[c]) \in Row
    BY <1>a, StampedIsRow
  <2> QED
    BY SMTT(30), <1>a, <1>14, <2>1 DEF MarkEnded, IsOpen, HasRow
<1>15. ASSUME NEW c \in Calls, NEW ok \in BOOLEAN, SafetyNet(c, ok)
     PROVE  TypeOK'
  <2>1. row[c] # Null => Abandoned(row[c], age[c]) \in Row
    BY <1>a, AbandonedIsRow
  <2> QED
    BY SMTT(30), <1>a, <1>15, <2>1 DEF SafetyNet, IsOpen, HasRow
<1>16. ASSUME NEW c \in Calls, ShutBegin(c)
     PROVE  TypeOK'
  BY <1>a, <1>16, ReasonIsReason DEF ShutBegin
<1>17. ASSUME NEW c \in Calls, ShutUsage(c)
     PROVE  TypeOK'
  <2>1. row[c] \in Row /\ verdict[c] \in Reasons
    BY <1>a, <1>17, <1>b DEF ShutUsage, Shape, Active
  <2> QED
    BY <1>a, <1>17, <2>1, WithUsageIsRow DEF ShutUsage
<1>18. ASSUME NEW c \in Calls, ShutOutcome(c)
     PROVE  TypeOK'
  <2>1. row[c] \in Row
    BY <1>a, <1>18, <1>b DEF ShutOutcome, Shape, Active
  <2> QED
    BY <1>a, <1>18, <2>1, WithOutcomeIsRow DEF ShutOutcome
<1>19. ASSUME NEW c \in Calls, ShutPrepare(c)
     PROVE  TypeOK'
  <2>1. row[c] \in Row
    BY <1>a, <1>19, <1>b DEF ShutPrepare, Shape, Active
  <2> QED
    BY <1>a, <1>19, <2>1, PayloadOfIsPayload DEF ShutPrepare
<1>20. ASSUME NEW c \in Calls, ShutSave(c)
     PROVE  TypeOK'
  BY <1>a, <1>20 DEF ShutSave, SavePostback, Coalesce
<1>21. ASSUME NEW c \in Calls, ShutFails(c)
     PROVE  TypeOK'
  BY <1>a, <1>21 DEF ShutFails
<1>22. ASSUME NEW c \in Calls, ProcessExits(c)
     PROVE  TypeOK'
  BY <1>a, <1>22 DEF ProcessExits
<1>23. ASSUME NEW c \in Calls, RequeueRead(c)
     PROVE  TypeOK'
  BY <1>a, <1>23, PayloadOfIsPayload DEF RequeueRead, HasRow
<1>24. ASSUME NEW c \in Calls, NEW ok \in BOOLEAN, RequeueSave(c, ok)
     PROVE  TypeOK'
  BY <1>a, <1>24 DEF RequeueSave, SavePostback, Coalesce
<1>25. ASSUME NEW c \in Calls, Tick(c)
     PROVE  TypeOK'
  BY <1>a, <1>25 DEF Tick
<1>26. CASE Sweep
  BY <1>a, <1>26, SweptIsRow DEF Sweep, Stale, IsOpen, HasRow
<1>27. ASSUME NEW l \in Limits, EditLimit(l)
     PROVE  TypeOK'
  BY <1>a, <1>27 DEF EditLimit
<1>28. CASE UNCHANGED vars
  BY <1>a, <1>28 DEF vars
<1> QED
  BY <1>1, <1>2, <1>3, <1>4, <1>5, <1>6, <1>7, <1>8, <1>9, <1>10, <1>11, <1>12, <1>13, <1>14,
     <1>15, <1>16, <1>17, <1>18, <1>19, <1>20, <1>21, <1>22, <1>23, <1>24, <1>25, <1>26, <1>27, <1>28
     DEF Next, Conversation, Closing, Outside

(* Every step keeps the shape of every call. *)
LEMMA ShapeStep == IndInv /\ [Next]_vars => \A d \in Calls : Shape(d)'
<1> SUFFICES ASSUME IndInv, [Next]_vars, NEW d \in Calls PROVE Shape(d)'
  OBVIOUS
<1>a. TypeOK
  BY DEF IndInv
<1>b. \A c \in Calls : Shape(c)
  BY DEF IndInv
<1> USE DEF Shape, jobVars, shutVars, clockVars
<1>1. ASSUME NEW c \in Calls, Decline(c)
     PROVE  Shape(d)'
  BY <1>a, <1>b, <1>1 DEF Decline, TypeOK, Active
<1>2. ASSUME NEW c \in Calls, StartCall(c)
     PROVE  Shape(d)'
  BY <1>a, <1>b, <1>2, NullAssumption, OpenRowIsRow
     DEF StartCall, TypeOK, Active
<1>3. ASSUME NEW c \in Calls, Register(c)
     PROVE  Shape(d)'
  BY <1>a, <1>b, <1>3 DEF Register, TypeOK, Active
<1>4. ASSUME NEW c \in Calls, SessionStarted(c)
     PROVE  Shape(d)'
  BY <1>a, <1>b, <1>4 DEF SessionStarted, TypeOK, Active
<1>5. ASSUME NEW c \in Calls, EntrypointRaises(c)
     PROVE  Shape(d)'
  BY <1>a, <1>b, <1>5 DEF EntrypointRaises, TypeOK, Active
<1>6. ASSUME NEW c \in Calls, TransferRefused(c)
     PROVE  Shape(d)'
  BY <1>a, <1>b, <1>6 DEF TransferRefused, TypeOK
<1>7. ASSUME NEW c \in Calls, SendRefer(c)
     PROVE  Shape(d)'
  BY <1>a, <1>b, <1>7 DEF SendRefer, TypeOK
<1>8. ASSUME NEW c \in Calls, SessionError(c)
     PROVE  Shape(d)'
  BY <1>a, <1>b, <1>8 DEF SessionError, TypeOK
<1>9. ASSUME NEW c \in Calls, EnforceLimit(c)
     PROVE  Shape(d)'
  BY <1>a, <1>b, <1>9 DEF EnforceLimit, TypeOK
<1>10. ASSUME NEW c \in Calls, Disconnected(c)
     PROVE  Shape(d)'
  BY <1>a, <1>b, <1>10 DEF Disconnected, TypeOK, Active
<1>11. ASSUME NEW c \in Calls, NEW ok \in BOOLEAN, AgentTurn(c, ok)
     PROVE  Shape(d)'
  BY <1>a, <1>b, <1>11 DEF AgentTurn, TypeOK
<1>12. ASSUME NEW c \in Calls, NEW ok \in BOOLEAN, ReferAnswered(c, ok)
     PROVE  Shape(d)'
  BY <1>a, <1>b, <1>12 DEF ReferAnswered, TypeOK
<1>13. ASSUME NEW c \in Calls, NEW why \in {"hangup", "no_response"},
              Leave(c, why)
     PROVE  Shape(d)'
  BY <1>a, <1>b, <1>13 DEF Leave, TypeOK, Active
<1>14. ASSUME NEW c \in Calls, NEW ok \in BOOLEAN, MarkEnded(c, ok)
     PROVE  Shape(d)'
  <2>1. row[c] # Null /\ row[c] \in Row
    BY <1>a, <1>b, <1>14 DEF MarkEnded, TypeOK, Active
  <2> DEFINE r == Stamped(row[c], age[c], spoken[c])
  <2>2. r # Null /\ r.endedAt # Null /\ r.usage = row[c].usage
    <3>1. age[c] \in Nat /\ spoken[c] \in Nat
      BY <1>a DEF TypeOK
    <3>2. r \in Row /\ r.endedAt = age[c] /\ r.usage = row[c].usage
      BY <2>1, <3>1, StampedIsRow
    <3> QED
      BY <3>1, <3>2, NullAssumption
  <2> HIDE DEF r
  <2>3. CASE ok /\ IsOpen(c)
    <3>1. row' = [row EXCEPT ![c] = r]
      BY <1>14, <2>3 DEF MarkEnded, r
    <3> QED
      BY <1>a, <1>b, <1>14, <2>2, <2>3, <3>1 DEF MarkEnded, TypeOK, IsOpen
  <2>4. CASE ~(ok /\ IsOpen(c))
    BY <1>a, <1>b, <1>14, <2>4 DEF MarkEnded, TypeOK
  <2> QED
    BY <2>3, <2>4
<1>15. ASSUME NEW c \in Calls, NEW ok \in BOOLEAN, SafetyNet(c, ok)
     PROVE  Shape(d)'
  <2>1. row[c] # Null /\ row[c] \in Row
    BY <1>a, <1>b, <1>15 DEF SafetyNet, TypeOK, Active
  <2> DEFINE r == Abandoned(row[c], age[c])
  <2>2. r # Null /\ r.endedAt # Null /\ r.usage = row[c].usage
    <3>1. age[c] \in Nat /\ spoken[c] \in Nat
      BY <1>a DEF TypeOK
    <3>2. r \in Row /\ r.endedAt = age[c] /\ r.usage = row[c].usage
      BY <2>1, <3>1, AbandonedIsRow
    <3> QED
      BY <3>1, <3>2, NullAssumption
  <2> HIDE DEF r
  <2>3. CASE ok /\ IsOpen(c)
    <3>1. row' = [row EXCEPT ![c] = r]
      BY <1>15, <2>3 DEF SafetyNet, r
    <3> QED
      BY <1>a, <1>b, <1>15, <2>2, <2>3, <3>1 DEF SafetyNet, TypeOK, IsOpen
  <2>4. CASE ~(ok /\ IsOpen(c))
    BY <1>a, <1>b, <1>15, <2>4 DEF SafetyNet, TypeOK
  <2> QED
    BY <2>3, <2>4
<1>16. ASSUME NEW c \in Calls, ShutBegin(c)
     PROVE  Shape(d)'
  BY <1>a, <1>b, <1>16, ReasonIsReason DEF ShutBegin, TypeOK
<1>17. ASSUME NEW c \in Calls, ShutUsage(c)
     PROVE  Shape(d)'
  <2>1. row[c] # Null /\ row[c] \in Row
    BY <1>a, <1>b, <1>17 DEF ShutUsage, TypeOK, Active
  <2> DEFINE r == WithUsage(row[c], age[c], verdict[c], spoken[c])
  <2>2. r # Null /\ r.usage /\ r.endedAt # Null /\ r.outcome # SafetyNetOutcome
    <3>1. /\ age[c] \in Nat /\ spoken[c] \in Nat /\ verdict[c] \in Reasons
          /\ Coalesce(row[c].endedAt, age[c]) # Null
      BY <1>a, <1>b, <1>17, NullAssumption DEF ShutUsage, TypeOK, Coalesce
    <3> QED
      BY SMTT(30), <2>1, <3>1, NullAssumption, WithUsageIsRow
  <2> HIDE DEF r
  <2> QED
    BY SMTT(30), <1>a, <1>b, <1>17, <2>2 DEF ShutUsage, TypeOK, r
<1>18. ASSUME NEW c \in Calls, ShutOutcome(c)
     PROVE  Shape(d)'
  <2>1. row[c] # Null /\ row[c] \in Row
    BY <1>a, <1>b, <1>18 DEF ShutOutcome, TypeOK, Active
  <2> QED
    BY <1>a, <1>b, <1>18, <2>1, NullAssumption, WithOutcomeIsRow DEF ShutOutcome, TypeOK
<1>19. ASSUME NEW c \in Calls, ShutPrepare(c)
     PROVE  Shape(d)'
  BY <1>a, <1>b, <1>19 DEF ShutPrepare, TypeOK
<1>20. ASSUME NEW c \in Calls, ShutSave(c)
     PROVE  Shape(d)'
  BY <1>a, <1>b, <1>20 DEF ShutSave, TypeOK, SavePostback, Coalesce
<1>21. ASSUME NEW c \in Calls, ShutFails(c)
     PROVE  Shape(d)'
  BY <1>a, <1>b, <1>21 DEF ShutFails, TypeOK
<1>22. ASSUME NEW c \in Calls, ProcessExits(c)
     PROVE  Shape(d)'
  BY <1>a, <1>b, <1>22 DEF ProcessExits, TypeOK
<1>23. ASSUME NEW c \in Calls, RequeueRead(c)
     PROVE  Shape(d)'
  BY <1>a, <1>b, <1>23 DEF RequeueRead, TypeOK, HasRow, IsOpen
<1>24. ASSUME NEW c \in Calls, NEW ok \in BOOLEAN, RequeueSave(c, ok)
     PROVE  Shape(d)'
  BY <1>a, <1>b, <1>24 DEF RequeueSave, TypeOK, SavePostback, Coalesce
<1>25. ASSUME NEW c \in Calls, Tick(c)
     PROVE  Shape(d)'
  BY <1>a, <1>b, <1>25 DEF Tick, TypeOK
<1>26. CASE Sweep
  BY <1>a, <1>b, <1>26, SweptIsRow, NullAssumption
     DEF Sweep, TypeOK, Stale, IsOpen, HasRow
<1>27. ASSUME NEW l \in Limits, EditLimit(l)
     PROVE  Shape(d)'
  BY <1>a, <1>b, <1>27 DEF EditLimit, TypeOK
<1>28. CASE UNCHANGED vars
  BY <1>a, <1>b, <1>28 DEF vars, TypeOK
<1> QED
  BY <1>1, <1>2, <1>3, <1>4, <1>5, <1>6, <1>7, <1>8, <1>9, <1>10, <1>11, <1>12, <1>13, <1>14,
     <1>15, <1>16, <1>17, <1>18, <1>19, <1>20, <1>21, <1>22, <1>23, <1>24, <1>25, <1>26, <1>27, <1>28
     DEF Next, Conversation, Closing, Outside

(* The invariant that carries all the others. *)
THEOREM Inductive == Spec => []IndInv
<1>1. Init => IndInv
  BY DEF Init, IndInv, TypeOK, Shape, Active
<1>2. IndInv /\ [Next]_vars => IndInv'
  BY TypeStep, ShapeStep DEF IndInv
<1> QED
  BY <1>1, <1>2, PTL DEF Spec

(* Every variable keeps to its values, whoever writes the row and in       *)
(* whatever order.                                                         *)
THEOREM TypeCorrect == Spec => []TypeOK
<1>1. IndInv => TypeOK
  BY DEF IndInv
<1> QED
  BY Inductive, <1>1, PTL

(* A call whose usage was stored never carries the safety net's failure    *)
(* message, in whichever order the two shutdown callbacks ran.             *)
THEOREM HealthyRows == Spec => []HealthyRowsCarryNoFailure
<1>1. IndInv => HealthyRowsCarryNoFailure
  BY DEF IndInv, Shape, HealthyRowsCarryNoFailure, HasRow
<1> QED
  BY Inductive, <1>1, PTL

-----------------------------------------------------------------------------
(* When the stale-call sweep cannot reach a live call: the clocks, for     *)
(* every admissible set of limits.                                         *)

(* A row the sweep takes for stale has no job left. *)
LEMMA OnlyAbandoned ==
  ASSUME Generous, TypeOK, NEW c \in Calls, Shape(c), OnTime(c), Stale(c)
  PROVE  job[c] = "gone"
<1>1. job[c] # "idle"
  BY DEF Shape, Stale, IsOpen, HasRow
<1>2. ASSUME job[c] \in Active PROVE FALSE
  <2>1. PICK l \in Limits : due[c] <= l + Poll + (Farewell + Drain)
    BY <1>2 DEF OnTime, Within
  <2>2. 2 * (l + Poll + Farewell + Drain) <= 3 * maxDuration
    BY DEF Generous, TypeOK
  <2>3. {age[c], due[c], l, Poll, Farewell, Drain, maxDuration} \subseteq Nat
    BY CallRowAssumption DEF TypeOK
  <2>4. age[c] <= due[c] /\ 2 * age[c] > 3 * maxDuration
    BY <1>2 DEF OnTime, Stale
  <2> QED
    BY <2>1, <2>2, <2>3, <2>4
<1> QED
  BY <1>1, <1>2 DEF TypeOK

(* Every step keeps the clocks of a call within its allowances. *)
LEMMA ClockStep ==
  ASSUME Generous, TimedInv, [Next]_vars, NEW d \in Calls
  PROVE  OnTime(d)'
<1>a. TypeOK /\ \A c \in Calls : Shape(c)
  BY DEF TimedInv, IndInv
<1>b. \A c \in Calls : OnTime(c) /\ Lengths(c)
  BY DEF TimedInv
<1> USE DEF OnTime, Within, Active, jobVars, shutVars, clockVars
<1>1. ASSUME NEW c \in Calls, Decline(c)
     PROVE  OnTime(d)'
  BY <1>a, <1>b, <1>1 DEF Decline, TypeOK
<1>2. ASSUME NEW c \in Calls, StartCall(c)
     PROVE  OnTime(d)'
  BY <1>a, <1>b, <1>2, CallRowAssumption DEF StartCall, TypeOK
<1>3. ASSUME NEW c \in Calls, Register(c)
     PROVE  OnTime(d)'
  BY <1>a, <1>b, <1>3 DEF Register, TypeOK
<1>4. ASSUME NEW c \in Calls, SessionStarted(c)
     PROVE  OnTime(d)'
  BY <1>a, <1>b, <1>4 DEF SessionStarted, TypeOK
<1>5. ASSUME NEW c \in Calls, EntrypointRaises(c)
     PROVE  OnTime(d)'
  BY <1>a, <1>b, <1>5, CallRowAssumption DEF EntrypointRaises, TypeOK
<1>6. ASSUME NEW c \in Calls, TransferRefused(c)
     PROVE  OnTime(d)'
  BY <1>a, <1>b, <1>6 DEF TransferRefused, TypeOK
<1>7. ASSUME NEW c \in Calls, SendRefer(c)
     PROVE  OnTime(d)'
  BY <1>a, <1>b, <1>7 DEF SendRefer, TypeOK
<1>8. ASSUME NEW c \in Calls, SessionError(c)
     PROVE  OnTime(d)'
  BY <1>a, <1>b, <1>8 DEF SessionError, TypeOK
<1>9. ASSUME NEW c \in Calls, EnforceLimit(c)
     PROVE  OnTime(d)'
  BY <1>a, <1>b, <1>9, CallRowAssumption DEF EnforceLimit, TypeOK
<1>10. ASSUME NEW c \in Calls, Disconnected(c)
     PROVE  OnTime(d)'
  BY <1>a, <1>b, <1>10 DEF Disconnected, TypeOK
<1>11. ASSUME NEW c \in Calls, NEW ok \in BOOLEAN, AgentTurn(c, ok)
     PROVE  OnTime(d)'
  BY <1>a, <1>b, <1>11 DEF AgentTurn, TypeOK
<1>12. ASSUME NEW c \in Calls, NEW ok \in BOOLEAN, ReferAnswered(c, ok)
     PROVE  OnTime(d)'
  BY <1>a, <1>b, <1>12 DEF ReferAnswered, TypeOK
<1>13. ASSUME NEW c \in Calls, NEW why \in {"hangup", "no_response"},
              Leave(c, why)
     PROVE  OnTime(d)'
  BY <1>a, <1>b, <1>13, CallRowAssumption DEF Leave, TypeOK
<1>14. ASSUME NEW c \in Calls, NEW ok \in BOOLEAN, MarkEnded(c, ok)
     PROVE  OnTime(d)'
  BY <1>a, <1>b, <1>14 DEF MarkEnded, TypeOK
<1>15. ASSUME NEW c \in Calls, NEW ok \in BOOLEAN, SafetyNet(c, ok)
     PROVE  OnTime(d)'
  BY <1>a, <1>b, <1>15 DEF SafetyNet, TypeOK
<1>16. ASSUME NEW c \in Calls, ShutBegin(c)
     PROVE  OnTime(d)'
  BY <1>a, <1>b, <1>16 DEF ShutBegin, TypeOK
<1>17. ASSUME NEW c \in Calls, ShutUsage(c)
     PROVE  OnTime(d)'
  BY <1>a, <1>b, <1>17 DEF ShutUsage, TypeOK
<1>18. ASSUME NEW c \in Calls, ShutOutcome(c)
     PROVE  OnTime(d)'
  BY <1>a, <1>b, <1>18 DEF ShutOutcome, TypeOK
<1>19. ASSUME NEW c \in Calls, ShutPrepare(c)
     PROVE  OnTime(d)'
  BY <1>a, <1>b, <1>19 DEF ShutPrepare, TypeOK
<1>20. ASSUME NEW c \in Calls, ShutSave(c)
     PROVE  OnTime(d)'
  BY <1>a, <1>b, <1>20 DEF ShutSave, TypeOK
<1>21. ASSUME NEW c \in Calls, ShutFails(c)
     PROVE  OnTime(d)'
  BY <1>a, <1>b, <1>21 DEF ShutFails, TypeOK
<1>22. ASSUME NEW c \in Calls, ProcessExits(c)
     PROVE  OnTime(d)'
  BY <1>a, <1>b, <1>22 DEF ProcessExits, TypeOK
<1>23. ASSUME NEW c \in Calls, RequeueRead(c)
     PROVE  OnTime(d)'
  BY <1>a, <1>b, <1>23 DEF RequeueRead, TypeOK
<1>24. ASSUME NEW c \in Calls, NEW ok \in BOOLEAN, RequeueSave(c, ok)
     PROVE  OnTime(d)'
  BY <1>a, <1>b, <1>24 DEF RequeueSave, TypeOK
<1>25. ASSUME NEW c \in Calls, Tick(c)
     PROVE  OnTime(d)'
  BY <1>a, <1>b, <1>25 DEF Tick, TypeOK, Shape, HasRow
<1>26. CASE Sweep
  BY <1>a, <1>b, <1>26 DEF Sweep, TypeOK
<1>27. ASSUME NEW l \in Limits, EditLimit(l)
     PROVE  OnTime(d)'
  BY <1>a, <1>b, <1>27 DEF EditLimit, TypeOK
<1>28. CASE UNCHANGED vars
  BY <1>a, <1>b, <1>28 DEF vars, TypeOK
<1> QED
  BY <1>1, <1>2, <1>3, <1>4, <1>5, <1>6, <1>7, <1>8, <1>9, <1>10, <1>11, <1>12, <1>13, <1>14,
     <1>15, <1>16, <1>17, <1>18, <1>19, <1>20, <1>21, <1>22, <1>23, <1>24, <1>25, <1>26, <1>27, <1>28
     DEF Next, Conversation, Closing, Outside

(* Every step keeps the length of a row to its end. *)
LEMMA LengthStep ==
  ASSUME Generous, TimedInv, [Next]_vars, NEW d \in Calls
  PROVE  Lengths(d)'
<1>a. TypeOK /\ \A c \in Calls : Shape(c)
  BY DEF TimedInv, IndInv
<1>b. \A c \in Calls : OnTime(c) /\ Lengths(c)
  BY DEF TimedInv
<1> USE DEF Lengths, jobVars, shutVars, clockVars
<1>1. ASSUME NEW c \in Calls, Decline(c)
     PROVE  Lengths(d)'
  BY <1>a, <1>b, <1>1 DEF Decline, TypeOK
<1>2. ASSUME NEW c \in Calls, StartCall(c)
     PROVE  Lengths(d)'
  BY <1>a, <1>b, <1>2, OpenRowIsRow, NullAssumption
     DEF StartCall, TypeOK, Outcomes
<1>3. ASSUME NEW c \in Calls, Register(c)
     PROVE  Lengths(d)'
  BY <1>a, <1>b, <1>3 DEF Register, TypeOK
<1>4. ASSUME NEW c \in Calls, SessionStarted(c)
     PROVE  Lengths(d)'
  BY <1>a, <1>b, <1>4 DEF SessionStarted, TypeOK
<1>5. ASSUME NEW c \in Calls, EntrypointRaises(c)
     PROVE  Lengths(d)'
  BY <1>a, <1>b, <1>5 DEF EntrypointRaises, TypeOK
<1>6. ASSUME NEW c \in Calls, TransferRefused(c)
     PROVE  Lengths(d)'
  BY <1>a, <1>b, <1>6 DEF TransferRefused, TypeOK
<1>7. ASSUME NEW c \in Calls, SendRefer(c)
     PROVE  Lengths(d)'
  BY <1>a, <1>b, <1>7 DEF SendRefer, TypeOK
<1>8. ASSUME NEW c \in Calls, SessionError(c)
     PROVE  Lengths(d)'
  BY <1>a, <1>b, <1>8 DEF SessionError, TypeOK
<1>9. ASSUME NEW c \in Calls, EnforceLimit(c)
     PROVE  Lengths(d)'
  BY <1>a, <1>b, <1>9 DEF EnforceLimit, TypeOK
<1>10. ASSUME NEW c \in Calls, Disconnected(c)
     PROVE  Lengths(d)'
  BY <1>a, <1>b, <1>10 DEF Disconnected, TypeOK
<1>11. ASSUME NEW c \in Calls, NEW ok \in BOOLEAN, AgentTurn(c, ok)
     PROVE  Lengths(d)'
  BY <1>a, <1>b, <1>11 DEF AgentTurn, TypeOK
<1>12. ASSUME NEW c \in Calls, NEW ok \in BOOLEAN, ReferAnswered(c, ok)
     PROVE  Lengths(d)'
  BY <1>a, <1>b, <1>12 DEF ReferAnswered, TypeOK
<1>13. ASSUME NEW c \in Calls, NEW why \in {"hangup", "no_response"},
              Leave(c, why)
     PROVE  Lengths(d)'
  BY <1>a, <1>b, <1>13 DEF Leave, TypeOK
<1>14. ASSUME NEW c \in Calls, NEW ok \in BOOLEAN, MarkEnded(c, ok)
     PROVE  Lengths(d)'
  <2>1. CASE ok /\ IsOpen(c)
    <3> DEFINE r == Stamped(row[c], age[c], spoken[c])
    <3>1. row[c] \in Row /\ age[c] \in Nat /\ spoken[c] \in Nat
      BY <1>a, <2>1 DEF IsOpen, HasRow, TypeOK
    <3>2. r.length = r.endedAt /\ r.endedAt # Null /\ r.outcome = row[c].outcome
      BY SMTT(30), <3>1, StampedIsRow, NullAssumption
    <3> HIDE DEF r
    <3>3. row' = [row EXCEPT ![c] = r] /\ job' = job
      BY <1>14, <2>1 DEF MarkEnded, r
    <3> QED
      BY <1>a, <1>b, <2>1, <3>2, <3>3, <1>14
         DEF TypeOK, IsOpen, HasRow, MarkEnded, Active
  <2>2. CASE ~(ok /\ IsOpen(c))
    BY <1>b, <1>14, <2>2 DEF MarkEnded
  <2> QED
    BY <2>1, <2>2
<1>15. ASSUME NEW c \in Calls, NEW ok \in BOOLEAN, SafetyNet(c, ok)
     PROVE  Lengths(d)'
  <2>1. CASE ok /\ IsOpen(c)
    <3> DEFINE r == Abandoned(row[c], age[c])
    <3>1. row[c] \in Row /\ age[c] \in Nat
      BY <1>a, <2>1 DEF IsOpen, HasRow, TypeOK
    <3>2. r.length = r.endedAt /\ r.endedAt # Null /\ r.outcome # SweptOutcome
      <4>1. SafetyNetOutcome # SweptOutcome
        BY DEF SafetyNetOutcome, SweptOutcome
      <4>2. age[c] # Null
        BY <3>1, NullAssumption
      <4> QED
        BY <3>1, <4>1, <4>2, AbandonedIsRow
    <3> HIDE DEF r
    <3>3. row' = [row EXCEPT ![c] = r] /\ job' = job
      BY <1>15, <2>1 DEF SafetyNet, r
    <3> QED
      BY <1>a, <1>b, <2>1, <3>2, <3>3, <1>15
         DEF TypeOK, IsOpen, HasRow, SafetyNet
  <2>2. CASE ~(ok /\ IsOpen(c))
    BY <1>b, <1>15, <2>2 DEF SafetyNet
  <2> QED
    BY <2>1, <2>2
<1>16. ASSUME NEW c \in Calls, ShutBegin(c)
     PROVE  Lengths(d)'
  BY <1>a, <1>b, <1>16 DEF ShutBegin, TypeOK
<1>17. ASSUME NEW c \in Calls, ShutUsage(c)
     PROVE  Lengths(d)'
  <2> DEFINE r == WithUsage(row[c], age[c], verdict[c], spoken[c])
  <2>1. /\ row[c] # Null /\ row[c] \in Row /\ verdict[c] \in Reasons
        /\ age[c] \in Nat /\ spoken[c] \in Nat /\ job[c] # "gone"
    BY <1>a, <1>17 DEF ShutUsage, Shape, TypeOK, Active
  <2>2. /\ r.endedAt = Coalesce(row[c].endedAt, age[c])
        /\ r.length = Coalesce(row[c].length, age[c])
        /\ r.outcome \in {row[c].outcome, Null}
    BY <2>1, WithUsageIsRow
  <2>3. r.length = r.endedAt /\ r.endedAt # Null /\ r.outcome # SweptOutcome
    BY <1>b, <2>1, <2>2, NullAssumption DEF Coalesce, Outcomes
  <2> HIDE DEF r
  <2>4. row' = [row EXCEPT ![c] = r] /\ job' = job
    BY <1>17 DEF ShutUsage, r
  <2> QED
    BY <1>a, <1>b, <2>1, <2>3, <2>4 DEF TypeOK
<1>18. ASSUME NEW c \in Calls, ShutOutcome(c)
     PROVE  Lengths(d)'
  <2> DEFINE r == WithOutcome(row[c], flags[c])
  <2>1. row[c] # Null /\ row[c] \in Row /\ job[c] # "gone"
    BY <1>a, <1>18 DEF ShutOutcome, Shape, TypeOK, Active
  <2>2. /\ r.length = row[c].length /\ r.endedAt = row[c].endedAt
        /\ row[c].outcome # SweptOutcome => r.outcome # SweptOutcome
    BY <2>1, WithOutcomeIsRow
  <2> HIDE DEF r
  <2>3. row' = [row EXCEPT ![c] = r] /\ job' = job
    BY <1>18 DEF ShutOutcome, r
  <2> QED
    BY <1>a, <1>b, <2>1, <2>2, <2>3 DEF TypeOK
<1>19. ASSUME NEW c \in Calls, ShutPrepare(c)
     PROVE  Lengths(d)'
  BY <1>a, <1>b, <1>19 DEF ShutPrepare, TypeOK
<1>20. ASSUME NEW c \in Calls, ShutSave(c)
     PROVE  Lengths(d)'
  BY <1>a, <1>b, <1>20 DEF ShutSave, TypeOK
<1>21. ASSUME NEW c \in Calls, ShutFails(c)
     PROVE  Lengths(d)'
  BY <1>a, <1>b, <1>21 DEF ShutFails, TypeOK
<1>22. ASSUME NEW c \in Calls, ProcessExits(c)
     PROVE  Lengths(d)'
  BY <1>a, <1>b, <1>22 DEF ProcessExits, TypeOK
<1>23. ASSUME NEW c \in Calls, RequeueRead(c)
     PROVE  Lengths(d)'
  BY <1>a, <1>b, <1>23 DEF RequeueRead, TypeOK
<1>24. ASSUME NEW c \in Calls, NEW ok \in BOOLEAN, RequeueSave(c, ok)
     PROVE  Lengths(d)'
  BY <1>a, <1>b, <1>24 DEF RequeueSave, TypeOK
<1>25. ASSUME NEW c \in Calls, Tick(c)
     PROVE  Lengths(d)'
  BY <1>a, <1>b, <1>25 DEF Tick, TypeOK
<1>26. CASE Sweep
  <2>1. CASE Stale(d)
    <3>1. row[d] # Null /\ row[d] \in Row /\ row[d].endedAt = Null
      BY <1>a, <2>1 DEF Stale, IsOpen, HasRow, TypeOK
    <3>2. Swept(d).endedAt = age[d] /\ Swept(d).length = Null
      BY <1>a, <1>b, <3>1, SweptIsRow
    <3>3. job[d] = "gone"
      BY <1>a, <1>b, <2>1, <3>1, OnlyAbandoned
    <3> HIDE DEF Lengths
    <3>4. row'[d] = Swept(d) /\ job' = job
      BY <1>26, <2>1 DEF Sweep
    <3> QED
      BY <1>a, <3>2, <3>3, <3>4, NullAssumption DEF Lengths, TypeOK
  <2>2. CASE ~Stale(d)
    BY <1>b, <1>26, <2>2 DEF Sweep
  <2> QED
    BY <2>1, <2>2
<1>27. ASSUME NEW l \in Limits, EditLimit(l)
     PROVE  Lengths(d)'
  BY <1>a, <1>b, <1>27 DEF EditLimit, TypeOK
<1>28. CASE UNCHANGED vars
  BY <1>a, <1>b, <1>28 DEF vars, TypeOK
<1> QED
  BY <1>1, <1>2, <1>3, <1>4, <1>5, <1>6, <1>7, <1>8, <1>9, <1>10, <1>11, <1>12, <1>13, <1>14,
     <1>15, <1>16, <1>17, <1>18, <1>19, <1>20, <1>21, <1>22, <1>23, <1>24, <1>25, <1>26, <1>27, <1>28
     DEF Next, Conversation, Closing, Outside

(* The clocks and the lengths hold of every reachable state. *)
THEOREM OnTimeAlways == Generous => (Spec => []TimedInv)
<1> SUFFICES ASSUME Generous PROVE Spec => []TimedInv
  OBVIOUS
<1>1. Init => TimedInv
  <2> SUFFICES ASSUME Init PROVE TimedInv
    OBVIOUS
  <2>1. IndInv
    BY DEF Init, IndInv, TypeOK, Shape, Active
  <2> QED
    BY <2>1 DEF Init, TimedInv, OnTime, Lengths, Active
<1>2. TimedInv /\ [Next]_vars => TimedInv'
  BY TypeStep, ShapeStep, ClockStep, LengthStep DEF TimedInv, IndInv
<1> QED
  BY <1>1, <1>2, PTL DEF Spec

(* The sweep never closes a call that still has a worker on it, as long    *)
(* as half of every limit is more than the poll, the farewell, the drain   *)
(* and the difference to any other limit the campaign is given together.   *)
THEOREM LiveCallsAreKept == Generous => (Spec => []NoLiveCallSwept)
<1> SUFFICES ASSUME Generous PROVE Spec => []NoLiveCallSwept
  OBVIOUS
<1>1. TimedInv => NoLiveCallSwept
  BY DEF TimedInv, Lengths, NoLiveCallSwept, HasRow
<1> QED
  BY OnTimeAlways, <1>1, PTL

(* Under the same condition the length of a call is the length to the      *)
(* moment its row says it ended.                                           *)
THEOREM LengthsAreTheCallsOwn == Generous => (Spec => []LengthIsTheCallsOwn)
<1> SUFFICES ASSUME Generous PROVE Spec => []LengthIsTheCallsOwn
  OBVIOUS
<1>1. TimedInv => LengthIsTheCallsOwn
  BY DEF TimedInv, Lengths, LengthIsTheCallsOwn, HasRow
<1> QED
  BY OnTimeAlways, <1>1, PTL

-----------------------------------------------------------------------------
(* CallRow implements CallLedger: every step of a writer of the row is a   *)
(* step of the ledger or leaves it alone.                                  *)

LEMMA StutterStep ==
  ASSUME row' = row, queued' = queued
  PROVE  UNCHANGED Ledger!lvars
  BY DEF Ledger!lvars

(* Closing an open row is the ledger's Close. *)
LEMMA CloseStep ==
  ASSUME TypeOK, NEW c \in Calls, NEW r \in Row, IsOpen(c), ~row[c].usage,
         r.endedAt \in Nat, r.usage = row[c].usage,
         row' = [row EXCEPT ![c] = r], queued' = queued
  PROVE  Ledger!Close({c})
<1>1. /\ r # Null /\ r.endedAt # Null /\ ~r.usage
      /\ row[c] # Null /\ row[c].endedAt = Null
  BY NullAssumption DEF IsOpen, HasRow
<1>2. row'[c] = r /\ \A d \in Calls : d # c => row'[d] = row[d]
  BY DEF TypeOK
<1>3. \A d \in Calls : row[d] # Null => row[d].endedAt \in Nat \cup {Null}
  BY DEF TypeOK, Row
<1>4. Ledger!EndAt({c})
  BY <1>1, <1>2, <1>3 DEF Ledger!EndAt
<1>5. UNCHANGED <<[d \in Calls |-> IF row[d] = Null THEN Null
                                 ELSE IF row[d].usage THEN row[d].reason
                                 ELSE Null],
                  {d \in Calls : queued[d] # Null}>>
  BY <1>1, <1>2
<1> QED
  BY <1>1, <1>2, <1>4, <1>5 DEF Ledger!Close

LEMMA JudgeStep ==
  ASSUME TypeOK, NEW c \in Calls, NEW r \in Row, row[c] # Null, ~row[c].usage,
         NEW why \in Reasons, r.usage, r.reason = why,
         r.endedAt = Coalesce(row[c].endedAt, age[c]),
         row' = [row EXCEPT ![c] = r], queued' = queued
  PROVE  Ledger!Next
<1> SUFFICES Ledger!Judge(c, why)
  BY DEF Ledger!Next
<1>1. /\ r # Null /\ r.endedAt \in Nat
      /\ row[c].endedAt # Null => r.endedAt = row[c].endedAt
  BY NullAssumption DEF TypeOK, Row, Coalesce
<1>2. row'[c] = r /\ \A d \in Calls : d # c => row'[d] = row[d]
  BY DEF TypeOK
<1>3. \A d \in Calls : row[d] # Null => row[d].endedAt \in Nat \cup {Null}
  BY DEF TypeOK, Row
<1>4. r.endedAt # Null
  BY <1>1, NullAssumption
<1> DEFINE lf(d) == IF row[d] = Null THEN "absent"
                   ELSE IF row[d].endedAt = Null THEN "open" ELSE "closed"
           life == [d \in Calls |-> lf(d)]
<1> DEFINE moment == [d \in Calls |-> IF row[d] = Null THEN Null ELSE row[d].endedAt]
<1> DEFINE verd(d) == IF row[d] = Null THEN Null
                     ELSE IF row[d].usage THEN row[d].reason ELSE Null
           judgement == [d \in Calls |-> verd(d)]
<1>7. judgement' = [judgement EXCEPT ![c] = why] /\ judgement[c] = Null
  <2>1. verd(c)' = why /\ verd(c) = Null
    BY <1>1, <1>2
  <2>2. \A d \in Calls : d # c => verd(d)' = verd(d)
    BY <1>2
  <2>3. judgement' = [d \in Calls |-> verd(d)']
    OBVIOUS
  <2> HIDE DEF verd
  <2> QED
    BY <2>1, <2>2, <2>3
<1>8. UNCHANGED {d \in Calls : queued[d] # Null}
  OBVIOUS
<1>5. CASE row[c].endedAt = Null
  <2>1. Ledger!EndAt({c})
    BY <1>1, <1>2, <1>3, <1>4, <1>5 DEF Ledger!EndAt
  <2>2. life' = [life EXCEPT ![c] = "closed"] /\ life[c] = "open"
    <3>1. lf(c)' = "closed" /\ lf(c) = "open"
      BY <1>1, <1>2, <1>4, <1>5
    <3>2. \A d \in Calls : d # c => lf(d)' = lf(d)
      BY <1>2
    <3>3. life' = [d \in Calls |-> lf(d)']
      OBVIOUS
    <3> HIDE DEF lf
    <3> QED
      BY <3>1, <3>2, <3>3
  <2> QED
    BY <2>1, <2>2, <1>7, <1>8 DEF Ledger!Judge
<1>6. CASE row[c].endedAt # Null
  <2>1. \A d \in Calls : row'[d] # Null <=> row[d] # Null
    BY <1>1, <1>2
  <2>2. \A d \in Calls : row'[d] # Null => row'[d].endedAt = row[d].endedAt
    BY <1>1, <1>2, <1>6
  <2>3. UNCHANGED <<life, moment>> /\ life[c] = "closed"
    BY <1>6, <2>1, <2>2
  <2> QED
    BY <2>3, <1>7, <1>8 DEF Ledger!Judge
<1> QED
  BY <1>5, <1>6

(* The INSERT is the ledger's Open. *)
LEMMA OpenStep ==
  ASSUME TypeOK, NEW c \in Calls, row[c] = Null,
         row' = [row EXCEPT ![c] = OpenRow], queued' = queued
  PROVE  Ledger!Open(c)
<1>1. OpenRow # Null /\ OpenRow.endedAt = Null /\ ~OpenRow.usage
  BY OpenRowIsRow, NullAssumption
<1>2. row'[c] = OpenRow /\ \A d \in Calls : d # c => row'[d] = row[d]
  BY DEF TypeOK
<1> DEFINE life(d) == IF row[d] = Null THEN "absent"
                      ELSE IF row[d].endedAt = Null THEN "open" ELSE "closed"
           moment(d) == IF row[d] = Null THEN Null ELSE row[d].endedAt
           verd(d) == IF row[d] = Null THEN Null
                      ELSE IF row[d].usage THEN row[d].reason ELSE Null
<1>3. life(c) = "absent" /\ life(c)' = "open"
  BY <1>1, <1>2
<1>4. \A d \in Calls : d # c => life(d)' = life(d)
  BY <1>2
<1>5. \A d \in Calls : moment(d)' = moment(d) /\ verd(d)' = verd(d)
  BY <1>1, <1>2
<1>6. [d \in Calls |-> life(d)]' = [d \in Calls |-> life(d)']
      /\ [d \in Calls |-> moment(d)]' = [d \in Calls |-> moment(d)']
      /\ [d \in Calls |-> verd(d)]' = [d \in Calls |-> verd(d)']
  OBVIOUS
<1> HIDE DEF life, moment, verd
<1>7. /\ [d \in Calls |-> life(d)]' =
           [[d \in Calls |-> life(d)] EXCEPT ![c] = "open"]
      /\ [d \in Calls |-> life(d)][c] = "absent"
  BY <1>3, <1>4, <1>6
<1>8. UNCHANGED <<[d \in Calls |-> moment(d)], [d \in Calls |-> verd(d)]>>
  BY <1>5, <1>6
<1> QED
  BY <1>7, <1>8 DEF Ledger!Open, life, moment, verd

(* Saving a report is the ledger's Report, or nothing if there is one. *)
LEMMA ReportStep ==
  ASSUME TypeOK, NEW c \in Calls, NEW p \in Payload, row[c] # Null,
         row[c].endedAt # Null, row' = row, SavePostback(c, p)
  PROVE  Ledger!Report(c) \/ UNCHANGED Ledger!lvars
  BY NullAssumption
     DEF Ledger!Report, Ledger!lvars, TypeOK, SavePostback, Coalesce

LEMMA InitStep == Init => Ledger!Init
  BY DEF Init, Ledger!Init

(* A rewrite of an existing row that leaves its end and its verdict alone. *)
LEMMA RewriteStep ==
  ASSUME TypeOK, NEW c \in Calls, NEW r, row[c] # Null, r # Null,
         r.endedAt = row[c].endedAt, r.usage = row[c].usage,
         r.reason = row[c].reason,
         row' = [row EXCEPT ![c] = r], queued' = queued
  PROVE  UNCHANGED Ledger!lvars
<1>1. \A d \in Calls : /\ row'[d] # Null <=> row[d] # Null
                      /\ row'[d].endedAt = row[d].endedAt
                      /\ row'[d].usage = row[d].usage
                      /\ row'[d].reason = row[d].reason
  BY DEF TypeOK
<1> QED
  BY <1>1 DEF Ledger!lvars

(* Closing a set of open rows at once. *)
LEMMA SweepStep ==
  ASSUME TypeOK, NEW S \in SUBSET Calls, S # {},
         \A c \in S : IsOpen(c) /\ ~row[c].usage,
         \A c \in S : Swept(c) \in Row /\ Swept(c).endedAt \in Nat
                      /\ ~Swept(c).usage,
         row' = [c \in Calls |-> IF c \in S THEN Swept(c) ELSE row[c]],
         queued' = queued
  PROVE  Ledger!Next
<1> SUFFICES Ledger!Close(S)
  BY DEF Ledger!Next
<1>1. \A c \in S : /\ row[c] # Null /\ row[c].endedAt = Null
                  /\ row'[c] # Null /\ row'[c].endedAt # Null
                  /\ row'[c].endedAt \in Nat /\ ~row'[c].usage
  BY NullAssumption DEF IsOpen, HasRow
<1>2. \A d \in Calls \ S : row'[d] = row[d]
  OBVIOUS
<1>3. \A d \in Calls : row[d] # Null => row[d].endedAt \in Nat \cup {Null}
  BY DEF TypeOK, Row
<1>4. Ledger!EndAt(S)
  BY <1>1, <1>2, <1>3 DEF Ledger!EndAt
<1>5. UNCHANGED <<[d \in Calls |-> IF row[d] = Null THEN Null
                                 ELSE IF row[d].usage THEN row[d].reason
                                 ELSE Null],
                  {d \in Calls : queued[d] # Null}>>
  BY <1>1, <1>2
<1> QED
  BY <1>1, <1>2, <1>4, <1>5 DEF Ledger!Close

(* Every step of CallRow is one of the ledger or leaves it alone. *)
LEMMA LedgerStep == IndInv /\ [Next]_vars => [Ledger!Next]_(Ledger!lvars)
<1> SUFFICES ASSUME IndInv, [Next]_vars PROVE [Ledger!Next]_(Ledger!lvars)
  OBVIOUS
<1>a. TypeOK
  BY DEF IndInv
<1>b. \A c \in Calls : Shape(c)
  BY DEF IndInv
<1> USE DEF jobVars, shutVars, clockVars
<1>1. ASSUME NEW c \in Calls, Decline(c)
     PROVE  [Ledger!Next]_(Ledger!lvars)
  BY <1>1, StutterStep DEF Decline
<1>2. ASSUME NEW c \in Calls, StartCall(c)
     PROVE  [Ledger!Next]_(Ledger!lvars)
  <2>1. row[c] = Null
    BY <1>b, <1>2 DEF StartCall, Shape
  <2>2. Ledger!Open(c)
    BY <1>a, <2>1, <1>2, OpenStep DEF StartCall
  <2> QED
    BY <2>2 DEF Ledger!Next
<1>3. ASSUME NEW c \in Calls, Register(c)
     PROVE  [Ledger!Next]_(Ledger!lvars)
  BY <1>3, StutterStep DEF Register
<1>4. ASSUME NEW c \in Calls, SessionStarted(c)
     PROVE  [Ledger!Next]_(Ledger!lvars)
  BY <1>4, StutterStep DEF SessionStarted
<1>5. ASSUME NEW c \in Calls, EntrypointRaises(c)
     PROVE  [Ledger!Next]_(Ledger!lvars)
  BY <1>5, StutterStep DEF EntrypointRaises
<1>6. ASSUME NEW c \in Calls, TransferRefused(c)
     PROVE  [Ledger!Next]_(Ledger!lvars)
  BY <1>6, StutterStep DEF TransferRefused
<1>7. ASSUME NEW c \in Calls, SendRefer(c)
     PROVE  [Ledger!Next]_(Ledger!lvars)
  BY <1>7, StutterStep DEF SendRefer
<1>8. ASSUME NEW c \in Calls, SessionError(c)
     PROVE  [Ledger!Next]_(Ledger!lvars)
  BY <1>8, StutterStep DEF SessionError
<1>9. ASSUME NEW c \in Calls, EnforceLimit(c)
     PROVE  [Ledger!Next]_(Ledger!lvars)
  BY <1>9, StutterStep DEF EnforceLimit
<1>10. ASSUME NEW c \in Calls, Disconnected(c)
     PROVE  [Ledger!Next]_(Ledger!lvars)
  BY <1>10, StutterStep DEF Disconnected
<1>11. ASSUME NEW c \in Calls, NEW ok \in BOOLEAN, AgentTurn(c, ok)
     PROVE  [Ledger!Next]_(Ledger!lvars)
  BY <1>11, StutterStep DEF AgentTurn
<1>12. ASSUME NEW c \in Calls, NEW ok \in BOOLEAN, ReferAnswered(c, ok)
     PROVE  [Ledger!Next]_(Ledger!lvars)
  BY <1>12, StutterStep DEF ReferAnswered
<1>13. ASSUME NEW c \in Calls, NEW why \in {"hangup", "no_response"},
              Leave(c, why)
     PROVE  [Ledger!Next]_(Ledger!lvars)
  BY <1>13, StutterStep DEF Leave
<1>14. ASSUME NEW c \in Calls, NEW ok \in BOOLEAN, MarkEnded(c, ok)
     PROVE  [Ledger!Next]_(Ledger!lvars)
  <2> DEFINE r == Stamped(row[c], age[c], spoken[c])
  <2>1. CASE ok /\ IsOpen(c)
    <3>1. row[c] \in Row /\ age[c] \in Nat /\ spoken[c] \in Nat
      BY <1>a, <2>1 DEF IsOpen, HasRow, TypeOK
    <3>2. r \in Row /\ r.endedAt = age[c] /\ r.usage = row[c].usage
      BY <3>1, StampedIsRow
    <3> HIDE DEF r
    <3>3. row' = [row EXCEPT ![c] = r] /\ queued' = queued
      BY <1>14, <2>1 DEF MarkEnded, r
    <3>4. ~row[c].usage
      BY <1>b, <2>1 DEF Shape, IsOpen, HasRow
    <3>5. Ledger!Close({c})
      BY <1>a, <2>1, <3>1, <3>2, <3>3, <3>4, CloseStep
    <3> QED
      BY <3>5 DEF Ledger!Next
  <2>2. CASE ~(ok /\ IsOpen(c))
    BY <1>14, <2>2, StutterStep DEF MarkEnded
  <2> QED
    BY <2>1, <2>2
<1>15. ASSUME NEW c \in Calls, NEW ok \in BOOLEAN, SafetyNet(c, ok)
     PROVE  [Ledger!Next]_(Ledger!lvars)
  <2> DEFINE r == Abandoned(row[c], age[c])
  <2>1. CASE ok /\ IsOpen(c)
    <3>1. row[c] \in Row /\ age[c] \in Nat
      BY <1>a, <2>1 DEF IsOpen, HasRow, TypeOK
    <3>2. r \in Row /\ r.endedAt = age[c] /\ r.usage = row[c].usage
      BY <3>1, AbandonedIsRow
    <3> HIDE DEF r
    <3>3. row' = [row EXCEPT ![c] = r] /\ queued' = queued
      BY <1>15, <2>1 DEF SafetyNet, r
    <3>4. ~row[c].usage
      BY <1>b, <2>1 DEF Shape, IsOpen, HasRow
    <3>5. Ledger!Close({c})
      BY <1>a, <2>1, <3>1, <3>2, <3>3, <3>4, CloseStep
    <3> QED
      BY <3>5 DEF Ledger!Next
  <2>2. CASE ~(ok /\ IsOpen(c))
    BY <1>15, <2>2, StutterStep DEF SafetyNet
  <2> QED
    BY <2>1, <2>2
<1>16. ASSUME NEW c \in Calls, ShutBegin(c)
     PROVE  [Ledger!Next]_(Ledger!lvars)
  BY <1>16, StutterStep DEF ShutBegin
<1>17. ASSUME NEW c \in Calls, ShutUsage(c)
     PROVE  [Ledger!Next]_(Ledger!lvars)
  <2> DEFINE r == WithUsage(row[c], age[c], verdict[c], spoken[c])
  <2>1. /\ row[c] # Null /\ row[c] \in Row /\ ~row[c].usage
        /\ age[c] \in Nat /\ spoken[c] \in Nat /\ verdict[c] \in Reasons
    BY <1>a, <1>b, <1>17 DEF ShutUsage, Shape, TypeOK, Active
  <2>2. /\ r \in Row /\ r.usage /\ r.reason = verdict[c]
        /\ r.endedAt = Coalesce(row[c].endedAt, age[c])
    BY SMTT(30), <2>1, WithUsageIsRow
  <2> HIDE DEF r
  <2>3. row' = [row EXCEPT ![c] = r] /\ queued' = queued
    BY <1>17 DEF ShutUsage, r
  <2>4. TypeOK
    BY <1>a
  <2>5. Ledger!Next
    BY <2>1, <2>2, <2>3, <2>4, JudgeStep
  <2> QED
    BY <2>5
<1>18. ASSUME NEW c \in Calls, ShutOutcome(c)
     PROVE  [Ledger!Next]_(Ledger!lvars)
  <2> DEFINE r == WithOutcome(row[c], flags[c])
  <2>1. row[c] # Null /\ row[c] \in Row
    BY <1>a, <1>b, <1>18 DEF ShutOutcome, Shape, TypeOK, Active
  <2>2. /\ r # Null /\ r.usage = row[c].usage
        /\ r.reason = row[c].reason /\ r.endedAt = row[c].endedAt
    BY <2>1, WithOutcomeIsRow, NullAssumption
  <2> HIDE DEF r
  <2>3. row' = [row EXCEPT ![c] = r] /\ queued' = queued
    BY <1>18 DEF ShutOutcome, r
  <2> QED
    BY <1>a, <2>1, <2>2, <2>3, RewriteStep
<1>19. ASSUME NEW c \in Calls, ShutPrepare(c)
     PROVE  [Ledger!Next]_(Ledger!lvars)
  BY <1>19, StutterStep DEF ShutPrepare
<1>20. ASSUME NEW c \in Calls, ShutSave(c)
     PROVE  [Ledger!Next]_(Ledger!lvars)
  <2>1. row' = row /\ SavePostback(c, draft[c])
    BY <1>20 DEF ShutSave
  <2>2. CASE draft[c] = Null
    <3>1. queued' = queued
      BY <1>a, <2>1, <2>2 DEF SavePostback, Coalesce, TypeOK
    <3> QED
      BY <2>1, <3>1, StutterStep
  <2>3. CASE draft[c] # Null
    <3>1. draft[c] \in Payload /\ row[c] # Null /\ row[c].endedAt # Null
      BY <1>a, <1>b, <2>3 DEF Shape, TypeOK
    <3>2. Ledger!Report(c) \/ UNCHANGED Ledger!lvars
      BY <1>a, <2>1, <3>1, ReportStep
    <3> QED
      BY <3>2 DEF Ledger!Next
  <2> QED
    BY <2>2, <2>3
<1>21. ASSUME NEW c \in Calls, ShutFails(c)
     PROVE  [Ledger!Next]_(Ledger!lvars)
  BY <1>21, StutterStep DEF ShutFails
<1>22. ASSUME NEW c \in Calls, ProcessExits(c)
     PROVE  [Ledger!Next]_(Ledger!lvars)
  BY <1>22, StutterStep DEF ProcessExits
<1>23. ASSUME NEW c \in Calls, RequeueRead(c)
     PROVE  [Ledger!Next]_(Ledger!lvars)
  BY <1>23, StutterStep DEF RequeueRead
<1>24. ASSUME NEW c \in Calls, NEW ok \in BOOLEAN, RequeueSave(c, ok)
     PROVE  [Ledger!Next]_(Ledger!lvars)
  <2>1. CASE ok
    <3>1. /\ script[c] \in Payload /\ row[c] # Null /\ row[c].endedAt # Null
          /\ row' = row /\ SavePostback(c, script[c])
      BY <1>a, <1>b, <1>24, <2>1 DEF Shape, TypeOK, RequeueSave
    <3>2. Ledger!Report(c) \/ UNCHANGED Ledger!lvars
      BY <1>a, <3>1, ReportStep
    <3> QED
      BY <3>2 DEF Ledger!Next
  <2>2. CASE ~ok
    BY <1>24, <2>2, StutterStep DEF RequeueSave
  <2> QED
    BY <2>1, <2>2
<1>25. ASSUME NEW c \in Calls, Tick(c)
     PROVE  [Ledger!Next]_(Ledger!lvars)
  BY <1>25, StutterStep DEF Tick
<1>26. CASE Sweep
  <2> DEFINE S == {c \in Calls : Stale(c)}
  <2>1. /\ S # {} /\ queued' = queued
        /\ row' = [c \in Calls |-> IF c \in S THEN Swept(c) ELSE row[c]]
    BY <1>26 DEF Sweep
  <2>2. \A c \in S : IsOpen(c) /\ ~row[c].usage
    BY <1>b DEF Stale, Shape, IsOpen, HasRow
  <2>3. \A c \in S : Swept(c) \in Row /\ Swept(c).endedAt \in Nat /\ ~Swept(c).usage
    <3> SUFFICES ASSUME NEW c \in S
                 PROVE  Swept(c) \in Row /\ Swept(c).endedAt \in Nat
                        /\ ~Swept(c).usage
      OBVIOUS
    <3>1. row[c] \in Row /\ age[c] \in Nat
      BY <1>a, <2>2 DEF TypeOK, IsOpen, HasRow
    <3> QED
      BY <1>a, <2>2, <3>1, SweptIsRow
  <2>4. S \in SUBSET Calls
    OBVIOUS
  <2> HIDE DEF S
  <2> QED
    BY <1>a, <2>1, <2>2, <2>3, <2>4, SweepStep
<1>27. ASSUME NEW l \in Limits, EditLimit(l)
     PROVE  [Ledger!Next]_(Ledger!lvars)
  BY <1>27, StutterStep DEF EditLimit
<1>28. CASE UNCHANGED vars
  BY <1>28, StutterStep DEF vars
<1> QED
  BY <1>1, <1>2, <1>3, <1>4, <1>5, <1>6, <1>7, <1>8, <1>9, <1>10, <1>11, <1>12, <1>13, <1>14,
     <1>15, <1>16, <1>17, <1>18, <1>19, <1>20, <1>21, <1>22, <1>23, <1>24, <1>25, <1>26, <1>27, <1>28
     DEF Next, Conversation, Closing, Outside

(* A call is closed at one moment that no later statement moves, judged at *)
(* most once, and reported at most once and only when closed - for any     *)
(* number of calls, any interleaving of the writers, any failure of their  *)
(* statements and a kill at any point.                                     *)
THEOREM LedgerKept == Spec => ImplementsLedger
<1>1. Init => Ledger!Init
  BY InitStep
<1> QED
  BY <1>1, LedgerStep, Inductive, PTL
     DEF Spec, ImplementsLedger, Ledger!Spec

-----------------------------------------------------------------------------
(* What is on record of a call that ended: its reason and its report, on   *)
(* the assumption that nothing is answered or requeued out of turn.        *)

(* A closed row is written by the last two statements of its own shutdown  *)
(* and by nobody else, and only the first of them stores the usage.        *)
LEMMA ClosedRowStep ==
  ASSUME IndInv, [Next]_vars, NEW d \in Calls
  PROVE  \/ row'[d] = row[d]
         \/ row[d] = Null /\ row'[d] # Null /\ ~row'[d].usage
         \/ /\ row[d] # Null /\ row[d].endedAt = Null /\ row'[d] # Null
            /\ row'[d].usage = row[d].usage
         \/ ShutUsage(d) \/ ShutOutcome(d)
<1>a. TypeOK /\ \A c \in Calls : Shape(c)
  BY DEF IndInv
<1> DEFINE Goal == \/ row'[d] = row[d]
                   \/ row[d] = Null /\ row'[d] # Null /\ ~row'[d].usage
                   \/ /\ row[d] # Null /\ row[d].endedAt = Null /\ row'[d] # Null
                      /\ row'[d].usage = row[d].usage
                   \/ ShutUsage(d) \/ ShutOutcome(d)
<1> USE DEF jobVars, shutVars, clockVars
<1>1. ASSUME NEW c \in Calls, Decline(c)
     PROVE  Goal
  BY <1>a, <1>1 DEF Decline
<1>2. ASSUME NEW c \in Calls, StartCall(c)
     PROVE  Goal
  BY <1>a, <1>2, NullAssumption, OpenRowIsRow DEF StartCall, TypeOK, Shape
<1>3. ASSUME NEW c \in Calls, Register(c)
     PROVE  Goal
  BY <1>a, <1>3 DEF Register
<1>4. ASSUME NEW c \in Calls, SessionStarted(c)
     PROVE  Goal
  BY <1>a, <1>4 DEF SessionStarted
<1>5. ASSUME NEW c \in Calls, EntrypointRaises(c)
     PROVE  Goal
  BY <1>a, <1>5 DEF EntrypointRaises
<1>6. ASSUME NEW c \in Calls, TransferRefused(c)
     PROVE  Goal
  BY <1>a, <1>6 DEF TransferRefused
<1>7. ASSUME NEW c \in Calls, SendRefer(c)
     PROVE  Goal
  BY <1>a, <1>7 DEF SendRefer
<1>8. ASSUME NEW c \in Calls, SessionError(c)
     PROVE  Goal
  BY <1>a, <1>8 DEF SessionError
<1>9. ASSUME NEW c \in Calls, EnforceLimit(c)
     PROVE  Goal
  BY <1>a, <1>9 DEF EnforceLimit
<1>10. ASSUME NEW c \in Calls, Disconnected(c)
     PROVE  Goal
  BY <1>a, <1>10 DEF Disconnected
<1>11. ASSUME NEW c \in Calls, NEW ok \in BOOLEAN, AgentTurn(c, ok)
     PROVE  Goal
  BY <1>a, <1>11 DEF AgentTurn
<1>12. ASSUME NEW c \in Calls, NEW ok \in BOOLEAN, ReferAnswered(c, ok)
     PROVE  Goal
  BY <1>a, <1>12 DEF ReferAnswered
<1>13. ASSUME NEW c \in Calls, NEW why \in {"hangup", "no_response"},
              Leave(c, why)
     PROVE  Goal
  BY <1>a, <1>13 DEF Leave
<1>14. ASSUME NEW c \in Calls, NEW ok \in BOOLEAN, MarkEnded(c, ok)
     PROVE  Goal
  <2>1. CASE ok /\ IsOpen(c)
    <3>1. row[c] \in Row /\ age[c] \in Nat /\ spoken[c] \in Nat
      BY <1>a, <2>1 DEF TypeOK, IsOpen, HasRow
    <3> DEFINE r == Stamped(row[c], age[c], spoken[c])
    <3>2. r # Null /\ r.usage = row[c].usage
      BY <3>1, StampedIsRow, NullAssumption, SMTT(60)
    <3>3. row' = [row EXCEPT ![c] = r]
      BY <1>14, <2>1 DEF MarkEnded
    <3> HIDE DEF r
    <3> QED
      BY <1>a, <2>1, <3>2, <3>3 DEF TypeOK, IsOpen, HasRow
  <2>2. CASE ~(ok /\ IsOpen(c))
    BY <1>14, <2>2 DEF MarkEnded
  <2> QED
    BY <2>1, <2>2
<1>15. ASSUME NEW c \in Calls, NEW ok \in BOOLEAN, SafetyNet(c, ok)
     PROVE  Goal
  <2>1. CASE ok /\ IsOpen(c)
    <3>1. row[c] \in Row /\ age[c] \in Nat
      BY <1>a, <2>1 DEF TypeOK, IsOpen, HasRow
    <3> DEFINE r == Abandoned(row[c], age[c])
    <3>2. r # Null /\ r.usage = row[c].usage
      BY <3>1, AbandonedIsRow, NullAssumption
    <3>3. row' = [row EXCEPT ![c] = r]
      BY <1>15, <2>1 DEF SafetyNet
    <3> HIDE DEF r
    <3> QED
      BY <1>a, <2>1, <3>2, <3>3 DEF TypeOK, IsOpen, HasRow
  <2>2. CASE ~(ok /\ IsOpen(c))
    BY <1>15, <2>2 DEF SafetyNet
  <2> QED
    BY <2>1, <2>2
<1>16. ASSUME NEW c \in Calls, ShutBegin(c)
     PROVE  Goal
  BY <1>a, <1>16 DEF ShutBegin
<1>17. ASSUME NEW c \in Calls, ShutUsage(c)
     PROVE  Goal
  BY <1>a, <1>17 DEF ShutUsage, TypeOK
<1>18. ASSUME NEW c \in Calls, ShutOutcome(c)
     PROVE  Goal
  BY <1>a, <1>18 DEF ShutOutcome, TypeOK
<1>19. ASSUME NEW c \in Calls, ShutPrepare(c)
     PROVE  Goal
  BY <1>a, <1>19 DEF ShutPrepare
<1>20. ASSUME NEW c \in Calls, ShutSave(c)
     PROVE  Goal
  BY <1>a, <1>20 DEF ShutSave
<1>21. ASSUME NEW c \in Calls, ShutFails(c)
     PROVE  Goal
  BY <1>a, <1>21 DEF ShutFails
<1>22. ASSUME NEW c \in Calls, ProcessExits(c)
     PROVE  Goal
  BY <1>a, <1>22 DEF ProcessExits
<1>23. ASSUME NEW c \in Calls, RequeueRead(c)
     PROVE  Goal
  BY <1>a, <1>23 DEF RequeueRead
<1>24. ASSUME NEW c \in Calls, NEW ok \in BOOLEAN, RequeueSave(c, ok)
     PROVE  Goal
  BY <1>a, <1>24 DEF RequeueSave
<1>25. ASSUME NEW c \in Calls, Tick(c)
     PROVE  Goal
  BY <1>a, <1>25 DEF Tick
<1>26. CASE Sweep
  BY <1>a, <1>26, SweptIsRow, NullAssumption DEF Sweep, TypeOK, Stale, IsOpen, HasRow
<1>27. ASSUME NEW l \in Limits, EditLimit(l)
     PROVE  Goal
  BY <1>a, <1>27 DEF EditLimit
<1>28. CASE UNCHANGED vars
  BY <1>a, <1>28 DEF vars
<1> QED
  BY <1>1, <1>2, <1>3, <1>4, <1>5, <1>6, <1>7, <1>8, <1>9, <1>10, <1>11, <1>12, <1>13, <1>14,
     <1>15, <1>16, <1>17, <1>18, <1>19, <1>20, <1>21, <1>22, <1>23, <1>24, <1>25, <1>26, <1>27, <1>28
     DEF Next, Conversation, Closing, Outside

(* Without late answers of a REFER, every step keeps the reason what       *)
(* happened.                                                               *)
LEMMA JudgedStep ==
  ASSUME ~LateRefer, JudgedInv, [Next]_vars, NEW d \in Calls
  PROVE  Judged(d)'
<1>a. TypeOK /\ \A c \in Calls : Shape(c)
  BY DEF JudgedInv, IndInv
<1>b. \A c \in Calls : Judged(c)
  BY DEF JudgedInv
<1>c. \/ row'[d] = row[d]
      \/ row'[d] # Null /\ ~row'[d].usage
      \/ ShutUsage(d) \/ ShutOutcome(d)
  BY <1>a, ClosedRowStep DEF JudgedInv, Shape
<1> USE DEF Judged, jobVars, shutVars, clockVars
<1>1. ASSUME NEW c \in Calls, Decline(c)
     PROVE  Judged(d)'
  BY <1>a, <1>b, <1>c, <1>1 DEF Decline, TypeOK, ShutUsage, ShutOutcome
<1>2. ASSUME NEW c \in Calls, StartCall(c)
     PROVE  Judged(d)'
  BY <1>a, <1>b, <1>c, <1>2 DEF StartCall, TypeOK, ShutUsage, ShutOutcome
<1>3. ASSUME NEW c \in Calls, Register(c)
     PROVE  Judged(d)'
  BY <1>a, <1>b, <1>c, <1>3 DEF Register, TypeOK, ShutUsage, ShutOutcome
<1>4. ASSUME NEW c \in Calls, SessionStarted(c)
     PROVE  Judged(d)'
  BY <1>a, <1>b, <1>c, <1>4 DEF SessionStarted, TypeOK, ShutUsage, ShutOutcome
<1>5. ASSUME NEW c \in Calls, EntrypointRaises(c)
     PROVE  Judged(d)'
  BY <1>a, <1>b, <1>c, <1>5 DEF EntrypointRaises, TypeOK, ShutUsage, ShutOutcome
<1>6. ASSUME NEW c \in Calls, TransferRefused(c)
     PROVE  Judged(d)'
  BY <1>a, <1>b, <1>c, <1>6 DEF TransferRefused, TypeOK, ShutUsage, ShutOutcome
<1>7. ASSUME NEW c \in Calls, SendRefer(c)
     PROVE  Judged(d)'
  BY <1>a, <1>b, <1>c, <1>7 DEF SendRefer, TypeOK, ShutUsage, ShutOutcome
<1>8. ASSUME NEW c \in Calls, SessionError(c)
     PROVE  Judged(d)'
  BY <1>a, <1>b, <1>c, <1>8 DEF SessionError, TypeOK, ShutUsage, ShutOutcome
<1>9. ASSUME NEW c \in Calls, EnforceLimit(c)
     PROVE  Judged(d)'
  BY <1>a, <1>b, <1>c, <1>9 DEF EnforceLimit, TypeOK, ShutUsage, ShutOutcome
<1>10. ASSUME NEW c \in Calls, Disconnected(c)
     PROVE  Judged(d)'
  BY <1>a, <1>b, <1>c, <1>10 DEF Disconnected, TypeOK, ShutUsage, ShutOutcome
<1>11. ASSUME NEW c \in Calls, NEW ok \in BOOLEAN, AgentTurn(c, ok)
     PROVE  Judged(d)'
  BY <1>a, <1>b, <1>c, <1>11 DEF AgentTurn, TypeOK, ShutUsage, ShutOutcome
<1>12. ASSUME NEW c \in Calls, NEW ok \in BOOLEAN, ReferAnswered(c, ok)
     PROVE  Judged(d)'
  BY <1>a, <1>b, <1>c, <1>12 DEF ReferAnswered, TypeOK, ShutUsage, ShutOutcome
<1>13. ASSUME NEW c \in Calls, NEW why \in {"hangup", "no_response"},
              Leave(c, why)
     PROVE  Judged(d)'
  BY <1>a, <1>b, <1>c, <1>13 DEF Leave, TypeOK, ShutUsage, ShutOutcome
<1>14. ASSUME NEW c \in Calls, NEW ok \in BOOLEAN, MarkEnded(c, ok)
     PROVE  Judged(d)'
  BY <1>a, <1>b, <1>c, <1>14 DEF MarkEnded, TypeOK, ShutUsage, ShutOutcome
<1>15. ASSUME NEW c \in Calls, NEW ok \in BOOLEAN, SafetyNet(c, ok)
     PROVE  Judged(d)'
  BY <1>a, <1>b, <1>c, <1>15 DEF SafetyNet, TypeOK, ShutUsage, ShutOutcome
<1>16. ASSUME NEW c \in Calls, ShutBegin(c)
     PROVE  Judged(d)'
  BY <1>a, <1>b, <1>c, <1>16 DEF ShutBegin, TypeOK, ShutUsage, ShutOutcome
<1>17. ASSUME NEW c \in Calls, ShutUsage(c)
     PROVE  Judged(d)'
  <2>1. row[c] \in Row /\ verdict[c] \in Reasons /\ age[c] \in Nat /\ spoken[c] \in Nat
    BY <1>a, <1>17 DEF ShutUsage, TypeOK, Shape, Active
  <2>2. WithUsage(row[c], age[c], verdict[c], spoken[c]).reason = verdict[c]
    BY <2>1, WithUsageIsRow
  <2> QED
    BY <1>a, <1>b, <1>17, <2>1, <2>2 DEF ShutUsage, TypeOK
<1>18. ASSUME NEW c \in Calls, ShutOutcome(c)
     PROVE  Judged(d)'
  <2>1. row[c] \in Row /\ row[c] # Null
    BY <1>a, <1>18 DEF ShutOutcome, TypeOK, Shape, Active
  <2>2. /\ WithOutcome(row[c], flags[c]).reason = row[c].reason
        /\ WithOutcome(row[c], flags[c]).usage = row[c].usage
    BY <2>1, WithOutcomeIsRow
  <2> QED
    BY <1>a, <1>b, <1>18, <2>1, <2>2 DEF ShutOutcome, TypeOK
<1>19. ASSUME NEW c \in Calls, ShutPrepare(c)
     PROVE  Judged(d)'
  BY <1>a, <1>b, <1>c, <1>19 DEF ShutPrepare, TypeOK, ShutUsage, ShutOutcome
<1>20. ASSUME NEW c \in Calls, ShutSave(c)
     PROVE  Judged(d)'
  BY <1>a, <1>b, <1>c, <1>20 DEF ShutSave, TypeOK, ShutUsage, ShutOutcome
<1>21. ASSUME NEW c \in Calls, ShutFails(c)
     PROVE  Judged(d)'
  BY <1>a, <1>b, <1>c, <1>21 DEF ShutFails, TypeOK, ShutUsage, ShutOutcome
<1>22. ASSUME NEW c \in Calls, ProcessExits(c)
     PROVE  Judged(d)'
  BY <1>a, <1>b, <1>c, <1>22 DEF ProcessExits, TypeOK, ShutUsage, ShutOutcome
<1>23. ASSUME NEW c \in Calls, RequeueRead(c)
     PROVE  Judged(d)'
  BY <1>a, <1>b, <1>c, <1>23 DEF RequeueRead, TypeOK, ShutUsage, ShutOutcome
<1>24. ASSUME NEW c \in Calls, NEW ok \in BOOLEAN, RequeueSave(c, ok)
     PROVE  Judged(d)'
  BY <1>a, <1>b, <1>c, <1>24 DEF RequeueSave, TypeOK, ShutUsage, ShutOutcome
<1>25. ASSUME NEW c \in Calls, Tick(c)
     PROVE  Judged(d)'
  BY <1>a, <1>b, <1>c, <1>25 DEF Tick, TypeOK, ShutUsage, ShutOutcome
<1>26. CASE Sweep
  BY <1>a, <1>b, <1>c, <1>26 DEF Sweep, TypeOK, ShutUsage, ShutOutcome
<1>27. ASSUME NEW l \in Limits, EditLimit(l)
     PROVE  Judged(d)'
  BY <1>a, <1>b, <1>c, <1>27 DEF EditLimit, TypeOK, ShutUsage, ShutOutcome
<1>28. CASE UNCHANGED vars
  BY <1>a, <1>b, <1>c, <1>28 DEF vars, TypeOK, ShutUsage, ShutOutcome
<1> QED
  BY <1>1, <1>2, <1>3, <1>4, <1>5, <1>6, <1>7, <1>8, <1>9, <1>10, <1>11, <1>12, <1>13, <1>14,
     <1>15, <1>16, <1>17, <1>18, <1>19, <1>20, <1>21, <1>22, <1>23, <1>24, <1>25, <1>26, <1>27, <1>28
     DEF Next, Conversation, Closing, Outside

(* The reason stored with the usage is the most important of all that ever *)
(* happened on the call, however the teardown went.                        *)
THEOREM ReasonsAreKept == ~LateRefer => (Spec => []ReasonIsWhatHappened)
<1> SUFFICES ASSUME ~LateRefer PROVE Spec => []ReasonIsWhatHappened
  OBVIOUS
<1>1. Init => JudgedInv
  <2> SUFFICES ASSUME Init PROVE JudgedInv
    OBVIOUS
  <2>1. IndInv
    BY DEF Init, IndInv, TypeOK, Shape, Active
  <2> QED
    BY <2>1 DEF Init, JudgedInv, Judged
<1>2. JudgedInv /\ [Next]_vars => JudgedInv'
  BY TypeStep, ShapeStep, JudgedStep DEF JudgedInv, IndInv
<1>3. JudgedInv => ReasonIsWhatHappened
  BY DEF JudgedInv, IndInv, TypeOK, Judged, Reason, Flags, ReasonIsWhatHappened, HasRow
<1> QED
  BY <1>1, <1>2, <1>3, PTL DEF Spec


(* If nothing is requeued before its job is gone, every step keeps the     *)
(* reports what the rows say.                                              *)
LEMMA FiledStep ==
  ASSUME ~EarlyRequeue, FiledInv, [Next]_vars, NEW d \in Calls
  PROVE  Filed(d)'
<1>a. TypeOK /\ \A c \in Calls : Shape(c)
  BY DEF FiledInv, IndInv
<1>b. \A c \in Calls : Filed(c)
  BY DEF FiledInv
<1>c. \/ row'[d] = row[d] \/ row[d] = Null \/ row[d].endedAt = Null
      \/ ShutUsage(d) \/ ShutOutcome(d)
  BY ClosedRowStep DEF FiledInv
<1> USE DEF Filed, Shape, jobVars, shutVars, clockVars
<1>1. ASSUME NEW c \in Calls, Decline(c)
     PROVE  Filed(d)'
  BY <1>a, <1>b, <1>c, <1>1 DEF Decline, TypeOK, ShutUsage, ShutOutcome, Active
<1>2. ASSUME NEW c \in Calls, StartCall(c)
     PROVE  Filed(d)'
  BY <1>a, <1>b, <1>c, <1>2 DEF StartCall, TypeOK, ShutUsage, ShutOutcome, Active
<1>3. ASSUME NEW c \in Calls, Register(c)
     PROVE  Filed(d)'
  BY <1>a, <1>b, <1>c, <1>3 DEF Register, TypeOK, ShutUsage, ShutOutcome, Active
<1>4. ASSUME NEW c \in Calls, SessionStarted(c)
     PROVE  Filed(d)'
  BY <1>a, <1>b, <1>c, <1>4 DEF SessionStarted, TypeOK, ShutUsage, ShutOutcome, Active
<1>5. ASSUME NEW c \in Calls, EntrypointRaises(c)
     PROVE  Filed(d)'
  BY <1>a, <1>b, <1>c, <1>5 DEF EntrypointRaises, TypeOK, ShutUsage, ShutOutcome, Active
<1>6. ASSUME NEW c \in Calls, TransferRefused(c)
     PROVE  Filed(d)'
  BY <1>a, <1>b, <1>c, <1>6 DEF TransferRefused, TypeOK, ShutUsage, ShutOutcome, Active
<1>7. ASSUME NEW c \in Calls, SendRefer(c)
     PROVE  Filed(d)'
  BY <1>a, <1>b, <1>c, <1>7 DEF SendRefer, TypeOK, ShutUsage, ShutOutcome, Active
<1>8. ASSUME NEW c \in Calls, SessionError(c)
     PROVE  Filed(d)'
  BY <1>a, <1>b, <1>c, <1>8 DEF SessionError, TypeOK, ShutUsage, ShutOutcome, Active
<1>9. ASSUME NEW c \in Calls, EnforceLimit(c)
     PROVE  Filed(d)'
  BY <1>a, <1>b, <1>c, <1>9 DEF EnforceLimit, TypeOK, ShutUsage, ShutOutcome, Active
<1>10. ASSUME NEW c \in Calls, Disconnected(c)
     PROVE  Filed(d)'
  BY <1>a, <1>b, <1>c, <1>10 DEF Disconnected, TypeOK, ShutUsage, ShutOutcome, Active
<1>11. ASSUME NEW c \in Calls, NEW ok \in BOOLEAN, AgentTurn(c, ok)
     PROVE  Filed(d)'
  BY <1>a, <1>b, <1>c, <1>11 DEF AgentTurn, TypeOK, ShutUsage, ShutOutcome, Active
<1>12. ASSUME NEW c \in Calls, NEW ok \in BOOLEAN, ReferAnswered(c, ok)
     PROVE  Filed(d)'
  BY <1>a, <1>b, <1>c, <1>12 DEF ReferAnswered, TypeOK, ShutUsage, ShutOutcome, Active
<1>13. ASSUME NEW c \in Calls, NEW why \in {"hangup", "no_response"},
              Leave(c, why)
     PROVE  Filed(d)'
  BY <1>a, <1>b, <1>c, <1>13 DEF Leave, TypeOK, ShutUsage, ShutOutcome, Active
<1>14. ASSUME NEW c \in Calls, NEW ok \in BOOLEAN, MarkEnded(c, ok)
     PROVE  Filed(d)'
  BY <1>a, <1>b, <1>c, <1>14 DEF MarkEnded, TypeOK, ShutUsage, ShutOutcome, Active
<1>15. ASSUME NEW c \in Calls, NEW ok \in BOOLEAN, SafetyNet(c, ok)
     PROVE  Filed(d)'
  BY <1>a, <1>b, <1>c, <1>15 DEF SafetyNet, TypeOK, ShutUsage, ShutOutcome, Active
<1>16. ASSUME NEW c \in Calls, ShutBegin(c)
     PROVE  Filed(d)'
  BY <1>a, <1>b, <1>c, <1>16 DEF ShutBegin, TypeOK, ShutUsage, ShutOutcome, Active
<1>17. ASSUME NEW c \in Calls, ShutUsage(c)
     PROVE  Filed(d)'
  BY <1>a, <1>b, <1>c, <1>17 DEF ShutUsage, TypeOK, ShutUsage, ShutOutcome, Active
<1>18. ASSUME NEW c \in Calls, ShutOutcome(c)
     PROVE  Filed(d)'
  BY <1>a, <1>b, <1>c, <1>18 DEF ShutOutcome, TypeOK, ShutUsage, ShutOutcome, Active
<1>19. ASSUME NEW c \in Calls, ShutPrepare(c)
     PROVE  Filed(d)'
  <2>1. row[c] \in Row /\ PayloadOf(row[c]) # Null
    BY <1>a, <1>19, PayloadOfIsPayload, NullAssumption DEF ShutPrepare, TypeOK, Active
  <2> QED
    BY <1>a, <1>b, <1>19, <2>1 DEF ShutPrepare, TypeOK
<1>20. ASSUME NEW c \in Calls, ShutSave(c)
     PROVE  Filed(d)'
  BY <1>a, <1>b, <1>20 DEF ShutSave, TypeOK, SavePostback, Coalesce
<1>21. ASSUME NEW c \in Calls, ShutFails(c)
     PROVE  Filed(d)'
  BY <1>a, <1>b, <1>c, <1>21 DEF ShutFails, TypeOK, ShutUsage, ShutOutcome, Active
<1>22. ASSUME NEW c \in Calls, ProcessExits(c)
     PROVE  Filed(d)'
  BY <1>a, <1>b, <1>c, <1>22 DEF ProcessExits, TypeOK, ShutUsage, ShutOutcome, Active
<1>23. ASSUME NEW c \in Calls, RequeueRead(c)
     PROVE  Filed(d)'
  BY <1>a, <1>b, <1>23 DEF RequeueRead, TypeOK, HasRow, IsOpen
<1>24. ASSUME NEW c \in Calls, NEW ok \in BOOLEAN, RequeueSave(c, ok)
     PROVE  Filed(d)'
  BY <1>a, <1>b, <1>24 DEF RequeueSave, TypeOK, SavePostback, Coalesce
<1>25. ASSUME NEW c \in Calls, Tick(c)
     PROVE  Filed(d)'
  BY <1>a, <1>b, <1>c, <1>25 DEF Tick, TypeOK, ShutUsage, ShutOutcome, Active
<1>26. CASE Sweep
  BY <1>a, <1>b, <1>c, <1>26 DEF Sweep, TypeOK, ShutUsage, ShutOutcome, Active
<1>27. ASSUME NEW l \in Limits, EditLimit(l)
     PROVE  Filed(d)'
  BY <1>a, <1>b, <1>c, <1>27 DEF EditLimit, TypeOK, ShutUsage, ShutOutcome, Active
<1>28. CASE UNCHANGED vars
  BY <1>a, <1>b, <1>c, <1>28 DEF vars, TypeOK, ShutUsage, ShutOutcome, Active
<1> QED
  BY <1>1, <1>2, <1>3, <1>4, <1>5, <1>6, <1>7, <1>8, <1>9, <1>10, <1>11, <1>12, <1>13, <1>14,
     <1>15, <1>16, <1>17, <1>18, <1>19, <1>20, <1>21, <1>22, <1>23, <1>24, <1>25, <1>26, <1>27, <1>28
     DEF Next, Conversation, Closing, Outside

(* What is queued for the client is what the row of the call says then and *)
(* ever after, whichever of the shutdown and the requeue script queued it. *)
THEOREM ReportsAreTheRows == ~EarlyRequeue => (Spec => []PayloadMatchesRow)
<1> SUFFICES ASSUME ~EarlyRequeue PROVE Spec => []PayloadMatchesRow
  OBVIOUS
<1>1. Init => FiledInv
  <2> SUFFICES ASSUME Init PROVE FiledInv
    OBVIOUS
  <2>1. IndInv
    BY DEF Init, IndInv, TypeOK, Shape, Active
  <2> QED
    BY <2>1 DEF Init, FiledInv, Filed
<1>2. FiledInv /\ [Next]_vars => FiledInv'
  BY TypeStep, ShapeStep, FiledStep DEF FiledInv, IndInv
<1>3. FiledInv => PayloadMatchesRow
  BY DEF FiledInv, Filed, PayloadMatchesRow
<1> QED
  BY <1>1, <1>2, <1>3, PTL DEF Spec
=============================================================================
