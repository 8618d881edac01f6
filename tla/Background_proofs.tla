-------------------------- MODULE Background_proofs --------------------------
(* Theorems about the two loops behind the console, for every set of calls *)
(* and of rules, every batch, and whatever fails, restarts or is edited    *)
(* meanwhile: the delivery of reports (Postback), then the alert rules     *)
(* (Alerting).                                                             *)
EXTENDS Postback, Alerting, FiniteSetTheorems, SequenceTheorems, TLAPS

(* What the updates of a row make of it. *)
LEMMA RetriedIsRow ==
  ASSUME NEW r
  PROVE  /\ Retried(r) \in Row
         /\ Retried(r).status = "pending" /\ Retried(r).next = "due"
  BY DEF Retried, Row

LEMMA SkippedIsRow ==
  ASSUME NEW r \in Row
  PROVE  /\ Skipped(r) \in Row
         /\ Skipped(r).status = "skipped" /\ Skipped(r).next = "never"
  BY DEF Skipped, Row

LEMMA RecordedIsRow ==
  ASSUME NEW r \in Row, NEW n \in Nat, NEW t \in BOOLEAN
  PROVE  /\ Recorded(r, n, t) \in Row
         /\ Recorded(r, n, t).status # "pending"
              <=> Recorded(r, n, t).next = "never"
         /\ Recorded(r, n, t).status = "sent" <=> t
         /\ Recorded(r, n, t).status \in {"pending", "sent", "failed"}
  BY DEF Recorded, Row

LEMMA DueIsSubset == Due \in SUBSET Calls
  BY DEF Due

(* A sweep reads at least one row when one is due. *)
LEMMA LimitIsPositive == Due # {} => Limit \in Nat \ {0}
<1> SUFFICES ASSUME Due # {} PROVE Limit \in Nat \ {0}
  OBVIOUS
<1>1. IsFiniteSet(Due)
  BY PostbackAssumption, FS_Subset, DueIsSubset
<1>2. Cardinality(Due) \in Nat \ {0}
  BY <1>1, FS_CardinalityType, FS_EmptySet
<1> QED
  BY <1>2, PostbackAssumption DEF Limit

(* The row of d is pending after the step. *)
StaysPending(d) == box'[d] # Null /\ box'[d].status = "pending"

LEMMA BatchKeptOK == BatchOK /\ batch' = batch => BatchOK'
  BY DEF BatchOK

(* The row the sweeper works on. *)
LEMMA CurrentIsPending ==
  ASSUME TypeOK, BatchShape, step # "asleep"
  PROVE  /\ Len(batch) \in Nat \ {0} /\ DOMAIN batch = 1..Len(batch)
         /\ batch # <<>>
         /\ Current = batch[1].call
         /\ Head(batch).attempts \in Nat
         /\ Current \in Calls /\ IsPending(Current)
         /\ box[Current] \in Row
<1> DEFINE T == [call : Calls, attempts : Nat]
<1>1. batch # <<>> /\ batch \in Seq(T)
  BY DEF TypeOK, BatchShape, BatchOK
<1> HIDE DEF T
<1>2. Len(batch) \in Nat \ {0} /\ DOMAIN batch = 1..Len(batch)
  BY <1>1, EmptySeq, LenProperties
<1>3. Head(batch) \in T
  BY <1>1, HeadTailProperties
<1>4. Head(batch) = batch[1]
  <2>1. SubSeq(batch, 1, Len(batch)) = batch
    BY <1>1, SubSeqFull
  <2>2. 1 \in 1..Len(batch) /\ Len(batch) \in 1..Len(batch)
    BY <1>2
  <2>3. Head(SubSeq(batch, 1, Len(batch))) = batch[1]
    BY <1>1, <2>2, HeadTailOfSubSeq
  <2> QED
    BY <2>1, <2>3
<1>5. IsPending(batch[1].call)
  BY <1>2 DEF BatchShape
<1>6. Head(batch).attempts \in Nat /\ Current \in Calls
  BY <1>3 DEF T, Current
<1>7. Current = batch[1].call
  BY <1>4 DEF Current
<1>8. box[Current] \in Row
  BY <1>5, <1>6, <1>7 DEF IsPending, TypeOK
<1> QED
  BY <1>1, <1>2, <1>5, <1>6, <1>7, <1>8

(* What is left of the batch after a row. *)
LEMMA NextRowFacts ==
  ASSUME TypeOK, BatchShape, step # "asleep", NextRow
  PROVE  /\ BatchOK'
         /\ step' \in {"asleep", "config"}
         /\ step' = "asleep" <=> batch' = <<>>
         /\ \A i \in DOMAIN batch' : /\ i \in Nat /\ i + 1 \in DOMAIN batch
                                     /\ batch'[i] = batch[i + 1]
                                     /\ batch'[i].call # Current
<1> DEFINE T == [call : Calls, attempts : Nat]
<1>1. batch # <<>> /\ batch \in Seq(T)
  BY DEF TypeOK, BatchShape, BatchOK
<1> HIDE DEF T
<1>2. /\ Len(batch) \in Nat \ {0}
      /\ DOMAIN batch = 1..Len(batch)
      /\ Current = batch[1].call
  BY CurrentIsPending
<1>3. /\ batch' = Tail(batch)
      /\ batch' \in Seq(T)
      /\ Len(batch') = Len(batch) - 1
      /\ \A i \in 1..Len(batch') : batch'[i] = batch[i + 1]
  BY <1>1, HeadTailProperties DEF NextRow
<1>4. DOMAIN batch' = 1..Len(batch') /\ Len(batch') \in Nat
  BY <1>3, LenProperties
<1>5. step' \in {"asleep", "config"} /\ (step' = "asleep" <=> Len(batch) = 1)
  BY DEF NextRow
<1>6. batch' = <<>> <=> Len(batch') = 0
  BY <1>3, EmptySeq
<1>7. \A i \in DOMAIN batch' : /\ i \in Nat \ {0} /\ i + 1 \in DOMAIN batch
                              /\ batch'[i] = batch[i + 1]
  BY <1>2, <1>3, <1>4
<1>8. \A i \in DOMAIN batch' : batch'[i].call # Current
  <2> SUFFICES ASSUME NEW i \in DOMAIN batch', batch'[i].call = Current
               PROVE  FALSE
    OBVIOUS
  <2>1. /\ batch[i + 1].call = batch[1].call /\ i + 1 # 1
        /\ i + 1 \in DOMAIN batch /\ 1 \in DOMAIN batch
    BY <1>2, <1>7
  <2> QED
    BY <2>1 DEF BatchShape
<1>9. BatchOK'
  BY <1>3 DEF T, BatchOK
<1> QED
  BY <1>2, <1>3, <1>5, <1>6, <1>7, <1>8, <1>9

(* The rows held stay pending and distinct when the current one is done    *)
(* with and no other loses its place...                                    *)
LEMMA BatchAfterRow ==
  ASSUME TypeOK, BatchShape, step # "asleep", NextRow,
         \A d \in Calls : d \notin ahead'[d],
         \A d : d # Current /\ IsPending(d) => StaysPending(d)
  PROVE  BatchShape'
<1>1. \A i \in DOMAIN batch' : StaysPending(batch'[i].call)
  <2> SUFFICES ASSUME NEW i \in DOMAIN batch'
               PROVE  StaysPending(batch'[i].call)
    OBVIOUS
  <2>1. i + 1 \in DOMAIN batch /\ batch'[i] = batch[i + 1]
        /\ batch'[i].call # Current
    BY NextRowFacts
  <2>2. IsPending(batch[i + 1].call)
    BY <2>1 DEF BatchShape
  <2> QED
    BY <2>1, <2>2
<1>2. \A i, j \in DOMAIN batch' : batch'[i].call = batch'[j].call => i = j
  <2> SUFFICES ASSUME NEW i \in DOMAIN batch', NEW j \in DOMAIN batch',
                      batch'[i].call = batch'[j].call
               PROVE  i = j
    OBVIOUS
  <2>1. /\ i \in Nat /\ i + 1 \in DOMAIN batch /\ batch'[i] = batch[i + 1]
        /\ j \in Nat /\ j + 1 \in DOMAIN batch /\ batch'[j] = batch[j + 1]
    BY NextRowFacts
  <2>2. i + 1 = j + 1
    BY <2>1 DEF BatchShape
  <2> QED
    BY <2>1, <2>2
<1>3. step' = "asleep" <=> batch' = <<>>
  BY NextRowFacts
<1> QED
  BY <1>1, <1>2, <1>3 DEF BatchShape, StaysPending, IsPending

(* ... and when the batch is not touched. *)
LEMMA BatchKept ==
  ASSUME BatchShape, batch' = batch,
         step' = "asleep" <=> step = "asleep",
         \A d \in Calls : d \notin ahead'[d],
         \A d : IsPending(d) => StaysPending(d)
  PROVE  BatchShape'
<1>1. \A i \in DOMAIN batch : StaysPending(batch[i].call)
  BY DEF BatchShape
<1> QED
  BY <1>1 DEF BatchShape, StaysPending, IsPending

(* Taking a place in the order behind others. *)
LEMMA PlaceFacts ==
  ASSUME TypeOK, BatchShape, NEW c \in Calls, NEW S \in SUBSET Calls,
         c \notin S, Place(c, S)
  PROVE  /\ ahead' \in [Calls -> SUBSET Calls]
         /\ \A d \in Calls : d \notin ahead'[d]
  BY DEF TypeOK, BatchShape, Place

(* The rows a sweep reads. *)
LEMMA SweepFacts ==
  ASSUME TypeOK, BatchShape, FinishedRowsRest, SweepRead
  PROVE  BatchOK' /\ BatchShape'
<1>1. PICK s \in Oldest :
        batch' = [i \in 1..Limit |-> [call |-> s[i],
                                      attempts |-> box[s[i]].attempts]]
  BY DEF SweepRead
<1>2. /\ s \in [1..Limit -> Due]
      /\ \A i \in 1..Limit : ahead[s[i]] = {s[j] : j \in 1..(i - 1)}
  BY <1>1 DEF Oldest
<1>3. Limit \in Nat \ {0}
  BY LimitIsPositive DEF SweepRead
<1>4. \A i \in 1..Limit : s[i] \in Calls /\ IsPending(s[i])
                         /\ box[s[i]].attempts \in Nat
  BY <1>2 DEF Due, IsDue, IsPending, FinishedRowsRest, TypeOK, Row
<1>5. \A i, j \in 1..Limit : i < j => s[i] # s[j]
  <2> SUFFICES ASSUME NEW i \in 1..Limit, NEW j \in 1..Limit, i < j,
                      s[i] = s[j]
               PROVE  FALSE
    OBVIOUS
  <2>1. i \in 1..(j - 1)
    BY <1>3
  <2>2. s[j] \in ahead[s[j]]
    BY <1>2, <2>1
  <2> QED
    BY <1>4, <2>2 DEF BatchShape
<1>6. DOMAIN batch' = 1..Limit /\ \A i \in 1..Limit : batch'[i].call = s[i]
  BY <1>1
<1>7. batch' \in [1..Limit -> [call : Calls, attempts : Nat]]
  BY <1>1, <1>4
<1>8. BatchOK'
  <2> DEFINE T == [call : Calls, attempts : Nat]
  <2>1. batch' \in [1..Limit -> T] /\ Limit \in Nat
    BY <1>3, <1>7
  <2> HIDE DEF T
  <2>2. batch' \in Seq(T)
    BY <2>1, SeqDef
  <2> QED
    BY <2>2 DEF BatchOK, T
<1>9. batch' # <<>>
  <2>1. 1 \in DOMAIN batch'
    BY <1>3, <1>6
  <2> QED
    BY <2>1
<1>10. \A i, j \in 1..Limit : s[i] = s[j] => i = j
  BY <1>3, <1>5
<1>11. /\ step' # "asleep" /\ ahead' = ahead
       /\ \A d : IsPending(d) => StaysPending(d)
  BY DEF SweepRead, IsPending, StaysPending
<1>12. \A i \in DOMAIN batch' : StaysPending(batch'[i].call)
  BY <1>4, <1>6, <1>11
<1> QED
  BY <1>6, <1>8, <1>9, <1>10, <1>11, <1>12
     DEF BatchShape, StaysPending, IsPending

(* Every step keeps every variable to its values. *)
LEMMA TypeStep == IndInv /\ [Next]_vars => TypeOK'
<1> SUFFICES ASSUME IndInv, [Next]_vars PROVE TypeOK'
  OBVIOUS
<1>a. TypeOK /\ BatchShape /\ FinishedRowsRest
  BY DEF IndInv
<1>b. \A c \in Calls : Deliveries(c)
  BY DEF IndInv
<1>c. step # "asleep" =>
        /\ Current \in Calls /\ IsPending(Current) /\ box[Current] \in Row
        /\ Head(batch).attempts \in Nat
  BY <1>a, CurrentIsPending
<1> USE DEF TypeOK, sweeper, history, Steps, Fault, Lose, Posted
<1>1. ASSUME NEW c \in Calls, Enqueue(c)
     PROVE  TypeOK'
  <2>1. ahead' \in [Calls -> SUBSET Calls]
    BY <1>a, <1>1, PlaceFacts, DueIsSubset DEF Enqueue, Due, IsDue
  <2> QED
    BY <1>a, <1>1, <2>1, BatchKeptOK DEF Enqueue, Row
<1>2. ASSUME NEW c \in Calls, Ripen(c)
     PROVE  TypeOK'
  <2>1. ahead' \in [Calls -> SUBSET Calls]
    BY <1>a, <1>2, PlaceFacts, DueIsSubset DEF Ripen, Due, IsDue
  <2> QED
    BY <1>a, <1>2, <2>1, BatchKeptOK DEF Ripen, Row
<1>3. ASSUME NEW c \in Calls, Retry(c)
     PROVE  TypeOK'
  <2>1. ahead' \in [Calls -> SUBSET Calls]
    <3>1. Due \ {c} \in SUBSET Calls /\ c \notin Due \ {c}
      BY DueIsSubset
    <3> QED
      BY <1>a, <1>3, <3>1, PlaceFacts DEF Retry
  <2>2. box' \in [Calls -> Row \cup {Null}]
    BY <1>a, <1>3, RetriedIsRow DEF Retry
  <2>3. tries' \in [Calls -> Nat] /\ retried' \in [Calls -> Nat] /\ faults' \in Nat
    BY <1>a, <1>3 DEF Retry
  <2> QED
    BY <1>a, <1>3, <2>1, <2>2, <2>3, BatchKeptOK DEF Retry
<1>4. CASE EditConfig
  BY <1>a, <1>c, <1>4, BatchKeptOK DEF EditConfig
<1>5. CASE SweepRead
  BY <1>a, <1>5, SweepFacts DEF SweepRead
<1>6. CASE ReadConfig
  BY <1>a, <1>c, <1>6, BatchKeptOK DEF ReadConfig
<1>7. CASE Skip
  <2>1. ahead' \in [Calls -> SUBSET Calls]
    BY <1>a, <1>c, <1>7, PlaceFacts DEF Skip
  <2>2. box' \in [Calls -> Row \cup {Null}]
    BY <1>a, <1>c, <1>7, SkippedIsRow DEF Skip
  <2> QED
    BY <1>a, <1>7, <2>1, <2>2, NextRowFacts DEF Skip
<1>8. CASE PostTaken
  BY <1>a, <1>c, <1>8, BatchKeptOK DEF PostTaken
<1>9. CASE PostAnswerLost
  <2>1. /\ tries' \in [Calls -> Nat] /\ received' \in [Calls -> Nat]
        /\ lost' \in [Calls -> Nat] /\ faults' \in Nat
    BY <1>a, <1>c, <1>9 DEF PostAnswerLost
  <2> QED
    BY <1>a, <1>9, <2>1, BatchKeptOK DEF PostAnswerLost
<1>10. CASE PostRefused
  <2>1. tries' \in [Calls -> Nat]
    BY <1>a, <1>c, <1>10 DEF PostRefused
  <2> QED
    BY <1>a, <1>10, <2>1, BatchKeptOK DEF PostRefused
<1>11. CASE PostRaises
  BY <1>a, <1>c, <1>11, NextRowFacts DEF PostRaises
<1>12. CASE Record
  <2>1. ahead' \in [Calls -> SUBSET Calls]
    BY <1>a, <1>c, <1>12, PlaceFacts DEF Record
  <2>2. box' \in [Calls -> Row \cup {Null}]
    <3>1. Head(batch).attempts + 1 \in Nat /\ ok \in BOOLEAN
      BY <1>a, <1>c, <1>12 DEF Record
    <3>2. Recorded(box[Current], Head(batch).attempts + 1, ok) \in Row
      BY <1>c, <1>12, <3>1, RecordedIsRow DEF Record
    <3> QED
      BY <1>a, <3>2, <1>12 DEF Record
  <2> QED
    BY <1>a, <1>12, <2>1, <2>2, NextRowFacts DEF Record
<1>13. CASE StatementFails
  <2>1. lost' \in [Calls -> Nat] /\ faults' \in Nat
    BY SMTT(30), <1>a, <1>c, <1>13 DEF StatementFails
  <2>2. BatchOK' /\ step' \in {"asleep", "config"}
    BY <1>a, <1>13, NextRowFacts DEF StatementFails
  <2> QED
    BY SMTT(30), <1>a, <1>13, <2>1, <2>2 DEF StatementFails
<1>14. CASE Restart
  <2>1. BatchOK'
    BY <1>14, EmptySeq DEF Restart, BatchOK
  <2>2. lost' \in [Calls -> Nat] /\ faults' \in Nat
    <3>1. CASE step = "record"
      <4>1. lost' = [lost EXCEPT ![Current] = @ + 1] /\ faults' = faults + 1
        BY <1>14, <3>1 DEF Restart, Lose, Fault
      <4>2. lost \in [Calls -> Nat] /\ faults \in Nat /\ lost[Current] \in Nat
        BY <1>a, <1>c, <1>14 DEF Restart, TypeOK
      <4> DEFINE more == lost[Current] + 1
      <4>3. more \in Nat /\ lost' = [lost EXCEPT ![Current] = more]
        BY <4>1, <4>2
      <4> HIDE DEF more
      <4>4. lost' \in [Calls -> Nat]
        BY <4>2, <4>3
      <4> QED
        BY <4>1, <4>2, <4>4
    <3>2. CASE step # "record"
      BY <1>a, <1>14, <3>2 DEF Restart
    <3> QED
      BY <3>1, <3>2
  <2>3. step' \in Steps /\ ok' \in BOOLEAN
    BY <1>14 DEF Restart
  <2> QED
    BY <1>a, <1>14, <2>1, <2>2, <2>3 DEF Restart
<1>15. CASE UNCHANGED vars
  BY <1>a, <1>c, <1>15, BatchKeptOK DEF vars
<1> QED
  BY <1>1, <1>2, <1>3, <1>4, <1>5, <1>6, <1>7, <1>8,
     <1>9, <1>10, <1>11, <1>12, <1>13, <1>14, <1>15
     DEF Next, Deliver

(* Every step keeps the rows the sweeper holds pending and distinct. *)
LEMMA BatchStep == IndInv /\ [Next]_vars => BatchShape'
<1> SUFFICES ASSUME IndInv, [Next]_vars PROVE BatchShape'
  OBVIOUS
<1>a. TypeOK /\ BatchShape /\ FinishedRowsRest
  BY DEF IndInv
<1>b. \A c \in Calls : Deliveries(c)
  BY DEF IndInv
<1>c. step # "asleep" =>
        /\ Current \in Calls /\ IsPending(Current) /\ box[Current] \in Row
        /\ Head(batch).attempts \in Nat
  BY <1>a, CurrentIsPending
<1>d. \A d \in Calls : d \notin ahead[d]
  BY <1>a DEF BatchShape
<1> USE DEF sweeper, history
<1>1. ASSUME NEW c \in Calls, Enqueue(c)
     PROVE  BatchShape'
  <2>1. \A d \in Calls : d \notin ahead'[d]
    BY <1>a, <1>1, PlaceFacts, DueIsSubset DEF Enqueue, Due, IsDue
  <2>2. \A d : IsPending(d) => StaysPending(d)
    BY <1>a, <1>1 DEF Enqueue, IsPending, StaysPending, TypeOK
  <2> QED
    BY <1>a, <1>1, <2>1, <2>2, BatchKept DEF Enqueue
<1>2. ASSUME NEW c \in Calls, Ripen(c)
     PROVE  BatchShape'
  <2>1. \A d \in Calls : d \notin ahead'[d]
    BY <1>a, <1>2, PlaceFacts, DueIsSubset DEF Ripen, Due, IsDue
  <2>2. \A d : IsPending(d) => StaysPending(d)
    BY <1>a, <1>2, NullIsNoRow DEF Ripen, IsPending, StaysPending, TypeOK, Row
  <2> QED
    BY <1>a, <1>2, <2>1, <2>2, BatchKept DEF Ripen
<1>3. ASSUME NEW c \in Calls, Retry(c)
     PROVE  BatchShape'
  <2>1. \A d \in Calls : d \notin ahead'[d]
    <3>1. Due \ {c} \in SUBSET Calls /\ c \notin Due \ {c}
      BY DueIsSubset
    <3> QED
      BY <1>a, <1>3, <3>1, PlaceFacts DEF Retry
  <2>2. \A d : IsPending(d) => StaysPending(d)
    BY <1>a, <1>3, RetriedIsRow, NullIsNoRow DEF Retry, IsPending, StaysPending, TypeOK
  <2> QED
    BY <1>a, <1>3, <2>1, <2>2, BatchKept DEF Retry
<1>4. CASE EditConfig
  BY <1>a, <1>4 DEF EditConfig, BatchShape, IsPending
<1>5. CASE SweepRead
  BY <1>a, <1>5, SweepFacts
<1>6. CASE ReadConfig
  <2>1. \A d : IsPending(d) => StaysPending(d)
    BY <1>6 DEF ReadConfig, IsPending, StaysPending, Posted
  <2> QED
    BY <1>a, <1>d, <1>6, <2>1, BatchKept DEF ReadConfig, Posted
<1>7. CASE Skip
  <2>1. \A d \in Calls : d \notin ahead'[d]
    BY <1>a, <1>c, <1>7, PlaceFacts DEF Skip
  <2>2. \A d : d # Current /\ IsPending(d) => StaysPending(d)
    BY <1>a, <1>7 DEF Skip, IsPending, StaysPending, TypeOK
  <2> QED
    BY <1>a, <1>7, <2>1, <2>2, BatchAfterRow DEF Skip
<1>8. CASE PostTaken
  <2>1. \A d : IsPending(d) => StaysPending(d)
    BY <1>8 DEF PostTaken, IsPending, StaysPending, Posted
  <2> QED
    BY <1>a, <1>d, <1>8, <2>1, BatchKept DEF PostTaken, Posted
<1>9. CASE PostAnswerLost
  <2>1. \A d : IsPending(d) => StaysPending(d)
    BY <1>9 DEF PostAnswerLost, IsPending, StaysPending, Posted
  <2> QED
    BY <1>a, <1>d, <1>9, <2>1, BatchKept DEF PostAnswerLost, Posted
<1>10. CASE PostRefused
  <2>1. \A d : IsPending(d) => StaysPending(d)
    BY <1>10 DEF PostRefused, IsPending, StaysPending, Posted
  <2> QED
    BY <1>a, <1>d, <1>10, <2>1, BatchKept DEF PostRefused, Posted
<1>11. CASE PostRaises
  <2>1. \A d : IsPending(d) => StaysPending(d)
    BY <1>11 DEF PostRaises, IsPending, StaysPending
  <2> QED
    BY <1>a, <1>d, <1>11, <2>1, BatchAfterRow DEF PostRaises
<1>12. CASE Record
  <2>1. \A d \in Calls : d \notin ahead'[d]
    BY <1>a, <1>c, <1>12, PlaceFacts DEF Record
  <2>2. \A d : d # Current /\ IsPending(d) => StaysPending(d)
    BY <1>a, <1>12 DEF Record, IsPending, StaysPending, TypeOK
  <2> QED
    BY <1>a, <1>12, <2>1, <2>2, BatchAfterRow DEF Record
<1>13. CASE StatementFails
  <2>1. \A d : IsPending(d) => StaysPending(d)
    BY <1>13 DEF StatementFails, IsPending, StaysPending
  <2> QED
    BY <1>a, <1>d, <1>13, <2>1, BatchAfterRow DEF StatementFails
<1>14. CASE Restart
  BY <1>d, <1>14 DEF Restart, BatchShape
<1>15. CASE UNCHANGED vars
  <2>1. \A d : IsPending(d) => StaysPending(d)
    BY <1>15 DEF vars, IsPending, StaysPending, Posted
  <2> QED
    BY <1>a, <1>d, <1>15, <2>1, BatchKept DEF vars, Posted
<1> QED
  BY <1>1, <1>2, <1>3, <1>4, <1>5, <1>6, <1>7, <1>8,
     <1>9, <1>10, <1>11, <1>12, <1>13, <1>14, <1>15
     DEF Next, Deliver

(* Every step keeps finished rows out of the queue and the others in it. *)
LEMMA RestStep == IndInv /\ [Next]_vars => FinishedRowsRest'
<1> SUFFICES ASSUME IndInv, [Next]_vars PROVE FinishedRowsRest'
  OBVIOUS
<1>a. TypeOK /\ BatchShape /\ FinishedRowsRest
  BY DEF IndInv
<1>b. \A c \in Calls : Deliveries(c)
  BY DEF IndInv
<1>c. step # "asleep" =>
        /\ Current \in Calls /\ IsPending(Current) /\ box[Current] \in Row
        /\ Head(batch).attempts \in Nat
  BY <1>a, CurrentIsPending
<1> USE DEF FinishedRowsRest, sweeper, history
<1>1. ASSUME NEW c \in Calls, Enqueue(c)
     PROVE  FinishedRowsRest'
  BY <1>a, <1>1, NullIsNoRow DEF Enqueue, TypeOK
<1>2. ASSUME NEW c \in Calls, Ripen(c)
     PROVE  FinishedRowsRest'
  BY <1>a, <1>2, NullIsNoRow DEF Ripen, TypeOK, Row
<1>3. ASSUME NEW c \in Calls, Retry(c)
     PROVE  FinishedRowsRest'
  BY <1>a, <1>3, RetriedIsRow DEF Retry, TypeOK
<1>4. CASE EditConfig
  BY <1>a, <1>4 DEF EditConfig, Posted
<1>5. CASE SweepRead
  BY <1>a, <1>5 DEF SweepRead, Posted
<1>6. CASE ReadConfig
  BY <1>a, <1>6 DEF ReadConfig, Posted
<1>7. CASE Skip
  BY <1>a, <1>c, <1>7, SkippedIsRow DEF Skip, TypeOK
<1>8. CASE PostTaken
  BY <1>a, <1>8 DEF PostTaken, Posted
<1>9. CASE PostAnswerLost
  BY <1>a, <1>9 DEF PostAnswerLost, Posted
<1>10. CASE PostRefused
  BY <1>a, <1>10 DEF PostRefused, Posted
<1>11. CASE PostRaises
  BY <1>a, <1>11 DEF PostRaises, Posted
<1>12. CASE Record
  <2> DEFINE r == Recorded(box[Current], Head(batch).attempts + 1, ok)
  <2>n. Head(batch).attempts + 1 \in Nat /\ ok \in BOOLEAN
    BY <1>a, <1>c, <1>12 DEF Record, TypeOK
  <2>1. r.status # "pending" <=> r.next = "never"
    BY <1>c, <1>12, <2>n, RecordedIsRow DEF Record
  <2>2. box' = [box EXCEPT ![Current] = r]
    BY <1>12 DEF Record
  <2> HIDE DEF r
  <2> QED
    BY <1>a, <2>1, <2>2 DEF TypeOK
<1>13. CASE StatementFails
  BY <1>a, <1>13 DEF StatementFails, Posted
<1>14. CASE Restart
  BY <1>a, <1>14 DEF Restart, Posted
<1>15. CASE UNCHANGED vars
  BY <1>a, <1>15 DEF vars, Posted
<1> QED
  BY <1>1, <1>2, <1>3, <1>4, <1>5, <1>6, <1>7, <1>8,
     <1>9, <1>10, <1>11, <1>12, <1>13, <1>14, <1>15
     DEF Next, Deliver

(* Every step accounts for every delivery. *)
LEMMA DeliveryStep == IndInv /\ [Next]_vars => (\A d \in Calls : Deliveries(d))'
<1> SUFFICES ASSUME IndInv, [Next]_vars PROVE (\A d \in Calls : Deliveries(d))'
  OBVIOUS
<1>a. TypeOK /\ BatchShape /\ FinishedRowsRest
  BY DEF IndInv
<1>b. \A c \in Calls : Deliveries(c)
  BY DEF IndInv
<1>c. step # "asleep" =>
        /\ Current \in Calls /\ IsPending(Current) /\ box[Current] \in Row
        /\ Head(batch).attempts \in Nat
  BY <1>a, CurrentIsPending
<1> USE DEF Deliveries, Unrecorded, sweeper, history
<1>1. ASSUME NEW c \in Calls, Enqueue(c)
     PROVE  (\A d \in Calls : Deliveries(d))'
  BY <1>a, <1>b, <1>1 DEF Enqueue, TypeOK, Current
<1>2. ASSUME NEW c \in Calls, Ripen(c)
     PROVE  (\A d \in Calls : Deliveries(d))'
  BY <1>a, <1>b, <1>2, NullIsNoRow DEF Ripen, TypeOK, Row, Current
<1>3. ASSUME NEW c \in Calls, Retry(c)
     PROVE  (\A d \in Calls : Deliveries(d))'
  BY <1>a, <1>b, <1>3, RetriedIsRow DEF Retry, TypeOK, Current, Fault
<1>4. CASE EditConfig
  BY <1>a, <1>b, <1>c, <1>4 DEF EditConfig, TypeOK, Current, Posted
<1>5. CASE SweepRead
  BY <1>a, <1>b, <1>5 DEF SweepRead, TypeOK
<1>6. CASE ReadConfig
  BY <1>a, <1>b, <1>c, <1>6 DEF ReadConfig, TypeOK, Current, Posted
<1>7. CASE Skip
  <2> DEFINE r == Skipped(box[Current])
  <2>1. r \in Row /\ r # Null /\ r.status # "sent"
    BY <1>c, <1>7, SkippedIsRow, NullIsNoRow DEF Skip
  <2>2. box' = [box EXCEPT ![Current] = r] /\ step' # "record"
    BY <1>a, <1>7, NextRowFacts DEF Skip
  <2>3. UNCHANGED <<received, lost, retried>>
    BY <1>7 DEF Skip
  <2> HIDE DEF r
  <2> QED
    BY <1>a, <1>b, <1>c, <1>7, <2>1, <2>2, <2>3 DEF TypeOK, Skip, IsPending
<1>8. CASE PostTaken
  BY <1>a, <1>b, <1>c, <1>8 DEF PostTaken, Posted, TypeOK, Current, IsPending
<1>9. CASE PostAnswerLost
  BY <1>a, <1>b, <1>c, <1>9 DEF PostAnswerLost, Posted, TypeOK, Current, Fault, Lose
<1>10. CASE PostRefused
  BY <1>a, <1>b, <1>c, <1>10 DEF PostRefused, TypeOK, Current, Posted
<1>11. CASE PostRaises
  BY <1>a, <1>b, <1>11, NextRowFacts DEF PostRaises, TypeOK
<1>12. CASE Record
  <2> DEFINE r == Recorded(box[Current], Head(batch).attempts + 1, ok)
  <2>n. Head(batch).attempts + 1 \in Nat /\ ok \in BOOLEAN
    BY <1>a, <1>c, <1>12 DEF Record, TypeOK
  <2>1. r \in Row /\ r # Null /\ (r.status = "sent" <=> ok)
    BY <1>c, <1>12, <2>n, RecordedIsRow, NullIsNoRow DEF Record
  <2>2. box' = [box EXCEPT ![Current] = r] /\ step' # "record"
    BY <1>a, <1>12, NextRowFacts DEF Record
  <2>3. UNCHANGED <<received, lost, retried>>
    BY <1>12 DEF Record
  <2> HIDE DEF r
  <2> QED
    BY <1>a, <1>b, <1>c, <1>12, <2>1, <2>2, <2>3 DEF TypeOK, Record, IsPending
<1>13. CASE StatementFails
  <2>1. UNCHANGED <<box, received, retried>> /\ step # "asleep"
    BY <1>13 DEF StatementFails
  <2>2. step' # "record"
    BY <1>a, <1>13, <2>1, NextRowFacts DEF StatementFails
  <2>3. CASE step = "record"
    <3>1. lost' = [lost EXCEPT ![Current] = @ + 1]
      BY <1>13, <2>3 DEF StatementFails, Lose
    <3> QED
      BY <1>a, <1>b, <1>c, <2>1, <2>2, <2>3, <3>1 DEF TypeOK
  <2>4. CASE step # "record"
    <3>1. lost' = lost
      BY <1>13, <2>4 DEF StatementFails
    <3> QED
      BY <1>a, <1>b, <2>1, <2>2, <2>4, <3>1 DEF TypeOK
  <2> QED
    BY <2>3, <2>4
<1>14. CASE Restart
  <2>1. UNCHANGED <<box, received, retried>> /\ step' # "record"
    BY <1>14 DEF Restart
  <2>2. CASE step = "record"
    <3>1. lost' = [lost EXCEPT ![Current] = @ + 1]
      BY <1>14, <2>2 DEF Restart, Lose
    <3> QED
      BY <1>a, <1>b, <1>c, <2>1, <2>2, <3>1 DEF TypeOK
  <2>3. CASE step # "record"
    <3>1. lost' = lost
      BY <1>14, <2>3 DEF Restart
    <3> QED
      BY <1>a, <1>b, <2>1, <2>3, <3>1 DEF TypeOK
  <2> QED
    BY <2>2, <2>3
<1>15. CASE UNCHANGED vars
  BY <1>a, <1>b, <1>c, <1>15 DEF vars, TypeOK, Current, Posted
<1> QED
  BY <1>1, <1>2, <1>3, <1>4, <1>5, <1>6, <1>7, <1>8,
     <1>9, <1>10, <1>11, <1>12, <1>13, <1>14, <1>15
     DEF Next, Deliver

(* The invariant holds before the first row is queued. *)
LEMMA InitHolds == Init => IndInv
<1> SUFFICES ASSUME Init PROVE IndInv
  OBVIOUS
<1>1. TypeOK
  <2>1. BatchOK
    BY EmptySeq DEF Init, BatchOK
  <2> QED
    BY <2>1 DEF Init, TypeOK, Steps
<1>2. BatchShape /\ FinishedRowsRest /\ \A c \in Calls : Deliveries(c)
  BY DEF Init, BatchShape, FinishedRowsRest, Deliveries, Unrecorded
<1> QED
  BY <1>1, <1>2 DEF IndInv

(* The invariant that carries all the others. *)
THEOREM Inductive == Spec => []IndInv
<1>1. IndInv /\ [Next]_vars => IndInv'
  BY TypeStep, BatchStep, RestStep, DeliveryStep DEF IndInv
<1> QED
  BY <1>1, InitHolds, PTL DEF Spec

(* Every variable keeps to its values. *)
THEOREM TypeCorrect == Spec => []TypeOK
<1>1. IndInv => TypeOK
  BY DEF IndInv
<1> QED
  BY Inductive, <1>1, PTL

(* A row is finished exactly when it has no next attempt, whatever fails,  *)
(* restarts or is pressed between the sweeper's statements.                *)
THEOREM FinishedRowsAreLeftAlone == Spec => []FinishedRowsRest
<1>1. IndInv => FinishedRowsRest
  BY DEF IndInv
<1> QED
  BY Inductive, <1>1, PTL

(* Every delivery beyond the first is covered by an answer or a record     *)
(* that was lost, or by somebody pressing Retry.                           *)
THEOREM DuplicatesHaveACause == Spec => []NoNeedlessDuplicates
<1>1. IndInv => NoNeedlessDuplicates
  <2> SUFFICES ASSUME IndInv, NEW c \in Calls
               PROVE  received[c] <= 1 + lost[c] + retried[c]
    BY DEF NoNeedlessDuplicates
  <2>1. {received[c], lost[c], retried[c]} \subseteq Nat /\ Deliveries(c)
    BY DEF IndInv, TypeOK
  <2> QED
    BY <2>1 DEF Deliveries
<1> QED
  BY Inductive, <1>1, PTL

(* What the sweeper holds of a row, with its counts as it read them. *)
LEMMA HeldFacts ==
  ASSUME CountedInv, NEW i \in DOMAIN batch
  PROVE  /\ batch[i].call \in Calls /\ IsPending(batch[i].call)
         /\ box[batch[i].call] \in Row
         /\ batch[i].attempts \in Nat /\ batch[i].attempts < MaxAttempts
         /\ box[batch[i].call].attempts <= batch[i].attempts
<1> DEFINE T == [call : Calls, attempts : Nat]
<1>1. batch \in Seq(T)
  BY DEF CountedInv, IndInv, TypeOK, BatchOK
<1> HIDE DEF T
<1>2. batch[i] \in T
  <2>1. DOMAIN batch = 1..Len(batch)
    BY <1>1, LenProperties
  <2> QED
    BY <1>1, <2>1, ElementOfSeq
<1>3. batch[i].call \in Calls /\ batch[i].attempts \in Nat
  BY <1>2 DEF T
<1>4. IsPending(batch[i].call)
  BY DEF CountedInv, IndInv, BatchShape
<1>5. box[batch[i].call] \in Row
  BY <1>3, <1>4 DEF CountedInv, IndInv, TypeOK, IsPending
<1> QED
  BY <1>3, <1>4, <1>5 DEF CountedInv, Held

(* The counts held stay ahead of their rows when no row gains attempts...  *)
LEMMA HeldKept ==
  ASSUME CountedInv, batch' = batch,
         \A d \in Calls : IsPending(d) =>
           /\ box'[d].attempts \in Nat
           /\ box'[d].attempts <= box[d].attempts
  PROVE  Held'
<1> SUFFICES ASSUME NEW i \in DOMAIN batch
             PROVE  /\ batch[i].attempts < MaxAttempts
                    /\ box'[batch[i].call].attempts <= batch[i].attempts
  BY DEF Held
<1> DEFINE c == batch[i].call
           n == batch[i].attempts
           old == box[c].attempts
           new == box'[c].attempts
<1>1. c \in Calls /\ IsPending(c) /\ n \in Nat /\ n < MaxAttempts /\ old <= n
  BY HeldFacts
<1>2. old \in Nat
  BY HeldFacts DEF Row
<1>3. new \in Nat /\ new <= old
  BY <1>1
<1> HIDE DEF n, old, new
<1>4. new <= n
  BY <1>1, <1>2, <1>3
<1> QED
  BY <1>1, <1>4 DEF n, new

(* ... and when the row that changes is the one done with. *)
LEMMA HeldAfterRow ==
  ASSUME CountedInv, step # "asleep", NextRow,
         \A d \in Calls : d # Current => box'[d] = box[d]
  PROVE  Held'
<1> SUFFICES ASSUME NEW i \in DOMAIN batch'
             PROVE  /\ batch'[i].attempts < MaxAttempts
                    /\ box'[batch'[i].call].attempts <= batch'[i].attempts
  BY DEF Held
<1>1. /\ i + 1 \in DOMAIN batch /\ batch'[i] = batch[i + 1]
      /\ batch'[i].call # Current
  BY NextRowFacts DEF CountedInv, IndInv
<1>2. /\ batch[i + 1].call \in Calls
      /\ batch[i + 1].attempts < MaxAttempts
      /\ box[batch[i + 1].call].attempts <= batch[i + 1].attempts
  BY <1>1, HeldFacts
<1> QED
  BY <1>1, <1>2

(* A step that posts nothing, loses nothing and leaves a row alone leaves  *)
(* its count alone, unless it was the row being recorded.                  *)
LEMMA CountKept ==
  ASSUME CountedInv, NEW d \in Calls, box'[d] = box[d],
         tries'[d] = tries[d], lost'[d] = lost[d],
         (step = "record" /\ d = Current) => (step' = "record" /\ d = Current')
  PROVE  Counted(d)'
<1>1. /\ Counted(d) /\ tries[d] \in Nat /\ lost[d] \in Nat
      /\ box[d] \in Row \cup {Null}
  BY DEF CountedInv, IndInv, TypeOK
<1>2. box[d] # Null => box[d].attempts \in Nat
  BY <1>1 DEF Row
<1> QED
  BY <1>1, <1>2 DEF Counted, IsPending

(* Every step counts what it posts, and holds no count that is behind.     *)
LEMMA CountedStep == ~BrokenBodies /\ CountedInv /\ [Next]_vars => CountedInv'
<1> SUFFICES ASSUME ~BrokenBodies, CountedInv, [Next]_vars
             PROVE  CountedInv'
  OBVIOUS
<1> SUFFICES Held' /\ \A d \in Calls : Counted(d)'
  <2>1. IndInv
    BY DEF CountedInv
  <2>2. IndInv'
    BY <2>1, TypeStep, BatchStep, RestStep, DeliveryStep DEF IndInv
  <2> QED
    BY <2>2 DEF CountedInv
<1>a. TypeOK /\ BatchShape /\ FinishedRowsRest
  BY DEF IndInv, CountedInv
<1>c. step # "asleep" =>
        /\ Current \in Calls /\ IsPending(Current) /\ box[Current] \in Row
        /\ Head(batch).attempts \in Nat
        /\ Head(batch).attempts < MaxAttempts
        /\ box[Current].attempts <= Head(batch).attempts
  <2> SUFFICES ASSUME step # "asleep"
               PROVE  /\ Head(batch).attempts < MaxAttempts
                      /\ box[Current].attempts <= Head(batch).attempts
    BY <1>a, CurrentIsPending
  <2>1. 1 \in DOMAIN batch /\ batch # <<>>
    BY <1>a, CurrentIsPending
  <2>2. Head(batch) = batch[1]
    <3>1. /\ batch \in Seq([call : Calls, attempts : Nat])
          /\ Len(batch) \in Nat \ {0}
      BY <1>a, CurrentIsPending DEF TypeOK, BatchOK
    <3> DEFINE T == [call : Calls, attempts : Nat]
    <3>2. batch \in Seq(T) /\ Len(batch) \in Nat \ {0}
      BY <3>1
    <3> HIDE DEF T
    <3>3. SubSeq(batch, 1, Len(batch)) = batch
      BY <3>2, SubSeqFull
    <3>4. Head(SubSeq(batch, 1, Len(batch))) = batch[1]
      BY <3>2, HeadTailOfSubSeq
    <3> QED
      BY <3>3, <3>4
  <2> QED
    BY <2>1, <2>2, HeldFacts DEF Current
<1>d. \A d \in Calls : /\ Counted(d) /\ tries[d] \in Nat /\ lost[d] \in Nat
                       /\ box[d] \in Row \cup {Null}
                       /\ box[d] # Null => box[d].attempts \in Nat
  BY <1>a DEF CountedInv, TypeOK, Row
<1>e. MaxAttempts \in Nat \ {0}
  BY PostbackAssumption
<1>f. \A d \in Calls : IsPending(d) =>
        box[d].attempts \in Nat /\ box[d].attempts <= box[d].attempts
  BY <1>d DEF IsPending
<1> USE DEF sweeper, history
<1>1. ASSUME NEW c \in Calls, Enqueue(c)
     PROVE  Held' /\ \A d \in Calls : Counted(d)'
  <2> DEFINE r == [status |-> "pending", attempts |-> 0, next |-> "due"]
  <2>1. /\ box' = [box EXCEPT ![c] = r] /\ box[c] = Null
        /\ UNCHANGED <<batch, tries, lost, step>>
    BY <1>1 DEF Enqueue
  <2>2. Held'
    BY <1>a, <1>f, <2>1, HeldKept DEF TypeOK, IsPending
  <2>3. \A d \in Calls : d # c => Counted(d)'
    BY <1>a, <2>1, CountKept DEF TypeOK, Current
  <2>4. Counted(c)'
    <3>1. tries'[c] = 0 /\ lost'[c] \in Nat
      BY <1>d, <2>1 DEF Counted
    <3>2. box'[c] = r
      BY <1>a, <2>1 DEF TypeOK
    <3> QED
      BY <1>e, <3>1, <3>2 DEF Counted
  <2> QED
    BY <2>2, <2>3, <2>4
<1>2. ASSUME NEW c \in Calls, Ripen(c)
     PROVE  Held' /\ \A d \in Calls : Counted(d)'
  <2> DEFINE r == [box[c] EXCEPT !.next = "due"]
  <2>1. /\ box' = [box EXCEPT ![c] = r] /\ box[c] # Null
        /\ UNCHANGED <<batch, tries, lost, step>>
    BY <1>a, <1>2 DEF Ripen, TypeOK
  <2>2. /\ r \in Row /\ r # Null /\ r.attempts = box[c].attempts
        /\ r.status = box[c].status
    BY <1>d, <2>1, NullIsNoRow DEF Row
  <2> HIDE DEF r
  <2>3. box'[c] = r /\ \A d \in Calls : d # c => box'[d] = box[d]
    BY <1>a, <2>1 DEF TypeOK
  <2>4. Held'
    BY <1>f, <2>1, <2>2, <2>3, HeldKept DEF IsPending
  <2>5. \A d \in Calls : d # c => Counted(d)'
    BY <2>1, <2>3, CountKept DEF Current
  <2>6. Counted(c)'
    BY <1>d, <2>1, <2>2, <2>3 DEF Counted, IsPending, Current
  <2> QED
    BY <2>4, <2>5, <2>6
<1>3. ASSUME NEW c \in Calls, Retry(c)
     PROVE  Held' /\ \A d \in Calls : Counted(d)'
  <2>1. /\ box' = [box EXCEPT ![c] = Retried(@)]
        /\ tries' = [tries EXCEPT ![c] = 0]
        /\ UNCHANGED <<batch, lost, step>>
    BY <1>3 DEF Retry
  <2>2. /\ box'[c] = Retried(box[c]) /\ tries'[c] = 0
        /\ \A d \in Calls : d # c => box'[d] = box[d] /\ tries'[d] = tries[d]
    BY <1>a, <2>1 DEF TypeOK
  <2>3. /\ Retried(box[c]) \in Row /\ Retried(box[c]) # Null
        /\ Retried(box[c]).attempts = 0
    BY RetriedIsRow, NullIsNoRow DEF Retried
  <2>4. Held'
    BY <1>d, <1>f, <2>1, <2>2, <2>3, HeldKept DEF IsPending
  <2>5. \A d \in Calls : d # c => Counted(d)'
    BY <2>1, <2>2, CountKept DEF Current
  <2>6. Counted(c)'
    BY <1>d, <1>e, <2>1, <2>2, <2>3 DEF Counted, IsPending, Current
  <2> QED
    BY <2>4, <2>5, <2>6
<1>4. CASE EditConfig
  BY <1>4, <1>f, HeldKept, CountKept DEF EditConfig, Current
<1>5. CASE SweepRead
  <2>1. step = "asleep" /\ step' = "config" /\ UNCHANGED <<box, tries, lost>>
    BY <1>5 DEF SweepRead
  <2>2. \A d \in Calls : Counted(d)'
    BY <2>1, CountKept
  <2>3. Held'
    <3>1. PICK s \in Oldest :
            batch' = [i \in 1..Limit |-> [call |-> s[i],
                                          attempts |-> box[s[i]].attempts]]
      BY <1>5 DEF SweepRead
    <3>2. \A i \in 1..Limit : s[i] \in Due
      BY DEF Oldest
    <3>3. \A c \in Due : c \in Calls /\ IsPending(c)
      BY <1>a DEF Due, IsDue, IsPending, FinishedRowsRest
    <3>4. \A c \in Due : /\ box[c].attempts < MaxAttempts
                         /\ box[c].attempts \in Nat
      BY <1>d, <3>3 DEF Counted, IsPending
    <3>5. \A i \in 1..Limit : /\ box[s[i]].attempts < MaxAttempts
                              /\ box[s[i]].attempts <= box[s[i]].attempts
      BY <3>2, <3>4
    <3>6. /\ DOMAIN batch' = 1..Limit
          /\ \A i \in 1..Limit : /\ batch'[i].call = s[i]
                                 /\ batch'[i].attempts = box[s[i]].attempts
      BY <3>1
    <3> QED
      BY <2>1, <3>5, <3>6 DEF Held
  <2> QED
    BY <2>2, <2>3
<1>6. CASE ReadConfig
  BY <1>6, <1>f, HeldKept, CountKept DEF ReadConfig, Current
<1>7. CASE Skip
  <2> DEFINE r == Skipped(box[Current])
  <2>1. /\ r \in Row /\ r # Null /\ r.status # "pending"
        /\ r.attempts = box[Current].attempts
    BY <1>c, <1>7, SkippedIsRow, NullIsNoRow DEF Skip, Skipped, Row
  <2>2. /\ box' = [box EXCEPT ![Current] = r] /\ NextRow
        /\ step = "skip" /\ UNCHANGED <<tries, lost>>
    BY <1>7 DEF Skip
  <2> HIDE DEF r
  <2>3. /\ Current \in Calls /\ box[Current] # Null
        /\ box'[Current] = r
        /\ \A d \in Calls : d # Current => box'[d] = box[d]
    BY <1>a, <1>c, <2>2 DEF TypeOK, IsPending
  <2>4. Held'
    BY <2>2, <2>3, HeldAfterRow
  <2>5. \A d \in Calls : d # Current => Counted(d)'
    BY <2>2, <2>3, CountKept
  <2>6. Counted(Current) /\ step' # "record"
    BY <1>a, <1>d, <2>2, <2>3, NextRowFacts
  <2>7. \A d \in Calls : d = Current => Counted(d)'
    BY <1>d, <2>1, <2>2, <2>3, <2>6 DEF Counted, IsPending
  <2> QED
    BY <2>4, <2>5, <2>7
<1>8. CASE PostTaken \/ PostAnswerLost \/ PostRefused
  <2>1. /\ step = "post" /\ step' = "record"
        /\ tries' = [tries EXCEPT ![Current] = @ + 1]
        /\ UNCHANGED <<box, batch>>
        /\ lost' = lost \/ lost' = [lost EXCEPT ![Current] = @ + 1]
    BY <1>8 DEF PostTaken, PostAnswerLost, PostRefused, Posted, Lose
  <2>2. Held'
    BY <1>f, <2>1, HeldKept
  <2>3. /\ Current \in Calls /\ box[Current] # Null /\ Current' = Current
        /\ tries'[Current] = tries[Current] + 1
        /\ lost'[Current] \in Nat /\ lost[Current] <= lost'[Current]
        /\ \A d \in Calls : d # Current => /\ tries'[d] = tries[d]
                                           /\ lost'[d] = lost[d]
    BY <1>a, <1>c, <2>1 DEF TypeOK, IsPending, Current
  <2>4. \A d \in Calls : d # Current => Counted(d)'
    BY <2>1, <2>3, CountKept
  <2> HIDE DEF Current
  <2>5. \A d \in Calls : d = Current => Counted(d)'
    BY <1>d, <2>1, <2>3 DEF Counted, IsPending
  <2> QED
    BY <2>2, <2>4, <2>5
<1>11. CASE PostRaises
  BY <1>11 DEF PostRaises
<1>12. CASE Record
  <2> DEFINE n == Head(batch).attempts + 1
             r == Recorded(box[Current], n, ok)
  <2>1. n \in Nat /\ ok \in BOOLEAN /\ n <= MaxAttempts
    BY <1>a, <1>c, <1>e, <1>12 DEF Record, TypeOK
  <2>2. box[Current] \in Row /\ box[Current].attempts + 1 <= n
        /\ box[Current].attempts \in Nat
    BY <1>c, <1>12 DEF Record, Row
  <2>3. /\ box' = [box EXCEPT ![Current] = r] /\ NextRow
        /\ step = "record" /\ UNCHANGED <<tries, lost>>
    BY <1>12 DEF Record
  <2> HIDE DEF n
  <2>4. /\ r \in Row /\ r # Null /\ r.attempts = n
        /\ r.status = "pending" => n < MaxAttempts
    <3>1. r \in Row
      BY <2>1, <2>2, RecordedIsRow
    <3>2. r.attempts = n /\ (r.status = "pending" => ~(n >= MaxAttempts))
      BY <2>2 DEF Recorded, Row
    <3> QED
      BY <1>e, <2>1, <3>1, <3>2, NullIsNoRow
  <2> HIDE DEF r
  <2>5. /\ Current \in Calls /\ box[Current] # Null
        /\ box'[Current] = r
        /\ \A d \in Calls : d # Current => box'[d] = box[d]
    BY <1>a, <1>c, <2>3 DEF TypeOK, IsPending
  <2>6. Held'
    BY <2>3, <2>5, HeldAfterRow
  <2>7. \A d \in Calls : d # Current => Counted(d)'
    BY <2>3, <2>5, CountKept
  <2>8. Counted(Current) /\ step' # "record"
    BY <1>a, <1>d, <2>3, <2>5, NextRowFacts
  <2>9. tries[Current] <= n + lost[Current]
    BY <1>d, <2>1, <2>2, <2>3, <2>5, <2>8 DEF Counted
  <2> HIDE DEF Current
  <2>10. \A d \in Calls : d = Current => Counted(d)'
    BY <1>d, <2>1, <2>3, <2>4, <2>5, <2>8, <2>9 DEF Counted, IsPending
  <2> QED
    BY <2>6, <2>7, <2>10
<1>13. CASE StatementFails \/ Restart
  <2>1. /\ UNCHANGED <<box, tries>> /\ step # "asleep"
        /\ NextRow \/ (batch' = <<>> /\ step' = "asleep")
        /\ IF step = "record" THEN lost' = [lost EXCEPT ![Current] = @ + 1]
                              ELSE lost' = lost
    <3>1. CASE StatementFails
      BY <3>1 DEF StatementFails, Lose
    <3>2. CASE Restart
      BY <3>2 DEF Restart, Lose
    <3> QED
      BY <1>13, <3>1, <3>2
  <2>2. step' # "record"
    BY <1>a, <2>1, NextRowFacts
  <2>3. Held'
    <3>1. CASE NextRow
      BY <2>1, <3>1, HeldAfterRow
    <3>2. CASE batch' = <<>>
      BY <3>2 DEF Held
    <3> QED
      BY <2>1, <3>1, <3>2
  <2>4. /\ Current \in Calls /\ box[Current] # Null
        /\ step = "record" => lost'[Current] = lost[Current] + 1
        /\ step # "record" => lost' = lost
        /\ \A d \in Calls : d # Current => lost'[d] = lost[d]
    BY <1>a, <1>c, <2>1 DEF TypeOK, IsPending
  <2>5. \A d \in Calls : d # Current => Counted(d)'
    BY <2>1, <2>4, CountKept
  <2> HIDE DEF Current
  <2>6. \A d \in Calls : d = Current => Counted(d)'
    BY <1>d, <2>1, <2>2, <2>4 DEF Counted, IsPending
  <2> QED
    BY <2>3, <2>5, <2>6
<1>15. CASE UNCHANGED vars
  BY <1>15, <1>f, HeldKept, CountKept DEF vars, Current
<1> QED
  BY <1>1, <1>2, <1>3, <1>4, <1>5, <1>6, <1>7, <1>8, <1>11, <1>12, <1>13,
     <1>15 DEF Next, Deliver

(* Whatever is lost, restarted, switched off or pressed again while the    *)
(* sweeper holds a row, a row is posted postback_max_attempts times at     *)
(* most since it was queued or last retried, the attempts that could not   *)
(* be recorded excepted, unless reading the body of an error may raise.    *)
THEOREM PatienceHolds == ~BrokenBodies => (Spec => []PatienceIsBounded)
<1> SUFFICES ASSUME ~BrokenBodies PROVE Spec => []PatienceIsBounded
  OBVIOUS
<1>1. Init => CountedInv
  <2> SUFFICES ASSUME Init PROVE CountedInv
    OBVIOUS
  <2>1. Init => IndInv
    BY InitHolds
  <2>2. Held /\ \A c \in Calls : Counted(c)
    BY DEF Init, Held, Counted
  <2> QED
    BY <2>1, <2>2 DEF CountedInv
<1>2. CountedInv => PatienceIsBounded
  <2> SUFFICES ASSUME CountedInv, NEW c \in Calls
               PROVE  tries[c] <= MaxAttempts + lost[c]
    BY DEF PatienceIsBounded
  <2>1. /\ Counted(c) /\ tries[c] \in Nat /\ lost[c] \in Nat
        /\ box[c] \in Row \cup {Null} /\ MaxAttempts \in Nat
    BY PostbackAssumption DEF CountedInv, IndInv, TypeOK
  <2>2. step = "record" /\ c = Current => IsPending(c)
    BY CurrentIsPending DEF CountedInv, IndInv
  <2>3. box[c] # Null => box[c].attempts \in Nat
    BY <2>1 DEF Row
  <2> QED
    BY <2>1, <2>2, <2>3 DEF Counted
<1>3. CountedInv /\ [Next]_vars => CountedInv'
  BY CountedStep
<1> QED
  BY <1>1, <1>2, <1>3, PTL DEF Spec

(* Rewriting one row is a step of the promise, or leaves it alone. *)
LEMMA RowStep ==
  ASSUME TypeOK, NEW c \in Calls, NEW r \in Row,
         box' = [box EXCEPT ![c] = r], received' = received,
         box[c] = Null => r.status = "pending",
         r.status = "sent" => received[c] > 0,
         box[c] # Null /\ box[c].status # "pending" => r.status = "pending"
  PROVE  [Promise!Next]_(Promise!pvars)
<1> DEFINE Owed(b) == IF b = Null THEN "none"
                      ELSE IF b.status = "pending" THEN "owed" ELSE b.status
           debt == [d \in Calls |-> Owed(box[d])]
<1>1. debt' = [debt EXCEPT ![c] = Owed(r)] /\ debt[c] = Owed(box[c])
  BY DEF TypeOK
<1>2. /\ r # Null /\ r.status \in {"pending", "sent", "failed", "skipped"}
      /\ box[c] # Null =>
           box[c].status \in {"pending", "sent", "failed", "skipped"}
  BY NullIsNoRow DEF Row, TypeOK
<1>3. CASE box[c] = Null
  <2>1. Owed(r) = "owed" /\ Owed(box[c]) = "none"
    BY <1>2, <1>3
  <2>2. debt' = [debt EXCEPT ![c] = "owed"] /\ debt[c] = "none"
    BY <1>1, <2>1
  <2>3. Promise!Owe(c)
    BY <2>2 DEF Promise!Owe
  <2> QED
    BY <2>3 DEF Promise!Next
<1>4. CASE box[c] # Null /\ box[c].status = "pending" /\ r.status = "pending"
  <2>1. Owed(r) = debt[c]
    BY <1>1, <1>2, <1>4
  <2>2. debt' = debt
    BY <1>1, <2>1
  <2> QED
    BY <2>2 DEF Promise!pvars
<1>5. CASE box[c] # Null /\ box[c].status = "pending" /\ r.status # "pending"
  <2>1. Owed(r) = r.status /\ Owed(box[c]) = "owed"
    BY <1>2, <1>5
  <2>2. debt' = [debt EXCEPT ![c] = r.status] /\ debt[c] = "owed"
    BY <1>1, <2>1
  <2>3. r.status \in Promise!Settlements
    BY <1>2, <1>5 DEF Promise!Settlements
  <2>4. \E how \in Promise!Settlements : Promise!Settle(c, how)
    BY <2>2, <2>3 DEF Promise!Settle
  <2> QED
    BY <2>4 DEF Promise!Next
<1>6. CASE box[c] # Null /\ box[c].status # "pending"
  <2>1. Owed(r) = "owed" /\ Owed(box[c]) \in Promise!Settlements
    BY <1>2, <1>6 DEF Promise!Settlements
  <2>2. debt' = [debt EXCEPT ![c] = "owed"] /\ debt[c] \in Promise!Settlements
    BY <1>1, <2>1
  <2>3. Promise!Reopen(c)
    BY <2>2 DEF Promise!Reopen
  <2> QED
    BY <2>3 DEF Promise!Next
<1> QED
  BY <1>3, <1>4, <1>5, <1>6

(* The client taking a pending result is a step of the promise. *)
LEMMA TakeStep ==
  ASSUME TypeOK, NEW c \in Calls, IsPending(c), box' = box,
         received' = [received EXCEPT ![c] = @ + 1]
  PROVE  [Promise!Next]_(Promise!pvars)
<1>1. Promise!Take(c)
  BY DEF Promise!Take, IsPending
<1> QED
  BY <1>1 DEF Promise!Next

LEMMA IdleStep ==
  ASSUME box' = box, received' = received
  PROVE  [Promise!Next]_(Promise!pvars)
  BY DEF Promise!pvars

(* Every step is one of the promise, or leaves it alone. *)
LEMMA PromiseStep == IndInv /\ [Next]_vars => [Promise!Next]_(Promise!pvars)
<1> SUFFICES ASSUME IndInv, [Next]_vars PROVE [Promise!Next]_(Promise!pvars)
  OBVIOUS
<1>a. TypeOK /\ BatchShape /\ FinishedRowsRest
  BY DEF IndInv
<1>b. \A c \in Calls : Deliveries(c)
  BY DEF IndInv
<1>c. step # "asleep" =>
        /\ Current \in Calls /\ IsPending(Current) /\ box[Current] \in Row
        /\ Head(batch).attempts \in Nat
  BY <1>a, CurrentIsPending
<1> USE DEF sweeper, history
<1>1. ASSUME NEW c \in Calls, Enqueue(c)
     PROVE  [Promise!Next]_(Promise!pvars)
  <2> DEFINE r == [status |-> "pending", attempts |-> 0, next |-> "due"]
  <2>1. r \in Row /\ r.status = "pending"
    BY DEF Row
  <2> HIDE DEF r
  <2>2. box' = [box EXCEPT ![c] = r] /\ received' = received /\ box[c] = Null
    BY <1>1 DEF Enqueue, r
  <2> QED
    BY <1>a, <2>1, <2>2, RowStep
<1>2. ASSUME NEW c \in Calls, Ripen(c)
     PROVE  [Promise!Next]_(Promise!pvars)
  <2> DEFINE r == [box[c] EXCEPT !.next = "due"]
  <2>1. /\ r \in Row /\ box[c] # Null
        /\ box[c].status = "pending" /\ r.status = "pending"
    BY <1>a, <1>2 DEF Ripen, FinishedRowsRest, TypeOK, Row
  <2>2. box' = [box EXCEPT ![c] = r] /\ received' = received
    BY <1>a, <1>2 DEF Ripen, TypeOK
  <2> HIDE DEF r
  <2> QED
    BY <1>a, <2>1, <2>2, RowStep
<1>3. ASSUME NEW c \in Calls, Retry(c)
     PROVE  [Promise!Next]_(Promise!pvars)
  <2> DEFINE r == Retried(box[c])
  <2>1. r \in Row /\ r.status = "pending"
    BY RetriedIsRow
  <2> HIDE DEF r
  <2>2. box' = [box EXCEPT ![c] = r] /\ received' = received
    BY <1>3 DEF Retry, r
  <2> QED
    BY <1>a, <2>1, <2>2, RowStep
<1>4. CASE EditConfig
  BY <1>4, IdleStep DEF EditConfig
<1>5. CASE SweepRead
  BY <1>5, IdleStep DEF SweepRead
<1>6. CASE ReadConfig
  BY <1>6, IdleStep DEF ReadConfig
<1>7. CASE Skip
  <2> DEFINE r == Skipped(box[Current])
  <2>1. r \in Row /\ r.status = "skipped"
    BY <1>c, <1>7, SkippedIsRow DEF Skip
  <2> HIDE DEF r
  <2>2. box' = [box EXCEPT ![Current] = r] /\ received' = received
    BY <1>7 DEF Skip, r
  <2>3. Current \in Calls /\ IsPending(Current)
    BY <1>c, <1>7 DEF Skip
  <2> HIDE DEF Current
  <2> QED
    BY <1>a, <2>1, <2>2, <2>3, RowStep DEF IsPending
<1>8. CASE PostTaken
  BY <1>a, <1>c, <1>8, TakeStep DEF PostTaken, Posted
<1>9. CASE PostAnswerLost
  BY <1>a, <1>c, <1>9, TakeStep DEF PostAnswerLost, Posted
<1>10. CASE PostRefused
  BY <1>10, IdleStep DEF PostRefused, Posted
<1>11. CASE PostRaises
  BY <1>11, IdleStep DEF PostRaises
<1>12. CASE Record
  <2> DEFINE r == Recorded(box[Current], Head(batch).attempts + 1, ok)
  <2>1. Head(batch).attempts + 1 \in Nat /\ ok \in BOOLEAN
    BY <1>a, <1>c, <1>12 DEF Record, TypeOK
  <2>2. r \in Row /\ (r.status = "sent" <=> ok)
    BY <1>c, <1>12, <2>1, RecordedIsRow DEF Record
  <2> HIDE DEF r
  <2>3. box' = [box EXCEPT ![Current] = r] /\ received' = received
    BY <1>12 DEF Record, r
  <2>4. Current \in Calls /\ IsPending(Current)
    BY <1>c, <1>12 DEF Record
  <2>5. r.status = "sent" => received[Current] > 0
    BY <1>b, <1>12, <2>2, <2>4 DEF Record, Deliveries, Unrecorded
  <2> QED
    BY <1>a, <2>2, <2>3, <2>4, <2>5, RowStep DEF IsPending
<1>13. CASE StatementFails
  BY <1>13, IdleStep DEF StatementFails
<1>14. CASE Restart
  BY <1>14, IdleStep DEF Restart
<1>15. CASE UNCHANGED vars
  BY <1>15, IdleStep DEF vars
<1> QED
  BY <1>1, <1>2, <1>3, <1>4, <1>5, <1>6, <1>7, <1>8, <1>9, <1>10, <1>11,
     <1>12, <1>13, <1>14, <1>15 DEF Next, Deliver

(* What is owed stays owed until it is settled, the client is handed only  *)
(* what is owed, and what is shown as sent has been handed over.           *)
THEOREM PromiseKept == Spec => KeepsPromise
<1>1. Init => Promise!Init
  BY DEF Init, Promise!Init
<1> QED
  BY <1>1, PromiseStep, Inductive, PTL DEF Spec, KeepsPromise, Promise!Spec

-----------------------------------------------------------------------------
(* The alert rules. *)

(* What an evaluation moves to, the others staying where they are. *)
LEMMA OwnStep ==
  ASSUME RunsOK, NEW e \in Runs, NEW s \in Evaluations, Step(e, s)
  PROVE  /\ run' \in [Runs -> Evaluations]
         /\ run'[e] = s /\ \A d \in Runs : d # e => run'[d] = run[d]
  BY DEF RunsOK, Step

LEMMA IdleIsAnEvaluation == Idle \in Evaluations
  BY DEF Idle, Evaluations

(* Every step of an evaluation, and every edit, keeps what is about to be  *)
(* done to a rule in agreement with what the rule shows.                   *)
LEMMA AlertingStep == AlertingInv /\ [AlertingNext]_avars => AlertingInv'
<1> SUFFICES ASSUME AlertingInv, [AlertingNext]_avars PROVE AlertingInv'
  OBVIOUS
<1> DEFINE Rows == [rule : SUBSET Rules,
                    delivery : {"pending", "sent", "failed", "skipped"}]
<1>a. /\ firing \in [Rules -> BOOLEAN] /\ raised \in [Rules -> Nat]
      /\ webhook \in BOOLEAN /\ alerts \in Seq(Rows)
      /\ RunsOK /\ OneHand /\ ReadAsIs /\ Reported
  BY DEF AlertingInv
<1>b. SUFFICES /\ firing' \in [Rules -> BOOLEAN] /\ raised' \in [Rules -> Nat]
               /\ webhook' \in BOOLEAN /\ alerts' \in Seq(Rows)
               /\ RunsOK' /\ OneHand' /\ ReadAsIs' /\ Reported'
  BY DEF AlertingInv
<1> HIDE DEF Rows
<1>c. ASSUME NEW e \in Runs
      PROVE  /\ run[e] \in Evaluations
             /\ run[e].todo \in SUBSET Rules /\ run[e].rule \in SUBSET Rules
             /\ run[e].fired \in SUBSET Rules
             /\ run[e].todo \cap run[e].rule = {}
  BY <1>a DEF RunsOK, Evaluations
<1>1. ASSUME NEW e \in Runs, Begin(e)
      PROVE  /\ firing' \in [Rules -> BOOLEAN] /\ raised' \in [Rules -> Nat]
             /\ webhook' \in BOOLEAN /\ alerts' \in Seq(Rows)
             /\ RunsOK' /\ OneHand' /\ ReadAsIs' /\ Reported'
  <2> DEFINE s == [Idle EXCEPT !.pc = "next", !.todo = Watched, !.hook = webhook,
                       !.fired = {r \in Watched : firing[r]}]
  <2>1. /\ UNCHANGED <<webhook, firing, alerts, raised>> /\ Watched \in SUBSET Rules
        /\ run[e].pc = "idle" /\ run[e].todo = {} /\ run[e].rule = {}
        /\ raced' = raced \cup {r \in Watched : \E d \in Runs \ {e} : Holds(d, r)}
    BY <1>a, <1>c, <1>1 DEF Begin, Busy, Watched, RunsOK
  <2>0. s \in Evaluations
    BY <1>a, <2>1 DEF Idle, Evaluations
  <2>2. /\ run' \in [Runs -> Evaluations]
        /\ run'[e].pc = "next" /\ run'[e].todo = Watched /\ run'[e].rule = {}
        /\ run'[e].fired = {r \in Watched : firing[r]}
        /\ \A d \in Runs : d # e => run'[d] = run[d]
    <3>1. Step(e, s)
      BY <1>1 DEF Begin
    <3> HIDE DEF s
    <3>2. run' \in [Runs -> Evaluations] /\ run'[e] = s /\ \A d \in Runs : d # e => run'[d] = run[d]
      BY <1>a, <2>0, <3>1, OwnStep
    <3> QED
      BY <1>c, <3>2 DEF s, Evaluations, Idle
  <2> HIDE DEF s
  <2>4. RunsOK'
    BY <1>a, <1>c, <2>1, <2>2 DEF RunsOK
  <2>5. OneHand'
    BY <1>a, <1>c, <2>1, <2>2 DEF OneHand, Holds
  <2>6. ReadAsIs'
    BY <1>a, <1>c, <2>1, <2>2 DEF ReadAsIs, OneHand, Holds
  <2>u. \A r \in Rules \ raced' : (Unmarked(r)' <=> Unmarked(r))
    BY <1>a, <1>c, <2>1, <2>2 DEF Unmarked, OneHand, Holds
  <2>7. Reported'
    <3> SUFFICES ASSUME NEW r \in Rules \ raced' PROVE Shown(r)'
      BY DEF Reported
    <3>1. r \notin raced => Shown(r)
      BY <1>a DEF Reported
    <3>2. \A d \in Runs \ {e} : r \notin raced /\ r \in run[d].rule => ~Holds(e, r)
      BY <1>a DEF OneHand, Holds
    <3>3. r \in run[e].todo /\ r \notin raced => (r \in run[e].fired <=> firing[r])
      BY <1>a DEF ReadAsIs
    <3> QED
      BY <1>a, <1>c, <2>1, <2>2, <2>u, <3>1, <3>2, <3>3 DEF Shown, Holds
  <2> QED
    BY <1>a, <2>1, <2>4, <2>5, <2>6, <2>7
<1>2. ASSUME NEW e \in Runs, NEW q \in Rules, Evaluate(e, q)
      PROVE  /\ firing' \in [Rules -> BOOLEAN] /\ raised' \in [Rules -> Nat]
             /\ webhook' \in BOOLEAN /\ alerts' \in Seq(Rows)
             /\ RunsOK' /\ OneHand' /\ ReadAsIs' /\ Reported'
  <2> DEFINE s == [run[e] EXCEPT !.todo = @ \ {q}, !.pc = Judged(e, q),
                !.rule = IF Judged(e, q) = "next" THEN {} ELSE {q}]
  <2>1. /\ UNCHANGED <<webhook, firing, alerts, raised, raced>>
        /\ run[e].pc = "next" /\ q \in run[e].todo /\ run[e].rule = {}
        /\ Judged(e, q) \in {"next", "insert", "rearm"}
        /\ Judged(e, q) = "insert" => q \notin run[e].fired
    BY <1>a, <1>c, <1>2 DEF Evaluate, world, Judged, RunsOK
  <2>0. s \in Evaluations
    BY <1>c, <2>1 DEF Evaluations
  <2>2. /\ run' \in [Runs -> Evaluations]
        /\ run'[e].pc = Judged(e, q) /\ run'[e].todo = run[e].todo \ {q}
        /\ run'[e].rule = IF Judged(e, q) = "next" THEN {} ELSE {q}
        /\ run'[e].fired = run[e].fired
        /\ \A d \in Runs : d # e => run'[d] = run[d]
    <3>1. Step(e, s)
      BY <1>2 DEF Evaluate
    <3> HIDE DEF s
    <3>2. run' \in [Runs -> Evaluations] /\ run'[e] = s /\ \A d \in Runs : d # e => run'[d] = run[d]
      BY <1>a, <2>0, <3>1, OwnStep
    <3> QED
      BY <1>c, <2>1, <3>2 DEF s, Evaluations
  <2> HIDE DEF s
  <2>4. RunsOK'
    BY <1>a, <1>c, <2>1, <2>2 DEF RunsOK
  <2>5. OneHand'
    BY <1>a, <1>c, <2>1, <2>2 DEF OneHand, Holds
  <2>6. ReadAsIs'
    BY <1>a, <1>c, <2>1, <2>2 DEF ReadAsIs, OneHand, Holds
  <2>u. \A r \in Rules \ raced' : (Unmarked(r)' <=> Unmarked(r))
    BY <1>a, <1>c, <2>1, <2>2 DEF Unmarked, OneHand, Holds
  <2>7. Reported'
    <3> SUFFICES ASSUME NEW r \in Rules \ raced' PROVE Shown(r)'
      BY DEF Reported
    <3>1. r \notin raced => Shown(r)
      BY <1>a DEF Reported
    <3>2. \A d \in Runs \ {e} : r \notin raced /\ r \in run[d].rule => ~Holds(e, r)
      BY <1>a DEF OneHand, Holds
    <3>3. r \in run[e].todo /\ r \notin raced => (r \in run[e].fired <=> firing[r])
      BY <1>a DEF ReadAsIs
    <3>4. r = q /\ r \notin raced => ~Unmarked(r)
      BY <2>1, <3>2 DEF Unmarked, Holds
    <3>5. r \notin raced /\ UNCHANGED <<firing, raised>>
      BY <2>1
    <3>6. \A d \in Runs : run'[d].pc = "insert" /\ r \in run'[d].rule => raised[r] = 0
      <4> SUFFICES ASSUME NEW d \in Runs, run'[d].pc = "insert", r \in run'[d].rule
                   PROVE  raised[r] = 0
        OBVIOUS
      <4>1. CASE d # e
        BY <2>2, <3>1, <3>5, <4>1 DEF Shown
      <4>2. CASE d = e
        <5>1. r = q /\ Judged(e, q) = "insert"
          BY <2>2, <4>2
        <5> QED
          BY <2>1, <3>1, <3>3, <3>4, <3>5, <5>1 DEF Shown
      <4> QED
        BY <4>1, <4>2
    <3> QED
      BY <2>u, <3>1, <3>5, <3>6 DEF Shown
  <2> QED
    BY <1>a, <2>1, <2>4, <2>5, <2>6, <2>7
<1>3. ASSUME NEW e \in Runs, NEW q \in Rules, EvaluateRaises(e, q)
      PROVE  /\ firing' \in [Rules -> BOOLEAN] /\ raised' \in [Rules -> Nat]
             /\ webhook' \in BOOLEAN /\ alerts' \in Seq(Rows)
             /\ RunsOK' /\ OneHand' /\ ReadAsIs' /\ Reported'
  <2> DEFINE s == [run[e] EXCEPT !.todo = @ \ {q}]
  <2>1. /\ UNCHANGED <<webhook, firing, alerts, raised, raced>>
        /\ run[e].pc = "next" /\ run[e].rule = {}
    BY <1>a, <1>c, <1>3 DEF EvaluateRaises, world, RunsOK
  <2>0. s \in Evaluations
    BY <1>c, <2>1 DEF Evaluations
  <2>2. /\ run' \in [Runs -> Evaluations]
        /\ run'[e].pc = "next" /\ run'[e].todo = run[e].todo \ {q}
        /\ run'[e].rule = {}
        /\ run'[e].fired = run[e].fired
        /\ \A d \in Runs : d # e => run'[d] = run[d]
    <3>1. Step(e, s)
      BY <1>3 DEF EvaluateRaises
    <3> HIDE DEF s
    <3>2. run' \in [Runs -> Evaluations] /\ run'[e] = s /\ \A d \in Runs : d # e => run'[d] = run[d]
      BY <1>a, <2>0, <3>1, OwnStep
    <3> QED
      BY <1>c, <2>1, <3>2 DEF s, Evaluations
  <2> HIDE DEF s
  <2>4. RunsOK'
    BY <1>a, <1>c, <2>1, <2>2 DEF RunsOK
  <2>5. OneHand'
    BY <1>a, <1>c, <2>1, <2>2 DEF OneHand, Holds
  <2>6. ReadAsIs'
    BY <1>a, <1>c, <2>1, <2>2 DEF ReadAsIs, OneHand, Holds
  <2>u. \A r \in Rules \ raced' : (Unmarked(r)' <=> Unmarked(r))
    BY <1>a, <1>c, <2>1, <2>2 DEF Unmarked, OneHand, Holds
  <2>7. Reported'
    <3> SUFFICES ASSUME NEW r \in Rules \ raced' PROVE Shown(r)'
      BY DEF Reported
    <3>1. r \notin raced => Shown(r)
      BY <1>a DEF Reported
    <3>2. \A d \in Runs \ {e} : r \notin raced /\ r \in run[d].rule => ~Holds(e, r)
      BY <1>a DEF OneHand, Holds
    <3>3. r \in run[e].todo /\ r \notin raced => (r \in run[e].fired <=> firing[r])
      BY <1>a DEF ReadAsIs
    <3> QED
      BY <1>a, <1>c, <2>1, <2>2, <2>u, <3>1, <3>2, <3>3 DEF Shown, Holds
  <2> QED
    BY <1>a, <2>1, <2>4, <2>5, <2>6, <2>7
<1>4. ASSUME NEW e \in Runs, Rearm(e)
      PROVE  /\ firing' \in [Rules -> BOOLEAN] /\ raised' \in [Rules -> Nat]
             /\ webhook' \in BOOLEAN /\ alerts' \in Seq(Rows)
             /\ RunsOK' /\ OneHand' /\ ReadAsIs' /\ Reported'
  <2> DEFINE s == Onward(e)
  <2>1. /\ UNCHANGED <<webhook, alerts>> /\ run[e].pc = "rearm"
        /\ firing' = Cleared(run[e].rule)
        /\ raised' = [r \in Rules |-> IF r \in run[e].rule THEN 0 ELSE raised[r]]
        /\ raced' = (raced \ run[e].rule) \cup Shared(run[e].rule, e)
    BY <1>a, <1>c, <1>4 DEF Rearm, world
  <2>0. s \in Evaluations
    BY <1>c DEF Evaluations, Onward
  <2>2. /\ run' \in [Runs -> Evaluations]
        /\ run'[e].pc = "next" /\ run'[e].todo = run[e].todo
        /\ run'[e].rule = {} /\ run'[e].fired = run[e].fired
        /\ \A d \in Runs : d # e => run'[d] = run[d]
    <3>1. Step(e, s)
      BY <1>4 DEF Rearm
    <3> HIDE DEF s
    <3>2. run' \in [Runs -> Evaluations] /\ run'[e] = s /\ \A d \in Runs : d # e => run'[d] = run[d]
      BY <1>a, <2>0, <3>1, OwnStep
    <3> QED
      BY <1>c, <3>2 DEF s, Evaluations, Onward
  <2> HIDE DEF s
  <2>3. \A r \in Rules :
          firing'[r] = IF r \in run[e].rule THEN FALSE ELSE firing[r]
    BY <2>1 DEF Cleared
  <2>8. firing' \in [Rules -> BOOLEAN]
    BY <1>a, <2>1 DEF Cleared
  <2>9. \A r \in Rules \ raced' :
          /\ r \in run[e].rule => \A d \in Runs \ {e} : ~Holds(d, r)
          /\ r \notin run[e].rule => r \notin raced
    BY <2>1 DEF Shared
  <2>4. RunsOK'
    BY <1>a, <1>c, <2>1, <2>2, <2>3 DEF RunsOK
  <2>5. OneHand'
    BY <1>a, <1>c, <2>1, <2>2, <2>3 DEF OneHand, Holds, Shared
  <2>6. ReadAsIs'
    <3> SUFFICES ASSUME NEW r \in Rules \ raced', NEW d \in Runs,
                        r \in run'[d].todo
                 PROVE  r \in run'[d].fired <=> firing'[r]
      BY DEF ReadAsIs
    <3>1. r \in run[d].todo /\ run'[d].fired = run[d].fired
      BY <2>2
    <3>2. r \notin run[e].rule
      BY <1>c, <2>9, <3>1 DEF Holds
    <3> QED
      BY <1>a, <2>3, <2>9, <3>1, <3>2 DEF ReadAsIs
  <2>u. \A r \in Rules \ raced' : (Unmarked(r)' <=> Unmarked(r))
    BY <1>a, <1>c, <2>1, <2>2 DEF Unmarked, OneHand, Holds, Shared
  <2>7. Reported'
    <3> SUFFICES ASSUME NEW r \in Rules \ raced' PROVE Shown(r)'
      BY DEF Reported
    <3>1. r \notin raced => Shown(r)
      BY <1>a DEF Reported
    <3>2. \A d \in Runs \ {e} : r \notin raced /\ r \in run[d].rule => ~Holds(e, r)
      BY <1>a DEF OneHand, Holds
    <3>3. r \in run[e].todo /\ r \notin raced => (r \in run[e].fired <=> firing[r])
      BY <1>a DEF ReadAsIs
    <3>4. CASE r \in run[e].rule
      <4>1. ~firing'[r] /\ raised'[r] = 0
        BY <2>1, <2>3, <3>4
      <4>2. \A d \in Runs : r \notin run'[d].rule
        BY <2>2, <2>9, <3>4 DEF Holds
      <4> QED
        BY <4>1, <4>2 DEF Shown, Unmarked
    <3>5. CASE r \notin run[e].rule
      <4>1. r \notin raced /\ firing'[r] = firing[r] /\ raised'[r] = raised[r]
        BY <2>1, <2>3, <2>9, <3>5
      <4> QED
        BY <2>2, <2>u, <3>1, <4>1 DEF Shown
    <3> QED
      BY <3>4, <3>5
  <2> QED
    BY <1>a, <2>1, <2>4, <2>5, <2>6, <2>7, <2>8
<1>5. ASSUME NEW e \in Runs, Raise(e)
      PROVE  /\ firing' \in [Rules -> BOOLEAN] /\ raised' \in [Rules -> Nat]
             /\ webhook' \in BOOLEAN /\ alerts' \in Seq(Rows)
             /\ RunsOK' /\ OneHand' /\ ReadAsIs' /\ Reported'
  <2> DEFINE s == [run[e] EXCEPT !.pc = "mark", !.alert = Len(alerts) + 1]
  <2>1. /\ UNCHANGED <<webhook, firing, raced>> /\ run[e].pc = "insert"
        /\ raised' = [r \in Rules |-> IF r \in run[e].rule THEN raised[r] + 1 ELSE raised[r]]
        /\ alerts' = Append(alerts, [rule |-> run[e].rule, delivery |-> "pending"])
    BY <1>a, <1>c, <1>5 DEF Raise, world
  <2>0. s \in Evaluations
    <3>1. Len(alerts) + 1 \in Nat
      BY <1>a, LenProperties
    <3> QED
      BY <1>c, <3>1 DEF Evaluations
  <2>2. /\ run' \in [Runs -> Evaluations]
        /\ run'[e].pc = "mark" /\ run'[e].todo = run[e].todo
        /\ run'[e].rule = run[e].rule /\ run'[e].fired = run[e].fired
        /\ \A d \in Runs : d # e => run'[d] = run[d]
    <3>1. Step(e, s)
      BY <1>5 DEF Raise
    <3> HIDE DEF s
    <3>2. run' \in [Runs -> Evaluations] /\ run'[e] = s /\ \A d \in Runs : d # e => run'[d] = run[d]
      BY <1>a, <2>0, <3>1, OwnStep
    <3> QED
      BY <1>c, <3>2 DEF s, Evaluations
  <2> HIDE DEF s
  <2>3. alerts' \in Seq(Rows)
    <3>1. [rule |-> run[e].rule, delivery |-> "pending"] \in Rows
      BY <1>c DEF Rows
    <3> QED
      BY <1>a, <2>1, <3>1, AppendProperties
  <2>4. RunsOK'
    BY <1>a, <1>c, <2>1, <2>2 DEF RunsOK
  <2>5. OneHand'
    BY <1>a, <1>c, <2>1, <2>2, SMTT(60) DEF OneHand, Holds
  <2>6. ReadAsIs'
    BY <1>a, <1>c, <2>1, <2>2 DEF ReadAsIs, OneHand, Holds
  <2>u. \A r \in Rules \ raced' : (Unmarked(r)' <=> Unmarked(r) \/ r \in run[e].rule)
    BY <1>a, <1>c, <2>1, <2>2 DEF Unmarked, OneHand, Holds
  <2>7. Reported'
    <3> SUFFICES ASSUME NEW r \in Rules \ raced' PROVE Shown(r)'
      BY DEF Reported
    <3>1. r \notin raced => Shown(r)
      BY <1>a DEF Reported
    <3>2. \A d \in Runs \ {e} : r \notin raced /\ r \in run[d].rule => ~Holds(e, r)
      BY <1>a DEF OneHand, Holds
    <3>3. r \in run[e].todo /\ r \notin raced => (r \in run[e].fired <=> firing[r])
      BY <1>a DEF ReadAsIs
    <3> QED
      BY <1>a, <1>c, <2>1, <2>2, <2>u, <3>1, <3>2, <3>3, SMTT(60) DEF Shown, Holds
  <2> QED
    BY <1>a, <2>1, <2>4, <2>5, <2>6, <2>7, <2>3
<1>6. ASSUME NEW e \in Runs, Mark(e)
      PROVE  /\ firing' \in [Rules -> BOOLEAN] /\ raised' \in [Rules -> Nat]
             /\ webhook' \in BOOLEAN /\ alerts' \in Seq(Rows)
             /\ RunsOK' /\ OneHand' /\ ReadAsIs' /\ Reported'
  <2> DEFINE s == [run[e] EXCEPT !.pc = "deliver", !.rule = {}]
  <2>1. /\ UNCHANGED <<webhook, alerts, raised, raced>> /\ run[e].pc = "mark"
        /\ firing' = [r \in Rules |-> r \in run[e].rule \/ firing[r]]
    BY <1>a, <1>c, <1>6 DEF Mark, world
  <2>0. s \in Evaluations
    BY <1>c DEF Evaluations
  <2>2. /\ run' \in [Runs -> Evaluations]
        /\ run'[e].pc = "deliver" /\ run'[e].todo = run[e].todo
        /\ run'[e].rule = {} /\ run'[e].fired = run[e].fired
        /\ \A d \in Runs : d # e => run'[d] = run[d]
    <3>1. Step(e, s)
      BY <1>6 DEF Mark
    <3> HIDE DEF s
    <3>2. run' \in [Runs -> Evaluations] /\ run'[e] = s /\ \A d \in Runs : d # e => run'[d] = run[d]
      BY <1>a, <2>0, <3>1, OwnStep
    <3> QED
      BY <1>c, <3>2 DEF s, Evaluations
  <2> HIDE DEF s
  <2>4. RunsOK'
    BY <1>a, <1>c, <2>1, <2>2 DEF RunsOK
  <2>5. OneHand'
    BY <1>a, <1>c, <2>1, <2>2 DEF OneHand, Holds
  <2>6. ReadAsIs'
    BY <1>a, <1>c, <2>1, <2>2 DEF ReadAsIs, OneHand, Holds
  <2>u. \A r \in Rules \ raced' : (Unmarked(r)' <=> Unmarked(r) /\ r \notin run[e].rule)
    BY <1>a, <1>c, <2>1, <2>2 DEF Unmarked, OneHand, Holds
  <2>7. Reported'
    <3> SUFFICES ASSUME NEW r \in Rules \ raced' PROVE Shown(r)'
      BY DEF Reported
    <3>1. r \notin raced => Shown(r)
      BY <1>a DEF Reported
    <3>2. \A d \in Runs \ {e} : r \notin raced /\ r \in run[d].rule => ~Holds(e, r)
      BY <1>a DEF OneHand, Holds
    <3>3. r \in run[e].todo /\ r \notin raced => (r \in run[e].fired <=> firing[r])
      BY <1>a DEF ReadAsIs
    <3>4. CASE r \in run[e].rule
      <4>1. Unmarked(r) /\ firing'[r]
        BY <2>1, <3>4 DEF Unmarked
      <4>2. raised[r] = 1 /\ r \notin raced
        BY <2>1, <3>1, <4>1 DEF Shown
      <4> QED
        BY <2>1, <2>2, <2>u, <3>1, <4>1, <4>2 DEF Shown
    <3>5. CASE r \notin run[e].rule
      <4>1. r \notin raced /\ (firing'[r] <=> firing[r]) /\ raised'[r] = raised[r]
        BY <2>1, <3>5
      <4> QED
        BY <2>2, <2>u, <3>1, <3>5, <4>1 DEF Shown
    <3> QED
      BY <3>4, <3>5
  <2> QED
    BY <1>a, <2>1, <2>4, <2>5, <2>6, <2>7
<1>7. ASSUME NEW e \in Runs, SendAlert(e)
      PROVE  /\ firing' \in [Rules -> BOOLEAN] /\ raised' \in [Rules -> Nat]
             /\ webhook' \in BOOLEAN /\ alerts' \in Seq(Rows)
             /\ RunsOK' /\ OneHand' /\ ReadAsIs' /\ Reported'
  <2> DEFINE s == Onward(e)
  <2>1. /\ UNCHANGED <<webhook, firing, raised, raced>>
        /\ run[e].pc = "deliver" /\ run[e].rule = {}
    BY <1>a, <1>c, <1>7 DEF SendAlert, world, RunsOK
  <2>0. s \in Evaluations
    BY <1>c DEF Evaluations, Onward
  <2>2. /\ run' \in [Runs -> Evaluations]
        /\ run'[e].pc = "next" /\ run'[e].todo = run[e].todo
        /\ run'[e].rule = {} /\ run'[e].fired = run[e].fired
        /\ \A d \in Runs : d # e => run'[d] = run[d]
    <3>1. Step(e, s)
      BY <1>7 DEF SendAlert
    <3> HIDE DEF s
    <3>2. run' \in [Runs -> Evaluations] /\ run'[e] = s /\ \A d \in Runs : d # e => run'[d] = run[d]
      BY <1>a, <2>0, <3>1, OwnStep
    <3> QED
      BY <1>c, <3>2 DEF s, Evaluations, Onward
  <2> HIDE DEF s
  <2>3. alerts' \in Seq(Rows)
    <3>1. PICK d \in Outcomes(e) :
            alerts' = [alerts EXCEPT ![run[e].alert].delivery = d]
      BY <1>7 DEF SendAlert
    <3>2. d \in {"pending", "sent", "failed", "skipped"}
      BY DEF Outcomes
    <3>3. Len(alerts) \in Nat /\ alerts \in [1..Len(alerts) -> Rows]
      BY <1>a, LenProperties
    <3>4. alerts' \in [1..Len(alerts) -> Rows]
      BY <3>1, <3>2, <3>3 DEF Rows
    <3> QED
      BY <3>3, <3>4, SeqDef
  <2>4. RunsOK'
    BY <1>a, <1>c, <2>1, <2>2 DEF RunsOK
  <2>5. OneHand'
    BY <1>a, <1>c, <2>1, <2>2 DEF OneHand, Holds
  <2>6. ReadAsIs'
    BY <1>a, <1>c, <2>1, <2>2 DEF ReadAsIs, OneHand, Holds
  <2>u. \A r \in Rules \ raced' : (Unmarked(r)' <=> Unmarked(r))
    BY <1>a, <1>c, <2>1, <2>2 DEF Unmarked, OneHand, Holds
  <2>7. Reported'
    <3> SUFFICES ASSUME NEW r \in Rules \ raced' PROVE Shown(r)'
      BY DEF Reported
    <3>1. r \notin raced => Shown(r)
      BY <1>a DEF Reported
    <3>2. \A d \in Runs \ {e} : r \notin raced /\ r \in run[d].rule => ~Holds(e, r)
      BY <1>a DEF OneHand, Holds
    <3>3. r \in run[e].todo /\ r \notin raced => (r \in run[e].fired <=> firing[r])
      BY <1>a DEF ReadAsIs
    <3> QED
      BY <1>a, <1>c, <2>1, <2>2, <2>u, <3>1, <3>2, <3>3 DEF Shown, Holds
  <2> QED
    BY <1>a, <2>1, <2>4, <2>5, <2>6, <2>7, <2>3
<1>8. ASSUME NEW e \in Runs, End(e)
      PROVE  /\ firing' \in [Rules -> BOOLEAN] /\ raised' \in [Rules -> Nat]
             /\ webhook' \in BOOLEAN /\ alerts' \in Seq(Rows)
             /\ RunsOK' /\ OneHand' /\ ReadAsIs' /\ Reported'
  <2> DEFINE s == Idle
  <2>1. /\ UNCHANGED <<webhook, firing, alerts, raised, raced>>
        /\ run[e].pc = "next" /\ run[e].rule = {}
    BY <1>a, <1>c, <1>8 DEF End, world, RunsOK
  <2>0. s \in Evaluations
    BY IdleIsAnEvaluation
  <2>2. /\ run' \in [Runs -> Evaluations]
        /\ run'[e].pc = "idle" /\ run'[e].todo = {}
        /\ run'[e].rule = {} /\ run'[e].fired = {}
        /\ \A d \in Runs : d # e => run'[d] = run[d]
    <3>1. Step(e, s)
      BY <1>8 DEF End
    <3> HIDE DEF s
    <3>2. run' \in [Runs -> Evaluations] /\ run'[e] = s /\ \A d \in Runs : d # e => run'[d] = run[d]
      BY <1>a, <2>0, <3>1, OwnStep
    <3> QED
      BY <1>c, <3>2 DEF s, Evaluations, Idle
  <2> HIDE DEF s
  <2>4. RunsOK'
    BY <1>a, <1>c, <2>1, <2>2 DEF RunsOK
  <2>5. OneHand'
    BY <1>a, <1>c, <2>1, <2>2 DEF OneHand, Holds
  <2>6. ReadAsIs'
    BY <1>a, <1>c, <2>1, <2>2 DEF ReadAsIs, OneHand, Holds
  <2>u. \A r \in Rules \ raced' : (Unmarked(r)' <=> Unmarked(r))
    BY <1>a, <1>c, <2>1, <2>2 DEF Unmarked, OneHand, Holds
  <2>7. Reported'
    <3> SUFFICES ASSUME NEW r \in Rules \ raced' PROVE Shown(r)'
      BY DEF Reported
    <3>1. r \notin raced => Shown(r)
      BY <1>a DEF Reported
    <3>2. \A d \in Runs \ {e} : r \notin raced /\ r \in run[d].rule => ~Holds(e, r)
      BY <1>a DEF OneHand, Holds
    <3>3. r \in run[e].todo /\ r \notin raced => (r \in run[e].fired <=> firing[r])
      BY <1>a DEF ReadAsIs
    <3> QED
      BY <1>a, <1>c, <2>1, <2>2, <2>u, <3>1, <3>2, <3>3 DEF Shown, Holds
  <2> QED
    BY <1>a, <2>1, <2>4, <2>5, <2>6, <2>7
<1>9. ASSUME NEW e \in Runs, Cut(e)
      PROVE  /\ firing' \in [Rules -> BOOLEAN] /\ raised' \in [Rules -> Nat]
             /\ webhook' \in BOOLEAN /\ alerts' \in Seq(Rows)
             /\ RunsOK' /\ OneHand' /\ ReadAsIs' /\ Reported'
  <2> DEFINE s == Idle
  <2>1. /\ UNCHANGED <<webhook, firing, alerts, raised>>
        /\ raced' = raced \cup IF run[e].pc = "mark" THEN run[e].rule ELSE {}
    BY <1>a, <1>c, <1>9 DEF Cut, world
  <2>0. s \in Evaluations
    BY IdleIsAnEvaluation
  <2>2. /\ run' \in [Runs -> Evaluations]
        /\ run'[e].pc = "idle" /\ run'[e].todo = {}
        /\ run'[e].rule = {} /\ run'[e].fired = {}
        /\ \A d \in Runs : d # e => run'[d] = run[d]
    <3>1. Step(e, s)
      BY <1>9 DEF Cut
    <3> HIDE DEF s
    <3>2. run' \in [Runs -> Evaluations] /\ run'[e] = s /\ \A d \in Runs : d # e => run'[d] = run[d]
      BY <1>a, <2>0, <3>1, OwnStep
    <3> QED
      BY <1>c, <3>2 DEF s, Evaluations, Idle
  <2> HIDE DEF s
  <2>4. RunsOK'
    BY <1>a, <1>c, <2>1, <2>2 DEF RunsOK
  <2>5. OneHand'
    BY <1>a, <1>c, <2>1, <2>2 DEF OneHand, Holds
  <2>6. ReadAsIs'
    BY <1>a, <1>c, <2>1, <2>2 DEF ReadAsIs, OneHand, Holds
  <2>u. \A r \in Rules \ raced' : (Unmarked(r)' <=> Unmarked(r))
    BY <1>a, <1>c, <2>1, <2>2 DEF Unmarked, OneHand, Holds
  <2>7. Reported'
    <3> SUFFICES ASSUME NEW r \in Rules \ raced' PROVE Shown(r)'
      BY DEF Reported
    <3>1. r \notin raced => Shown(r)
      BY <1>a DEF Reported
    <3>2. \A d \in Runs \ {e} : r \notin raced /\ r \in run[d].rule => ~Holds(e, r)
      BY <1>a DEF OneHand, Holds
    <3>3. r \in run[e].todo /\ r \notin raced => (r \in run[e].fired <=> firing[r])
      BY <1>a DEF ReadAsIs
    <3> QED
      BY <1>a, <1>c, <2>1, <2>2, <2>u, <3>1, <3>2, <3>3 DEF Shown, Holds
  <2> QED
    BY <1>a, <2>1, <2>4, <2>5, <2>6, <2>7
<1>10. ASSUME NEW q \in Rules, UpdateRule(q)
       PROVE  /\ firing' \in [Rules -> BOOLEAN] /\ raised' \in [Rules -> Nat]
              /\ webhook' \in BOOLEAN /\ alerts' \in Seq(Rows)
              /\ RunsOK' /\ OneHand' /\ ReadAsIs' /\ Reported'
  <2>1. /\ UNCHANGED <<webhook, alerts, run>>
        /\ firing' = Cleared({q}) /\ raised' = [raised EXCEPT ![q] = 0]
        /\ raced' = IF \E e \in Runs : Holds(e, q) THEN raced \cup {q}
                    ELSE raced \ {q}
    BY <1>10 DEF UpdateRule
  <2>2. /\ firing' \in [Rules -> BOOLEAN]
        /\ \A r \in Rules : firing'[r] = IF r = q THEN FALSE ELSE firing[r]
    BY <1>a, <2>1 DEF Cleared
  <2>4. RunsOK'
    BY <1>a, <2>1 DEF RunsOK
  <2>5. OneHand'
    BY <1>a, <2>1 DEF OneHand, Holds
  <2>6. ReadAsIs'
    <3> SUFFICES ASSUME NEW r \in Rules \ raced', NEW d \in Runs,
                        r \in run[d].todo
                 PROVE  r \in run[d].fired <=> firing'[r]
      BY <2>1 DEF ReadAsIs
    <3>1. r # q /\ r \notin raced
      BY <2>1 DEF Holds
    <3> QED
      BY <1>a, <2>2, <3>1 DEF ReadAsIs
  <2>7. Reported'
    <3>1. \A r \in Rules : Unmarked(r)' <=> Unmarked(r)
      BY <2>1 DEF Unmarked
    <3>2. q \notin raced' => \A e \in Runs : ~Holds(e, q)
      BY <2>1
    <3>3. q \notin raced' => ~Unmarked(q)
      BY <3>2 DEF Unmarked, Holds
    <3> QED
      BY <1>a, <2>1, <2>2, <3>1, <3>2, <3>3, ZenonT(60) DEF Reported, Shown, Holds
  <2> QED
    BY <1>a, <2>1, <2>2, <2>4, <2>5, <2>6, <2>7
<1>11. CASE \/ \E r \in Rules : Change(r)
            \/ SetWebhook \/ Suspend \/ UNCHANGED avars
  <2>1. UNCHANGED <<firing, raised, alerts, run, raced>> /\ webhook' \in BOOLEAN
    BY <1>a, <1>11 DEF Change, SetWebhook, Suspend, avars
  <2> QED
    BY <1>a, <2>1 DEF RunsOK, OneHand, ReadAsIs, Reported, Shown, Unmarked, Holds
<1> QED
  BY <1>1, <1>2, <1>3, <1>4, <1>5, <1>6, <1>7, <1>8, <1>9, <1>10, <1>11
     DEF AlertingNext, Proceed

(* A breach and its alert come together, whatever the evaluations, the     *)
(* people and the failures do between the two statements: a second alert   *)
(* or a swallowed breach takes two hands on one rule, or a cut between.    *)
THEOREM AlertsAreTheBreaches == AlertingSpec => []AlertsMatchBreaches
<1>1. AlertingInit => AlertingInv
  <2> SUFFICES ASSUME AlertingInit PROVE AlertingInv
    OBVIOUS
  <2>1. run \in [Runs -> Evaluations]
    BY IdleIsAnEvaluation DEF AlertingInit
  <2>2. alerts \in Seq([rule : SUBSET Rules,
                       delivery : {"pending", "sent", "failed", "skipped"}])
    BY EmptySeq DEF AlertingInit
  <2> QED
    BY <2>1, <2>2 DEF AlertingInit, AlertingInv, RunsOK, OneHand, ReadAsIs,
                      Reported, Shown, Unmarked, Holds, Idle
<1>2. AlertingInv => AlertsMatchBreaches
  BY DEF AlertingInv, Reported, Shown, AlertsMatchBreaches, OneAlertPerBreach,
         QuietIsReported
<1> QED
  BY <1>1, <1>2, AlertingStep, PTL DEF AlertingSpec
=============================================================================
