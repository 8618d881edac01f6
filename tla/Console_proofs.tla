--------------------------- MODULE Console_proofs ---------------------------
(* The safety of the console's requests, for any number of people, roles,  *)
(* prompts and versions: edits of a campaign (ConfigEdits), then the       *)
(* administration of people and roles (Accounts).                          *)
EXTENDS ConfigEdits, Accounts, FiniteSetTheorems, SequenceTheorems, TLAPS

(* What a request that has come to a step has in hand. *)
Sound(r) ==
  /\ r \in Requests \cup {None}
  /\ r.step = "current" => r.text \in Texts /\ r.limit = Unset
  /\ r.step \in {"keep", "trim"} => r.before # Blank
  /\ r.step = "insert" => r.id \in Ids

(* Who is past a check is right about it, or another is past the other one. *)
Guarded ==
  /\ Overlap => raced
  /\ \A e \in Editors : /\ Clearing(e) => ids = {} \/ raced
                        /\ Adding(e) => limited \/ raced
  /\ AskedForIsLimited

IndInv == TypeOK /\ (\A e \in Editors : Sound(req[e])) /\ Guarded

-----------------------------------------------------------------------------
LEMMA NoneIsIdle == None.step = Unset /\ Sound(None)
BY ConfigAssumption DEF None, Sound, Steps, LimitEdits

LEMMA OnwardIsSound ==
  ASSUME NEW before \in Texts, NEW text \in Texts \cup {Unset}
  PROVE  /\ Onward(before, text) \in {"keep", "write"}
         /\ Onward(before, text) = "keep" => before # Blank
BY DEF Onward

(* A step gives its editor's request another value, sound again. *)
LEMMA RequestStep ==
  ASSUME IndInv, NEW e \in Editors, Request(e)
  PROVE  \E r : req' = [req EXCEPT ![e] = r] /\ Sound(r)
<1> USE ConfigAssumption, NoneIsIdle, OnwardIsSound
<1>1. /\ prompt \in Texts /\ versions \in Seq(Texts \ {Blank})
      /\ req \in [Editors -> Requests \cup {None}] /\ Sound(req[e])
  BY DEF IndInv, TypeOK
<1>2. ASSUME NEW text \in Texts \cup {Unset},
             NEW lim \in LimitEdits \cup {Unset}, Patch(e, text, lim)
      PROVE  \E r : req' = [req EXCEPT ![e] = r] /\ Sound(r)
  <2> DEFINE r == [step |-> IF lim = "clear" THEN "guard" ELSE Onward(prompt, text),
                   before |-> prompt, text |-> text, limit |-> lim, id |-> Unset]
  <2>1. Sound(r)
    BY <1>1 DEF Sound, Requests, Steps
  <2> QED
    BY <1>2, <2>1 DEF Patch, Set
<1>3. CASE Guard(e)
  <2>1. CASE MayClear(ids)
    <3> DEFINE r == [req[e] EXCEPT !.step = Onward(req[e].before, req[e].text)]
    <3>1. req[e] \in Requests
      BY <1>1, <1>3 DEF Guard, Steps
    <3>2. Sound(r)
      BY <3>1 DEF Sound, Requests, Steps
    <3> QED
      BY <1>3, <2>1, <3>2 DEF Guard, GoOn
  <2> QED
    BY <1>3, <2>1 DEF Guard, Done, Set
<1>4. CASE Keep(e) \/ Trim(e)
  <2> DEFINE to == IF Keep(e) THEN "trim" ELSE "write"
             r == [req[e] EXCEPT !.step = to]
  <2>1. req[e] \in Requests
    BY <1>1, <1>4 DEF Keep, Trim, Steps
  <2>2. Sound(r)
    BY <1>1, <1>4, <2>1 DEF Sound, Requests, Steps, Keep, Trim
  <2>3. req' = [req EXCEPT ![e] = r]
    BY <1>4 DEF Keep, Trim, GoOn
  <2> QED
    BY <2>2, <2>3
<1>5. CASE Write(e) \/ InsertId(e) \/ Crash(e)
  BY <1>5 DEF Write, InsertId, Crash, Done, Set
<1>6. CASE ReadCurrent(e)
  <2>1. CASE prompt = req[e].text
    BY <1>6, <2>1 DEF ReadCurrent, Done, Set
  <2>2. CASE prompt # req[e].text
    <3> DEFINE r == [req[e] EXCEPT !.before = prompt,
                                   !.step = Onward(prompt, req[e].text)]
    <3>1. req[e] \in Requests
      BY <1>1, <1>6 DEF ReadCurrent, Steps
    <3>2. Sound(r)
      BY <1>1, <3>1 DEF Sound, Requests, Steps
    <3> QED
      BY <1>6, <2>2, <3>2 DEF ReadCurrent, Set
  <2> QED
    BY <2>1, <2>2
<1>7. ASSUME NEW i \in DOMAIN versions, Restore(e, i)
      PROVE  \E r : req' = [req EXCEPT ![e] = r] /\ Sound(r)
  <2> DEFINE r == [None EXCEPT !.step = "current", !.text = versions[i]]
  <2>1. versions[i] \in Texts
    BY <1>1
  <2>2. Sound(r)
    BY <2>1 DEF Sound, Requests, Steps, None
  <2> QED
    BY <1>7, <2>2 DEF Restore, Set
<1>8. ASSUME NEW i \in Ids, AddId(e, i)
      PROVE  \E r : req' = [req EXCEPT ![e] = r] /\ Sound(r)
  <2> DEFINE r == [None EXCEPT !.step = "insert", !.id = i]
  <2>1. Sound(r)
    BY DEF Sound, Requests, Steps, None
  <2> QED
    BY <1>8, <2>1 DEF AddId, Set
<1>9. ASSUME req' = req
      PROVE  \E r : req' = [req EXCEPT ![e] = r] /\ Sound(r)
  BY <1>1, <1>9
<1> QED
  BY <1>2, <1>3, <1>4, <1>5, <1>6, <1>7, <1>8, <1>9
     DEF Request, DeleteVersion, RemoveId

-----------------------------------------------------------------------------
LEMMA VersionsStep ==
  ASSUME IndInv, NEW e \in Editors, Request(e)
  PROVE  versions' \in Seq(Texts \ {Blank})
<1>1. /\ versions \in Seq(Texts \ {Blank})
      /\ req \in [Editors -> Requests \cup {None}] /\ Sound(req[e])
  BY DEF IndInv, TypeOK
<1>2. CASE Keep(e)
  <2>1. req[e] \in Requests /\ req[e].before # Blank
    BY <1>1, <1>2, ConfigAssumption, NoneIsIdle DEF Keep, Sound, Steps
  <2>2. req[e].before \in Texts \ {Blank}
    BY <2>1 DEF Requests
  <2> QED
    BY <1>1, <1>2, <2>2, AppendProperties DEF Keep
<1>3. CASE Trim(e)
  <2>1. Len(versions) \in Nat /\ \A i \in 1..Len(versions) : versions[i] \in Texts \ {Blank}
    BY <1>1
  <2>2. CASE Len(versions) > MaxVersions
    <3> DEFINE m == Len(versions) - MaxVersions + 1
    <3>1. m \in 1..Len(versions)
      BY <2>1, <2>2, ConfigAssumption
    <3>2. \A i \in m..Len(versions) : versions[i] \in Texts \ {Blank}
      BY <2>1, <3>1
    <3>3. SubSeq(versions, m, Len(versions)) \in Seq(Texts \ {Blank})
      <4> HIDE DEF m
      <4> QED
        BY <2>1, <3>1, <3>2, SubSeqProperties
    <3> QED
      BY <1>3, <2>2, <3>3 DEF Trim, Newest
  <2> QED
    BY <1>1, <1>3, <2>2 DEF Trim, Newest
<1>4. ASSUME NEW i \in DOMAIN versions, DeleteVersion(e, i)
      PROVE  versions' \in Seq(Texts \ {Blank})
  <2>1. /\ Len(versions) \in Nat /\ i \in 1..Len(versions)
        /\ \A j \in 1..Len(versions) : versions[j] \in Texts \ {Blank}
    BY <1>1
  <2>2. SubSeq(versions, 1, i - 1) \in Seq(Texts \ {Blank})
    BY <2>1, SubSeqProperties
  <2>3. SubSeq(versions, i + 1, Len(versions)) \in Seq(Texts \ {Blank})
    BY <2>1, SubSeqProperties
  <2> QED
    BY <1>4, <2>2, <2>3, ConcatProperties DEF DeleteVersion
<1>5. ASSUME versions' = versions
      PROVE  versions' \in Seq(Texts \ {Blank})
  BY <1>1, <1>5
<1> QED
  BY <1>2, <1>3, <1>4, <1>5
     DEF Request, Patch, Guard, Write, ReadCurrent, Restore, AddId, RemoveId,
         InsertId, Crash, stored

LEMMA TypeStep ==
  ASSUME IndInv, NEW e \in Editors, Request(e), Observe(e)
  PROVE  TypeOK' /\ \A f \in Editors : Sound(req[f])'
<1> TypeOK /\ ConfigAssumption
  BY ConfigAssumption DEF IndInv
<1>1. PICK r : req' = [req EXCEPT ![e] = r] /\ Sound(r)
  BY RequestStep
<1>2. \A f \in Editors : Sound(req[f])'
  BY <1>1 DEF IndInv, TypeOK, Sound
<1>3. req' \in [Editors -> Requests \cup {None}]
  BY <1>1 DEF TypeOK, Sound
<1>4. prompt' \in Texts /\ limited' \in BOOLEAN
  <2>1. CASE Write(e)
    <3>1. req[e] \in Requests
      BY <2>1, NoneIsIdle DEF TypeOK, Write, ConfigAssumption, Steps
    <3> QED
      BY <2>1, <3>1 DEF Write, TypeOK, Requests
  <2>2. CASE prompt' = prompt /\ limited' = limited
    BY <2>2 DEF TypeOK
  <2> QED
    BY <2>1, <2>2 DEF Request, Patch, Guard, Keep, Trim, ReadCurrent, Restore,
       DeleteVersion, AddId, RemoveId, InsertId, Crash, stored
<1>5. ids' \subseteq Ids
  <2>1. CASE InsertId(e)
    BY <2>1 DEF InsertId, TypeOK, IndInv, Sound
  <2>2. CASE ids' \subseteq ids
    BY <2>2 DEF TypeOK
  <2> QED
    BY <2>1, <2>2 DEF Request, Patch, Guard, Keep, Trim, Write, ReadCurrent,
       Restore, DeleteVersion, AddId, RemoveId, Crash, stored
<1>6. crashes' \in 0..MaxCrashes
  <2>1. CASE Crash(e)
    BY <2>1 DEF Crash, TypeOK, ConfigAssumption
  <2>2. CASE crashes' = crashes
    BY <2>2 DEF TypeOK
  <2> QED
    BY <2>1, <2>2 DEF Request, Patch, Guard, Keep, Trim, Write, ReadCurrent,
       Restore, DeleteVersion, AddId, RemoveId, InsertId
<1>7. removed' \subseteq Texts
  <2>1. ASSUME NEW i \in DOMAIN versions, DeleteVersion(e, i)
        PROVE  removed' \subseteq Texts
    <3>1. versions[i] \in Texts
      BY DEF TypeOK
    <3> QED
      BY <2>1, <3>1 DEF DeleteVersion, TypeOK
  <2>2. ASSUME removed' = removed
        PROVE  removed' \subseteq Texts
    BY <2>2 DEF TypeOK
  <2> QED
    BY <2>1, <2>2 DEF Request, Patch, Guard, Keep, Trim, Write, ReadCurrent,
       Restore, AddId, RemoveId, InsertId, Crash
<1>8. overtaken' \subseteq Editors
  BY DEF Observe, AtWork
<1>9. raced' \in BOOLEAN
  BY DEF Observe, TypeOK
<1> QED
  BY <1>2, <1>3, <1>4, <1>5, <1>6, <1>7, <1>8, <1>9, VersionsStep DEF TypeOK

-----------------------------------------------------------------------------
(* Only his own step brings an editor past a check. *)
LEMMA OthersStay ==
  ASSUME IndInv, NEW e \in Editors, Request(e),
         NEW f \in Editors, f # e
  PROVE  req'[f] = req[f]
BY RequestStep DEF IndInv, TypeOK

LEMMA DoneIsIdle ==
  ASSUME IndInv, NEW e \in Editors, Done(e)
  PROVE  ~Clearing(e)' /\ ~Adding(e)'
<1>1. req'[e] = None
  BY DEF Done, Set, IndInv, TypeOK
<1> QED
  BY <1>1, NoneIsIdle, ConfigAssumption DEF Clearing, Adding, Steps

LEMMA ClearingStep ==
  ASSUME IndInv, NEW e \in Editors, Request(e), Clearing(e)'
  PROVE  ids = {} \/ raced
<1> USE ConfigAssumption, NoneIsIdle
<1>1. /\ req \in [Editors -> Requests \cup {None}] /\ Sound(req[e])
      /\ Clearing(e) => ids = {} \/ raced
  BY DEF IndInv, TypeOK, Guarded
<1>2. ASSUME NEW text \in Texts \cup {Unset},
             NEW lim \in LimitEdits \cup {Unset}, Patch(e, text, lim)
      PROVE  FALSE
  <2>1. req'[e].limit = lim
        /\ req'[e].step = IF lim = "clear" THEN "guard" ELSE Onward(prompt, text)
    BY <1>1, <1>2 DEF Patch, Set
  <2> QED
    BY <2>1 DEF Clearing
<1>3. CASE Guard(e)
  BY <1>3, DoneIsIdle DEF Guard, MayClear
<1>4. CASE Keep(e) \/ Trim(e)
  <2>1. req[e].limit = req'[e].limit /\ req[e].step \in {"keep", "trim"}
    BY <1>1, <1>4 DEF Keep, Trim, GoOn, Requests, Steps
  <2> QED
    BY <1>1, <2>1 DEF Clearing
<1>5. CASE Write(e) \/ InsertId(e) \/ Crash(e)
  BY <1>5, DoneIsIdle DEF Write, InsertId, Crash
<1>6. CASE ReadCurrent(e)
  <2>1. req[e] \in Requests /\ req[e].limit = Unset
    BY <1>1, <1>6 DEF ReadCurrent, Sound, Steps
  <2>2. CASE prompt = req[e].text
    BY <1>6, <2>2, DoneIsIdle DEF ReadCurrent
  <2>3. CASE prompt # req[e].text
    <3>1. req'[e] = [req[e] EXCEPT !.before = prompt,
                                   !.step = Onward(prompt, req[e].text)]
      BY <1>1, <1>6, <2>3 DEF ReadCurrent, Set
    <3>2. req'[e].limit = Unset
      BY <2>1, <3>1 DEF Requests
    <3> QED
      BY <3>2 DEF Clearing, LimitEdits
  <2> QED
    BY <2>2, <2>3
<1>7. ASSUME NEW i \in DOMAIN versions, Restore(e, i)
      PROVE  FALSE
  <2>1. req'[e].step = "current"
    BY <1>1, <1>7 DEF Restore, Set, None
  <2> QED
    BY <2>1 DEF Clearing
<1>8. ASSUME NEW i \in Ids, AddId(e, i)
      PROVE  FALSE
  <2>1. req'[e].step = "insert"
    BY <1>1, <1>8 DEF AddId, Set, None
  <2> QED
    BY <2>1 DEF Clearing
<1>9. ASSUME req' = req
      PROVE  ids = {} \/ raced
  BY <1>1, <1>9 DEF Clearing
<1> QED
  BY <1>2, <1>3, <1>4, <1>5, <1>6, <1>7, <1>8, <1>9
     DEF Request, DeleteVersion, RemoveId

LEMMA AddingStep ==
  ASSUME IndInv, NEW e \in Editors, Request(e), Adding(e)'
  PROVE  limited \/ raced
<1> USE ConfigAssumption, NoneIsIdle
<1>1. /\ req \in [Editors -> Requests \cup {None}] /\ Sound(req[e])
      /\ Adding(e) => limited \/ raced
  BY DEF IndInv, TypeOK, Guarded
<1>2. ASSUME NEW text \in Texts \cup {Unset},
             NEW lim \in LimitEdits \cup {Unset}, Patch(e, text, lim)
      PROVE  FALSE
  <2>1. req'[e].step = IF lim = "clear" THEN "guard" ELSE Onward(prompt, text)
    BY <1>1, <1>2 DEF Patch, Set
  <2> QED
    BY <2>1 DEF Adding, Onward
<1>3. CASE Guard(e)
  <2>1. CASE MayClear(ids)
    <3>1. req[e] \in Requests
      BY <1>1, <1>3 DEF Guard, Steps
    <3>2. req'[e].step \in {"keep", "write"}
      BY <1>1, <1>3, <2>1, <3>1 DEF Guard, GoOn, Onward, Requests
    <3> QED
      BY <3>2 DEF Adding
  <2> QED
    BY <1>3, <2>1, DoneIsIdle DEF Guard
<1>4. CASE Keep(e) \/ Trim(e)
  BY <1>1, <1>4 DEF Keep, Trim, GoOn, Requests, Steps, Adding
<1>5. CASE Write(e) \/ InsertId(e) \/ Crash(e)
  BY <1>5, DoneIsIdle DEF Write, InsertId, Crash
<1>6. CASE ReadCurrent(e)
  <2>1. CASE prompt = req[e].text
    BY <1>6, <2>1, DoneIsIdle DEF ReadCurrent
  <2>2. CASE prompt # req[e].text
    <3>1. req[e] \in Requests
      BY <1>1, <1>6 DEF ReadCurrent, Steps
    <3>2. req'[e] = [req[e] EXCEPT !.before = prompt,
                                   !.step = Onward(prompt, req[e].text)]
      BY <1>1, <1>6, <2>2 DEF ReadCurrent, Set
    <3>3. req'[e].step \in {"keep", "write"}
      BY <3>1, <3>2 DEF Onward, Requests
    <3> QED
      BY <3>3 DEF Adding
  <2> QED
    BY <2>1, <2>2
<1>7. ASSUME NEW i \in DOMAIN versions, Restore(e, i)
      PROVE  FALSE
  <2>1. req'[e].step = "current"
    BY <1>1, <1>7 DEF Restore, Set, None
  <2> QED
    BY <2>1 DEF Adding
<1>8. ASSUME NEW i \in Ids, AddId(e, i)
      PROVE  limited
  BY <1>8 DEF AddId
<1>9. ASSUME req' = req
      PROVE  limited \/ raced
  BY <1>1, <1>9 DEF Adding
<1> QED
  BY <1>2, <1>3, <1>4, <1>5, <1>6, <1>7, <1>8, <1>9
     DEF Request, DeleteVersion, RemoveId

(* The ids and the limit change in two steps, each by who was past a check. *)
LEMMA GuardStep ==
  ASSUME IndInv, NEW e \in Editors, Request(e), Observe(e)
  PROVE  Guarded'
<1>1. /\ \A f \in Editors : /\ Clearing(f) => ids = {} \/ raced
                            /\ Adding(f) => limited \/ raced
      /\ AskedForIsLimited /\ (Overlap => raced)
  BY DEF IndInv, Guarded
<1>2. raced' = (raced \/ Overlap')
  BY DEF Observe
<1>3. SUFFICES ASSUME ~raced, ~Overlap', ~raced'
               PROVE  Guarded'
  BY <1>2 DEF Guarded, AskedForIsLimited
<1>4. \A f \in Editors : /\ Clearing(f)' => ids = {}
                         /\ Adding(f)' => limited
  <2>1. ASSUME NEW f \in Editors, f # e
        PROVE  (Clearing(f)' <=> Clearing(f)) /\ (Adding(f)' <=> Adding(f))
    BY <2>1, OthersStay DEF Clearing, Adding
  <2> QED
    BY <1>1, <1>3, <2>1, ClearingStep, AddingStep
<1>5. CASE Write(e) /\ req[e].limit = "clear"
  <2>1. Clearing(e) /\ limited' = FALSE /\ ids' = ids
    BY <1>5, ConfigAssumption DEF Write, Clearing, LimitEdits
  <2>2. \A f \in Editors : ~Adding(f)'
    <3>1. ~Adding(e)'
      BY <1>5, DoneIsIdle DEF Write
    <3>2. ASSUME NEW f \in Editors, f # e PROVE ~Adding(f)'
      <4>1. ~Adding(f)
        BY <1>1, <1>3, <2>1 DEF Overlap
      <4> QED
        BY <4>1, <3>2, OthersStay DEF Adding
    <3> QED
      BY <3>1, <3>2
  <2> QED
    BY <1>1, <1>3, <1>4, <2>1, <2>2 DEF Guarded, AskedForIsLimited
<1>6. CASE InsertId(e)
  <2>1. Adding(e) /\ limited' = limited
    BY <1>6 DEF InsertId, Adding
  <2>2. \A f \in Editors : ~Clearing(f)'
    <3>1. ~Clearing(e)'
      BY <1>6, DoneIsIdle DEF InsertId
    <3>2. ASSUME NEW f \in Editors, f # e PROVE ~Clearing(f)'
      <4>1. ~Clearing(f)
        BY <1>1, <1>3, <2>1 DEF Overlap
      <4> QED
        BY <4>1, <3>2, OthersStay DEF Clearing
    <3> QED
      BY <3>1, <3>2
  <2> QED
    BY <1>1, <1>3, <1>4, <2>1, <2>2 DEF Guarded, AskedForIsLimited
<1>7. CASE ids' \subseteq ids /\ (limited => limited')
  BY <1>1, <1>3, <1>4, <1>7 DEF Guarded, AskedForIsLimited
<1> QED
  <2>1. CASE Write(e)
    <3>1. CASE req[e].limit # "clear"
      <4>1. req[e].limit \in {"set", Unset}
        BY <2>1, <3>1, NoneIsIdle, ConfigAssumption
           DEF Write, IndInv, TypeOK, Requests, LimitEdits, Steps
      <4>2. ids' = ids /\ (limited => limited')
        BY <2>1, <4>1 DEF Write
      <4> QED
        BY <1>7, <4>2
    <3> QED
      BY <1>5, <2>1, <3>1
  <2>2. CASE \E i \in Ids : RemoveId(e, i)
    BY <1>7, <2>2 DEF RemoveId
  <2>3. CASE ids' = ids /\ limited' = limited
    BY <1>7, <2>3
  <2> QED
    BY <1>6, <2>1, <2>2, <2>3
       DEF Request, Patch, Guard, Keep, Trim, ReadCurrent, Restore,
           DeleteVersion, AddId, Crash, stored

LEMMA InvInit ==
  ASSUME Init
  PROVE  IndInv
<1>1. \A e \in Editors : req[e] = None
  BY DEF Init
<1>2. \A e \in Editors : ~Clearing(e) /\ ~Adding(e)
  BY <1>1, NoneIsIdle, ConfigAssumption DEF Clearing, Adding, Steps
<1>3. versions \in Seq(Texts \ {Blank})
  <2>1. CASE versions = <<>>
    BY <2>1
  <2>2. ASSUME NEW text \in {prompt} \ {Blank}, versions = <<text>>
        PROVE  versions \in Seq(Texts \ {Blank})
    <3>1. text \in Texts \ {Blank}
      BY DEF Init
    <3> QED
      BY <2>2, <3>1
  <2> QED
    BY <2>1, <2>2 DEF Init
<1>4. TypeOK
  <2>1. req \in [Editors -> Requests \cup {None}]
    BY DEF Init
  <2>2. crashes \in 0..MaxCrashes
    BY ConfigAssumption DEF Init
  <2>3. raced \in BOOLEAN /\ limited \in BOOLEAN
    BY DEF Init
  <2>4. /\ prompt \in Texts /\ ids \subseteq Ids
        /\ removed \subseteq Texts /\ overtaken \subseteq Editors
    BY DEF Init
  <2> QED
    BY <1>3, <2>1, <2>2, <2>3, <2>4 DEF TypeOK
<1>5. \A e \in Editors : Sound(req[e])
  BY <1>1, NoneIsIdle
<1>6. Guarded
  BY <1>2 DEF Init, Guarded, Overlap, AskedForIsLimited
<1> QED
  BY <1>4, <1>5, <1>6 DEF IndInv

LEMMA InvStep ==
  ASSUME IndInv, [Next]_vars
  PROVE  IndInv'
<1>1. ASSUME NEW e \in Editors, Request(e), Observe(e) PROVE IndInv'
  BY <1>1, TypeStep, GuardStep DEF IndInv
<1>2. CASE UNCHANGED vars
  BY <1>2 DEF vars, IndInv, TypeOK, Guarded, Overlap, Clearing, Adding,
              AskedForIsLimited
<1> QED
  BY <1>1, <1>2 DEF Next

(* For any number of people, who edits, adds and clears prompts and        *)
(* versions at once stays within IndInv: nobody is past a check that no    *)
(* longer holds, unless two of them overlapped (routers/agent_config.py).  *)
THEOREM Inductive == Spec => []IndInv
BY InvInit, InvStep, PTL DEF Spec

(* The variables keep their types: no version is blank, and no request     *)
(* that has come to a step lacks what the step uses.                       *)
THEOREM TypeCorrect == Spec => []TypeOK
BY Inductive, PTL DEF IndInv

(* The guard in both directions, update_config and add_dialler_id: only a  *)
(* clear and an add that overlap leave the dialler without a limit.        *)
THEOREM GuardHolds == Spec => []AskedForIsLimited
<1>1. IndInv => AskedForIsLimited
  BY DEF IndInv, Guarded
<1> QED
  BY <1>1, Inductive, PTL

-----------------------------------------------------------------------------
(* The list of versions: a request that adds one owes a cut until it made it *)
(* or died.                                                                  *)
LEMMA TrimmingIsFinite ==
  /\ IsFiniteSet(Trimming) /\ Cardinality(Trimming) \in Nat
  /\ IsFiniteSet(Trimming') /\ Cardinality(Trimming') \in Nat
<1>1. Trimming \in SUBSET Editors /\ Trimming' \in SUBSET Editors
  BY DEF Trimming
<1>2. IsFiniteSet(Trimming) /\ IsFiniteSet(Trimming')
  BY <1>1, FS_Subset, ConfigAssumption DEF ConfigAssumption
<1> QED
  BY <1>2, FS_CardinalityType

LEMMA MoreTrimming ==
  ASSUME Trimming \subseteq Trimming'
  PROVE  Cardinality(Trimming) <= Cardinality(Trimming')
<1>1. Trimming \in SUBSET Trimming'
  OBVIOUS
<1> QED
  BY <1>1, TrimmingIsFinite, FS_Subset

LEMMA OthersTrim ==
  ASSUME IndInv, NEW e \in Editors, Request(e)
  PROVE  Trimming \ {e} \subseteq Trimming'
BY OthersStay DEF Trimming

LEMMA KeepOwes ==
  ASSUME IndInv, NEW e \in Editors, Request(e), Keep(e), VersionsAreBounded
  PROVE  VersionsAreBounded'
<1>1. req[e] \in Requests /\ req[e].before \in Texts \ {Blank}
      /\ versions \in Seq(Texts \ {Blank}) /\ crashes \in Nat
  BY NoneIsIdle, ConfigAssumption
     DEF Keep, IndInv, TypeOK, Sound, Steps, Requests
<1>2. Len(versions') = Len(versions) + 1
  BY <1>1, AppendProperties DEF Keep
<1>3. e \notin Trimming /\ e \in Trimming'
  BY <1>1 DEF Keep, GoOn, Trimming, IndInv, TypeOK, Requests
<1>4. Trimming \cup {e} \in SUBSET Trimming'
  BY <1>3, OthersTrim
<1>5. /\ Cardinality(Trimming \cup {e}) = Cardinality(Trimming) + 1
      /\ Cardinality(Trimming \cup {e}) <= Cardinality(Trimming')
  BY <1>3, <1>4, TrimmingIsFinite, FS_AddElement, FS_Subset
<1>6. crashes' = crashes /\ Len(versions) \in Nat
  BY <1>1 DEF Keep
<1> QED
  BY <1>1, <1>2, <1>5, <1>6, TrimmingIsFinite, ConfigAssumption
     DEF VersionsAreBounded

LEMMA TrimPays ==
  ASSUME IndInv, NEW e \in Editors, Trim(e)
  PROVE  VersionsAreBounded'
<1>1. Len(versions) \in Nat /\ crashes \in Nat /\ crashes' = crashes
  BY ConfigAssumption DEF Trim, IndInv, TypeOK
<1>2. Len(versions') <= MaxVersions /\ Len(versions') \in Nat
  <2>1. CASE Len(versions) > MaxVersions
    <3> DEFINE m == Len(versions) - MaxVersions + 1
    <3>1. m \in 1..Len(versions) /\ Len(versions) - m + 1 = MaxVersions
      BY <1>1, <2>1, ConfigAssumption
    <3>2. \A i \in m..Len(versions) : versions[i] \in Texts \ {Blank}
      BY <3>1 DEF IndInv, TypeOK
    <3>3. Len(SubSeq(versions, m, Len(versions))) = Len(versions) - m + 1
      <4> HIDE DEF m
      <4> QED
        BY <1>1, <3>1, <3>2, SubSeqProperties
    <3> QED
      BY <2>1, <3>1, <3>3, ConfigAssumption DEF Trim, Newest
  <2> QED
    BY <1>1, <2>1, ConfigAssumption DEF Trim, Newest
<1> QED
  BY <1>1, <1>2, TrimmingIsFinite, ConfigAssumption DEF VersionsAreBounded

LEMMA CrashIsCounted ==
  ASSUME IndInv, NEW e \in Editors, Request(e), Crash(e), VersionsAreBounded
  PROVE  VersionsAreBounded'
<1>1. Len(versions) \in Nat /\ crashes \in Nat
  BY ConfigAssumption DEF IndInv, TypeOK
<1>2. crashes' = crashes + 1 /\ Len(versions') = Len(versions)
  BY DEF Crash, stored
<1>3. Trimming \ {e} \in SUBSET Trimming'
  BY OthersTrim
<1>4. /\ Cardinality(Trimming \ {e}) >= Cardinality(Trimming) - 1
      /\ Cardinality(Trimming \ {e}) \in Nat
      /\ Cardinality(Trimming \ {e}) <= Cardinality(Trimming')
  <2>1. /\ IsFiniteSet(Trimming \ {e})
        /\ Cardinality(Trimming \ {e}) =
             IF e \in Trimming THEN Cardinality(Trimming) - 1
                               ELSE Cardinality(Trimming)
    BY TrimmingIsFinite, FS_RemoveElement
  <2>2. Cardinality(Trimming \ {e}) \in Nat
    BY <2>1, FS_CardinalityType
  <2>3. Cardinality(Trimming \ {e}) <= Cardinality(Trimming')
    BY <1>3, TrimmingIsFinite, FS_Subset
  <2> QED
    BY <2>1, <2>2, <2>3, TrimmingIsFinite
<1> QED
  BY <1>1, <1>2, <1>4, TrimmingIsFinite, ConfigAssumption
     DEF VersionsAreBounded

LEMMA NoneLonger ==
  ASSUME IndInv, NEW e \in Editors, Request(e), VersionsAreBounded,
         e \notin Trimming, crashes' = crashes,
         Len(versions') \in Nat, Len(versions') <= Len(versions)
  PROVE  VersionsAreBounded'
<1>1. Len(versions) \in Nat /\ crashes \in Nat
  BY ConfigAssumption DEF IndInv, TypeOK
<1>2. Trimming \subseteq Trimming'
  BY OthersTrim
<1> QED
  BY <1>1, <1>2, MoreTrimming, TrimmingIsFinite, ConfigAssumption
     DEF VersionsAreBounded

LEMMA BoundStep ==
  ASSUME IndInv, [Next]_vars, VersionsAreBounded
  PROVE  VersionsAreBounded'
<1>1. Len(versions) \in Nat
  BY DEF IndInv, TypeOK
<1>2. ASSUME NEW e \in Editors, Request(e)
      PROVE  VersionsAreBounded'
  <2>1. ASSUME NEW i \in DOMAIN versions, DeleteVersion(e, i)
        PROVE  VersionsAreBounded'
    <3>1. i \in 1..Len(versions)
          /\ \A j \in 1..Len(versions) : versions[j] \in Texts \ {Blank}
      BY DEF IndInv, TypeOK
    <3>2. /\ SubSeq(versions, 1, i - 1) \in Seq(Texts \ {Blank})
          /\ Len(SubSeq(versions, 1, i - 1)) = i - 1
      BY <1>1, <3>1, SubSeqProperties
    <3>3. /\ SubSeq(versions, i + 1, Len(versions)) \in Seq(Texts \ {Blank})
          /\ Len(SubSeq(versions, i + 1, Len(versions))) = Len(versions) - i
      BY <1>1, <3>1, SubSeqProperties
    <3>4. Len(versions') = i - 1 + (Len(versions) - i)
      BY <2>1, <3>2, <3>3, ConcatProperties DEF DeleteVersion
    <3>5. Len(versions') \in Nat /\ Len(versions') <= Len(versions)
      BY <1>1, <3>1, <3>4
    <3>6. e \notin Trimming /\ crashes' = crashes
      BY <2>1, ConfigAssumption DEF DeleteVersion, Trimming, Idle, Steps
    <3> QED
      BY <1>2, <3>5, <3>6, NoneLonger
  <2>2. ASSUME versions' = versions, e \notin Trimming, crashes' = crashes
        PROVE  VersionsAreBounded'
    BY <1>1, <1>2, <2>2, NoneLonger
  <2>3. ASSUME Idle(e) PROVE e \notin Trimming
    BY <2>3, ConfigAssumption DEF Idle, Trimming, Steps
  <2>4. CASE Guard(e) \/ Write(e) \/ ReadCurrent(e) \/ InsertId(e)
    BY <2>2, <2>4 DEF Guard, Write, ReadCurrent, InsertId, stored, Trimming
  <2>5. ASSUME NEW text \in Texts \cup {Unset},
               NEW lim \in LimitEdits \cup {Unset}, Patch(e, text, lim)
        PROVE  VersionsAreBounded'
    BY <2>2, <2>3, <2>5 DEF Patch, stored
  <2>6. ASSUME NEW i \in DOMAIN versions, Restore(e, i)
        PROVE  VersionsAreBounded'
    BY <2>2, <2>3, <2>6 DEF Restore, stored
  <2>7. ASSUME NEW i \in Ids, AddId(e, i) \/ RemoveId(e, i)
        PROVE  VersionsAreBounded'
    BY <2>2, <2>3, <2>7 DEF AddId, RemoveId, stored
  <2> QED
    BY <1>2, <2>1, <2>4, <2>5, <2>6, <2>7, KeepOwes, TrimPays, CrashIsCounted
       DEF Request
<1>3. CASE UNCHANGED vars
  BY <1>3 DEF vars, VersionsAreBounded, Trimming
<1> QED
  BY <1>2, <1>3 DEF Next

(* _keep_version: no order of requests makes the list longer than its cap  *)
(* by more than those between their insert and their cut, or dead there.   *)
THEOREM ListIsBounded == Spec => []VersionsAreBounded
<1>1. ASSUME Init
      PROVE  VersionsAreBounded
  <2>1. versions \in Seq(Texts \ {Blank}) /\ crashes = 0
    BY <1>1, InvInit DEF Init, IndInv, TypeOK
  <2>2. Len(versions) \in Nat /\ Len(versions) <= 1
    <3>1. CASE versions = <<>>
      BY <3>1
    <3>2. ASSUME NEW text, versions = <<text>>
          PROVE  Len(versions) \in Nat /\ Len(versions) <= 1
      BY <3>2
    <3> QED
      BY <1>1, <3>1, <3>2 DEF Init
  <2> QED
    BY <2>1, <2>2, TrimmingIsFinite, ConfigAssumption DEF VersionsAreBounded
<1>2. IndInv /\ VersionsAreBounded /\ [Next]_vars => VersionsAreBounded'
  BY BoundStep
<1> QED
  BY <1>1, <1>2, Inductive, PTL DEF Spec

-----------------------------------------------------------------------------
(* The texts that are replaced. *)

(* A step of f leaves the requests of others alone, and moves his own on.  *)
LEMMA MovesOn ==
  ASSUME IndInv, NEW f \in Editors, Request(f)
  PROVE  /\ \A g \in Editors \ {f} : req'[g] = req[g]
         /\ \/ req'[f].step \notin {"guard", "keep", "trim", "write"}
            \/ /\ Idle(f) /\ req'[f].before = prompt
               /\ \/ req'[f].step = "guard"
                  \/ req'[f].step = Onward(prompt, req'[f].text)
            \/ /\ Guard(f) /\ req'[f].before = req[f].before
               /\ req'[f].text = req[f].text
               /\ req'[f].step = Onward(req[f].before, req[f].text)
            \/ /\ Keep(f) /\ req'[f].step = "trim"
               /\ req'[f].before = req[f].before
            \/ /\ Trim(f) /\ req'[f].step = "write"
               /\ req'[f].before = req[f].before
            \/ /\ ReadCurrent(f) /\ req'[f].before = prompt
               /\ req'[f].step = Onward(prompt, req'[f].text)
            \/ req' = [req EXCEPT ![f] = req[f]]
<1> USE ConfigAssumption
<1>1. req \in [Editors -> Requests \cup {None}]
  BY DEF IndInv, TypeOK
<1>2. \A g \in Editors \ {f} : req'[g] = req[g]
  BY OthersStay
<1>3. ASSUME Done(f)
      PROVE  req'[f].step \notin {"guard", "keep", "trim", "write"}
  BY <1>1, <1>3, NoneIsIdle DEF Done, Set, Steps
<1>4. ASSUME NEW text \in Texts \cup {Unset},
             NEW lim \in LimitEdits \cup {Unset}, Patch(f, text, lim)
      PROVE  /\ Idle(f) /\ req'[f].before = prompt
             /\ \/ req'[f].step = "guard"
                \/ req'[f].step = Onward(prompt, req'[f].text)
  BY <1>1, <1>4 DEF Patch, Set
<1>5. ASSUME req[f].step \in Steps
      PROVE  req[f] \in Requests
  BY <1>1, <1>5, NoneIsIdle
<1>6. CASE Guard(f)
  <2>1. CASE MayClear(ids)
    <3>1. req' = [req EXCEPT ![f].step = Onward(req[f].before, req[f].text)]
      BY <1>6, <2>1 DEF Guard, GoOn
    <3>2. req[f] \in Requests
      BY <1>5, <1>6 DEF Guard, Steps
    <3> QED
      BY <1>1, <1>2, <1>6, <3>1, <3>2 DEF Requests
  <2>2. CASE ~MayClear(ids)
    BY <1>2, <1>3, <1>6, <2>2 DEF Guard
  <2> QED
    BY <2>1, <2>2
<1>7. CASE Keep(f)
  <2>1. req[f] \in Requests
    BY <1>5, <1>7 DEF Keep, Steps
  <2> QED
    BY <1>1, <1>2, <1>7, <2>1 DEF Keep, GoOn, Requests
<1>8. CASE Trim(f)
  <2>1. req[f] \in Requests
    BY <1>5, <1>8 DEF Trim, Steps
  <2> QED
    BY <1>1, <1>2, <1>8, <2>1 DEF Trim, GoOn, Requests
<1>9. CASE Write(f) \/ InsertId(f) \/ Crash(f)
  BY <1>2, <1>3, <1>9 DEF Write, InsertId, Crash
<1>10. CASE ReadCurrent(f)
  <2>1. CASE prompt = req[f].text
    BY <1>2, <1>3, <1>10, <2>1 DEF ReadCurrent
  <2>2. CASE prompt # req[f].text
    <3>1. req[f] \in Requests
      BY <1>5, <1>10 DEF ReadCurrent, Steps
    <3>2. req' = [req EXCEPT ![f] = [req[f] EXCEPT !.before = prompt,
                                     !.step = Onward(prompt, req[f].text)]]
      BY <1>10, <2>2 DEF ReadCurrent, Set
    <3> QED
      BY <1>1, <1>2, <1>10, <3>1, <3>2 DEF Requests
  <2> QED
    BY <2>1, <2>2
<1>11. ASSUME NEW i \in DOMAIN versions, Restore(f, i)
       PROVE  req'[f].step = "current"
  BY <1>1, <1>11 DEF Restore, Set, None
<1>12. ASSUME NEW i \in Ids, AddId(f, i)
       PROVE  req'[f].step = "insert"
  BY <1>1, <1>12 DEF AddId, Set, None
<1>13. ASSUME req' = req
       PROVE  req' = [req EXCEPT ![f] = req[f]]
  BY <1>1, <1>13
<1> QED
  BY <1>2, <1>4, <1>6, <1>7, <1>8, <1>9, <1>10, <1>11, <1>12, <1>13
     DEF Request, DeleteVersion, RemoveId

(* While the prompt stays, nobody becomes late, and who keeps a text that  *)
(* is not the prompt any more is late no longer.                           *)
LEMMA FewerLate ==
  ASSUME IndInv, NEW f \in Editors, Request(f), prompt' = prompt
  PROVE  /\ IsFiniteSet(Late) /\ IsFiniteSet(Late')
         /\ Cardinality(Late) \in Nat /\ Cardinality(Late') \in Nat
         /\ Cardinality(Late') <= Cardinality(Late)
         /\ Keep(f) /\ req[f].before # prompt
              => Cardinality(Late') + 1 <= Cardinality(Late)
<1>1. IsFiniteSet(Late) /\ IsFiniteSet(Late')
  BY ConfigAssumption, FS_Subset DEF Late
<1>2. Cardinality(Late) \in Nat /\ Cardinality(Late') \in Nat
  BY <1>1, FS_CardinalityType
<1>3. Late' \subseteq Late
  <2> SUFFICES ASSUME NEW g \in Late' PROVE g \in Late
    OBVIOUS
  <2>1. /\ g \in Editors /\ req'[g].step \in {"guard", "keep"}
        /\ req'[g].before # prompt
    BY DEF Late
  <2>2. CASE g # f
    BY <2>1, <2>2, MovesOn DEF Late
  <2>3. CASE g = f
    <3>1. \/ Guard(f) /\ req'[f].before = req[f].before
          \/ req' = [req EXCEPT ![f] = req[f]]
      BY <2>1, <2>3, MovesOn
    <3>2. req \in [Editors -> Requests \cup {None}]
      BY DEF IndInv, TypeOK
    <3> QED
      BY <2>1, <2>3, <3>1, <3>2 DEF Late, Guard
  <2> QED
    BY <2>2, <2>3
<1>4. Cardinality(Late') <= Cardinality(Late)
  BY <1>1, <1>3, FS_Subset
<1>5. ASSUME Keep(f), req[f].before # prompt
      PROVE  Cardinality(Late') + 1 <= Cardinality(Late)
  <2>1. f \in Late
    BY <1>5 DEF Late, Keep
  <2>2. f \notin Late'
    <3>1. req'[f].step = "trim"
      <4>1. req' = [req EXCEPT ![f].step = "trim"]
        BY <1>5 DEF Keep, GoOn
      <4>2. req[f] \in Requests /\ req \in [Editors -> Requests \cup {None}]
        BY <1>5, NoneIsIdle, ConfigAssumption DEF Keep, IndInv, TypeOK, Steps
      <4> QED
        BY <4>1, <4>2 DEF Requests
    <3> QED
      BY <3>1 DEF Late
  <2>3. Late' \subseteq Late \ {f}
    BY <1>3, <2>2
  <2>4. IsFiniteSet(Late \ {f}) /\ Cardinality(Late \ {f}) = Cardinality(Late) - 1
    BY <1>1, <2>1, FS_RemoveElement
  <2>5. Cardinality(Late') <= Cardinality(Late \ {f})
    BY <2>3, <2>4, FS_Subset
  <2> QED
    BY <1>2, <2>4, <2>5
<1> QED
  BY <1>1, <1>2, <1>4, <1>5

(* Keeping the prompt puts it at the end, and there are others than he.    *)
LEMMA KeptLast ==
  ASSUME IndInv, NEW f \in Editors, Request(f), Keep(f),
         req[f].before = prompt, prompt' = prompt
  PROVE  InHand'
<1>1. /\ versions \in Seq(Texts \ {Blank}) /\ Len(versions) \in Nat
      /\ versions' \in Seq(Texts \ {Blank})
  BY VersionsStep DEF IndInv, TypeOK
<1>2. /\ Len(versions') = Len(versions) + 1
      /\ versions'[Len(versions) + 1] = prompt
  <2>1. versions' = Append(versions, prompt) /\ prompt \in Texts
    BY DEF Keep, IndInv, TypeOK
  <2>2. versions \in Seq(Texts)
    BY <1>1
  <2> QED
    BY <1>1, <2>1, <2>2, AppendProperties
<1>3. Len(versions) + 1 \in DOMAIN versions'
  BY <1>1, <1>2
<1>4. Cardinality(Late') < Cardinality(Editors)
  <2>1. f \notin Late
    BY DEF Late
  <2>2. Cardinality(Editors \ {f}) = Cardinality(Editors) - 1
        /\ IsFiniteSet(Editors \ {f})
    BY ConfigAssumption, FS_RemoveElement
  <2>3. Late \subseteq Editors \ {f}
    BY <2>1 DEF Late
  <2>4. Cardinality(Late) <= Cardinality(Editors \ {f})
    BY <2>2, <2>3, FS_Subset
  <2>5. Cardinality(Editors) \in Nat
    BY ConfigAssumption, FS_CardinalityType
  <2> QED
    BY <2>2, <2>4, <2>5, FewerLate
<1>5. Cardinality(Editors) \in Nat /\ Cardinality(Late') \in Nat
  BY ConfigAssumption, FS_CardinalityType, FewerLate
<1>6. Len(versions') - (Len(versions) + 1) + Cardinality(Late')
        < Cardinality(Editors)
  BY <1>1, <1>2, <1>4, <1>5
<1> QED
  BY <1>2, <1>3, <1>6 DEF InHand

(* What can be gone back to stays so while the prompt does: it is cut off  *)
(* by none of as many as the list has room for.                            *)
LEMMA StaysInHand ==
  ASSUME IndInv, Cardinality(Editors) <= MaxVersions,
         NEW f \in Editors, Request(f), prompt' = prompt, InHand
  PROVE  InHand'
<1>1. /\ versions \in Seq(Texts \ {Blank}) /\ Len(versions) \in Nat
      /\ versions' \in Seq(Texts \ {Blank}) /\ Len(versions') \in Nat
      /\ DOMAIN versions = 1..Len(versions)
      /\ DOMAIN versions' = 1..Len(versions')
  BY VersionsStep DEF IndInv, TypeOK
<1>2. /\ Cardinality(Late) \in Nat /\ Cardinality(Late') \in Nat
      /\ Cardinality(Late') <= Cardinality(Late)
      /\ Cardinality(Editors) \in Nat /\ MaxVersions \in Nat \ {0}
  BY FewerLate, ConfigAssumption, FS_CardinalityType
<1>3. removed \subseteq removed'
  BY DEF Request, Patch, Guard, Keep, Trim, Write, ReadCurrent, Restore,
         DeleteVersion, AddId, RemoveId, InsertId, Crash
<1>4. CASE prompt \in removed \cup {Blank}
  BY <1>3, <1>4 DEF InHand
<1>5. ASSUME NEW i \in DOMAIN versions, versions[i] = prompt,
             Len(versions) - i + Cardinality(Late) < Cardinality(Editors)
      PROVE  InHand'
  <2>1. ASSUME NEW k \in DOMAIN versions', versions'[k] = prompt,
               Len(versions') - k <= Len(versions) - i
        PROVE  InHand'
    <3>1. Len(versions') - k + Cardinality(Late') < Cardinality(Editors)
      BY <1>1, <1>2, <1>5, <2>1
    <3> QED
      BY <2>1, <3>1 DEF InHand
  <2>2. CASE versions' = versions
    BY <1>1, <1>5, <2>1, <2>2
  <2>3. CASE Keep(f)
    <3>1. CASE req[f].before = prompt
      BY <2>3, <3>1, KeptLast
    <3>2. CASE req[f].before # prompt
      <4>1. Cardinality(Late') + 1 <= Cardinality(Late)
        BY <2>3, <3>2, FewerLate
      <4>2. versions' = Append(versions, req[f].before) /\ req[f].before \in Texts
        <5>1. req[f] \in Requests
          BY <2>3, NoneIsIdle, ConfigAssumption DEF Keep, IndInv, TypeOK, Steps
        <5> QED
          BY <2>3, <5>1 DEF Keep, Requests
      <4>3. versions \in Seq(Texts)
        BY <1>1
      <4>4. Len(versions') = Len(versions) + 1 /\ versions'[i] = prompt
        BY <1>1, <1>5, <4>2, <4>3, AppendProperties
      <4>5. i \in DOMAIN versions'
        BY <1>1, <4>4
      <4>6. Len(versions') - i + Cardinality(Late') < Cardinality(Editors)
        BY <1>1, <1>2, <1>5, <4>1, <4>4
      <4> QED
        BY <4>4, <4>5, <4>6 DEF InHand
    <3> QED
      BY <3>1, <3>2
  <2>4. CASE Trim(f)
    <3>1. CASE Len(versions) > MaxVersions
      <4> DEFINE m == Len(versions) - MaxVersions + 1
                 k == i - m + 1
      <4>1. m \in 1..Len(versions) /\ i \in m..Len(versions)
        BY <1>1, <1>2, <1>5, <3>1
      <4>2. versions' = SubSeq(versions, m, Len(versions))
        BY <2>4, <3>1 DEF Trim, Newest
      <4> HIDE DEF m
      <4>3. /\ Len(versions') = Len(versions) - m + 1
            /\ \A j \in 1..(Len(versions) - m + 1) : versions'[j] = versions[m + j - 1]
        BY <1>1, <4>1, <4>2, SubSeqProperties
      <4>4. k \in 1..(Len(versions) - m + 1) /\ m + k - 1 = i
        BY <1>1, <4>1
      <4>5. versions'[k] = prompt /\ Len(versions') - k = Len(versions) - i
        <5>1. Len(versions') - k = Len(versions) - i
          BY <1>1, <4>1, <4>3
        <5> HIDE DEF k
        <5>2. versions'[k] = versions[m + k - 1]
          BY <4>3, <4>4
        <5> QED
          BY <1>5, <4>4, <5>1, <5>2
      <4>6. k \in DOMAIN versions'
        BY <1>1, <4>3, <4>4
      <4> QED
        BY <1>1, <2>1, <4>5, <4>6
    <3>2. CASE ~(Len(versions) > MaxVersions)
      BY <2>2, <2>4, <3>2 DEF Trim, Newest
    <3> QED
      BY <3>1, <3>2
  <2>5. ASSUME NEW d \in DOMAIN versions, DeleteVersion(f, d)
        PROVE  InHand'
    <3> DEFINE n == Len(versions)
               a == SubSeq(versions, 1, d - 1)
               b == SubSeq(versions, d + 1, n)
    <3>1. n \in Nat /\ d \in 1..n /\ i \in 1..n
      BY <1>1
    <3>2. CASE d = i
      BY <1>5, <2>5, <3>2 DEF DeleteVersion, InHand
    <3>3. CASE d # i
      <4>1. /\ a \in Seq(Texts \ {Blank}) /\ Len(a) = d - 1
            /\ \A j \in 1..(d - 1) : a[j] = versions[1 + j - 1]
        BY <1>1, <3>1, SubSeqProperties
      <4>2. /\ b \in Seq(Texts \ {Blank}) /\ Len(b) = n - d
            /\ \A j \in 1..(n - d) : b[j] = versions[d + 1 + j - 1]
        BY <1>1, <3>1, SubSeqProperties
      <4>3. versions' = a \o b
        BY <2>5 DEF DeleteVersion
      <4> HIDE DEF a, b, n
      <4>4. /\ Len(versions') = n - 1
            /\ \A j \in 1..(n - 1) :
                 versions'[j] = IF j <= d - 1 THEN a[j] ELSE b[j - (d - 1)]
        <5>1. Len(a) + Len(b) = n - 1
          BY <3>1, <4>1, <4>2
        <5>2. /\ Len(a \o b) = Len(a) + Len(b)
              /\ \A j \in 1..(Len(a) + Len(b)) :
                   (a \o b)[j] = IF j <= Len(a) THEN a[j] ELSE b[j - Len(a)]
          BY <4>1, <4>2, ConcatProperties
        <5> QED
          BY <4>1, <4>3, <5>1, <5>2
      <4>5. CASE i < d
        <5>1. i \in 1..(n - 1) /\ i <= d - 1 /\ i \in 1..(d - 1)
          BY <3>1, <4>5
        <5>2. versions'[i] = prompt
          BY <1>5, <3>1, <4>1, <4>4, <5>1
        <5> QED
          BY <1>1, <2>1, <3>1, <4>4, <5>1, <5>2 DEF n
      <4>6. CASE i > d
        <5>1. i - 1 \in 1..(n - 1) /\ ~(i - 1 <= d - 1) /\ i - d \in 1..(n - d)
          BY <3>1, <4>6
        <5>2. versions'[i - 1] = b[i - 1 - (d - 1)] /\ i - 1 - (d - 1) = i - d
          BY <3>1, <4>4, <5>1
        <5>3. b[i - d] = versions[d + 1 + (i - d) - 1] /\ d + 1 + (i - d) - 1 = i
          BY <3>1, <4>2, <5>1
        <5>4. versions'[i - 1] = prompt
          BY <1>5, <5>2, <5>3
        <5> QED
          BY <1>1, <2>1, <3>1, <4>4, <5>1, <5>4 DEF n
      <4> QED
        BY <3>1, <3>3, <4>5, <4>6
    <3> QED
      BY <3>2, <3>3
  <2> QED
    BY <2>2, <2>3, <2>4, <2>5 DEF Request, Patch, Guard, Write, ReadCurrent,
       Restore, AddId, RemoveId, InsertId, Crash, stored
<1> QED
  BY <1>4, <1>5 DEF InHand

(* Nobody who had the prompt in hand loses it but by being overtaken. *)
LEMMA KeptStep ==
  ASSUME IndInv, Cardinality(Editors) <= MaxVersions, KeptInv, [Next]_vars
  PROVE  KeptInv'
<1> USE ConfigAssumption
<1>1. CASE UNCHANGED vars
  BY <1>1 DEF vars, KeptInv, InHand, Late
<1>2. ASSUME NEW f \in Editors, Request(f), Observe(f)
      PROVE  KeptInv'
  <2> SUFFICES ASSUME NEW e \in Editors \ overtaken',
                      req'[e].step \in {"guard", "keep", "trim", "write"}
               PROVE  /\ req'[e].before = prompt'
                      /\ req'[e].step = "trim" => InHand'
                      /\ req'[e].step = "write" =>
                           req'[e].text \in {Unset, prompt'} \/ InHand'
    BY DEF KeptInv
  <2>1. e \in AtWork'
    BY DEF AtWork, Idle, Steps
  <2>2. prompt' = prompt
    <3> SUFFICES ASSUME prompt' # prompt PROVE FALSE
      OBVIOUS
    <3>1. Write(f)
      BY <1>2 DEF Request, Patch, Guard, Keep, Trim, ReadCurrent, Restore,
         DeleteVersion, AddId, RemoveId, InsertId, Crash, stored
    <3>2. CASE e = f
      BY <3>1, <3>2, NoneIsIdle DEF Write, Done, Set, IndInv, TypeOK, Steps
    <3>3. CASE e # f
      <4>1. req'[e] = req[e]
        BY <1>2, <3>3, OthersStay
      <4>2. e \in AtWork \ {f}
        BY <3>3, <4>1 DEF AtWork, Idle, Steps
      <4> QED
        BY <1>2, <2>1, <4>2 DEF Observe
    <3> QED
      BY <3>2, <3>3
  <2>3. e \notin overtaken
    BY <1>2, <2>1, <2>2 DEF Observe
  <2>4. /\ req[e].step \in {"guard", "keep", "trim", "write"}
             => req[e].before = prompt
        /\ req[e].step = "trim" => InHand
        /\ req[e].step = "write" => req[e].text \in {Unset, prompt} \/ InHand
    BY <2>3 DEF KeptInv
  <2>5. InHand => InHand'
    BY <1>2, <2>2, StaysInHand
  <2>6. CASE req'[e] = req[e]
    BY <2>2, <2>4, <2>5, <2>6
  <2>7. CASE e = f
    <3>1. req \in [Editors -> Requests \cup {None}] /\ Unset \notin Texts
          /\ req' \in [Editors -> Requests \cup {None}] /\ req'[f] # None
      BY <1>2, <2>7, TypeStep, NoneIsIdle DEF IndInv, TypeOK, Steps
    <3>2. req'[f].text \in Texts \cup {Unset}
      BY <3>1 DEF Requests
    <3>3. req'[f].step = Onward(prompt, req'[f].text) =>
            /\ req'[f].step # "trim"
            /\ req'[f].step = "write" =>
                 \/ req'[f].text \in {Unset, prompt}
                 \/ prompt = Blank
      BY <3>2 DEF Onward
    <3>4. prompt = Blank => InHand'
      BY <2>2 DEF InHand
    <3>5. CASE Keep(f) /\ req'[f].before = req[f].before /\ req'[f].step = "trim"
      <4>1. req[f].before = prompt
        BY <2>4, <2>7, <3>5 DEF Keep
      <4> QED
        BY <1>2, <2>2, <2>7, <3>5, <4>1, KeptLast
    <3>6. CASE Trim(f) /\ req'[f].before = req[f].before /\ req'[f].step = "write"
      BY <2>2, <2>4, <2>5, <2>7, <3>6 DEF Trim
    <3>7. CASE /\ Idle(f) /\ req'[f].before = prompt
               /\ \/ req'[f].step = "guard"
                  \/ req'[f].step = Onward(prompt, req'[f].text)
      BY <2>2, <2>7, <3>3, <3>4, <3>7
    <3>8. CASE /\ Guard(f) /\ req'[f].before = req[f].before
               /\ req'[f].text = req[f].text
               /\ req'[f].step = Onward(req[f].before, req[f].text)
      <4>1. req[f].before = prompt
        BY <2>4, <2>7, <3>8 DEF Guard
      <4> QED
        BY <2>2, <2>7, <3>3, <3>4, <3>8, <4>1
    <3>9. CASE /\ ReadCurrent(f) /\ req'[f].before = prompt
               /\ req'[f].step = Onward(prompt, req'[f].text)
      BY <2>2, <2>7, <3>3, <3>4, <3>9
    <3>10. CASE req' = [req EXCEPT ![f] = req[f]]
      BY <2>6, <2>7, <3>1, <3>10
    <3> QED
      BY <1>2, <2>7, <3>5, <3>6, <3>7, <3>8, <3>9, <3>10, MovesOn
  <2> QED
    BY <1>2, <2>6, <2>7, OthersStay
<1> QED
  BY <1>1, <1>2 DEF Next

(* update_config, restore_prompt_version: a text that is replaced by       *)
(* somebody who had read it can be gone back to, as long as no more people *)
(* edit at once than the list has room for: with more, those that are late *)
(* may keep so many old texts that his is cut off before he writes.        *)
THEOREM ReplacedTextsAreKept ==
  Cardinality(Editors) <= MaxVersions => (Spec => ReplacedTextIsKept)
<1> SUFFICES ASSUME Cardinality(Editors) <= MaxVersions
             PROVE  Spec => ReplacedTextIsKept
  OBVIOUS
<1>1. Init => KeptInv
  BY NoneIsIdle, ConfigAssumption DEF Init, KeptInv, Steps
<1>2. IndInv /\ KeptInv /\ [Next]_vars => KeptInv'
  BY KeptStep
<1>3. IndInv /\ KeptInv /\ [Next]_vars =>
        [\A e \in Editors \ overtaken :
           Write(e) /\ prompt' # prompt
             => Kept(prompt) \/ prompt \in removed \cup {Blank}]_vars
  <2> SUFFICES ASSUME KeptInv, NEW e \in Editors \ overtaken,
                      Write(e), prompt' # prompt
               PROVE  Kept(prompt) \/ prompt \in removed \cup {Blank}
    OBVIOUS
  <2>1. req[e].text \notin {Unset, prompt} /\ req[e].step = "write"
    BY DEF Write
  <2>2. InHand
    BY <2>1 DEF KeptInv
  <2> QED
    BY <2>2 DEF InHand, Kept
<1> QED
  BY <1>1, <1>2, <1>3, Inductive, PTL DEF Spec, ReplacedTextIsKept

-----------------------------------------------------------------------------
(* People and roles. *)

(* What a request carries. *)
LEMMA PersonRequestFacts ==
  ASSUME NEW q \in PersonRequests
  PROVE  /\ q.to \in {"create", "assign", "switch off", "switch on", "remove"}
         /\ q.who \in People
         /\ q.to \in {"create", "assign"} => q.role \in Roles
         /\ q \notin RoleRequests
  BY DEF PersonRequests, RoleRequests

LEMMA RoleRequestFacts ==
  ASSUME NEW q \in RoleRequests
  PROVE  /\ q.to \in {"define", "redefine", "drop"}
         /\ q.role \in Roles
         /\ q.to \in {"define", "redefine"} => q.as \in Definitions
         /\ q \notin PersonRequests
  BY DEF PersonRequests, RoleRequests

LEMMA AtMostOne ==
  ASSUME NEW S, IsFiniteSet(S), ~(Cardinality(S) > 1), NEW a \in S, NEW b \in S
  PROVE  a = b
<1>1. IsFiniteSet({a, b})
  <2>1. IsFiniteSet({a}) /\ {a} \cup {b} = {a, b}
    BY FS_Singleton
  <2> QED
    BY <2>1, FS_AddElement
<1>2. Cardinality({a, b}) <= Cardinality(S) /\ {a, b} \subseteq S
  BY FS_Subset
<1>3. Cardinality({a, b}) \in Nat /\ Cardinality(S) \in Nat
  BY <1>1, FS_CardinalityType
<1>4. SUFFICES ASSUME a # b PROVE FALSE
  OBVIOUS
<1>5. Cardinality({a}) = 1 /\ IsFiniteSet({a})
  BY FS_Singleton
<1>6. Cardinality({a} \cup {b}) = 2
  BY <1>4, <1>5, FS_AddElement
<1>7. {a} \cup {b} = {a, b}
  OBVIOUS
<1> QED
  BY <1>2, <1>3, <1>6, <1>7

(* What the histories witness of a step. *)
LEMMA Witnessed ==
  ASSUME AccountsInv, AccountsNext, ~together', ~switched'
  PROVE  /\ ~together /\ ~switched
         /\ ~(Cardinality(Removals') > 1)
         /\ \A p \in People : Is(p, Super) /\ person[p].active /\ Exists(p)'
                                => person'[p].active
  BY DEF AccountsInv, AccountsOK, AccountsNext

(* A superadmin is left by a step that takes away none, but those that are *)
(* removed, and lets nobody in to remove the last one.                     *)
LEMMA OneStaysLeft ==
  ASSUME AccountsInv, AccountsNext, IsFiniteSet(under'),
         ~together' /\ ~switched' =>
           /\ ActiveSuperadmins' # {}
           /\ \A q \in Removals' : ActiveSuperadmins' \ {q.who} # {}
  PROVE  OneIsLeft'
<1> SUFFICES ASSUME ~together', ~switched'
             PROVE  \A q, r \in Removals' : q = r
  BY DEF OneIsLeft
<1>1. IsFiniteSet(Removals')
  BY FS_Subset DEF Removals
<1>2. ~(Cardinality(Removals') > 1)
  BY Witnessed
<1> QED
  BY <1>1, <1>2, AtMostOne

(* Letting a request in. *)
LEMMA AdmitStep ==
  ASSUME AccountsInv, AccountsNext, Admit
  PROVE  AccountsInv'
<1>1. PICK q \in PersonRequests \cup RoleRequests :
        /\ under' = under \cup {q}
        /\ \/ q \in PersonRequests /\ LetIn(q)
           \/ q \in RoleRequests /\ LetInRole(q)
  BY DEF Admit
<1>2. UNCHANGED <<person, role>>
  BY DEF Admit
<1>3. StillTrue(q)
  <2>1. CASE q \in PersonRequests
    <3>1. LetIn(q) /\ q \notin RoleRequests
      BY <1>1, <2>1, PersonRequestFacts, RoleRequestFacts
    <3>2. q.to = "assign" => Exists(q.who) /\ (q.role = Super <=> Is(q.who, Super))
      BY <3>1 DEF LetIn, Reaches
    <3>3. q.to \in {"switch off", "switch on", "remove"} => Exists(q.who)
      BY <3>1 DEF LetIn, Reaches
    <3> QED
      BY <3>1, <3>2, <3>3 DEF StillTrue, Exists
  <2>2. CASE q \in RoleRequests
    <3>1. LetInRole(q) /\ q.to \in {"define", "redefine", "drop"}
      BY <1>1, <2>2, PersonRequestFacts, RoleRequestFacts
    <3> QED
      BY <3>1 DEF LetInRole, StillTrue
  <2> QED
    BY <2>1, <2>2
<1>4. IsFiniteSet(under')
  BY <1>1, FS_AddElement DEF AccountsInv, AccountsOK
<1>5. together' \in BOOLEAN /\ switched' \in BOOLEAN
  BY DEF AccountsNext
<1>6. q.to = "remove" /\ Is(q.who, Super) => ActiveSuperadmins \ {q.who} # {}
  <2> SUFFICES ASSUME q.to = "remove", Is(q.who, Super)
               PROVE  ActiveSuperadmins \ {q.who} # {}
    OBVIOUS
  <2>1. LetIn(q)
    BY <1>1, RoleRequestFacts
  <2> QED
    BY <2>1 DEF LetIn, OthersRemain
<1>7. ActiveSuperadmins' = ActiveSuperadmins
  BY <1>2 DEF ActiveSuperadmins, Is, Exists
<1>8. \A r \in Removals' : r \in Removals \/ r = q
  BY <1>1, <1>2 DEF Removals, Is, Exists
<1>9. q \in Removals' => q.to = "remove" /\ Is(q.who, Super)
  BY <1>2 DEF Removals, Is, Exists
<1>10. OneIsLeft'
  <2>1. ~together' /\ ~switched' => ~together /\ ~switched
    BY Witnessed
  <2> QED
    BY <1>4, <1>6, <1>7, <1>8, <1>9, <2>1, OneStaysLeft
       DEF AccountsInv, OneIsLeft
<1>11. \A r \in under' : StillTrue(r)'
  BY <1>1, <1>2, <1>3 DEF AccountsInv, StillTrue, Exists, Is
<1> QED
  BY <1>1, <1>2, <1>4, <1>5, <1>10, <1>11
     DEF AccountsInv, AccountsOK, RolesOfPeopleExist, Exists

(* A request about a role. *)
LEMMA WriteRoleStep ==
  ASSUME AccountsInv, AccountsNext, NEW q \in under, q \in RoleRequests,
         WriteRole(q), under' = under \ {q}
  PROVE  AccountsInv'
<1>1. /\ q.to \in {"define", "redefine", "drop"} /\ q.role \in Roles
      /\ q.to \in {"define", "redefine"} => q.as \in Definitions
  BY RoleRequestFacts
<1>2. q.role # Super /\ role[Super] = Everything
  BY DEF AccountsInv, StillTrue
<1>3. person' = person
  BY DEF WriteRole
<1>4. \/ role' = role
      \/ q.as \in Definitions /\ role' = [role EXCEPT ![q.role] = q.as]
      \/ Deletable(q.role) /\ role' = [role EXCEPT ![q.role] = Gone]
  BY <1>1 DEF WriteRole
<1>5. role \in [Roles -> Definitions \cup {Gone}]
  BY DEF AccountsInv, AccountsOK
<1>6. role' \in [Roles -> Definitions \cup {Gone}]
  BY <1>1, <1>4, <1>5
<1>7. role'[Super] = Everything
  BY <1>2, <1>4, <1>5, AccountsAssumption
<1>8. RolesOfPeopleExist'
  <2> SUFFICES ASSUME NEW p \in People, Exists(p)
               PROVE  role'[person[p].role] # Gone
    BY <1>3 DEF RolesOfPeopleExist, Exists
  <2>1. role[person[p].role] # Gone
    BY DEF AccountsInv, RolesOfPeopleExist
  <2>2. person[p].role \in Roles
    BY DEF AccountsInv, AccountsOK, Exists, Persons
  <2>3. Deletable(q.role) => person[p].role # q.role
    BY DEF Deletable, Is
  <2>4. Gone \notin Definitions
    BY AccountsAssumption
  <2> QED
    BY <1>1, <1>4, <1>5, <2>1, <2>2, <2>3, <2>4
<1>9. IsFiniteSet(under')
  BY FS_Subset DEF AccountsInv, AccountsOK
<1>10. together' \in BOOLEAN /\ switched' \in BOOLEAN
  BY DEF AccountsNext
<1>11. OneIsLeft'
  <2>1. ~together' /\ ~switched' => ~together /\ ~switched
    BY Witnessed
  <2>2. ActiveSuperadmins' = ActiveSuperadmins
    BY <1>3 DEF ActiveSuperadmins, Is, Exists
  <2>3. Removals' \subseteq Removals
    BY <1>3 DEF Removals, Is, Exists
  <2> QED
    BY <1>9, <2>1, <2>2, <2>3, OneStaysLeft DEF AccountsInv, OneIsLeft
<1>12. \A r \in under' : StillTrue(r)'
  BY <1>3 DEF AccountsInv, StillTrue, Exists, Is
<1> QED
  BY <1>3, <1>6, <1>7, <1>8, <1>9, <1>10, <1>11, <1>12
     DEF AccountsInv, AccountsOK

(* A request about a person. *)
LEMMA WritePersonStep ==
  ASSUME AccountsInv, AccountsNext, NEW q \in under, q \in PersonRequests,
         WritePerson(q), under' = under \ {q}
  PROVE  AccountsInv'
<1> DEFINE w == q.who
           new == person'[w]
<1>1. /\ q.to \in {"create", "assign", "switch off", "switch on", "remove"}
      /\ w \in People /\ (q.to \in {"create", "assign"} => q.role \in Roles)
  BY PersonRequestFacts
<1>2. role' = role
  BY DEF WritePerson
<1>3. /\ person \in [People -> Persons \cup {Unborn, Gone}]
      /\ role[Super] = Everything /\ RolesOfPeopleExist /\ StillTrue(q)
      /\ IsFiniteSet(under)
  BY DEF AccountsInv, AccountsOK
<1>4. Unborn # Gone /\ Gone \notin Definitions /\ {Unborn, Gone} \cap Persons = {}
  BY AccountsAssumption
<1>5. /\ \A p \in People : p # w => person'[p] = person[p]
      /\ \/ new = person[w]
         \/ /\ q.to = "create" /\ person[w] = Unborn /\ Storable(q.role)
            /\ new = [role |-> q.role, active |-> TRUE]
         \/ /\ q.to = "assign" /\ Exists(w) /\ Storable(q.role)
            /\ new = [person[w] EXCEPT !.role = q.role]
         \/ /\ q.to \in {"switch off", "switch on"} /\ Exists(w)
            /\ new = [person[w] EXCEPT !.active = q.to = "switch on"]
         \/ q.to = "remove" /\ new = Gone
      /\ person' \in [People -> Persons \cup {Unborn, Gone}]
  <2>1. CASE q.to = "create" /\ person[w] = Unborn /\ Storable(q.role)
    BY <1>1, <1>3, <2>1 DEF WritePerson, Persons
  <2>2. CASE q.to = "assign" /\ Exists(w) /\ Storable(q.role)
    BY <1>1, <1>3, <2>2 DEF WritePerson, Persons, Exists
  <2>3. CASE q.to \in {"switch off", "switch on"} /\ Exists(w)
    BY <1>1, <1>3, <2>3 DEF WritePerson, Persons, Exists
  <2>4. CASE q.to = "remove"
    BY <1>1, <1>3, <2>4 DEF WritePerson
  <2>5. CASE /\ ~(q.to = "create" /\ person[w] = Unborn /\ Storable(q.role))
             /\ ~(q.to = "assign" /\ Exists(w) /\ Storable(q.role))
             /\ ~(q.to \in {"switch off", "switch on"} /\ Exists(w))
             /\ q.to # "remove"
    BY <1>1, <1>3, <2>5 DEF WritePerson
  <2> QED
    BY <2>1, <2>2, <2>3, <2>4, <2>5
<1> HIDE DEF new
<1>9. Exists(w) => person[w] \in Persons
  BY <1>1, <1>3 DEF Exists
<1>6. person[w] # Unborn => new # Unborn
  <2>1. CASE Exists(w) /\ new # Gone
    <3>1. new \in Persons
      BY <1>1, <1>5, <1>9, <1>4, <2>1 DEF Persons, Exists
    <3> QED
      BY <1>4, <3>1
  <2>2. CASE ~Exists(w) \/ new = Gone
    BY <1>4, <1>5, <2>2 DEF Exists
  <2> QED
    BY <2>1, <2>2
<1>7. Exists(w)' <=> new \notin {Unborn, Gone}
  BY DEF Exists, new
<1>8. ~Exists(w) /\ new \notin {Unborn, Gone} => person[w] = Unborn
  BY <1>5 DEF Exists
<1>10. Exists(w) /\ new \notin {Unborn, Gone} =>
         (new.role = Super <=> person[w].role = Super)
  BY <1>1, <1>3, <1>5, <1>9, ZenonT(60) DEF StillTrue, Is, Exists, Persons
<1>11. Is(w, Super) /\ person[w].active /\ q.to # "remove" =>
         new \notin {Unborn, Gone}
  <2> SUFFICES ASSUME Is(w, Super), q.to # "remove"
               PROVE  new \in Persons
    BY <1>4
  <2>1. person[w] \in Persons /\ Exists(w)
    BY <1>9 DEF Is
  <2> QED
    BY <1>1, <1>5, <2>1 DEF Persons, Exists
<1>12. new \notin {Unborn, Gone} => role[new.role] # Gone
  <2> SUFFICES ASSUME new \notin {Unborn, Gone} PROVE role[new.role] # Gone
    OBVIOUS
  <2>1. Exists(w) => role[person[w].role] # Gone
    BY <1>1, <1>3 DEF RolesOfPeopleExist
  <2>2. \/ Storable(q.role) /\ new.role = q.role
        \/ Exists(w) /\ new.role = person[w].role
    <3>1. CASE new = person[w]
      BY <3>1 DEF Exists
    <3>2. CASE /\ q.to = "create" /\ Storable(q.role)
               /\ new = [role |-> q.role, active |-> TRUE]
      BY <3>2
    <3>3. CASE /\ q.to = "assign" /\ Exists(w) /\ Storable(q.role)
               /\ new = [person[w] EXCEPT !.role = q.role]
      BY <1>9, <3>3 DEF Persons
    <3>4. CASE /\ q.to \in {"switch off", "switch on"} /\ Exists(w)
               /\ new = [person[w] EXCEPT !.active = q.to = "switch on"]
      BY <1>9, <3>4 DEF Persons
    <3> QED
      BY <1>5, <3>1, <3>2, <3>3, <3>4
  <2> QED
    BY <2>1, <2>2 DEF Storable
<1>13. RolesOfPeopleExist'
  BY <1>2, <1>3, <1>5, <1>7, <1>12 DEF RolesOfPeopleExist, Exists, new
<1>14. ASSUME NEW r \in under, r \notin RoleRequests
       PROVE  r.who \in People /\ StillTrue(r)
  <2>1. r \in PersonRequests
    BY <1>14 DEF AccountsInv, AccountsOK
  <2> QED
    BY <2>1, PersonRequestFacts DEF AccountsInv
<1>15. \A r \in under' : StillTrue(r)'
  <2> SUFFICES ASSUME NEW r \in under PROVE StillTrue(r)'
    OBVIOUS
  <2>1. CASE r \in RoleRequests
    BY <2>1, RoleRequestFacts DEF AccountsInv, StillTrue
  <2>2. CASE r \notin RoleRequests /\ r.who # w
    BY <1>5, <1>14, <2>2 DEF StillTrue, Is, Exists
  <2>3. CASE r \notin RoleRequests /\ r.who = w
    <3>1. StillTrue(r)
      BY <1>14, <2>3
    <3>2. r.to \in {"assign", "switch off", "switch on", "remove"} =>
            new # Unborn
      BY <1>6, <2>3, <3>1 DEF StillTrue
    <3>3. r.to = "assign" /\ Exists(w)' => (r.role = Super <=> Is(w, Super)')
      <4> SUFFICES ASSUME r.to = "assign", new \notin {Unborn, Gone}
                   PROVE  r.role = Super <=> new.role = Super
        BY <1>7 DEF Is, new
      <4>1. Exists(w)
        BY <1>8, <2>3, <3>1 DEF StillTrue
      <4> QED
        BY <1>10, <2>3, <3>1, <4>1 DEF StillTrue, Is
    <3> QED
      BY <2>3, <3>2, <3>3 DEF StillTrue, new
  <2> QED
    BY <2>1, <2>2, <2>3
<1>16. IsFiniteSet(under')
  BY <1>3, FS_Subset
<1>17. together' \in BOOLEAN /\ switched' \in BOOLEAN
  BY DEF AccountsNext
<1>18. Removals' \subseteq Removals \ {q}
  <2> SUFFICES ASSUME NEW r \in Removals' PROVE Is(r.who, Super)
    BY DEF Removals
  <2>1. r \in under /\ r.to = "remove" /\ Is(r.who, Super)'
    BY DEF Removals
  <2>2. r \notin RoleRequests
    BY <2>1, RoleRequestFacts
  <2>3. CASE r.who # w
    BY <1>5, <1>14, <2>1, <2>2, <2>3 DEF Is, Exists
  <2>4. CASE r.who = w
    <3>1. person[w] # Unborn
      BY <1>14, <2>1, <2>2, <2>4 DEF StillTrue
    <3>2. new \notin {Unborn, Gone} /\ new.role = Super
      BY <1>7, <2>1, <2>4 DEF Is, new
    <3>3. Exists(w) /\ person[w].role = Super
      BY <1>8, <1>10, <3>1, <3>2
    <3> QED
      BY <2>4, <3>3 DEF Is
  <2> QED
    BY <2>3, <2>4
<1>19. ASSUME ~together', ~switched', NEW p \in ActiveSuperadmins,
              p # w \/ q.to # "remove"
       PROVE  p \in ActiveSuperadmins'
  <2>1. p \in People /\ Is(p, Super) /\ person[p].active
    BY DEF ActiveSuperadmins
  <2>2. Exists(p)' /\ person'[p].role = Super
    <3>1. CASE p # w
      BY <1>5, <2>1, <3>1 DEF Is, Exists
    <3>2. CASE p = w
      BY <1>7, <1>10, <1>11, <1>19, <2>1, <3>2 DEF Is, new
    <3> QED
      BY <3>1, <3>2
  <2>3. person'[p].active
    BY <1>19, <2>1, <2>2, Witnessed
  <2> QED
    BY <2>1, <2>2, <2>3 DEF ActiveSuperadmins, Is
<1>20. OneIsLeft'
  <2> SUFFICES ASSUME ~together', ~switched'
               PROVE  /\ ActiveSuperadmins' # {}
                      /\ \A r \in Removals' : ActiveSuperadmins' \ {r.who} # {}
    BY <1>16, OneStaysLeft
  <2>1. /\ ActiveSuperadmins # {}
        /\ \A r \in Removals : ActiveSuperadmins \ {r.who} # {}
        /\ \A r, t \in Removals : r = t
    BY Witnessed DEF AccountsInv, OneIsLeft
  <2>2. CASE q \in Removals
    <3>1. Removals' = {}
      BY <1>18, <2>1, <2>2
    <3>2. PICK p \in ActiveSuperadmins : p # w
      BY <2>1, <2>2
    <3>3. p \in ActiveSuperadmins'
      BY <1>19, <3>2
    <3> QED
      BY <3>1, <3>3
  <2>3. CASE q \notin Removals
    <3>1. \A p \in ActiveSuperadmins : p # w \/ q.to # "remove"
      BY <2>3 DEF Removals, ActiveSuperadmins
    <3>2. ActiveSuperadmins \subseteq ActiveSuperadmins'
      BY <1>19, <3>1
    <3> QED
      BY <1>18, <2>1, <3>2
  <2> QED
    BY <2>2, <2>3
<1> QED
  BY <1>2, <1>3, <1>5, <1>13, <1>15, <1>16, <1>17, <1>20
     DEF AccountsInv, AccountsOK

(* A step that leaves people, roles and requests as they are. *)
LEMMA NothingWritten ==
  ASSUME AccountsInv, UNCHANGED <<person, role, under>>,
         UNCHANGED <<together, switched>> \/ AccountsNext
  PROVE  AccountsInv'
<1>1. /\ ActiveSuperadmins' = ActiveSuperadmins /\ Removals' = Removals
      /\ RolesOfPeopleExist' /\ \A q \in under : StillTrue(q)'
  BY DEF AccountsInv, ActiveSuperadmins, Removals, RolesOfPeopleExist,
         StillTrue, Is, Exists
<1>2. /\ together' \in BOOLEAN /\ switched' \in BOOLEAN
      /\ ~together' /\ ~switched' => ~together /\ ~switched
  BY Witnessed DEF AccountsInv, AccountsOK, AccountsNext
<1> QED
  BY <1>1, <1>2 DEF AccountsInv, AccountsOK, OneIsLeft

(* Whatever requests overlap, a superadmin is left who can come in, unless *)
(* two were let in to remove one or one was switched off; and nobody is    *)
(* left with a role that is gone.                                          *)
THEOREM ConsoleStaysOpen == AccountsSpec => []ConsoleIsOpen
<1>1. AccountsInit => AccountsInv
  <2> SUFFICES ASSUME AccountsInit PROVE AccountsInv
    OBVIOUS
  <2>1. Root \in ActiveSuperadmins
    <3>1. [role |-> Super, active |-> TRUE] \in Persons
      BY AccountsAssumption DEF Persons
    <3>2. person[Root] = [role |-> Super, active |-> TRUE] /\ Root \in People
      BY AccountsAssumption DEF AccountsInit
    <3> QED
      BY <3>1, <3>2, AccountsAssumption DEF ActiveSuperadmins, Is, Exists
  <2>2. AccountsOK
    BY FS_EmptySet, AccountsAssumption
       DEF AccountsInit, AccountsOK, Persons, Definitions, Everything
  <2>3. role[Super] = Everything
    BY AccountsAssumption DEF AccountsInit
  <2>4. RolesOfPeopleExist
    <3> SUFFICES ASSUME NEW p \in People, Exists(p)
                 PROVE  person[p].role = Super
      <4>1. Everything \in Definitions
        BY DEF Everything, Definitions
      <4> QED
        BY <2>3, <4>1, AccountsAssumption DEF RolesOfPeopleExist
    <3>1. p = Root
      BY DEF AccountsInit, Exists
    <3> QED
      BY <3>1 DEF AccountsInit
  <2>5. Removals = {}
    BY DEF AccountsInit, Removals
  <2> QED
    BY <2>1, <2>2, <2>3, <2>4, <2>5 DEF AccountsInit, AccountsInv, OneIsLeft
<1>2. AccountsInv /\ [AccountsNext]_avars => AccountsInv'
  <2> SUFFICES ASSUME AccountsInv, [AccountsNext]_avars PROVE AccountsInv'
    OBVIOUS
  <2>1. CASE AccountsNext /\ Admit
    BY <2>1, AdmitStep
  <2>2. CASE AccountsNext /\ Perform
    <3>1. PICK q \in under :
            /\ IF q \in PersonRequests THEN WritePerson(q) ELSE WriteRole(q)
            /\ under' = under \ {q}
      BY <2>2 DEF Perform
    <3>2. q \in PersonRequests \cup RoleRequests
      BY DEF AccountsInv, AccountsOK
    <3> QED
      BY <2>2, <3>1, <3>2, WritePersonStep, WriteRoleStep
  <2>3. CASE AccountsNext /\ Suspend
    BY <2>3, NothingWritten DEF Suspend
  <2>4. CASE UNCHANGED avars
    BY <2>4, NothingWritten DEF avars
  <2> QED
    BY <2>1, <2>2, <2>3, <2>4 DEF AccountsNext
<1>3. AccountsInv => ConsoleIsOpen
  <2> SUFFICES ASSUME AccountsInv, ~together, ~switched,
                      NEW p \in ActiveSuperadmins
               PROVE  SignedIn(p) /\ Held(p) = Everything
    BY DEF AccountsInv, OneIsLeft, ConsoleIsOpen, WayBackIn
  <2>1. Is(p, Super) /\ person[p].active
    BY DEF ActiveSuperadmins
  <2> QED
    BY <2>1 DEF AccountsInv, SignedIn, Held, Is
<1> QED
  BY <1>1, <1>2, <1>3, PTL DEF AccountsSpec

=============================================================================
