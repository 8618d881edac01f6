----------------------------- MODULE CallLedger -----------------------------
(***************************************************************************)
(* What the rows of table `calls` promise their readers (the console, the  *)
(* dialler's capacity endpoint, the alert rules, the client's postback),   *)
(* whoever writes them: a call is opened once, closed once and at one      *)
(* moment, judged at most once and only when closed, and reported at most  *)
(* once and only when closed.  CallRow is shown to implement this.         *)
(***************************************************************************)
EXTENDS Naturals

CONSTANTS Calls,        \* the calls
          Reasons,      \* what a judgement may say
          Null

VARIABLES life,         \* life[c]: "absent", "open" or "closed"
          moment,       \* moment[c]: when c was closed, Null before
          judgement,    \* judgement[c]: the worker's own verdict, Null before
          reported      \* the calls whose result is queued for the client

lvars == <<life, moment, judgement, reported>>

Init == /\ life = [c \in Calls |-> "absent"]
        /\ moment = [c \in Calls |-> Null]
        /\ judgement = [c \in Calls |-> Null]
        /\ reported = {}

Open(c) == /\ life[c] = "absent"
           /\ life' = [life EXCEPT ![c] = "open"]
           /\ UNCHANGED <<moment, judgement, reported>>

(* Only the calls of S get a moment of ending, some moment each. *)
EndAt(S) ==
  /\ moment' \in [Calls -> Nat \cup {Null}]
  /\ \A c \in Calls : IF c \in S THEN moment'[c] \in Nat
                                 ELSE moment'[c] = moment[c]

(* One statement may close several calls at once. *)
Close(S) ==
  /\ S # {}
  /\ \A c \in S : life[c] = "open"
  /\ life' = [c \in Calls |-> IF c \in S THEN "closed" ELSE life[c]]
  /\ EndAt(S)
  /\ UNCHANGED <<judgement, reported>>

(* The verdict, which also closes a call that is still open. *)
Judge(c, r) ==
  /\ judgement[c] = Null
  /\ judgement' = [judgement EXCEPT ![c] = r]
  /\ \/ life[c] = "closed" /\ UNCHANGED <<life, moment>>
     \/ /\ life[c] = "open"
        /\ life' = [life EXCEPT ![c] = "closed"]
        /\ EndAt({c})
  /\ UNCHANGED reported

Report(c) == /\ life[c] = "closed"
             /\ c \notin reported
             /\ reported' = reported \cup {c}
             /\ UNCHANGED <<life, moment, judgement>>

Next == \/ \E c \in Calls : \/ Open(c)
                            \/ \E r \in Reasons : Judge(c, r)
                            \/ Report(c)
        \/ \E S \in SUBSET Calls : Close(S)

Spec == Init /\ [][Next]_lvars
=============================================================================
