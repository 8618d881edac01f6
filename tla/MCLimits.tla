------------------------------- MODULE MCLimits -------------------------------
(***************************************************************************)
(* Limits that are read by many and acted on afterwards: the calls a       *)
(* campaign has with the agent at once, what its web chat may cost in a    *)
(* day, and what the dialler is told before it dials.  They share nothing, *)
(* and a behaviour takes one.                                              *)
(***************************************************************************)
EXTENDS Admission, WebChat, Routing, TLC
CONSTANTS a1, a2, a3, ann, bob, d1, d2

VARIABLE part

Alike == Permutations({a1, a2, a3}) \cup Permutations({ann, bob})

(* Two campaigns of one client, the second without a limit and not made    *)
(* yet, and one of another.                                                *)
Owner == "own" :> "us" @@ "new" :> "us" @@ "other" :> "them"
Allowed == "own" :> 1 @@ "new" :> Nothing @@ "other" :> 1
Tables == [leads |-> "700" :> "own" @@ "701" :> Nothing,
           registered |-> "x" :> "own" @@ "y" :> "other", on |-> {"own", "other"}]

LimitsInit ==
  /\ Init /\ ChatInit /\ RoutingInit
  /\ \/ part = "calls"
     \/ part \in {"chat", "routing"} /\ limit = Null

LimitsNext ==
  /\ UNCHANGED part
  /\ \/ part = "calls" /\ Next /\ UNCHANGED <<cvars, rvars>>
     \/ part = "chat" /\ ChatNext /\ UNCHANGED <<vars, rvars>>
     \/ part = "routing" /\ RoutingNext /\ UNCHANGED <<vars, cvars>>

LimitsSpec == LimitsInit /\ [][LimitsNext]_<<part, vars, cvars, rvars>>
=============================================================================
