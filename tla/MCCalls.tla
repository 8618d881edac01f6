------------------------------- MODULE MCCalls -------------------------------
(***************************************************************************)
(* The coroutines of one call: those that end it or hand it over, and      *)
(* those that answer the caller.  A behaviour takes one of the two.        *)
(***************************************************************************)
EXTENDS CallControl, Answering, TLC
CONSTANTS l1, l2

VARIABLE part

Alike == Permutations({l1, l2})

CallsInit == Init /\ AnsweringInit /\ part \in {"control", "answering"}

CallsNext ==
  \/ part = "control" /\ Next /\ UNCHANGED <<part, rvars>>
  \/ part = "answering" /\ AnsweringNext /\ UNCHANGED <<part, vars>>

CallsSpec == CallsInit /\ [][CallsNext]_<<part, vars, rvars>>

(* The end of calls is asked of the first, under its fairness.             *)
ControlInit == Init /\ AnsweringInit /\ part = "control"

LiveCallsSpec == ControlInit /\ [][CallsNext]_<<part, vars, rvars>> /\ Fairness
=============================================================================
