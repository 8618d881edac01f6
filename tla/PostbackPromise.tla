-------------------------- MODULE PostbackPromise --------------------------
(***************************************************************************)
(* What the queue of postbacks promises the client and the console: a      *)
(* result that is owed stays owed until it is settled, the client is only  *)
(* ever handed a result that is owed, and one that is shown as sent has    *)
(* been handed over.  Postback is shown to implement this.                 *)
(***************************************************************************)
EXTENDS Naturals

CONSTANT Calls

VARIABLES debt,   \* debt[c]: "none", "owed", or how it was settled
          taken   \* taken[c]: how often the client has taken the result of c

pvars == <<debt, taken>>

Settlements == {"sent", "failed", "skipped"}

Init == /\ debt = [c \in Calls |-> "none"]
        /\ taken = [c \in Calls |-> 0]

Owe(c) == /\ debt[c] = "none"
          /\ debt' = [debt EXCEPT ![c] = "owed"]
          /\ UNCHANGED taken

Take(c) == /\ debt[c] = "owed"
           /\ taken' = [taken EXCEPT ![c] = @ + 1]
           /\ UNCHANGED debt

Settle(c, how) == /\ debt[c] = "owed"
                  /\ how = "sent" => taken[c] > 0
                  /\ debt' = [debt EXCEPT ![c] = how]
                  /\ UNCHANGED taken

(* Somebody asks for the result to be sent again. *)
Reopen(c) == /\ debt[c] \in Settlements
             /\ debt' = [debt EXCEPT ![c] = "owed"]
             /\ UNCHANGED taken

Next == \E c \in Calls : \/ Owe(c) \/ Take(c) \/ Reopen(c)
                         \/ \E how \in Settlements : Settle(c, how)

Spec == Init /\ [][Next]_pvars
=============================================================================
