------------------------------ MODULE MCConsole ------------------------------
(***************************************************************************)
(* What several people do to a campaign and its client in the console.     *)
(* Requests that read, judge and write in statements of their own: edits   *)
(* of a campaign, the administration of people and roles, and the messages *)
(* of the queue.  They share nothing, and a behaviour takes one.           *)
(***************************************************************************)
EXTENDS ConfigEdits, Accounts, HoldMessage, TLC
CONSTANTS ann, bob, root, t1, t2

VARIABLE part
all == <<part, vars, avars, hvars>>

Alike == Permutations({ann, bob}) \cup Permutations({t1, t2})

(* A part that is not the one of the behaviour starts in one state.        *)
Pinned ==
  /\ part # "edits" => prompt = Blank /\ ~limited /\ versions = <<>>
  /\ part # "hold" => keyed /\ row.voice = CHOOSE v \in Tongues : TRUE

ConsoleInit ==
  /\ part \in {"edits", "accounts", "hold"}
  /\ Init /\ AccountsInit /\ HoldInit
  /\ Pinned

EditCampaign == part = "edits" /\ Next /\ UNCHANGED <<part, avars, hvars>>
Administer == part = "accounts" /\ AccountsNext /\ UNCHANGED <<part, vars, hvars>>
HoldOn == part = "hold" /\ HoldNext /\ UNCHANGED <<part, vars, avars>>

ConsoleNext == EditCampaign \/ Administer \/ HoldOn
ConsoleSpec == ConsoleInit /\ [][ConsoleNext]_all
=============================================================================
