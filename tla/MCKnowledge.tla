----------------------------- MODULE MCKnowledge -----------------------------
(* Bounds for the model checking of Knowledge. *)
EXTENDS Knowledge, TLC
CONSTANTS j1, j2, f, p, q, s1, s2, v1, v2

SharedPage == s1 :> {p, q} @@ s2 :> {p}
Alike == Permutations(Jobs) \cup Permutations(Versions)
=============================================================================
