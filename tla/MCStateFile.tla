---------------------------- MODULE MCStateFile -----------------------------
(***************************************************************************)
(* An instance of StateFile for TLC: tokens of two lengths.                *)
(***************************************************************************)
EXTENDS StateFile, TLC

CONSTANTS t1, t2

Lengths == t1 :> 3 @@ t2 :> 5

Symmetry == Permutations(Handler) \cup Permutations(Client)
=============================================================================
