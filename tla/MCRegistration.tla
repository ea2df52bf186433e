--------------------------- MODULE MCRegistration ---------------------------
(***************************************************************************)
(* Few users, machines and targets, and enough requests that they overlap. *)
(* The operator changes the entries of one user; the other has what they   *)
(* create.                                                                 *)
(***************************************************************************)
EXTENDS Registration, TLC

CONSTANT Guest
MCAclEntry == {Guest} \X Target

(* Requests, machines and targets are interchangeable. *)
Symmetry == Permutations(Request) \cup Permutations(Hardware) \cup Permutations(Target)
=============================================================================
