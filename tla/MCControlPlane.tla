--------------------------- MODULE MCControlPlane ---------------------------
(***************************************************************************)
(* Instances of ControlPlane for TLC: the .cfg files give the constants.   *)
(***************************************************************************)
EXTENDS ControlPlane, TLC

(* Sessions and devices are interchangeable; not used with liveness. *)
Symmetry == Permutations(Device) \cup Permutations(ConnectSession)
                \cup Permutations(ServeSession)
=============================================================================
