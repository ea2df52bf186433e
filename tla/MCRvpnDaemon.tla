---------------------------- MODULE MCRvpnDaemon ----------------------------
(***************************************************************************)
(* Instances of RvpnDaemon for TLC: the .cfg files give the constants.     *)
(***************************************************************************)
EXTENDS RvpnDaemon, TLC

(* Connections and servers are interchangeable. *)
Symmetry == Permutations(Session) \cup Permutations(ServerIp)
=============================================================================
