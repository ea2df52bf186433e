----------------------------- MODULE ClientIps ------------------------------
(***************************************************************************)
(* The addresses of a target's VPN network, written as numbers.  Every     *)
(* target has the same network, with the server on the network's own       *)
(* address (createTarget: "10.8.0.1", "/23" for both).                     *)
(***************************************************************************)
EXTENDS Integers

CONSTANTS
    NetworkIp,      \* network_ip, also the address of the VPN server
    PrefixSize      \* the number of addresses in the prefix (/23: 512)

ASSUME NetworkAssumption == NetworkIp \in Nat /\ PrefixSize \in Nat \ {0}

(* netip.Prefix.Contains *)
Contains(ip) == ip \div PrefixSize = NetworkIp \div PrefixSize

(* The addresses that the loop of getNextClientIp visits: from the one      *)
(* after the server's for as long as the prefix contains it.               *)
ClientIp == {ip \in (NetworkIp + 1) .. (NetworkIp + PrefixSize) : Contains(ip)}

(* Mutants: the scan starts at the server's own address; any free address. *)
NextFromServerIp(used) ==
    {ip \in ({NetworkIp} \cup ClientIp) \ used :
        \A lower \in {NetworkIp} \cup ClientIp : lower < ip => lower \in used}
NextAnyFree(used) == ClientIp \ used

(* The address that getNextClientIp finds given the set of used ones: the  *)
(* first free one.  A set, which is empty when every address is taken.     *)
NextClientIp(used) ==
    {ip \in ClientIp \ used : \A lower \in ClientIp : lower < ip => lower \in used}
=============================================================================
