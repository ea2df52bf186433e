--------------------------- MODULE ClientIpLeases ---------------------------
(***************************************************************************)
(* What the control plane promises about the addresses of a target's VPN   *)
(* network: a device gets at most one address per target, the lowest free  *)
(* one at the moment it is recorded, and keeps it for ever.  Nothing is    *)
(* said of how the handlers that look an address up and the ones that      *)
(* record it interleave; ControlPlane implements this specification.       *)
(***************************************************************************)
EXTENDS ClientIps

CONSTANTS
    Target,         \* the VPN targets
    Device,         \* the device ids of clients
    Nil             \* no address

VARIABLE leases     \* leases[t][d]: the address device d has on target t, or Nil

Leased(t) == {leases[t][d] : d \in Device} \ {Nil}

Init == leases = [t \in Target |-> [d \in Device |-> Nil]]

Grant(t, d) ==
    /\ leases[t][d] = Nil
    /\ \E ip \in NextClientIp(Leased(t)) : leases' = [leases EXCEPT ![t][d] = ip]

Next == \E t \in Target, d \in Device : Grant(t, d)

Spec == Init /\ [][Next]_leases
=============================================================================
