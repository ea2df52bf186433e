---------------------------- MODULE MCHeartbeat -----------------------------
(***************************************************************************)
(* The heartbeats with the periods of the code, in units of 30 seconds.    *)
(***************************************************************************)
EXTENDS Heartbeat
=============================================================================
