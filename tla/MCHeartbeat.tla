----------------------------- MODULE MCHeartbeat -----------------------------
(* Heartbeat for TLC. *)
EXTENDS Heartbeat
=============================================================================
