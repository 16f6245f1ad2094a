----------------------------- MODULE MCMulticast -----------------------------
(* Multicast for TLC; the bounds are in the configuration.                  *)
EXTENDS Multicast
=============================================================================
