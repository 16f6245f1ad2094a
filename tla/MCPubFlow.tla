----------------------------- MODULE MCPubFlow -----------------------------
(* Model of PubFlow for TLC: a replayed prefix of one message with two      *)
(* results, then a few messages of at most two results each.                *)
EXTENDS PubFlow
=============================================================================
