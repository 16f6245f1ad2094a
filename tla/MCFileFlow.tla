------------------------------ MODULE MCFileFlow ------------------------------
(* FileFlow for TLC. *)
EXTENDS FileFlow
=============================================================================
