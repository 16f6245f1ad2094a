------------------------------ MODULE MCTcpLink ------------------------------
(* TcpLink for TLC. *)
EXTENDS TcpLink
MCSequenceNos == {-1, 0, 1}
=============================================================================
