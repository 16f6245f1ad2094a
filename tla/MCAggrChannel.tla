--------------------------- MODULE MCAggrChannel ---------------------------
(* AggrChannel for TLC.                                                    *)
EXTENDS AggrChannel
=============================================================================
