------------------------------- MODULE MCFanout -------------------------------
(* Fanout for TLC: some messages are of one topic, the others of two and of  *)
(* an index.                                                                 *)
EXTENDS Fanout

CONSTANTS t1, t2

MCNumbers == {-1, 1}
MCKinds == {<< <<t1>>, {}>>, << <<t2, t1>>, Index>>}
=============================================================================
