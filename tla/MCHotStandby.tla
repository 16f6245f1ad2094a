---------------------------- MODULE MCHotStandby ----------------------------
(* TLC instance of HotStandby; the bounds are in the configurations.        *)
EXTENDS HotStandby, TLC

\* Three messages with one exit, or two with two.
TradedOff == fresh + crashes <= 4

\* The nodes are alike, and the properties of the run are about safety.
Symmetry == Permutations(Node)
=============================================================================
