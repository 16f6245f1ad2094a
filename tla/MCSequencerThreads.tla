------------------------ MODULE MCSequencerThreads ------------------------
(* TLC instance of SequencerThreads; the bounds are in the configurations.  *)
EXTENDS SequencerThreads
=============================================================================
