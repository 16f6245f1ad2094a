----------------------------- MODULE MCInputPath -----------------------------
(* InputPath for TLC: a link that only has a series, and one with responses. *)
EXTENDS InputPath, TLC

MCFlow == {1, 3, 4}
MCMessage == (0 .. 4) \X (0 .. MaxMessages)
MCProduced == 1 :> 2 @@ 3 :> 1 @@ 4 :> 1
MCGarbage == <<-1, 0>>
MCResponder == {2}
=============================================================================
