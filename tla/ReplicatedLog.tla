---------------------------- MODULE ReplicatedLog ----------------------------
(***************************************************************************)
(* What a hot-standby pair promises to those who read its output: there is *)
(* one log, which only gets longer; each replica gives its readers a       *)
(* beginning of it.  Whichever replica fails or takes over, what was once  *)
(* given by anybody stays in the log, and whoever first gives more decides *)
(* how it goes on.  A replica that restarts may begin with less again.     *)
(*                                                                         *)
(* The promise ends, and voided becomes TRUE for ever, when a replica goes *)
(* on alone without a part of the log that only the other one has.         *)
(***************************************************************************)
EXTENDS Integers, Sequences, SequencesExt

CONSTANTS Replica, Message

VARIABLES
  log,      (* everything any replica has ever given                       *)
  given,    (* given[r]: what r gives its readers now                      *)
  voided    (* the promise has ended                                       *)

vars == <<log, given, voided>>

Init ==
  /\ log = <<>>
  /\ given = [r \in Replica |-> <<>>]
  /\ voided = FALSE

\* r gives some more; beyond the log, it extends the log.
Give(r) ==
  /\ ~voided /\ ~voided'
  /\ given'[r] \in Seq(Message)
  /\ IsStrictPrefix(given[r], given'[r])
  /\ given' = [given EXCEPT ![r] = given'[r]]
  /\ IF Len(given'[r]) <= Len(log)
     THEN IsPrefix(given'[r], log) /\ log' = log
     ELSE IsPrefix(log, given'[r]) /\ log' = given'[r]

\* r restarts and gives less, but nothing else.
Restart(r) ==
  /\ ~voided /\ ~voided'
  /\ IsStrictPrefix(given'[r], given[r])
  /\ given' = [given EXCEPT ![r] = given'[r]]
  /\ log' = log

\* From here on nothing is promised.
Void == voided' = TRUE

Next == Void \/ \E r \in Replica : Give(r) \/ Restart(r)

Spec == Init /\ [][Next]_vars
=============================================================================
