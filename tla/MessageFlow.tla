----------------------------- MODULE MessageFlow -----------------------------
(***************************************************************************)
(* What every flow promises (CFlow and CReadFlow of src_protocol/flow):    *)
(* messages are appended and stay what they are under their numbers, and a *)
(* reader that asks for one number after the other is given exactly these  *)
(* messages, whatever part of the flow is where.                           *)
(*                                                                         *)
(* The promise ends, and broken becomes TRUE for ever, with something the  *)
(* implementation names as its cause.                                      *)
(***************************************************************************)
EXTENDS Integers, Sequences

CONSTANTS Reader, Message

VARIABLES
  log,      (* the messages of the flow                                    *)
  next,     (* next[r]: the number r asks for next                         *)
  last,     (* last[r]: what r was given last                              *)
  broken    (* the promise has ended                                       *)

vars == <<log, next, last, broken>>

Init ==
  /\ log \in Seq(Message)
  /\ next \in [Reader -> 0 .. Len(log)]
  /\ last \in [Reader -> Message]
  /\ broken = FALSE

AppendMessage ==
  /\ ~broken'
  /\ \E m \in Message : log' = Append(log, m)
  /\ UNCHANGED <<next, last>>

\* r is given its next message.
Give(r) ==
  /\ ~broken'
  /\ next[r] < Len(log)
  /\ next' = [next EXCEPT ![r] = @ + 1]
  /\ last' = [last EXCEPT ![r] = log[next[r] + 1]]
  /\ UNCHANGED log

Break == broken'

Next == AppendMessage \/ Break \/ \E r \in Reader : Give(r)

Spec == Init /\ [][Next]_vars
=============================================================================
