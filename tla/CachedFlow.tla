------------------------------ MODULE CachedFlow ------------------------------
(***************************************************************************)
(* m_pPreSeries, a CCachedFlow that keeps a window of the latest messages  *)
(* in memory over the persisted m_pTradeSeries, and the two threads that   *)
(* use it.  One thread appends, under the write lock; SyncUnderFlow copies *)
(* the next message of the window to the flow beneath without the lock;    *)
(* the other thread reads, under the read lock, first from the window and  *)
(* then from beneath.  CPubFlow decides how far the appending thread may   *)
(* run ahead.                                                              *)
(*                                                                         *)
(* A message has the number of messages before it as its id, from 0.       *)
(***************************************************************************)
EXTENDS Integers, Sequences, FiniteSets

CONSTANTS
  Message,       (* contents                                               *)
  Garbage,       (* what is found where no message is                      *)
  MaxObjects,    (* m_nMaxObjects: capacity of the window                  *)
  MaxMessages,   (* bound: length of the flow                              *)
  MaxPersisted   (* bound: messages persisted before the start             *)

\* CKernelApp gives the window twice the configured number (at least 1).
ASSUME FlowBounds ==
  /\ MaxObjects \in Nat /\ MaxObjects >= 2
  /\ MaxMessages \in Nat /\ MaxPersisted \in 0 .. MaxMessages
  /\ Garbage \notin Message

VARIABLES
  role,       (* state of the node, which tells who does what              *)
  first,      (* m_nFirstID: id of the oldest message in the window        *)
  nodes,      (* m_NodeQueue with the messages it points to                *)
  count,      (* m_nCount                                                  *)
  under,      (* m_pUnderFlow, the persisted messages                      *)
  pc,         (* pc[t]: where thread t is                                  *)
  adding,     (* the message of the Append under way                       *)
  key,        (* the id being confirmed                                    *)
  index,      (* n of SyncUnderFlow                                        *)
  ack, entry, (* CPubFlow: last confirmed key, series length that waits    *)
  answered,   (* PRIMARY: the next id the standby has to answer for        *)
  next, last, (* the reader: m_nNextId, and what it was given last         *)
  raced       (* history: SyncUnderFlow read the window while it moved     *)

window == <<first, nodes, count>>
pubflow == <<ack, entry>>
reading == <<next, last>>
vars == <<role, window, under, pc, adding, key, index, pubflow, answered, reading, raced>>

Thread == {"kernel", "sequencer"}
Role == {"primary", "single", "secondary"}
Id == 0 .. MaxMessages

\* The matching thread appends what it takes in; on a SECONDARY the sequencer
\* appends what the primary ships and the matching thread replays.
Appender == IF role = "secondary" THEN "sequencer" ELSE "kernel"
Reader == IF role = "secondary" THEN "kernel" ELSE "sequencer"
\* PRIMARY: the sequencer confirms what the standby answers.
Syncer == IF role = "primary" THEN "sequencer" ELSE Appender

Later(a, b) == IF a > b THEN a ELSE b

\* AttachUnderFlow: the window is filled with the end of the flow beneath.
Attach(persisted) ==
  /\ under = persisted
  /\ first = Later(0, Len(persisted) - MaxObjects)
  /\ nodes = SubSeq(persisted, first + 1, Len(persisted))
  /\ count = Len(persisted)

\* FirstReDo leaves CPubFlow with everything confirmed.
Start(persisted) ==
  /\ Attach(persisted)
  /\ role \in Role
  /\ pc = [t \in Thread |-> "idle"]
  /\ adding = Garbage /\ key = 0 /\ index = 0
  /\ ack = count /\ entry = -1
  /\ next \in IF role = "secondary" THEN {count} ELSE 0 .. count
  /\ answered = next
  /\ last = Garbage
  /\ raced = FALSE

Init == \E n \in 0 .. MaxPersisted : \E persisted \in [1 .. n -> Message] : Start(persisted)

\* m_NodeQueue[n]
NodeAt(n) == IF n \in 0 .. Len(nodes) - 1 THEN nodes[n + 1] ELSE Garbage

Step(t, from, to) == pc[t] = from /\ pc' = [pc EXCEPT ![t] = to]

-----------------------------------------------------------------------------
(* Append, under the write lock.                                           *)

Full == Len(nodes) >= MaxObjects

\* PopFront, its first part: the queue loses its head.
BeginAppend(m) ==
  /\ count < MaxMessages
  /\ Step(Appender, "idle", IF Full THEN "shift" ELSE "push")
  /\ nodes' = IF Full THEN Tail(nodes) ELSE nodes
  /\ adding' = m
  /\ raced' = (raced \/ (Full /\ Syncer # Appender /\ pc[Syncer] = "copy"))
  /\ UNCHANGED <<role, first, count, under, key, index, pubflow, answered, reading>>

\* Mutant: the id of the oldest message is forgotten.
ShiftForgotten ==
  /\ Step(Appender, "shift", "push")
  /\ UNCHANGED <<role, window, under, adding, key, index, pubflow, answered, reading, raced>>

\* PopFront, its second part.
Shift ==
  /\ Step(Appender, "shift", "push")
  /\ first' = first + 1
  /\ UNCHANGED <<role, nodes, count, under, adding, key, index, pubflow, answered, reading,
                 raced>>

\* The message is in the window and the lock is released; then the thread
\* confirms it itself or, PRIMARY, registers it.
Push ==
  /\ Step(Appender, "push", IF role = "primary" THEN "register" ELSE "sync")
  /\ nodes' = Append(nodes, adding)
  /\ count' = first + Len(nodes')
  /\ key' = IF role = "primary" THEN key ELSE count
  /\ UNCHANGED <<role, first, under, adding, index, pubflow, answered, reading, raced>>

Locked == pc[Appender] \in {"shift", "push"}

-----------------------------------------------------------------------------
(* Confirmation: CCompServer::ConfirmQueued and the loop of RealDo.         *)

\* PRIMARY: the standby answers for one message after the other.
AnswerArrives ==
  /\ role = "primary"
  /\ answered < next
  /\ answered' = answered + 1
  /\ IF answered < Len(under)
     THEN UNCHANGED <<key, pc>>
     ELSE key' = answered /\ Step("sequencer", "idle", "sync")
  /\ UNCHANGED <<role, window, under, adding, index, pubflow, reading, raced>>

\* SyncUnderFlow finds out where the message is in the window ...
SyncIndex ==
  /\ key = Len(under) /\ count > Len(under)
  /\ Step(Syncer, "sync", "copy")
  /\ index' = Len(under) - first
  /\ raced' = (raced \/ pc[Appender] = "shift")
  /\ UNCHANGED <<role, window, under, adding, key, pubflow, answered, reading>>

\* ... and appends it to the flow beneath.
SyncCopy ==
  /\ Step(Syncer, "copy", "confirm")
  /\ under' = Append(under, NodeAt(index))
  /\ UNCHANGED <<role, window, adding, key, index, pubflow, answered, reading, raced>>

\* CPubFlow::ConfirmQueued
Confirm ==
  /\ Step(Syncer, "confirm", IF Syncer = "kernel" THEN "register" ELSE "idle")
  /\ ack' = key
  /\ entry' = IF entry <= key THEN -1 ELSE entry
  /\ UNCHANGED <<role, window, under, adding, key, index, answered, reading, raced>>

\* Mutant: the matching thread does not wait for the entry to be released.
RegisterAnyway ==
  /\ Step("kernel", "register", "idle")
  /\ entry' = IF count <= ack THEN entry ELSE count
  /\ UNCHANGED <<role, window, under, adding, key, index, ack, answered, reading, raced>>

\* CPubFlow::SetSIDAndRID, which waits until the last entry is released.
Register ==
  /\ entry = -1
  /\ Step("kernel", "register", "idle")
  /\ entry' = IF count <= ack THEN entry ELSE count
  /\ UNCHANGED <<role, window, under, adding, key, index, ack, answered, reading, raced>>

-----------------------------------------------------------------------------
(* CFlowReader::GetNext, which goes on whether or not it was given a        *)
(* message.                                                                *)

ReadCached ==
  /\ pc[Reader] = "idle" /\ ~Locked
  /\ next < count
  /\ next >= first
  /\ last' = NodeAt(next - first)
  /\ next' = next + 1
  /\ UNCHANGED <<role, window, under, pc, adding, key, index, pubflow, answered, raced>>

\* Not in the window: the lock is released, then the flow beneath is asked.
ReadMissed ==
  /\ ~Locked
  /\ next < count
  /\ next < first
  /\ Step(Reader, "idle", "beneath")
  /\ UNCHANGED <<role, window, under, adding, key, index, pubflow, answered, reading, raced>>

ReadBeneath ==
  /\ Step(Reader, "beneath", "idle")
  /\ last' = IF next < Len(under) THEN under[next + 1] ELSE Garbage
  /\ next' = next + 1
  /\ UNCHANGED <<role, window, under, adding, key, index, pubflow, answered, raced>>

-----------------------------------------------------------------------------

Confirmation ==
  \/ AnswerArrives
  \/ SyncIndex
  \/ SyncCopy
  \/ Confirm
  \/ Register

Reading ==
  \/ ReadCached
  \/ ReadMissed
  \/ ReadBeneath

Next ==
  \/ \E m \in Message : BeginAppend(m)
  \/ Shift
  \/ Push
  \/ Confirmation
  \/ Reading

Spec == Init /\ [][Next]_vars

-----------------------------------------------------------------------------
(* Properties.                                                             *)

TypeOK ==
  /\ role \in Role
  /\ {first, count, key, answered, next} \subseteq Id
  /\ nodes \in Seq(Message) /\ Len(nodes) <= MaxObjects
  /\ under \in Seq(Message \union {Garbage}) /\ Len(under) <= MaxMessages
  /\ pc["kernel"] \in {"idle", "shift", "push", "sync", "copy", "confirm", "register", "beneath"}
  /\ pc["sequencer"] \in {"idle", "shift", "push", "sync", "copy", "confirm", "beneath"}
  /\ adding \in Message \union {Garbage}
  /\ index \in Int
  /\ ack \in Id /\ entry \in Id \union {-1}
  /\ last \in Message \union {Garbage}
  /\ raced \in BOOLEAN

\* The oldest id in the window, whichever part of PopFront is done.
Oldest == IF pc[Appender] = "shift" THEN first + 1 ELSE first

\* The window never drops a message that is not yet in the flow beneath, though
\* nothing in CCachedFlow looks: it holds because CPubFlow stops the matching
\* thread soon enough.
NothingDropped == Oldest <= Len(under)

\* The flow is an append-only log that the reader sees message by message,
\* whether a message is in the window or beneath it, as long as SyncUnderFlow
\* has not read the window while an Append moved it.
Contents == SubSeq(under, 1, Oldest) \o nodes
Abstract == INSTANCE MessageFlow WITH
  Reader <- {1}, Message <- Message \union {Garbage}, log <- Contents,
  next <- <<next>>, last <- <<last>>, broken <- raced
ImplementsFlow == Abstract!Spec
=============================================================================
