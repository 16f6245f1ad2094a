------------------------------- MODULE PathProofs -------------------------------
(***************************************************************************)
(* Proofs about the way in and the way out.                                *)
(*                                                                         *)
(* The way in: the input series (CachedFlow) and the way of a message into *)
(* it (InputPath), for any window of at least two messages, any number of  *)
(* messages, links and flows.                                              *)
(*                                                                         *)
(* The way out: the flows of the topics and indexes, what is asked for and *)
(* what is sent (Fanout), for any topics, indexes, sessions and windows.   *)
(* A flow holds its messages under their numbers in the order of the       *)
(* results (LogRight); the number that a request is given is the one it    *)
(* would have been given at its place among the results (FrontRight); and  *)
(* an end point has sent, or could not send, all that lies behind its      *)
(* reader (Served).  None of this is undone by what the other threads do,  *)
(* because the results and the flows only grow (Grows).                    *)
(***************************************************************************)
EXTENDS InputPath, Fanout, SequenceTheorems, FiniteSetTheorems, TLAPS

-----------------------------------------------------------------------------
(* The inductive invariant of the series.                                  *)

Place == {"idle", "shift", "push", "sync", "copy", "confirm", "register", "beneath"}

\* Which thread does what in each state of the node.
Where ==
  /\ pc \in [Thread -> Place]
  /\ role = "single" => /\ pc["kernel"] # "beneath"
                        /\ pc["sequencer"] \in {"idle", "beneath"}
  /\ role = "primary" => /\ pc["kernel"] \in {"idle", "shift", "push", "register"}
                         /\ pc["sequencer"] \in {"idle", "sync", "copy", "confirm", "beneath"}
  /\ role = "secondary" =>
       /\ pc["kernel"] \in {"idle", "beneath"}
       /\ pc["sequencer"] \in {"idle", "shift", "push", "sync", "copy", "confirm"}

\* The window and the flow beneath overlap or meet.
Overlap ==
  /\ count = Oldest + Len(nodes)
  /\ Oldest <= Len(under) /\ Len(under) <= count
  /\ Locked => Len(nodes) < MaxObjects /\ count < MaxMessages /\ adding \in Message

\* The key being confirmed is that of the next message to persist.
Syncing ==
  /\ pc[Syncer] = "copy" => key = Len(under) /\ key < count
  /\ pc[Syncer] = "confirm" => key + 1 = Len(under)

\* Where one thread appends and confirms, it persists its message first.
Alone ==
  role # "primary" =>
    /\ pc[Appender] \in {"idle", "shift", "push", "confirm", "register"} => Len(under) = count
    /\ pc[Appender] \in {"sync", "copy"} => Len(under) + 1 = count /\ key = Len(under)

\* PRIMARY: the entry in CPubFlow is for the series without the message being
\* registered, or the standby has answered for all of that.
Paired ==
  role = "primary" =>
    /\ ack <= Len(under)
    /\ pc["kernel"] # "register" =>
         /\ entry = -1 => Len(under) = count
         /\ entry # -1 => entry = count /\ count <= Len(under) + 1
    /\ pc["kernel"] = "register" =>
         /\ entry = -1 => count <= Len(under) + 1
         /\ entry # -1 => entry = count - 1 /\ count <= Len(under) + 2

\* What is persisted of the window is what the window holds, and SyncUnderFlow
\* takes the right message.
Agree ==
  ~raced =>
    /\ \A i \in 1 .. Len(nodes) : Oldest + i <= Len(under) => under[Oldest + i] = nodes[i]
    /\ pc[Syncer] = "copy" => index = Len(under) - Oldest

\* Whoever has left the window for the flow beneath asks for what is there.
Asking ==
  /\ answered <= next /\ next <= count
  /\ pc[Reader] = "beneath" => next < Oldest

FlowInv == TypeOK /\ Where /\ Overlap /\ Syncing /\ Alone /\ Paired /\ Agree /\ Asking

-----------------------------------------------------------------------------
(* Who appends, reads and persists.                                        *)

LEMMA Threads ==
  ASSUME TypeOK
  PROVE  /\ Appender \in Thread /\ Reader \in Thread /\ Syncer \in Thread
         /\ Reader # Appender
         /\ "kernel" \in Thread /\ "sequencer" \in Thread
         /\ role # "primary" => Syncer = Appender
         /\ role = "primary" => Appender = "kernel" /\ Reader = "sequencer" /\ Syncer = "sequencer"
         /\ role = "single" => Appender = "kernel" /\ Reader = "sequencer"
         /\ role = "secondary" => Appender = "sequencer" /\ Reader = "kernel"
         /\ role \in {"primary", "single", "secondary"}
BY DEF TypeOK, Role, Thread, Appender, Reader, Syncer

LEMMA ThreadsStay ==
  ASSUME role' = role
  PROVE  Appender' = Appender /\ Reader' = Reader /\ Syncer' = Syncer
BY DEF Appender, Reader, Syncer

LEMMA Lengths ==
  ASSUME TypeOK
  PROVE  /\ Len(nodes) \in Nat /\ Len(under) \in Nat
         /\ count \in Int /\ first \in Int /\ next \in Int /\ key \in Int /\ answered \in Int
         /\ Oldest \in Nat
         /\ MaxObjects \in Nat /\ MaxObjects >= 2 /\ MaxMessages \in Nat
BY FlowBounds, LenProperties DEF TypeOK, Id, Oldest

LEMMA StartInv == Init => FlowInv
<1> SUFFICES ASSUME Init PROVE FlowInv
  OBVIOUS
<1> USE FlowBounds
<1>0. PICK n \in 0 .. MaxPersisted : \E persisted \in [1 .. n -> Message] : Start(persisted)
  BY DEF Init
<1>1. PICK persisted \in [1 .. n -> Message] : Start(persisted)
  BY <1>0
<1>2. persisted \in Seq(Message) /\ Len(persisted) = n /\ n \in Nat /\ n <= MaxMessages
  BY <1>1
<1> DEFINE f == Later(0, n - MaxObjects)
<1>3. f \in 0 .. n /\ n - f <= MaxObjects /\ f \in Nat
  BY <1>2 DEF Later
<1>4. /\ under = persisted /\ first = f /\ count = n
      /\ nodes = SubSeq(persisted, f + 1, n)
  BY <1>1, <1>2 DEF Start, Attach
<1> HIDE DEF f
<1>5. nodes \in Seq(Message) /\ Len(nodes) = n - f /\ \A i \in 1 .. n - f : nodes[i] = persisted[f + i]
  <2>1. \A i \in f + 1 .. n : persisted[i] \in Message
    BY <1>1, <1>2, <1>3
  <2>2. /\ SubSeq(persisted, f + 1, n) \in Seq(Message)
        /\ Len(SubSeq(persisted, f + 1, n)) = IF f + 1 <= n THEN n - (f + 1) + 1 ELSE 0
        /\ \A i \in 1 .. n - (f + 1) + 1 : SubSeq(persisted, f + 1, n)[i] = persisted[(f + 1) + i - 1]
    BY <1>2, <1>3, <2>1, SubSeqProperties
  <2>3. QED
    BY <1>2, <1>3, <1>4, <2>2
<1>6. /\ role \in Role
      /\ pc = [t \in Thread |-> "idle"]
      /\ adding = Garbage /\ key = 0 /\ index = 0
      /\ ack = count /\ entry = -1
      /\ next \in 0 .. count
      /\ answered = next
      /\ last = Garbage
      /\ raced = FALSE
  BY <1>1, <1>2, <1>4 DEF Start
<1>7. TypeOK
  <2>1. under \in Seq(Message \union {Garbage})
    BY <1>2, <1>4
  <2>2. {first, count, key, answered, next} \subseteq Id /\ Len(under) <= MaxMessages /\ Len(nodes) <= MaxObjects
    BY <1>2, <1>3, <1>4, <1>5, <1>6 DEF Id
  <2>3. pc["kernel"] = "idle" /\ pc["sequencer"] = "idle"
    BY <1>6 DEF Thread
  <2>4. index \in Int /\ ack \in Id /\ entry \in Id \union {-1}
    BY <1>6, <2>2
  <2>5. raced \in BOOLEAN
    BY <1>6
  <2>6. QED
    BY <1>5, <1>6, <2>1, <2>2, <2>3, <2>4, <2>5 DEF TypeOK
<1>8. Appender \in Thread /\ Reader \in Thread /\ Syncer \in Thread
  BY <1>7, Threads
<1>9. Oldest = first /\ ~Locked
  BY <1>6, <1>8 DEF Oldest, Locked
<1>10. Where
  BY <1>6 DEF Where, Thread, Place
<1>11. Overlap
  BY <1>2, <1>3, <1>4, <1>5, <1>9 DEF Overlap
<1>12. Syncing /\ Alone /\ Paired
  BY <1>2, <1>4, <1>6, <1>8 DEF Syncing, Alone, Paired, Thread
<1>13. Agree
  BY <1>2, <1>3, <1>4, <1>5, <1>6, <1>8, <1>9 DEF Agree
<1>14. Asking
  BY <1>2, <1>4, <1>6, <1>8 DEF Asking
<1>15. QED
  BY <1>7, <1>10, <1>11, <1>12, <1>13, <1>14 DEF FlowInv

-----------------------------------------------------------------------------
(* Append.                                                                 *)

LEMMA BeginAppendInv ==
  ASSUME FlowInv, NEW m \in Message, BeginAppend(m)
  PROVE  FlowInv'
<1> USE FlowBounds
<1>1. /\ TypeOK /\ Where /\ Overlap /\ Syncing /\ Alone /\ Paired /\ Agree /\ Asking
      /\ UNCHANGED <<role, first, count, under, key, index, ack, entry, answered, next, last>>
      /\ adding' = m /\ count < MaxMessages
      /\ pc[Appender] = "idle"
      /\ pc' = [pc EXCEPT ![Appender] = IF Full THEN "shift" ELSE "push"]
      /\ nodes' = IF Full THEN Tail(nodes) ELSE nodes
      /\ raced' = (raced \/ (Full /\ Syncer # Appender /\ pc[Syncer] = "copy"))
  BY DEF FlowInv, BeginAppend, Step, pubflow, reading
<1>2. /\ nodes' \in Seq(Message) /\ Len(nodes') \in Nat
      /\ Full => Len(nodes') = Len(nodes) - 1 /\ \A i \in 1 .. Len(nodes') : nodes'[i] = nodes[i + 1]
      /\ Len(nodes') < MaxObjects
  <2>1. nodes \in Seq(Message) /\ Len(nodes) <= MaxObjects /\ Len(nodes) \in Nat
    BY <1>1, Lengths DEF TypeOK
  <2>2. CASE Full
    <3>1. nodes # <<>>
      BY <2>1, <2>2 DEF Full
    <3>2. QED
      BY <1>1, <2>1, <2>2, <3>1, HeadTailProperties
  <2>3. CASE ~Full
    BY <1>1, <2>1, <2>3 DEF Full
  <2>4. QED
    BY <2>2, <2>3
<1>3. /\ Appender' = Appender /\ Reader' = Reader /\ Syncer' = Syncer
      /\ Appender \in Thread /\ Reader \in Thread /\ Syncer \in Thread
      /\ pc \in [Thread -> Place] /\ pc' \in [Thread -> Place]
      /\ pc'[Appender] = IF Full THEN "shift" ELSE "push"
      /\ \A t \in Thread : t # Appender => pc'[t] = pc[t]
  BY <1>1, Threads, ThreadsStay DEF Where, Place
<1>4. Oldest' = IF Full THEN Oldest + 1 ELSE Oldest
  BY <1>1, <1>3, Lengths DEF Oldest
<1>5. TypeOK'
  BY <1>1, <1>2, <1>3, Threads DEF TypeOK, Thread
<1>6. Where'
  BY <1>1, <1>3, Threads DEF Where, Thread
<1>7. Overlap'
  BY <1>1, <1>2, <1>3, <1>4, Lengths, Threads DEF Overlap, Alone, Paired, Full, Locked
<1>8. Syncing' /\ Alone' /\ Paired'
  BY <1>1, <1>3, Threads DEF Syncing, Alone, Paired, Where
<1>9. Agree'
  <2>1. SUFFICES ASSUME ~raced' PROVE Agree'
    BY DEF Agree
  <2>2. ~raced /\ (Full => Syncer = Appender \/ pc[Syncer] # "copy")
    BY <1>1, <2>1
  <2>3. ASSUME NEW i \in 1 .. Len(nodes'), Oldest' + i <= Len(under')
        PROVE  under'[Oldest' + i] = nodes'[i]
    <3>1. CASE Full
      <4>1. i + 1 \in 1 .. Len(nodes) /\ Oldest + (i + 1) <= Len(under)
        BY <1>1, <1>2, <1>4, <2>3, <3>1, Lengths
      <4>2. under[Oldest + (i + 1)] = nodes[i + 1]
        BY <1>1, <2>2, <4>1 DEF Agree
      <4>3. nodes'[i] = nodes[i + 1] /\ Oldest' + i = Oldest + (i + 1)
        BY <1>1, <1>2, <1>4, <3>1, Lengths
      <4>4. QED
        BY <1>1, <4>2, <4>3
    <3>2. CASE ~Full
      BY <1>1, <1>4, <2>2, <2>3, <3>2 DEF Agree
    <3>3. QED
      BY <3>1, <3>2
  <2>4. pc'[Syncer'] = "copy" => index' = Len(under') - Oldest'
    BY <1>1, <1>3, <1>4, <2>2 DEF Agree
  <2>5. QED
    BY <2>3, <2>4 DEF Agree
<1>10. Asking'
  BY <1>1, <1>3, <1>4, Lengths, Threads DEF Asking
<1>11. QED
  BY <1>5, <1>6, <1>7, <1>8, <1>9, <1>10 DEF FlowInv

LEMMA ShiftInv ==
  ASSUME FlowInv, Shift
  PROVE  FlowInv'
<1> USE FlowBounds
<1>1. /\ TypeOK /\ Where /\ Overlap /\ Syncing /\ Alone /\ Paired /\ Agree /\ Asking
      /\ UNCHANGED <<role, nodes, count, under, adding, key, index, ack, entry, answered,
                     next, last, raced>>
      /\ first' = first + 1
      /\ pc[Appender] = "shift" /\ pc' = [pc EXCEPT ![Appender] = "push"]
  BY DEF FlowInv, Shift, Step, pubflow, reading
<1>2. /\ Appender' = Appender /\ Reader' = Reader /\ Syncer' = Syncer
      /\ Appender \in Thread /\ Reader \in Thread /\ Syncer \in Thread
      /\ pc \in [Thread -> Place] /\ pc' \in [Thread -> Place]
      /\ pc'[Appender] = "push"
      /\ \A t \in Thread : t # Appender => pc'[t] = pc[t]
  BY <1>1, Threads, ThreadsStay DEF Where, Place
<1>3. Oldest' = Oldest
  BY <1>1, <1>2, Lengths DEF Oldest
<1>4. TypeOK'
  <2>1. first' \in Id
    BY <1>1, Lengths DEF TypeOK, Id, Overlap, Oldest
  <2>2. QED
    BY <1>1, <1>2, <2>1, Threads DEF TypeOK, Thread
<1>5. Where'
  BY <1>1, <1>2, Threads DEF Where, Thread
<1>6. Overlap'
  BY <1>1, <1>2, <1>3 DEF Overlap, Locked
<1>7. Syncing' /\ Alone' /\ Paired'
  BY <1>1, <1>2, Threads DEF Syncing, Alone, Paired, Where
<1>8. Agree' /\ Asking'
  BY <1>1, <1>2, <1>3, Threads DEF Agree, Asking
<1>9. QED
  BY <1>4, <1>5, <1>6, <1>7, <1>8 DEF FlowInv

LEMMA PushInv ==
  ASSUME FlowInv, Push
  PROVE  FlowInv'
<1> USE FlowBounds
<1> DEFINE to == IF role = "primary" THEN "register" ELSE "sync"
<1>1. /\ TypeOK /\ Where /\ Overlap /\ Syncing /\ Alone /\ Paired /\ Agree /\ Asking
      /\ UNCHANGED <<role, first, under, adding, index, ack, entry, answered, next, last, raced>>
      /\ nodes' = Append(nodes, adding) /\ count' = first + Len(nodes')
      /\ key' = IF role = "primary" THEN key ELSE count
      /\ pc[Appender] = "push" /\ pc' = [pc EXCEPT ![Appender] = to]
  BY DEF FlowInv, Push, Step, pubflow, reading
<1>2. /\ Appender' = Appender /\ Reader' = Reader /\ Syncer' = Syncer
      /\ Appender \in Thread /\ Reader \in Thread /\ Syncer \in Thread
      /\ pc \in [Thread -> Place] /\ pc' \in [Thread -> Place]
      /\ pc'[Appender] = to
      /\ \A t \in Thread : t # Appender => pc'[t] = pc[t]
  BY <1>1, Threads, ThreadsStay DEF Where, Place
<1>3. Len(nodes) < MaxObjects /\ count < MaxMessages /\ adding \in Message
  BY <1>1 DEF Overlap, Locked
<1>4. /\ nodes' \in Seq(Message) /\ Len(nodes') = Len(nodes) + 1
      /\ \A i \in 1 .. Len(nodes) : nodes'[i] = nodes[i]
  BY <1>1, <1>3, AppendProperties DEF TypeOK
<1>5. Oldest = first /\ Oldest' = first /\ count' = count + 1
  BY <1>1, <1>2, <1>4, Lengths DEF Oldest, Overlap
<1>6. TypeOK'
  <2>1. count' \in Id /\ key' \in Id /\ Len(nodes') <= MaxObjects
    BY <1>1, <1>3, <1>4, <1>5, Lengths DEF TypeOK, Id
  <2>2. QED
    BY <1>1, <1>2, <1>4, <2>1, Threads DEF TypeOK, Thread
<1>7. Where'
  BY <1>1, <1>2, Threads DEF Where, Thread
<1>8. Overlap'
  BY <1>1, <1>2, <1>4, <1>5, Lengths DEF Overlap, Locked
<1>9. Syncing' /\ Alone' /\ Paired'
  <2>1. Syncing'
    BY <1>1, <1>2, <1>5, Lengths, Threads DEF Syncing
  <2>2. Alone'
    BY <1>1, <1>2, <1>5, Lengths, Threads DEF Alone
  <2>3. Paired'
    BY <1>1, <1>2, <1>5, Lengths, Threads DEF Paired
  <2>4. QED
    BY <2>1, <2>2, <2>3
<1>10. Agree'
  <2>1. SUFFICES ASSUME ~raced PROVE Agree'
    BY <1>1 DEF Agree
  <2>2. ASSUME NEW i \in 1 .. Len(nodes'), Oldest' + i <= Len(under')
        PROVE  under'[Oldest' + i] = nodes'[i]
    BY <1>1, <1>4, <1>5, <2>1, <2>2, Lengths DEF Agree, Alone, Paired, Overlap
  <2>3. pc'[Syncer'] = "copy" => index' = Len(under') - Oldest'
    BY <1>1, <1>2, <1>5, <2>1, Threads DEF Agree
  <2>4. QED
    BY <2>2, <2>3 DEF Agree
<1>11. Asking'
  BY <1>1, <1>2, <1>5, Lengths, Threads DEF Asking
<1>12. QED
  BY <1>6, <1>7, <1>8, <1>9, <1>10, <1>11 DEF FlowInv

-----------------------------------------------------------------------------
(* Confirmation.                                                           *)

LEMMA AnswerArrivesInv ==
  ASSUME FlowInv, AnswerArrives
  PROVE  FlowInv'
<1> USE FlowBounds
<1>1. /\ TypeOK /\ Where /\ Overlap /\ Syncing /\ Alone /\ Paired /\ Agree /\ Asking
      /\ role = "primary" /\ answered < next /\ answered' = answered + 1
      /\ UNCHANGED <<role, first, nodes, count, under, adding, index, ack, entry, next, last, raced>>
  BY DEF FlowInv, AnswerArrives, window, pubflow, reading
<1>2. /\ Appender' = Appender /\ Reader' = Reader /\ Syncer' = Syncer
      /\ Appender = "kernel" /\ Reader = "sequencer" /\ Syncer = "sequencer"
      /\ pc \in [Thread -> Place]
  BY <1>1, Threads, ThreadsStay DEF Where
<1>3. /\ pc' \in [Thread -> Place] /\ pc'["kernel"] = pc["kernel"]
      /\ key' \in Id
      /\ \/ pc' = pc /\ key' = key
         \/ pc["sequencer"] = "idle" /\ pc'["sequencer"] = "sync"
  <2>1. CASE answered < Len(under)
    BY <1>1, <1>2, <2>1 DEF AnswerArrives, TypeOK
  <2>2. CASE ~(answered < Len(under))
    BY <1>1, <1>2, <2>2 DEF AnswerArrives, TypeOK, Step, Thread, Place
  <2>3. QED
    BY <2>1, <2>2
<1>4. Oldest' = Oldest
  BY <1>1, <1>2, <1>3 DEF Oldest
<1>5. TypeOK'
  <2>1. answered' \in Id
    BY <1>1, Lengths DEF TypeOK, Id
  <2>2. QED
    BY <1>1, <1>2, <1>3, <2>1, Threads DEF TypeOK, Thread
<1>6. Where'
  BY <1>1, <1>3 DEF Where, Thread
<1>7. Overlap'
  BY <1>1, <1>2, <1>3, <1>4 DEF Overlap, Locked
<1>8. Syncing' /\ Alone' /\ Paired'
  BY <1>1, <1>2, <1>3 DEF Syncing, Alone, Paired, Where
<1>9. Agree' /\ Asking'
  BY <1>1, <1>2, <1>3, <1>4, Lengths DEF Agree, Asking
<1>10. QED
  BY <1>5, <1>6, <1>7, <1>8, <1>9 DEF FlowInv

LEMMA SyncIndexInv ==
  ASSUME FlowInv, SyncIndex
  PROVE  FlowInv'
<1> USE FlowBounds
<1>1. /\ TypeOK /\ Where /\ Overlap /\ Syncing /\ Alone /\ Paired /\ Agree /\ Asking
      /\ UNCHANGED <<role, first, nodes, count, under, adding, key, ack, entry, answered, next, last>>
      /\ key = Len(under) /\ count > Len(under)
      /\ index' = Len(under) - first
      /\ raced' = (raced \/ pc[Appender] = "shift")
      /\ pc[Syncer] = "sync" /\ pc' = [pc EXCEPT ![Syncer] = "copy"]
  BY DEF FlowInv, SyncIndex, Step, window, pubflow, reading
<1>2. /\ Appender' = Appender /\ Reader' = Reader /\ Syncer' = Syncer
      /\ Appender \in Thread /\ Reader \in Thread /\ Syncer \in Thread
      /\ pc \in [Thread -> Place] /\ pc' \in [Thread -> Place]
      /\ pc'[Syncer] = "copy"
      /\ \A t \in Thread : t # Syncer => pc'[t] = pc[t]
  BY <1>1, Threads, ThreadsStay DEF Where, Place
<1>3. Oldest' = Oldest /\ (~raced' => Oldest = first)
  BY <1>1, <1>2 DEF Oldest
<1>4. TypeOK'
  BY <1>1, <1>2, Lengths, Threads DEF TypeOK, Thread
<1>5. Where'
  BY <1>1, <1>2, Threads DEF Where, Thread
<1>6. Overlap'
  BY <1>1, <1>2, <1>3 DEF Overlap, Locked
<1>7. Syncing' /\ Alone' /\ Paired'
  BY <1>1, <1>2, Lengths, Threads DEF Syncing, Alone, Paired, Where
<1>8. Agree'
  BY <1>1, <1>2, <1>3 DEF Agree
<1>9. Asking'
  BY <1>1, <1>2, <1>3, Threads DEF Asking
<1>10. QED
  BY <1>4, <1>5, <1>6, <1>7, <1>8, <1>9 DEF FlowInv

LEMMA SyncCopyInv ==
  ASSUME FlowInv, SyncCopy
  PROVE  FlowInv'
<1> USE FlowBounds
<1>1. /\ TypeOK /\ Where /\ Overlap /\ Syncing /\ Alone /\ Paired /\ Agree /\ Asking
      /\ UNCHANGED <<role, first, nodes, count, adding, key, index, ack, entry, answered, next, last, raced>>
      /\ under' = Append(under, NodeAt(index))
      /\ pc[Syncer] = "copy" /\ pc' = [pc EXCEPT ![Syncer] = "confirm"]
  BY DEF FlowInv, SyncCopy, Step, window, pubflow, reading
<1>2. /\ Appender' = Appender /\ Reader' = Reader /\ Syncer' = Syncer
      /\ Appender \in Thread /\ Reader \in Thread /\ Syncer \in Thread
      /\ pc \in [Thread -> Place] /\ pc' \in [Thread -> Place]
      /\ pc'[Syncer] = "confirm"
      /\ \A t \in Thread : t # Syncer => pc'[t] = pc[t]
  BY <1>1, Threads, ThreadsStay DEF Where, Place
<1>3. Oldest' = Oldest
  BY <1>1, <1>2 DEF Oldest
<1>4. NodeAt(index) \in Message \union {Garbage}
  <2>1. \A n \in 1 .. Len(nodes) : nodes[n] \in Message
    BY <1>1, ElementOfSeq DEF TypeOK
  <2>2. index \in Int
    BY <1>1 DEF TypeOK
  <2>3. QED
    BY <2>1, <2>2, Lengths, <1>1 DEF NodeAt
<1>5. /\ under' \in Seq(Message \union {Garbage}) /\ Len(under') = Len(under) + 1
      /\ \A i \in 1 .. Len(under) : under'[i] = under[i]
      /\ under'[Len(under) + 1] = NodeAt(index)
  BY <1>1, <1>4, AppendProperties DEF TypeOK
<1>6. key = Len(under) /\ Len(under) < count /\ count <= MaxMessages
  BY <1>1 DEF Syncing, TypeOK, Id
<1>7. TypeOK'
  BY <1>1, <1>2, <1>5, <1>6, Lengths, Threads DEF TypeOK, Thread
<1>8. Where'
  BY <1>1, <1>2, Threads DEF Where, Thread
<1>9. Overlap'
  BY <1>1, <1>2, <1>3, <1>5, <1>6, Lengths DEF Overlap, Locked
<1>10. Syncing' /\ Alone' /\ Paired'
  BY <1>1, <1>2, <1>5, <1>6, Lengths, Threads DEF Syncing, Alone, Paired, Where, TypeOK, Id
<1>11. Agree'
  <2>1. SUFFICES ASSUME ~raced PROVE Agree'
    BY <1>1 DEF Agree
  <2>2. NodeAt(index) = nodes[Len(under) - Oldest + 1]
    BY <1>1, <1>6, <2>1, Lengths DEF Agree, Overlap, NodeAt
  <2>3. ASSUME NEW i \in 1 .. Len(nodes'), Oldest' + i <= Len(under')
        PROVE  under'[Oldest' + i] = nodes'[i]
    <3>1. CASE Oldest + i <= Len(under)
      BY <1>1, <1>3, <1>5, <2>1, <2>3, <3>1, Lengths DEF Agree, Overlap
    <3>2. CASE ~(Oldest + i <= Len(under))
      <4>1. Oldest + i = Len(under) + 1 /\ i = Len(under) - Oldest + 1
        BY <1>1, <1>3, <1>5, <2>3, <3>2, Lengths
      <4>2. QED
        BY <1>1, <1>3, <1>5, <2>2, <4>1
    <3>3. QED
      BY <3>1, <3>2
  <2>4. QED
    BY <1>2, <2>3 DEF Agree
<1>12. Asking'
  BY <1>1, <1>2, <1>3, Threads DEF Asking
<1>13. QED
  BY <1>7, <1>8, <1>9, <1>10, <1>11, <1>12 DEF FlowInv

LEMMA ConfirmInv ==
  ASSUME FlowInv, Confirm
  PROVE  FlowInv'
<1> USE FlowBounds
<1> DEFINE to == IF Syncer = "kernel" THEN "register" ELSE "idle"
<1>1. /\ TypeOK /\ Where /\ Overlap /\ Syncing /\ Alone /\ Paired /\ Agree /\ Asking
      /\ UNCHANGED <<role, first, nodes, count, under, adding, key, index, answered, next, last, raced>>
      /\ ack' = key /\ entry' = IF entry <= key THEN -1 ELSE entry
      /\ pc[Syncer] = "confirm" /\ pc' = [pc EXCEPT ![Syncer] = to]
  BY DEF FlowInv, Confirm, Step, window, reading
<1>2. /\ Appender' = Appender /\ Reader' = Reader /\ Syncer' = Syncer
      /\ Appender \in Thread /\ Reader \in Thread /\ Syncer \in Thread
      /\ pc \in [Thread -> Place] /\ pc' \in [Thread -> Place]
      /\ pc'[Syncer] = to
      /\ \A t \in Thread : t # Syncer => pc'[t] = pc[t]
  BY <1>1, Threads, ThreadsStay DEF Where, Place
<1>3. Oldest' = Oldest
  BY <1>1, <1>2 DEF Oldest
<1>4. TypeOK'
  BY <1>1, <1>2, Threads DEF TypeOK, Thread
<1>5. Where'
  BY <1>1, <1>2, Threads DEF Where, Thread
<1>6. Overlap'
  BY <1>1, <1>2, <1>3 DEF Overlap, Locked
<1>7. Syncing' /\ Alone'
  BY <1>1, <1>2, Lengths, Threads DEF Syncing, Alone, Where
<1>8. Paired'
  <2>1. key + 1 = Len(under) /\ Len(under) <= count /\ entry \in Int
    BY <1>1 DEF Syncing, Overlap, TypeOK, Id
  <2>2. QED
    BY <1>1, <1>2, <2>1, Lengths, Threads DEF Paired
<1>9. Agree' /\ Asking'
  BY <1>1, <1>2, <1>3, Threads DEF Agree, Asking
<1>10. QED
  BY <1>4, <1>5, <1>6, <1>7, <1>8, <1>9 DEF FlowInv

LEMMA RegisterInv ==
  ASSUME FlowInv, Register
  PROVE  FlowInv'
<1> USE FlowBounds
<1>1. /\ TypeOK /\ Where /\ Overlap /\ Syncing /\ Alone /\ Paired /\ Agree /\ Asking
      /\ UNCHANGED <<role, first, nodes, count, under, adding, key, index, ack, answered, next, last, raced>>
      /\ entry = -1 /\ entry' = IF count <= ack THEN entry ELSE count
      /\ pc["kernel"] = "register" /\ pc' = [pc EXCEPT !["kernel"] = "idle"]
  BY DEF FlowInv, Register, Step, window, reading
<1>2. /\ Appender' = Appender /\ Reader' = Reader /\ Syncer' = Syncer
      /\ Appender = "kernel" /\ Reader = "sequencer" /\ Syncer \in Thread
      /\ pc \in [Thread -> Place] /\ pc' \in [Thread -> Place]
      /\ pc'["kernel"] = "idle" /\ pc'["sequencer"] = pc["sequencer"]
  BY <1>1, Threads, ThreadsStay DEF Where, Place, Thread
<1>3. Oldest' = Oldest
  BY <1>1, <1>2 DEF Oldest
<1>4. TypeOK'
  BY <1>1, <1>2, Threads DEF TypeOK
<1>5. Where'
  BY <1>1, <1>2, Threads DEF Where
<1>6. Overlap'
  BY <1>1, <1>2, <1>3 DEF Overlap, Locked
<1>7. Syncing' /\ Alone'
  BY <1>1, <1>2, Lengths, Threads DEF Syncing, Alone, Where
<1>8. Paired'
  <2>1. Len(under) <= count /\ ack \in Int
    BY <1>1 DEF Overlap, TypeOK, Id
  <2>2. QED
    BY <1>1, <1>2, <2>1, Lengths DEF Paired
<1>9. Agree' /\ Asking'
  BY <1>1, <1>2, <1>3, Threads DEF Agree, Asking, Thread
<1>10. QED
  BY <1>4, <1>5, <1>6, <1>7, <1>8, <1>9 DEF FlowInv

-----------------------------------------------------------------------------
(* Reading.                                                                *)

LEMMA ReadingInv ==
  ASSUME FlowInv, Reading
  PROVE  FlowInv'
<1> USE FlowBounds
<1>1. /\ TypeOK /\ Where /\ Overlap /\ Syncing /\ Alone /\ Paired /\ Agree /\ Asking
      /\ UNCHANGED <<role, first, nodes, count, under, adding, key, index, ack, entry, answered, raced>>
  BY DEF FlowInv, Reading, ReadCached, ReadMissed, ReadBeneath, window, pubflow
<1>2. /\ Appender' = Appender /\ Reader' = Reader /\ Syncer' = Syncer
      /\ Appender \in Thread /\ Reader \in Thread /\ Syncer \in Thread
      /\ Reader # Appender /\ pc \in [Thread -> Place]
  BY <1>1, Threads, ThreadsStay DEF Where
<1>3. /\ pc' \in [Thread -> Place]
      /\ pc[Reader] \in {"idle", "beneath"} /\ pc'[Reader] \in {"idle", "beneath"}
      /\ \A t \in Thread : t # Reader => pc'[t] = pc[t]
      /\ next' = next \/ (next' = next + 1 /\ next < count)
      /\ last' \in Message \union {Garbage}
      /\ pc'[Reader] = "beneath" => next' = next /\ next < first /\ pc[Appender] # "shift"
  <2>1. CASE ReadCached
    <3>1. \A n \in 1 .. Len(nodes) : nodes[n] \in Message
      BY <1>1, ElementOfSeq DEF TypeOK
    <3>2. NodeAt(next - first) \in Message \union {Garbage}
      BY <3>1, <1>1, Lengths DEF NodeAt
    <3>3. QED
      BY <1>2, <2>1, <3>2 DEF ReadCached
  <2>2. CASE ReadMissed
    BY <1>1, <1>2, <2>2 DEF ReadMissed, Step, Locked, reading, Place, TypeOK
  <2>3. CASE ReadBeneath
    <3>1. \A n \in 1 .. Len(under) : under[n] \in Message \union {Garbage}
      BY <1>1, ElementOfSeq DEF TypeOK
    <3>2. last' \in Message \union {Garbage}
      BY <1>1, <2>3, <3>1, Lengths DEF ReadBeneath, TypeOK, Id
    <3>3. next < count
      BY <1>1, <2>3, Lengths DEF ReadBeneath, Step, Asking, Overlap
    <3>4. QED
      BY <1>2, <2>3, <3>2, <3>3 DEF ReadBeneath, Step, Place
  <2>4. QED
    BY <2>1, <2>2, <2>3 DEF Reading
<1>4. Oldest' = Oldest /\ (pc[Appender] # "shift" => Oldest = first)
  BY <1>1, <1>2, <1>3 DEF Oldest
<1>5. TypeOK'
  <2>1. next' \in Id
    BY <1>1, <1>3, Lengths DEF TypeOK, Id
  <2>2. QED
    BY <1>1, <1>2, <1>3, <2>1, Threads DEF TypeOK, Thread
<1>6. Where'
  BY <1>1, <1>2, <1>3, Threads DEF Where, Thread
<1>7. Overlap'
  BY <1>1, <1>2, <1>3, <1>4 DEF Overlap, Locked
<1>8. Syncing' /\ Alone' /\ Paired' /\ Agree'
  BY <1>1, <1>2, <1>3, <1>4, Threads DEF Syncing, Alone, Paired, Agree
<1>9. Asking'
  BY <1>1, <1>2, <1>3, <1>4, Lengths DEF Asking
<1>10. QED
  BY <1>5, <1>6, <1>7, <1>8, <1>9 DEF FlowInv

-----------------------------------------------------------------------------

LEMMA FlowNext == FlowInv /\ [Next]_vars => FlowInv'
<1> SUFFICES ASSUME FlowInv, [Next]_vars PROVE FlowInv'
  OBVIOUS
<1>1. CASE UNCHANGED vars
  <2>1. /\ Appender' = Appender /\ Reader' = Reader /\ Syncer' = Syncer
    BY <1>1, ThreadsStay DEF vars
  <2>2. Oldest' = Oldest /\ Locked' = Locked
    BY <1>1, <2>1 DEF vars, window, Oldest, Locked
  <2>3. QED
    BY <1>1, <2>1, <2>2 DEF vars, window, pubflow, reading, FlowInv, TypeOK, Where, Overlap,
                            Syncing, Alone, Paired, Agree, Asking
<1>2. QED
  BY <1>1, BeginAppendInv, ShiftInv, PushInv, AnswerArrivesInv, SyncIndexInv, SyncCopyInv,
     ConfirmInv, RegisterInv, ReadingInv DEF Next, Confirmation

\* The window of the series never drops a message that is not yet persisted, whatever
\* the standby answers and when, for a window of two or more messages
\* (CachedFlow.cpp:133, PubFlow.cpp, KernelApp.cpp).
THEOREM WindowSafe == Spec => []NothingDropped
<1>1. FlowInv => NothingDropped
  BY DEF FlowInv, Overlap, NothingDropped
<1>2. QED
  BY <1>1, StartInv, FlowNext, PTL DEF Spec

-----------------------------------------------------------------------------
(* The series is a message flow.                                           *)

\* A beginning of one sequence and all of another.
LEMMA Spliced ==
  ASSUME NEW S, NEW u \in Seq(S), NEW v \in Seq(S), NEW k \in 0 .. Len(u)
  PROVE  /\ SubSeq(u, 1, k) \o v \in Seq(S)
         /\ Len(SubSeq(u, 1, k) \o v) = k + Len(v)
         /\ \A i \in 1 .. k + Len(v) :
              (SubSeq(u, 1, k) \o v)[i] = IF i <= k THEN u[i] ELSE v[i - k]
<1> DEFINE s == SubSeq(u, 1, k)
<1>1. Len(u) \in Nat /\ Len(v) \in Nat /\ k \in Nat /\ \A i \in 1 .. k : u[i] \in S
  BY LenProperties, ElementOfSeq
<1>2. /\ s \in Seq(S) /\ Len(s) = k
      /\ \A i \in 1 .. k : s[i] = u[i]
  <2>1. /\ s \in Seq(S) /\ Len(s) = IF 1 <= k THEN k - 1 + 1 ELSE 0
        /\ \A i \in 1 .. k - 1 + 1 : s[i] = u[1 + i - 1]
    BY <1>1, SubSeqProperties
  <2>2. QED
    BY <1>1, <2>1
<1> HIDE DEF s
<1>3. /\ s \o v \in Seq(S) /\ Len(s \o v) = Len(s) + Len(v)
      /\ \A i \in 1 .. Len(s) + Len(v) : (s \o v)[i] = IF i <= Len(s) THEN s[i] ELSE v[i - Len(s)]
  BY <1>2, ConcatProperties
<1>4. QED
  BY <1>1, <1>2, <1>3 DEF s

LEMMA ContentsAre ==
  ASSUME TypeOK, Overlap
  PROVE  /\ Contents \in Seq(Message \union {Garbage})
         /\ Len(Contents) = count
         /\ \A i \in 1 .. count : Contents[i] = IF i <= Oldest THEN under[i] ELSE nodes[i - Oldest]
<1>1. /\ under \in Seq(Message \union {Garbage}) /\ nodes \in Seq(Message \union {Garbage})
      /\ Oldest \in 0 .. Len(under) /\ count = Oldest + Len(nodes)
  BY Lengths DEF Overlap, TypeOK
<1>2. QED
  BY <1>1, Spliced DEF Contents

LEMMA ContentsAreNext ==
  ASSUME TypeOK', Overlap'
  PROVE  /\ Contents' \in Seq(Message \union {Garbage})
         /\ Len(Contents') = count'
         /\ \A i \in 1 .. count' :
              Contents'[i] = IF i <= Oldest' THEN under'[i] ELSE nodes'[i - Oldest']
<1>1. /\ under' \in Seq(Message \union {Garbage}) /\ nodes' \in Seq(Message \union {Garbage})
      /\ first' \in Nat /\ Oldest' <= Len(under') /\ count' = Oldest' + Len(nodes')
  BY DEF Overlap, TypeOK, Id
<1>2. Oldest' \in 0 .. Len(under')
  <2>1. Len(under') \in Nat
    BY <1>1, LenProperties
  <2>2. Oldest' = first' \/ Oldest' = first' + 1
    BY DEF Oldest
  <2>3. QED
    BY <1>1, <2>1, <2>2
<1>3. QED
  BY <1>1, <1>2, Spliced DEF Contents

\* Only BeginAppend and Push touch the window.
LEMMA OthersLeave ==
  ASSUME FlowInv, Shift \/ Confirmation \/ Reading \/ UNCHANGED vars
  PROVE  /\ Oldest' = Oldest /\ nodes' = nodes /\ count' = count
         /\ \A i \in 1 .. Oldest : under'[i] = under[i]
<1>1. /\ TypeOK /\ Where /\ Overlap /\ role' = role
      /\ Appender \in Thread /\ Syncer \in Thread /\ Reader \in Thread /\ Reader # Appender
      /\ pc \in [Thread -> Place]
      /\ Oldest <= Len(under) /\ Oldest \in Nat /\ Len(under) \in Nat
  <2>1. TypeOK /\ Where /\ Overlap
    BY DEF FlowInv
  <2>2. role' = role
    BY DEF Shift, Confirmation, Reading, vars, AnswerArrives, SyncIndex, SyncCopy, Confirm,
           Register, ReadCached, ReadMissed, ReadBeneath
  <2>3. QED
    BY <2>1, <2>2, Threads, Lengths DEF Where, Overlap
<1>2. Appender' = Appender
  BY <1>1, ThreadsStay
<1>3. CASE Shift
  BY <1>1, <1>2, <1>3, Lengths DEF Shift, Step, Oldest
<1>4. CASE AnswerArrives
  BY <1>1, <1>2, <1>4, Threads DEF AnswerArrives, Step, Oldest, window, Thread
<1>5. CASE SyncIndex
  BY <1>1, <1>2, <1>5 DEF SyncIndex, Step, Oldest, window
<1>6. CASE SyncCopy
  <2>1. \A n \in 1 .. Len(nodes) : nodes[n] \in Message
    BY <1>1, ElementOfSeq DEF TypeOK
  <2>2. index \in Int
    BY <1>1 DEF TypeOK
  <2>3. NodeAt(index) \in Message \union {Garbage}
    BY <2>1, <2>2, <1>1, Lengths DEF NodeAt
  <2>4. under' = Append(under, NodeAt(index)) /\ under \in Seq(Message \union {Garbage})
    BY <1>1, <1>6 DEF SyncCopy, TypeOK
  <2>5. \A i \in 1 .. Len(under) : under'[i] = under[i]
    BY <2>3, <2>4, AppendProperties
  <2>6. Oldest' = Oldest /\ nodes' = nodes /\ count' = count
    BY <1>1, <1>2, <1>6 DEF SyncCopy, Step, Oldest, window
  <2>7. QED
    BY <1>1, <2>5, <2>6
<1>7. CASE Confirm
  BY <1>1, <1>2, <1>7 DEF Confirm, Step, Oldest, window
<1>8. CASE Register
  BY <1>1, <1>2, <1>8 DEF Register, Step, Oldest, window
<1>9. CASE Reading
  BY <1>1, <1>2, <1>9 DEF Reading, ReadCached, ReadMissed, ReadBeneath, Step, Oldest, window
<1>10. CASE UNCHANGED vars
  BY <1>1, <1>2, <1>10 DEF vars, Oldest, window
<1>11. QED
  BY <1>3, <1>4, <1>5, <1>6, <1>7, <1>8, <1>9, <1>10 DEF Confirmation

\* What a step does to the flow: nothing, or, with Push, one message more.
LEMMA ContentsStay ==
  ASSUME FlowInv, FlowInv', ~raced', Shift \/ Confirmation \/ Reading \/ UNCHANGED vars
  PROVE  Contents' = Contents
<1>1. TypeOK /\ Overlap /\ TypeOK' /\ Overlap'
  BY DEF FlowInv
<1>2. \A i \in 1 .. count : Contents'[i] = Contents[i]
  BY <1>1, OthersLeave, ContentsAre, ContentsAreNext, Lengths
<1>3. QED
  BY <1>1, <1>2, OthersLeave, ContentsAre, ContentsAreNext, SeqEqual

LEMMA ContentsMoved ==
  ASSUME FlowInv, FlowInv', ~raced', NEW m \in Message, BeginAppend(m)
  PROVE  Contents' = Contents
<1>1. TypeOK /\ Overlap /\ TypeOK' /\ Overlap' /\ Where /\ Agree
  BY DEF FlowInv
<1>2. /\ Appender' = Appender /\ Appender \in Thread /\ pc \in [Thread -> Place]
      /\ UNCHANGED <<first, count, under>>
      /\ pc[Appender] = "idle"
      /\ pc' = [pc EXCEPT ![Appender] = IF Full THEN "shift" ELSE "push"]
      /\ nodes' = IF Full THEN Tail(nodes) ELSE nodes
      /\ ~raced
  BY <1>1, Threads, ThreadsStay DEF BeginAppend, Step, Where
<1>3. Oldest' = IF Full THEN Oldest + 1 ELSE Oldest
  BY <1>1, <1>2, Lengths DEF Oldest
<1>4. CASE Full
  <2>1. nodes # <<>> /\ nodes \in Seq(Message) /\ Len(nodes) \in Nat
    BY <1>1, <1>4, Lengths DEF Full, TypeOK
  <2>2. Len(nodes') = Len(nodes) - 1 /\ \A i \in 1 .. Len(nodes') : nodes'[i] = nodes[i + 1]
    BY <1>2, <1>4, <2>1, HeadTailProperties
  <2>3. Oldest + 1 <= Len(under) /\ Len(nodes) >= 1
    BY <1>1, <1>2, <1>3, <1>4, <2>1, Lengths DEF Overlap, Full
  <2>4. under[Oldest + 1] = nodes[1]
    BY <1>1, <1>2, <2>3, <2>1 DEF Agree
  <2>5. ASSUME NEW i \in 1 .. count PROVE Contents'[i] = Contents[i]
    <3>1. count = Oldest + Len(nodes) /\ Oldest \in Nat
      BY <1>1, Lengths DEF Overlap
    <3>2. Contents[i] = IF i <= Oldest THEN under[i] ELSE nodes[i - Oldest]
      BY <1>1, ContentsAre
    <3>3. Contents'[i] = IF i <= Oldest + 1 THEN under[i] ELSE nodes'[i - (Oldest + 1)]
      BY <1>1, <1>2, <1>3, <1>4, ContentsAreNext
    <3>4. CASE i <= Oldest
      BY <3>1, <3>2, <3>3, <3>4
    <3>5. CASE i = Oldest + 1
      BY <3>1, <3>2, <3>3, <3>5, <2>4
    <3>6. CASE i > Oldest + 1
      <4>1. i - (Oldest + 1) \in 1 .. Len(nodes')
        BY <2>1, <2>2, <3>1, <3>6
      <4>2. nodes'[i - (Oldest + 1)] = nodes[i - Oldest]
        BY <2>2, <3>1, <4>1
      <4>3. QED
        BY <3>1, <3>2, <3>3, <3>6, <4>2
    <3>7. QED
      BY <3>1, <3>4, <3>5, <3>6
  <2>6. QED
    BY <1>1, <1>2, <2>5, ContentsAre, ContentsAreNext, SeqEqual
<1>5. CASE ~Full
  <2>1. \A i \in 1 .. count : Contents'[i] = Contents[i]
    BY <1>1, <1>2, <1>3, <1>5, ContentsAre, ContentsAreNext
  <2>2. QED
    BY <1>1, <1>2, <2>1, ContentsAre, ContentsAreNext, SeqEqual
<1>6. QED
  BY <1>4, <1>5

LEMMA ContentsGrow ==
  ASSUME FlowInv, FlowInv', Push
  PROVE  Contents' = Append(Contents, adding) /\ adding \in Message
<1>1. TypeOK /\ Overlap /\ TypeOK' /\ Overlap' /\ Where
  BY DEF FlowInv
<1>2. /\ Appender' = Appender /\ Appender \in Thread /\ pc \in [Thread -> Place]
      /\ UNCHANGED <<first, under>>
      /\ pc[Appender] = "push" /\ pc'[Appender] # "shift"
      /\ nodes' = Append(nodes, adding)
  BY <1>1, Threads, ThreadsStay DEF Push, Step, Where
<1>3. Oldest = first /\ Oldest' = Oldest /\ adding \in Message
  BY <1>1, <1>2 DEF Oldest, Overlap, Locked
<1>4. /\ Len(nodes') = Len(nodes) + 1
      /\ \A i \in 1 .. Len(nodes) : nodes'[i] = nodes[i]
      /\ nodes'[Len(nodes) + 1] = adding
  BY <1>1, <1>2, <1>3, AppendProperties DEF TypeOK
<1>5. count' = count + 1 /\ count = Oldest + Len(nodes)
  BY <1>1, <1>3, <1>4, Lengths DEF Overlap
<1> DEFINE s == Append(Contents, adding)
<1>6. /\ s \in Seq(Message \union {Garbage}) /\ Len(s) = count + 1
      /\ \A i \in 1 .. count : s[i] = Contents[i]
      /\ s[count + 1] = adding
  BY <1>1, <1>3, ContentsAre, AppendProperties
<1> HIDE DEF s
<1>7. ASSUME NEW i \in 1 .. count + 1 PROVE Contents'[i] = s[i]
  <2>1. Contents'[i] = IF i <= Oldest THEN under[i] ELSE nodes'[i - Oldest]
    BY <1>1, <1>2, <1>3, <1>5, ContentsAreNext
  <2>2. CASE i = count + 1
    BY <1>1, <1>4, <1>5, <1>6, <2>1, <2>2, Lengths
  <2>3. CASE i <= count
    <3>1. s[i] = IF i <= Oldest THEN under[i] ELSE nodes[i - Oldest]
      BY <1>1, <1>6, <2>3, ContentsAre
    <3>2. CASE i <= Oldest
      BY <2>1, <3>1, <3>2
    <3>3. CASE ~(i <= Oldest)
      <4>1. i - Oldest \in 1 .. Len(nodes)
        BY <1>1, <1>5, <2>3, <3>3, Lengths
      <4>2. nodes'[i - Oldest] = nodes[i - Oldest]
        BY <1>4, <4>1
      <4>3. QED
        BY <2>1, <3>1, <3>3, <4>2
    <3>4. QED
      BY <3>2, <3>3
  <2>4. QED
    BY <1>1, <2>2, <2>3, Lengths
<1>8. Contents' = s
  BY <1>1, <1>5, <1>6, <1>7, ContentsAreNext, SeqEqual
<1>9. QED
  BY <1>3, <1>8 DEF s

\* What the reader is given is the next message of the flow.
LEMMA ReadsContents ==
  ASSUME FlowInv, ~raced, ReadCached \/ ReadBeneath
  PROVE  next < Len(Contents) /\ next' = next + 1 /\ last' = Contents[next + 1]
<1>1. /\ TypeOK /\ Overlap /\ Asking /\ Oldest \in Nat /\ next \in Nat /\ Len(under) \in Nat
      /\ Len(nodes) \in Nat
      /\ count = Oldest + Len(nodes) /\ Oldest <= Len(under) /\ Len(under) <= count
      /\ Len(Contents) = count
      /\ \A i \in 1 .. count : Contents[i] = IF i <= Oldest THEN under[i] ELSE nodes[i - Oldest]
  BY Lengths, ContentsAre DEF FlowInv, Overlap, TypeOK, Id
<1>2. CASE ReadCached
  <2>1. Oldest = first /\ next < count /\ next >= first
        /\ last' = NodeAt(next - first) /\ next' = next + 1
    BY <1>2 DEF ReadCached, Locked, Oldest
  <2>2. Contents[next + 1] = nodes[next + 1 - first]
    BY <1>1, <2>1
  <2>3. NodeAt(next - first) = nodes[next - first + 1]
    BY <1>1, <2>1 DEF NodeAt
  <2>4. next + 1 - first = next - first + 1
    BY <1>1, <2>1
  <2>5. QED
    BY <1>1, <2>1, <2>2, <2>3, <2>4
<1>3. CASE ReadBeneath
  <2>1. next < Oldest /\ next' = next + 1
        /\ last' = IF next < Len(under) THEN under[next + 1] ELSE Garbage
    BY <1>1, <1>3 DEF ReadBeneath, Step, Asking
  <2>2. QED
    BY <1>1, <2>1
<1>4. QED
  BY <1>2, <1>3

LEMMA FlowInitImplements == Init => Abstract!Init
<1> SUFFICES ASSUME Init PROVE Abstract!Init
  OBVIOUS
<1>1. TypeOK /\ Overlap /\ Asking
  BY StartInv DEF FlowInv
<1>2. raced = FALSE
  BY DEF Init, Start
<1>3. Contents \in Seq(Message \union {Garbage}) /\ Len(Contents) = count
  BY <1>1, ContentsAre
<1>4. <<next>> \in [{1} -> 0 .. Len(Contents)]
  BY <1>1, <1>3 DEF Asking, TypeOK, Id
<1>5. <<last>> \in [{1} -> Message \union {Garbage}]
  BY <1>1 DEF TypeOK
<1>6. QED
  BY <1>2, <1>3, <1>4, <1>5 DEF Abstract!Init

LEMMA FlowStepImplements ==
  ASSUME FlowInv, FlowInv', [Next]_vars
  PROVE  [Abstract!Next]_(Abstract!vars)
<1>1. CASE raced'
  BY <1>1 DEF Abstract!Next, Abstract!Break
<1>2. CASE ~raced'
  <2> raced \in BOOLEAN /\ raced' \in BOOLEAN
    BY DEF FlowInv, TypeOK
  <2>1. CASE Push
    <3>1. Contents' = Append(Contents, adding) /\ adding \in Message
      BY <2>1, ContentsGrow
    <3>2. UNCHANGED <<next, last>>
      BY <2>1 DEF Push, reading
    <3>3. Abstract!AppendMessage
      BY <1>2, <3>1, <3>2 DEF Abstract!AppendMessage
    <3>4. QED
      BY <3>3 DEF Abstract!Next
  <2>2. CASE ReadCached \/ ReadBeneath
    <3>1. raced' = raced
      BY <2>2 DEF ReadCached, ReadBeneath
    <3>2. next < Len(Contents) /\ next' = next + 1 /\ last' = Contents[next + 1]
      BY <1>2, <2>2, <3>1, ReadsContents
    <3>3. Contents' = Contents
      BY <1>2, <2>2, ContentsStay DEF Reading
    <3>4. Abstract!Give(1)
      BY <1>2, <3>2, <3>3 DEF Abstract!Give
    <3>5. QED
      BY <3>4 DEF Abstract!Next
  <2>3. ASSUME NEW m \in Message, BeginAppend(m)
        PROVE  UNCHANGED Abstract!vars
    <3>1. UNCHANGED <<next, last>> /\ ~raced
      BY <1>2, <2>3 DEF BeginAppend, reading
    <3>2. Contents' = Contents
      BY <1>2, <2>3, ContentsMoved
    <3>3. UNCHANGED raced
      BY <1>2, <3>1
    <3>4. QED
      BY <3>1, <3>2, <3>3 DEF Abstract!vars
  <2>4. CASE Shift \/ Confirmation \/ ReadMissed \/ UNCHANGED vars
    <3>1. UNCHANGED <<next, last, raced>> \/ (UNCHANGED <<next, last>> /\ ~raced)
      BY <1>2, <2>4 DEF Shift, Confirmation, AnswerArrives, SyncIndex, SyncCopy, Confirm, Register,
                 ReadMissed, vars, reading
    <3>2. Contents' = Contents
      BY <1>2, <2>4, ContentsStay DEF Reading
    <3>3. UNCHANGED raced
      BY <1>2, <3>1
    <3>4. QED
      BY <3>1, <3>2, <3>3 DEF Abstract!vars
  <2>5. QED
    BY <2>1, <2>2, <2>3, <2>4 DEF Next, Reading
<1>3. QED
  BY <1>1, <1>2

\* Whether a message is in the window or beneath it, the series is an append-only log
\* that its reader is given message by message, until SyncUnderFlow reads the window
\* while an Append moves it (CachedFlow.cpp:45-170, FlowReader.cpp).
THEOREM FlowImplemented == Spec => ImplementsFlow
<1>1. Init => FlowInv /\ Abstract!Init
  BY StartInv, FlowInitImplements
<1>2. FlowInv /\ [Next]_vars => FlowInv'
  BY FlowNext
<1>3. FlowInv /\ FlowInv' /\ [Next]_vars => [Abstract!Next]_(Abstract!vars)
  BY FlowStepImplements
<1>4. QED
  BY <1>1, <1>2, <1>3, PTL DEF Spec, ImplementsFlow, Abstract!Spec

-----------------------------------------------------------------------------
(* The way into the series.                                                *)

\* A one-time flow keeps the messages from head on, and the message its reader
\* holds is among them.
Queue(q) ==
  /\ head[q] \in Nat /\ items[q] \in Seq({q} \X Nat) /\ readId[q] \in Nat
  /\ haveGet[q] = readId[q] - 1
  /\ readId[q] <= Produced(q) /\ Produced(q) <= MaxProduced[q]
  /\ head[q] = 0 \/ head[q] < readId[q]
  /\ \A i \in 1 .. Len(items[q]) : items[q][i] = <<q, head[q] + i - 1>>

Queues ==
  /\ DOMAIN head = Flow /\ DOMAIN items = Flow /\ DOMAIN haveGet = Flow /\ DOMAIN readId = Flow
  /\ \A q \in LinkFlows : Queue(q)

Turns ==
  /\ turn \in 0 .. Links /\ taken \in 0 .. Quota
  /\ begun \in [1 .. Links -> BOOLEAN] /\ fetched \in BOOLEAN

\* What RealDo holds is what it took last from a flow.
Holding ==
  /\ held = <<0, 0>> \/ \E q \in LinkFlows : readId[q] > 0 /\ held = <<q, readId[q] - 1>>
  /\ fetched => held # <<0, 0>> /\ role # "secondary" /\ pc["kernel"] = "idle"
  /\ role = "secondary" => held = <<0, 0>>
  /\ Locked => IF role = "secondary" THEN adding[1] = 0
               ELSE adding = held /\ ~fetched /\ held # <<0, 0>>

\* A message of flow q has been taken and is not yet in the series.
Underway(q) == IF held[1] = q /\ (fetched \/ Locked) THEN 1 ELSE 0

Taken == ~raced => \A q \in LinkFlows : InOrder(Contents, q, readId[q] - Underway(q))

PathInv == FlowInv /\ Turns /\ Queues /\ Holding /\ Taken

LEMMA LinkFacts ==
  /\ \A q \in LinkFlows : q \in Flow /\ q \in Nat /\ q > 0 /\ MaxProduced[q] \in Nat
  /\ \A q \in LinkFlows : \A n \in Nat : n < MaxProduced[q] => <<q, n>> \in FlowMessage
  /\ \A m \in FlowMessage : m = <<m[1], m[2]>> /\ m[1] \in LinkFlows /\ m[2] \in Nat
                            /\ m \in Message
  /\ \A i \in 1 .. MaxMessages : <<0, i>> \in Message
<1>1. \A q \in LinkFlows : q \in Nat /\ q > 0
  BY LinkBounds DEF LinkFlows, Series, Rsp
<1>2. \A q \in LinkFlows : q \in Flow /\ MaxProduced[q] \in Nat
  BY LinkMessages, OneTimeBounds
<1>3. \A q \in LinkFlows : \A n \in Nat : n < MaxProduced[q] => <<q, n>> \in FlowMessage
  <2> SUFFICES ASSUME NEW q \in LinkFlows, NEW n \in Nat, n < MaxProduced[q]
               PROVE  <<q, n>> \in FlowMessage
    OBVIOUS
  <2>1. n \in 0 .. MaxProduced[q] - 1
    BY <1>2
  <2>2. <<q, n>> \in {q} \X (0 .. MaxProduced[q] - 1)
    BY <2>1
  <2>3. QED
    BY <2>2 DEF FlowMessage
<1>4. \A m \in FlowMessage : m = <<m[1], m[2]>> /\ m[1] \in LinkFlows /\ m[2] \in Nat
                             /\ m \in Message
  <2> SUFFICES ASSUME NEW m \in FlowMessage
               PROVE  m = <<m[1], m[2]>> /\ m[1] \in LinkFlows /\ m[2] \in Nat /\ m \in Message
    OBVIOUS
  <2>1. PICK q \in LinkFlows : m \in {q} \X (0 .. MaxProduced[q] - 1)
    BY DEF FlowMessage
  <2>2. m = <<m[1], m[2]>> /\ m[1] = q /\ m[2] \in 0 .. MaxProduced[q] - 1
    BY <2>1
  <2>3. m \in Message
    BY LinkMessages
  <2>4. QED
    BY <1>2, <2>2, <2>3
<1>5. \A i \in 1 .. MaxMessages : <<0, i>> \in Message
  BY LinkMessages
<1>6. QED
  BY <1>1, <1>2, <1>3, <1>4, <1>5

\* What RealDo holds is still where the pointer leads.
LEMMA HeldThere ==
  ASSUME Queues, Holding, held # <<0, 0>>
  PROVE  held \in FlowMessage /\ Dereference(held[1], held[2]) = held
<1>1. PICK q \in LinkFlows : readId[q] > 0 /\ held = <<q, readId[q] - 1>>
  BY DEF Holding
<1>2. /\ head[q] \in Nat /\ readId[q] \in Nat /\ Len(items[q]) \in Nat
      /\ readId[q] <= head[q] + Len(items[q]) /\ head[q] + Len(items[q]) <= MaxProduced[q]
      /\ head[q] <= readId[q] - 1
      /\ \A i \in 1 .. Len(items[q]) : items[q][i] = <<q, head[q] + i - 1>>
  <2>1. Queue(q)
    BY DEF Queues
  <2>2. QED
    BY <1>1, <2>1, LenProperties DEF Queue, Produced
<1> DEFINE n == readId[q] - 1
<1>3. n \in Nat /\ n \in head[q] .. Produced(q) - 1 /\ n < MaxProduced[q]
  BY <1>1, <1>2, LinkFacts DEF Produced
<1>4. n - head[q] + 1 \in 1 .. Len(items[q])
  BY <1>2
<1>5. items[q][n - head[q] + 1] = <<q, n>>
  BY <1>2, <1>4
<1>6. held[1] = q /\ held[2] = n
  BY <1>1
<1>7. QED
  BY <1>1, <1>3, <1>5, <1>6, LinkFacts DEF Dereference

\* The series is touched by a step of CachedFlow.
LEMMA PathSteps ==
  ASSUME Queues, Holding, FlowInv, [PathNext]_pathVars
  PROVE  [Next]_vars
<1> USE FlowBounds
<1>1. CASE TakeIn
  <2>1. Dereference(held[1], held[2]) \in Message /\ BeginAppend(Dereference(held[1], held[2]))
    BY <1>1, HeldThere, LinkFacts DEF TakeIn, Holding
  <2>2. QED
    BY <2>1 DEF Next
<1>2. CASE Shipped
  <2>1. count \in Nat /\ count < MaxMessages /\ MaxMessages \in Nat
    BY <1>2 DEF Shipped, BeginAppend, FlowInv, TypeOK, Id
  <2>2. count + 1 \in 1 .. MaxMessages
    BY <2>1
  <2>3. <<0, count + 1>> \in Message /\ BeginAppend(<<0, count + 1>>)
    BY <1>2, <2>2, LinkFacts DEF Shipped
  <2>4. QED
    BY <2>3 DEF Next
<1>3. CASE FlowStep
  BY <1>3 DEF FlowStep, Next
<1>4. CASE \/ \E q \in LinkFlows : Provide(q) \/ Fetch(q)
           \/ \E l \in Responder : BeginSeries(l)
           \/ Rotate
           \/ UNCHANGED pathVars
  BY <1>4 DEF Provide, Fetch, BeginSeries, Rotate, pathVars
<1>5. QED
  BY <1>1, <1>2, <1>3, <1>4 DEF PathNext, Kernel

LEMMA PathStart == PathInit => Init /\ PathInv
<1> SUFFICES ASSUME PathInit PROVE Init /\ PathInv
  OBVIOUS
<1> USE FlowBounds
<1>1. PICK n \in 0 .. MaxPersisted : Start([i \in 1 .. n |-> <<0, i>>])
  BY DEF PathInit
<1> DEFINE p == [i \in 1 .. n |-> <<0, i>>]
<1>2. p \in [1 .. n -> Message]
  BY LinkFacts
<1>3. Init
  BY <1>1, <1>2 DEF Init
<1>4. FlowInv
  BY <1>3, StartInv
<1>5. Turns
  <2>1. [l \in 1 .. Links |-> l \notin Responder] \in [1 .. Links -> BOOLEAN]
    OBVIOUS
  <2>2. begun \in [1 .. Links -> BOOLEAN]
    BY <2>1 DEF PathInit
  <2>3. turn = 1 /\ taken = 0 /\ fetched = FALSE
    BY DEF PathInit
  <2>4. 1 \in 0 .. Links /\ 0 \in 0 .. Quota
    BY LinkBounds
  <2>5. QED
    BY <2>2, <2>3, <2>4 DEF Turns
<1>6. Queues
  <2> SUFFICES ASSUME NEW q \in LinkFlows PROVE Queue(q)
    BY DEF PathInit, OneTimeInit, Queues
  <2>1. q \in Flow /\ MaxProduced[q] \in Nat
    BY LinkFacts
  <2>2. head[q] = 0 /\ items[q] = <<>> /\ haveGet[q] = -1 /\ readId[q] = 0
    BY <2>1 DEF PathInit, OneTimeInit
  <2>3. QED
    BY <2>1, <2>2 DEF Queue, Produced
<1>7. Appender \in Thread /\ pc[Appender] = "idle" /\ ~Locked /\ held = <<0, 0>> /\ ~fetched
  BY <1>1, <1>4, Threads DEF FlowInv, Start, Locked, PathInit
<1>8. Holding
  BY <1>7 DEF Holding
<1>9. Taken
  <2>1. Len(Contents) = count /\ count = n /\ under = p /\ first <= n /\ first >= 0
        /\ nodes = SubSeq(p, first + 1, n) /\ Oldest = first
    <3>1. Len(p) = n /\ n \in Nat
      BY <1>2
    <3>2. Len(Contents) = count /\ first \in Nat
      BY <1>4, ContentsAre DEF FlowInv, TypeOK, Id
    <3>3. count = n /\ under = p /\ nodes = SubSeq(p, first + 1, n)
      BY <1>1, <3>1 DEF Start, Attach
    <3>4. Oldest = first /\ Oldest <= Len(under)
      BY <1>4, <1>7 DEF FlowInv, Overlap, Oldest
    <3>5. QED
      BY <3>1, <3>2, <3>3, <3>4
  <2>2. ASSUME NEW i \in 1 .. Len(Contents) PROVE Contents[i] = <<0, i>>
    <3>1. Contents[i] = IF i <= first THEN p[i] ELSE nodes[i - first]
      BY <1>4, <2>1, ContentsAre DEF FlowInv
    <3>2. first \in Nat /\ n \in Nat /\ i \in 1 .. n /\ p[i] = <<0, i>>
      BY <1>4, <2>1 DEF FlowInv, TypeOK, Id
    <3>3. CASE i > first
      <4>1. first + 1 \in Int /\ n \in Int /\ \A j \in first + 1 .. n : p[j] \in Message
        <5>1. \A j \in first + 1 .. n : j \in 1 .. n
          BY <3>2
        <5>2. QED
          BY <1>2, <3>2, <5>1
      <4> HIDE DEF p
      <4>2. \A j \in 1 .. n - (first + 1) + 1 : SubSeq(p, first + 1, n)[j] = p[(first + 1) + j - 1]
        BY <4>1, SubSeqProperties
      <4>6. \A j \in 1 .. n - (first + 1) + 1 : nodes[j] = p[(first + 1) + j - 1]
        BY <2>1, <4>2
      <4>3. i - first \in 1 .. n - (first + 1) + 1 /\ (first + 1) + (i - first) - 1 = i
        BY <3>2, <3>3
      <4>4. nodes[i - first] = p[i]
        BY <4>6, <4>3
      <4>5. QED
        BY <3>1, <3>2, <3>3, <4>4
    <3>4. QED
      BY <3>1, <3>2, <3>3
  <2>3. ASSUME NEW q \in LinkFlows PROVE InOrder(Contents, q, readId[q] - Underway(q))
    <3>1. readId[q] - Underway(q) = 0
      BY <1>7, LinkFacts DEF PathInit, OneTimeInit, Underway
    <3>2. \A i \in 1 .. Len(Contents) : Contents[i][1] # q
      BY <2>2, LinkFacts
    <3>3. QED
      BY <3>1, <3>2 DEF InOrder
  <2>4. QED
    BY <2>3 DEF Taken
<1>10. QED
  BY <1>3, <1>4, <1>5, <1>6, <1>8, <1>9 DEF PathInv

-----------------------------------------------------------------------------
(* The actions of the one-time flows.                                      *)

\* Other flows keep what they are about.
LEMMA QueueStays ==
  ASSUME NEW q, Queue(q), UNCHANGED <<head[q], items[q], haveGet[q], readId[q]>>
  PROVE  Queue(q)'
BY DEF Queue, Produced

LEMMA ProduceQueues ==
  ASSUME Queues, NEW q \in LinkFlows, Produce(q)
  PROVE  Queues' /\ readId' = readId
<1>1. /\ q \in Flow /\ Queue(q) /\ MaxProduced[q] \in Nat
      /\ head' = head /\ haveGet' = haveGet /\ readId' = readId
      /\ items' = [items EXCEPT ![q] = Append(@, <<q, Produced(q)>>)]
      /\ Produced(q) < MaxProduced[q]
  BY LinkFacts DEF Queues, Produce
<1>2. ASSUME NEW r \in LinkFlows, r # q PROVE Queue(r)'
  BY <1>1, <1>2, QueueStays, LinkFacts DEF Queues
<1>3. Queue(q)'
  <2> DEFINE n == head[q] + Len(items[q])
  <2>1. items[q] \in Seq({q} \X Nat) /\ head[q] \in Nat /\ Len(items[q]) \in Nat /\ n \in Nat
        /\ readId[q] \in Nat /\ Produced(q) = n
    BY <1>1, LenProperties DEF Queue, Produced
  <2>2. items'[q] = Append(items[q], <<q, n>>)
    BY <1>1, <2>1 DEF Queues
  <2>3. <<q, n>> \in {q} \X Nat
    BY <2>1
  <2>4. /\ items'[q] \in Seq({q} \X Nat) /\ Len(items'[q]) = Len(items[q]) + 1
        /\ \A i \in 1 .. Len(items[q]) : items'[q][i] = items[q][i]
        /\ items'[q][Len(items[q]) + 1] = <<q, n>>
    BY <2>1, <2>2, <2>3, AppendProperties
  <2>5. ASSUME NEW i \in 1 .. Len(items'[q]) PROVE items'[q][i] = <<q, head[q] + i - 1>>
    BY <1>1, <2>1, <2>4 DEF Queue
  <2>6. Produced(q)' = n + 1
    BY <1>1, <2>1, <2>4 DEF Produced
  <2>7. readId[q] <= n /\ n + 1 <= MaxProduced[q]
    BY <1>1, <2>1 DEF Queue
  <2> HIDE DEF n
  <2>8. readId[q] <= n + 1
    BY <2>1, <2>7
  <2>9. QED
    BY <1>1, <2>1, <2>4, <2>5, <2>6, <2>7, <2>8 DEF Queue
<1>4. QED
  BY <1>1, <1>2, <1>3 DEF Queues

LEMMA TrimQueues ==
  ASSUME Queues, NEW q \in LinkFlows, Trim(q)
  PROVE  Queues' /\ readId' = readId
<1> DEFINE n == IF haveGet[q] > head[q] THEN haveGet[q] - head[q] ELSE 0
           len == Len(items[q])
<1>1. /\ q \in Flow /\ Queue(q)
      /\ haveGet' = haveGet /\ readId' = readId
      /\ head' = [head EXCEPT ![q] = @ + n]
      /\ items' = [items EXCEPT ![q] = SubSeq(@, n + 1, Len(@))]
  BY LinkFacts DEF Queues, Trim
<1>2. ASSUME NEW r \in LinkFlows, r # q PROVE Queue(r)'
  BY <1>1, <1>2, QueueStays, LinkFacts DEF Queues
<1>3. Queue(q)'
  <2>1. items[q] \in Seq({q} \X Nat) /\ head[q] \in Nat /\ len \in Nat
        /\ readId[q] \in Nat /\ Produced(q) = head[q] + len /\ haveGet[q] = readId[q] - 1
        /\ readId[q] <= head[q] + len
        /\ \A i \in 1 .. len : items[q][i] = <<q, head[q] + i - 1>> /\ items[q][i] \in {q} \X Nat
    BY <1>1, LenProperties, ElementOfSeq DEF Queue, Produced
  <2>2. n \in 0 .. len /\ head'[q] = head[q] + n /\ items'[q] = SubSeq(items[q], n + 1, len)
    <3>1. n \in 0 .. len
      BY <2>1
    <3> HIDE DEF n
    <3>2. DOMAIN head = Flow /\ DOMAIN items = Flow
      BY DEF Queues
    <3>3. head'[q] = head[q] + n
      BY <1>1, <3>2
    <3>4. items'[q] = SubSeq(items[q], n + 1, len)
      BY <1>1, <3>2
    <3>5. QED
      BY <3>1, <3>3, <3>4
  <2> HIDE DEF n
  <2>3. \A i \in n + 1 .. len : items[q][i] \in {q} \X Nat
    BY <2>1, <2>2
  <2>4. /\ items'[q] \in Seq({q} \X Nat) /\ Len(items'[q]) = IF n + 1 <= len THEN len - (n + 1) + 1 ELSE 0
        /\ \A i \in 1 .. len - (n + 1) + 1 : items'[q][i] = items[q][(n + 1) + i - 1]
    BY <2>1, <2>2, <2>3, SubSeqProperties
  <2>5. Len(items'[q]) = len - n
    BY <2>1, <2>2, <2>4
  <2>6. ASSUME NEW i \in 1 .. Len(items'[q]) PROVE items'[q][i] = <<q, head'[q] + i - 1>>
    <3>1. n + i \in 1 .. len /\ (n + 1) + i - 1 = n + i /\ i \in 1 .. len - (n + 1) + 1
      BY <2>1, <2>2, <2>5
    <3>2. items'[q][i] = <<q, head[q] + (n + i) - 1>>
      BY <2>1, <2>4, <3>1
    <3>3. head[q] + (n + i) - 1 = head'[q] + i - 1
      BY <2>1, <2>2
    <3>4. QED
      BY <3>2, <3>3
  <2>7. Produced(q)' = head[q] + len
    BY <2>1, <2>2, <2>5 DEF Produced
  <2>8. head'[q] = 0 \/ head'[q] < readId[q]
    BY <1>1, <2>1, <2>2 DEF Queue, n
  <2>9. head'[q] \in Nat /\ head[q] + len <= MaxProduced[q]
    BY <1>1, <2>1, <2>2 DEF Queue
  <2> HIDE DEF len
  <2>10. QED
    BY <1>1, <2>1, <2>4, <2>6, <2>7, <2>8, <2>9 DEF Queue
<1>4. QED
  <2> HIDE DEF n, len
  <2>1. QED
    BY <1>1, <1>2, <1>3 DEF Queues

LEMMA FetchQueues ==
  ASSUME Queues, NEW q \in LinkFlows, GetPointer(q)
  PROVE  /\ Queues'
         /\ readId[q] \in Nat /\ readId'[q] = readId[q] + 1
         /\ \A r \in LinkFlows : r # q => readId'[r] = readId[r]
<1>1. /\ q \in Flow /\ Queue(q)
      /\ head' = head /\ items' = items
      /\ readId' = [readId EXCEPT ![q] = @ + 1] /\ haveGet' = [haveGet EXCEPT ![q] = readId[q]]
      /\ readId[q] < Produced(q)
  BY LinkFacts DEF Queues, GetPointer, Available
<1>2. ASSUME NEW r \in LinkFlows, r # q PROVE Queue(r)'
  BY <1>1, <1>2, QueueStays, LinkFacts DEF Queues
<1>3. Queue(q)'
  <2>1. /\ head[q] \in Nat /\ Len(items[q]) \in Nat /\ readId[q] \in Nat
        /\ readId'[q] = readId[q] + 1 /\ haveGet'[q] = readId[q]
        /\ Produced(q)' = Produced(q) /\ Produced(q) \in Nat
    BY <1>1, LenProperties DEF Queue, Queues, Produced
  <2>2. QED
    BY <1>1, <2>1 DEF Queue
<1>4. Queues'
  BY <1>1, <1>2, <1>3 DEF Queues
<1>5. readId[q] \in Nat /\ readId'[q] = readId[q] + 1
  BY <1>1 DEF Queues, Queue
<1>6. \A r \in LinkFlows : r # q => readId'[r] = readId[r]
  BY <1>1
<1>7. QED
  BY <1>4, <1>5, <1>6

-----------------------------------------------------------------------------
(* What a step of the series does to the messages under way.               *)

LEMMA OrderKept ==
  ASSUME NEW S, NEW s \in Seq(S), NEW m \in S, NEW q, NEW n \in Int, InOrder(s, q, n), m[1] # q
  PROVE  InOrder(Append(s, m), q, n)
<1> DEFINE t == Append(s, m)
<1>1. /\ Len(s) \in Nat /\ Len(t) = Len(s) + 1
      /\ \A i \in 1 .. Len(s) : t[i] = s[i]
      /\ t[Len(s) + 1] = m
  BY AppendProperties, LenProperties
<1> HIDE DEF t
<1>2. {i \in 1 .. Len(t) : t[i][1] = q} = {i \in 1 .. Len(s) : s[i][1] = q}
  BY <1>1
<1>3. \A i \in {j \in 1 .. Len(s) : s[j][1] = q} : t[i] = s[i]
  BY <1>1
<1>4. InOrder(t, q, n)
  BY <1>2, <1>3 DEF InOrder
<1>5. QED
  BY <1>4 DEF t

LEMMA OrderGrows ==
  ASSUME NEW S, NEW s \in Seq(S), NEW q, NEW n \in Nat, InOrder(s, q, n), <<q, n>> \in S
  PROVE  InOrder(Append(s, <<q, n>>), q, n + 1)
<1> DEFINE t == Append(s, <<q, n>>)
           Old == {i \in 1 .. Len(s) : s[i][1] = q}
           Mine == {i \in 1 .. Len(t) : t[i][1] = q}
<1>1. /\ Len(s) \in Nat /\ Len(t) = Len(s) + 1
      /\ \A i \in 1 .. Len(s) : t[i] = s[i]
      /\ t[Len(s) + 1] = <<q, n>>
  BY AppendProperties, LenProperties
<1> HIDE DEF t
<1>2. Mine = Old \union {Len(s) + 1}
  <2>1. t[Len(s) + 1][1] = q
    BY <1>1
  <2>2. QED
    BY <1>1, <2>1
<1>3. /\ \A k \in 0 .. n - 1 : \E i \in Old : s[i][2] = k
      /\ \A i \in Old : s[i][2] \in 0 .. n - 1
      /\ \A i, j \in Old : i < j => s[i][2] < s[j][2]
  BY DEF InOrder
<1>4. \A i \in Old : t[i] = s[i] /\ i \in Nat /\ i < Len(s) + 1
  BY <1>1
<1>5. t[Len(s) + 1][2] = n
  BY <1>1
<1> HIDE DEF Old, Mine
<1>6. ASSUME NEW k \in 0 .. n PROVE \E i \in Mine : t[i][2] = k
  <2>1. CASE k = n
    BY <1>2, <1>5, <2>1
  <2>2. CASE k # n
    <3>1. k \in 0 .. n - 1
      BY <2>2
    <3>2. QED
      BY <1>2, <1>3, <1>4, <3>1
  <2>3. QED
    BY <2>1, <2>2
<1>7. \A i \in Mine : t[i][2] \in 0 .. n
  BY <1>2, <1>3, <1>4, <1>5
<1>8. ASSUME NEW i \in Mine, NEW j \in Mine, i < j PROVE t[i][2] < t[j][2]
  <2>1. i \in Old
    BY <1>1, <1>2, <1>4, <1>8
  <2>2. CASE j \in Old
    BY <1>3, <1>4, <1>8, <2>1, <2>2
  <2>3. CASE j = Len(s) + 1
    BY <1>3, <1>4, <1>5, <2>1, <2>3
  <2>4. QED
    BY <1>2, <2>2, <2>3
<1>9. InOrder(t, q, n + 1)
  BY <1>6, <1>7, <1>8 DEF InOrder, Mine
<1>10. QED
  BY <1>9 DEF t

\* While the series stands still, so does what is under way in it.
LEMMA SeriesStands ==
  ASSUME UNCHANGED vars
  PROVE  Locked' = Locked /\ Contents' = Contents
         /\ UNCHANGED <<role, pc, adding, raced>>
<1>1. Appender' = Appender
  BY ThreadsStay DEF vars
<1>2. QED
  BY <1>1 DEF vars, window, Locked, Contents, Oldest

LEMMA ProvideInv ==
  ASSUME PathInv, FlowInv', NEW q \in LinkFlows, Provide(q)
  PROVE  PathInv'
<1>1. UNCHANGED vars /\ UNCHANGED linking
  BY DEF Provide
<1>2. Queues' /\ readId' = readId
  BY ProduceQueues, TrimQueues DEF Provide, PathInv
<1>3. Turns'
  BY <1>1 DEF PathInv, Turns, linking
<1>4. Holding' /\ Taken'
  BY <1>1, <1>2, SeriesStands DEF PathInv, Holding, Taken, Underway, linking
<1>5. QED
  BY <1>2, <1>3, <1>4 DEF PathInv

LEMMA TurnInv ==
  ASSUME PathInv, FlowInv',
         Rotate \/ UNCHANGED pathVars \/ \E l \in Responder : BeginSeries(l)
  PROVE  PathInv'
<1>1. UNCHANGED <<vars, onetime, held, fetched>>
  BY DEF Rotate, BeginSeries, pathVars, linking
<1>2. Turns'
  <2>1. CASE Rotate
    BY <2>1, LinkBounds DEF PathInv, Turns, Rotate, NextTurn
  <2>2. CASE UNCHANGED pathVars
    BY <2>2 DEF PathInv, Turns, pathVars, linking
  <2>3. CASE \E l \in Responder : BeginSeries(l)
    BY <2>3 DEF PathInv, Turns, BeginSeries
  <2>4. QED
    BY <2>1, <2>2, <2>3
<1>3. Queues'
  BY <1>1 DEF PathInv, Queues, Queue, Produced, onetime
<1>4. Holding' /\ Taken'
  BY <1>1, SeriesStands DEF PathInv, Holding, Taken, Underway, onetime
<1>5. QED
  BY <1>2, <1>3, <1>4 DEF PathInv

LEMMA FetchInv ==
  ASSUME PathInv, FlowInv', NEW q \in LinkFlows, Fetch(q)
  PROVE  PathInv'
<1>1. /\ UNCHANGED vars /\ GetPointer(q) /\ held' = <<q, readId[q]>> /\ fetched' = TRUE
      /\ taken' = taken + 1 /\ taken < Quota /\ turn' = turn /\ begun' = begun
      /\ role # "secondary" /\ pc["kernel"] = "idle" /\ ~fetched
  BY DEF Fetch, Waiting
<1>2. /\ Queues' /\ readId[q] \in Nat /\ readId'[q] = readId[q] + 1
      /\ \A r \in LinkFlows : r # q => readId'[r] = readId[r]
  BY <1>1, FetchQueues DEF PathInv
<1>3. Turns'
  BY <1>1, LinkBounds DEF PathInv, Turns
<1>4. ~Locked /\ ~Locked' /\ Contents' = Contents /\ UNCHANGED <<role, pc, adding, raced>>
  <2>1. Appender = "kernel"
    BY <1>1 DEF Appender
  <2>2. ~Locked
    BY <1>1, <2>1 DEF Locked
  <2>3. QED
    BY <1>1, <2>2, SeriesStands
<1>5. Holding'
  <2>1. readId'[q] > 0 /\ readId'[q] - 1 = readId[q]
    BY <1>2
  <2>2. held' = <<q, readId'[q] - 1>>
    BY <1>1, <2>1
  <2>3. held' # <<0, 0>>
    BY <1>1, LinkFacts
  <2>4. QED
    BY <1>1, <1>4, <2>1, <2>2, <2>3 DEF Holding
<1>6. Taken'
  <2> SUFFICES ASSUME ~raced, NEW r \in LinkFlows
               PROVE  InOrder(Contents, r, readId'[r] - Underway(r)')
    BY <1>4 DEF Taken
  <2>1. readId[r] \in Nat /\ InOrder(Contents, r, readId[r] - Underway(r))
    BY DEF PathInv, Taken, Queues, Queue
  <2>2. Underway(r) = 0 /\ Underway(r)' = IF r = q THEN 1 ELSE 0
    BY <1>1, <1>4 DEF Underway
  <2>3. readId'[r] - Underway(r)' = readId[r] - Underway(r)
    BY <1>2, <2>1, <2>2
  <2>4. QED
    BY <2>1, <2>3
<1>7. QED
  BY <1>2, <1>3, <1>5, <1>6 DEF PathInv

\* Whoever begins to append has his message under way.
LEMMA TakeInInv ==
  ASSUME PathInv, FlowInv', TakeIn \/ Shipped
  PROVE  PathInv'
<1> DEFINE m == adding'
<1>1. /\ UNCHANGED <<onetime, turn, taken, begun, held>> /\ role' = role
      /\ fetched' = FALSE /\ m \in Message /\ BeginAppend(m)
      /\ IF role = "secondary" THEN m[1] = 0 ELSE m = held /\ fetched
  <2>1. CASE TakeIn
    <3>1. held # <<0, 0>> /\ role # "secondary" /\ fetched
      BY <2>1 DEF TakeIn, PathInv, Holding
    <3>2. Dereference(held[1], held[2]) = held /\ held \in Message
      BY <3>1, HeldThere, LinkFacts DEF PathInv
    <3>3. QED
      BY <2>1, <3>1, <3>2 DEF TakeIn, BeginAppend
  <2>2. CASE Shipped
    <3>1. ~fetched /\ fetched \in BOOLEAN /\ role = "secondary"
      BY <2>2 DEF Shipped, PathInv, Holding, Turns
    <3>2. m = <<0, count + 1>> /\ BeginAppend(m)
      BY <2>2 DEF Shipped, BeginAppend
    <3>3. count \in Nat /\ count < MaxMessages /\ MaxMessages \in Nat
      BY <2>2, FlowBounds DEF Shipped, BeginAppend, PathInv, FlowInv, TypeOK, Id
    <3>4. count + 1 \in 1 .. MaxMessages
      BY <3>3
    <3>5. m \in Message
      BY <3>2, <3>4, LinkFacts
    <3>6. QED
      BY <2>2, <3>1, <3>2, <3>5 DEF Shipped, BeginAppend, linking
  <2>3. QED
    BY <2>1, <2>2
<1>2. Locked' /\ ~Locked /\ Appender' = Appender
  <2>1. Appender' = Appender /\ Appender \in Thread /\ pc \in [Thread -> Place]
    BY <1>1, Threads, ThreadsStay DEF PathInv, FlowInv, Where
  <2>2. QED
    BY <1>1, <2>1 DEF BeginAppend, Step, Locked
<1>3. Turns' /\ Queues'
  BY <1>1 DEF PathInv, Turns, Queues, Queue, Produced, onetime
<1>4. Holding'
  <2>1. held' = <<0, 0>> \/ \E q \in LinkFlows : readId'[q] > 0 /\ held' = <<q, readId'[q] - 1>>
    BY <1>1 DEF PathInv, Holding, onetime
  <2>2. QED
    BY <1>1, <1>2, <2>1 DEF PathInv, Holding
<1>5. Taken'
  <2> SUFFICES ASSUME ~raced', NEW q \in LinkFlows
               PROVE  InOrder(Contents', q, readId'[q] - Underway(q)')
    BY DEF Taken
  <2>1. ~raced /\ Contents' = Contents
    BY <1>1, ContentsMoved DEF PathInv, BeginAppend
  <2>2. Underway(q)' = Underway(q)
    <3>1. CASE role = "secondary"
      BY <1>1, <3>1, LinkFacts DEF Underway, PathInv, Holding
    <3>2. CASE role # "secondary"
      BY <1>1, <1>2, <3>2 DEF Underway
    <3>3. QED
      BY <3>1, <3>2
  <2>3. QED
    BY <1>1, <2>1, <2>2 DEF PathInv, Taken, onetime
<1>6. QED
  BY <1>3, <1>4, <1>5 DEF PathInv

LEMMA LockKept ==
  ASSUME FlowInv, Shift \/ Confirmation \/ Reading
  PROVE  /\ Locked' = Locked /\ UNCHANGED <<role, adding>>
         /\ raced => raced'
         /\ role # "secondary" /\ pc["kernel"] = "idle" => pc'["kernel"] = "idle"
<1>1. /\ TypeOK /\ pc \in [Thread -> Place]
      /\ Appender \in Thread /\ Syncer \in Thread /\ Reader \in Thread /\ Reader # Appender
      /\ role # "secondary" => Appender = "kernel" /\ Reader = "sequencer"
      /\ role = "primary" => Appender = "kernel"
      /\ "kernel" \in Thread /\ "sequencer" \in Thread
  BY Threads DEF FlowInv, Where
<1>2. role' = role => Appender' = Appender
  BY ThreadsStay
<1>3. CASE Shift
  BY <1>1, <1>2, <1>3 DEF Shift, Step, Locked
<1>4. CASE AnswerArrives
  <2>1. role' = role /\ adding' = adding /\ raced' = raced /\ Appender = "kernel"
    BY <1>1, <1>4 DEF AnswerArrives
  <2>2. pc'["kernel"] = pc["kernel"]
    BY <1>1, <1>4 DEF AnswerArrives, Step
  <2>3. QED
    BY <1>1, <1>2, <2>1, <2>2 DEF Locked
<1>5. CASE SyncIndex \/ SyncCopy \/ Confirm
  <2>1. /\ role' = role /\ adding' = adding /\ (raced => raced')
        /\ pc[Syncer] \in {"sync", "copy", "confirm"}
        /\ \E to \in {"copy", "confirm", "register", "idle"} : pc' = [pc EXCEPT ![Syncer] = to]
    <3>1. CASE SyncIndex
      BY <3>1 DEF SyncIndex, Step
    <3>2. CASE SyncCopy
      BY <3>2 DEF SyncCopy, Step
    <3>3. CASE Confirm
      BY <3>3 DEF Confirm, Step
    <3>4. QED
      BY <1>5, <3>1, <3>2, <3>3
  <2>2. \/ pc'[Appender] = pc[Appender]
        \/ /\ pc[Appender] \in {"sync", "copy", "confirm"}
           /\ pc'[Appender] \in {"copy", "confirm", "register", "idle"}
    BY <1>1, <2>1
  <2>3. Locked' = Locked
    BY <1>2, <2>1, <2>2 DEF Locked
  <2>4. QED
    BY <1>1, <2>1, <2>3
<1>6. CASE Register
  BY <1>1, <1>2, <1>6 DEF Register, Step, Locked
<1>7. CASE Reading
  BY <1>1, <1>2, <1>7 DEF Reading, ReadCached, ReadMissed, ReadBeneath, Step, Locked
<1>8. QED
  BY <1>3, <1>4, <1>5, <1>6, <1>7 DEF Confirmation

LEMMA SeriesStepInv ==
  ASSUME PathInv, FlowInv', FlowStep
  PROVE  PathInv'
<1>1. UNCHANGED <<head, items, haveGet, readId, trimming, turn, taken, begun, held, fetched>>
  BY DEF FlowStep, onetime, linking
<1>2. Turns' /\ Queues'
  BY <1>1 DEF PathInv, Turns, Queues, Queue, Produced
<1>3. CASE Push
  <2>1. /\ Appender \in Thread /\ pc \in [Thread -> Place] /\ Appender' = Appender /\ role' = role
        /\ role # "secondary" => Appender = "kernel"
    BY <1>3, Threads, ThreadsStay DEF PathInv, FlowInv, Where, Push
  <2>2. /\ Locked /\ ~Locked' /\ raced' = raced
        /\ role # "secondary" => pc["kernel"] # "idle"
    BY <1>3, <2>1 DEF Push, Step, Locked
  <2>3. /\ Contents' = Append(Contents, adding) /\ adding \in Message
        /\ Contents \in Seq(Message \union {Garbage})
    BY <1>3, ContentsGrow, ContentsAre DEF PathInv, FlowInv
  <2>4. ~fetched
    BY <2>2 DEF PathInv, Holding
  <2>5. Holding'
    BY <1>1, <2>1, <2>2, <2>4 DEF PathInv, Holding
  <2>6. Taken'
    <3> SUFFICES ASSUME ~raced, NEW q \in LinkFlows
                 PROVE  InOrder(Contents', q, readId[q] - Underway(q)')
      BY <1>1, <2>2 DEF Taken
    <3>1. readId[q] \in Nat /\ InOrder(Contents, q, readId[q] - Underway(q)) /\ Underway(q)' = 0
      BY <1>1, <2>2, <2>4 DEF PathInv, Taken, Queues, Queue, Underway
    <3>2. CASE held[1] = q
      <4>1. role # "secondary" /\ held # <<0, 0>> /\ adding = held
        BY <3>2, <2>2, LinkFacts DEF PathInv, Holding
      <4>2. PICK r \in LinkFlows : readId[r] > 0 /\ held = <<r, readId[r] - 1>>
        BY <4>1 DEF PathInv, Holding
      <4>3. r = q
        BY <3>2, <4>2
      <4>4. /\ Underway(q) = 1 /\ readId[q] - 1 \in Nat /\ (readId[q] - 1) + 1 = readId[q]
            /\ adding = <<q, readId[q] - 1>>
        BY <2>2, <3>1, <3>2, <4>1, <4>2, <4>3 DEF Underway
      <4>5. InOrder(Append(Contents, adding), q, (readId[q] - 1) + 1)
        BY <2>3, <3>1, <4>4, OrderGrows
      <4>6. readId[q] - Underway(q)' = (readId[q] - 1) + 1
        BY <3>1
      <4>7. QED
        BY <2>3, <4>5, <4>6
    <3>3. CASE held[1] # q
      <4>1. adding[1] # q
        BY <2>2, <3>3, LinkFacts DEF PathInv, Holding
      <4>2. Underway(q) = 0
        BY <3>3 DEF Underway
      <4>3. readId[q] - 0 \in Int /\ InOrder(Contents, q, readId[q] - 0)
        BY <3>1, <4>2
      <4>4. InOrder(Append(Contents, adding), q, readId[q] - 0)
        BY <2>3, <4>1, <4>3, OrderKept
      <4>5. QED
        BY <2>3, <3>1, <4>4
    <3>4. QED
      BY <3>2, <3>3
  <2>7. QED
    BY <1>2, <2>5, <2>6 DEF PathInv
<1>4. CASE Shift \/ Confirmation \/ Reading
  <2>1. /\ Locked' = Locked /\ UNCHANGED <<role, adding>>
        /\ raced => raced'
        /\ role # "secondary" /\ pc["kernel"] = "idle" => pc'["kernel"] = "idle"
    BY <1>4, LockKept DEF PathInv
  <2>2. Holding'
    BY <1>1, <2>1 DEF PathInv, Holding
  <2>3. ~raced' => Contents' = Contents
    BY <1>4, ContentsStay DEF PathInv
  <2>4. Taken'
    BY <1>1, <2>1, <2>3 DEF PathInv, Taken, Underway
  <2>5. QED
    BY <1>2, <2>2, <2>4 DEF PathInv
<1>5. QED
  BY <1>3, <1>4 DEF FlowStep

LEMMA PathStep == PathInv /\ [PathNext]_pathVars => PathInv' /\ [Next]_vars
<1> SUFFICES ASSUME PathInv, [PathNext]_pathVars PROVE PathInv' /\ [Next]_vars
  OBVIOUS
<1>1. [Next]_vars
  BY PathSteps DEF PathInv
<1>2. FlowInv'
  BY <1>1, FlowNext DEF PathInv
<1>3. PathInv'
  BY <1>2, ProvideInv, TurnInv, FetchInv, TakeInInv, SeriesStepInv DEF PathNext, Kernel
<1>4. QED
  BY <1>1, <1>3

\* The messages of links and of a primary enter the series as those of its one
\* appender: whatever is proved of CachedFlow holds of it as it is used here.
THEOREM PathUsesFlow == PathSpec => Spec
<1>1. PathInit => Init /\ PathInv
  BY PathStart
<1>2. QED
  BY <1>1, PathStep, PTL DEF PathSpec, Spec

\* What m_pubPackage points to stays in place until RealDo fetches the next message,
\* whatever the links and fronts append meanwhile (OneTimeFlow.cpp:14-46,
\* LinkManager.cpp:239-265, KernelApp.cpp:605-692).
THEOREM HeldStays == PathSpec => []HeldIntact
<1>1. PathInv => HeldIntact
  <2> SUFFICES ASSUME PathInv PROVE HeldIntact
    OBVIOUS
  <2>1. held[1] # 0 => held # <<0, 0>>
    OBVIOUS
  <2>2. held # <<0, 0>> => held \in FlowMessage /\ Dereference(held[1], held[2]) = held
    BY HeldThere DEF PathInv
  <2>3. \A q \in LinkFlows : readId[q] \in 0 .. Produced(q) /\ Produced(q) <= MaxProduced[q]
    <3> SUFFICES ASSUME NEW q \in LinkFlows
                 PROVE  readId[q] \in 0 .. Produced(q) /\ Produced(q) <= MaxProduced[q]
      OBVIOUS
    <3>1. Queue(q)
      BY DEF PathInv, Queues
    <3>2. Produced(q) \in Int /\ readId[q] \in Nat
      BY <3>1, LenProperties DEF Queue, Produced
    <3>3. QED
      BY <3>1, <3>2 DEF Queue
  <2>4. QED
    BY <2>1, <2>2, <2>3 DEF HeldIntact, PathTypeOK, PathInv, Turns
<1>2. QED
  BY <1>1, PathStart, PathStep, PTL DEF PathSpec

\* Of every flow of every link the series holds exactly what has been taken, each
\* message once and in order, however the turns of the links go, until SyncUnderFlow
\* reads the window while an Append moves it (LinkManager.cpp:222-265,
\* KernelApp.cpp:605-692, CachedFlow.cpp:65-87).
THEOREM TakenOnceInOrder == PathSpec => []TakenInOrder
<1>1. PathInv => TakenInOrder
  <2> SUFFICES ASSUME PathInv, ~raced, NEW q \in LinkFlows
               PROVE  InOrder(Contents, q, readId[q] - (IF \E m \in Mid : m[1] = q THEN 1 ELSE 0))
    BY DEF TakenInOrder
  <2>1. InOrder(Contents, q, readId[q] - Underway(q))
    BY DEF PathInv, Taken
  <2>2. (\E m \in Mid : m[1] = q) <=> held[1] = q /\ (fetched \/ Locked)
    <3>1. ASSUME NEW m \in Mid, m[1] = q PROVE held[1] = q /\ (fetched \/ Locked)
      <4>1. m[1] # 0 /\ ((fetched /\ m = held) \/ (Locked /\ m = adding))
        BY <3>1, LinkFacts DEF Mid
      <4>2. QED
        BY <3>1, <4>1 DEF PathInv, Holding
    <3>2. ASSUME held[1] = q, fetched \/ Locked PROVE \E m \in Mid : m[1] = q
      <4>1. held # <<0, 0>> /\ held[1] # 0
        BY <3>2, LinkFacts
      <4>2. held \in FlowMessage
        BY <4>1, HeldThere DEF PathInv
      <4>3. Locked => adding = held
        BY <4>1 DEF PathInv, Holding
      <4>4. held \in Mid
        BY <3>2, <4>2, <4>3 DEF Mid
      <4>5. QED
        BY <3>2, <4>4
    <3>3. QED
      BY <3>1, <3>2
  <2>3. QED
    BY <2>1, <2>2 DEF Underway
<1>2. QED
  BY <1>1, PathStart, PathStep, PTL DEF PathSpec

-----------------------------------------------------------------------------
(* Induction, from the order of the finite sets by inclusion: the one of    *)
(* the library takes an operator.                                          *)

LEMMA Least ==
  ASSUME NEW T, T \subseteq Nat, T # {}
  PROVE  \E n \in T : \A m \in T : n <= m
<1> DEFINE Below == {1 .. n : n \in T}
<1>1. Below \subseteq FiniteSubsetsOf(Nat) /\ Below # {}
  <2>1. \A n \in Nat : 1 .. n \in SUBSET Nat /\ IsFiniteSet(1 .. n)
    BY FS_Interval
  <2>2. QED
    BY <2>1 DEF FiniteSubsetsOf
<1>2. PICK x \in Below : \A y \in Below : <<y, x>> \notin StrictSubsetOrdering(Nat)
  BY <1>1, FS_StrictSubsetOrderingWellFounded, WFMin
<1>3. PICK n \in T : x = 1 .. n
  BY <1>2
<1>4. ASSUME NEW m \in T, m < n
      PROVE  FALSE
  <2>1. 1 .. m \subseteq 1 .. n /\ n \in 1 .. n /\ n \notin 1 .. m /\ 1 .. m \in Below
    BY <1>4
  <2>2. <<1 .. m, 1 .. n>> \in StrictSubsetOrdering(Nat)
    BY <2>1, <1>4 DEF StrictSubsetOrdering
  <2>3. QED
    BY <1>2, <1>3, <2>1, <2>2
<1>5. QED
  BY <1>4

LEMMA Induction ==
  ASSUME NEW T, 0 \in T, \A n \in Nat : n \in T => n + 1 \in T
  PROVE  Nat \subseteq T
<1> DEFINE B == Nat \ T
<1>1. SUFFICES ASSUME B # {} PROVE FALSE
  OBVIOUS
<1>2. PICK n \in B : \A m \in B : n <= m
  BY <1>1, Least
<1>3. n # 0 /\ n - 1 \in Nat
  BY <1>2
<1>4. n - 1 \in T
  BY <1>2, <1>3
<1>5. QED
  BY <1>2, <1>3, <1>4

-----------------------------------------------------------------------------
(* The way out: the messages of a flow and their numbers.                  *)

Result == Requests \union {[type |-> "publish", topics |-> k[1], indexes |-> k[2]] : k \in Kinds}

LEMMA ResultKinds ==
  ASSUME NEW m \in Result
  PROVE  /\ m.type \in {"publish", "sub", "unsub", "unsuball", "del"}
         /\ m.type = "publish" => m.topics \in Seq(Topic) /\ m.indexes \subseteq Index
         /\ m.type # "publish" => m.session \in Session
         /\ m.type = "sub" => m.local \in Local /\ m.flow \in Flows /\ m.number \in Int
<1>1. CASE m \in Requests
  BY <1>1, FanoutBounds DEF Requests
<1>2. CASE m \notin Requests
  <2>1. PICK k \in Kinds : m = [type |-> "publish", topics |-> k[1], indexes |-> k[2]]
    BY <1>2 DEF Result
  <2>2. k[1] \in Seq(Topic) /\ k[2] \subseteq Index
    BY FanoutBounds
  <2>3. QED
    BY <2>1, <2>2
<1>3. QED
  BY <1>1, <1>2

LEMMA FlowParts ==
  ASSUME NEW f \in Flows
  PROVE  /\ f = <<f[1], f[2]>> /\ f[1] \in Topic /\ f[2] \in Index \union {NoIndex}
         /\ Over(f) \in Flows /\ Over(f)[1] = f[1] /\ Over(f)[2] = NoIndex
         /\ f[2] = NoIndex => Over(f) = f
         /\ f[2] # NoIndex => Over(f) # f
BY DEF Flows, Over

\* What belongs to an index belongs to its topic.
LEMMA OverBelongs ==
  ASSUME NEW f \in Flows, NEW i, Belongs(f, i)
  PROVE  Belongs(Over(f), i)
BY FlowParts DEF Belongs

LEMMA FlowsBelong ==
  ASSUME NEW i, results[i] \in Result, results[i].type = "publish"
  PROVE  FlowsOf(results[i]) \subseteq Flows /\ \A f \in Flows : f \in FlowsOf(results[i]) <=> Belongs(f, i)
<1> DEFINE m == results[i]
<1>1. m.topics \in Seq(Topic) /\ m.indexes \subseteq Index
  BY ResultKinds
<1>2. \A j \in DOMAIN m.topics : m.topics[j] \in Topic
  BY <1>1, LenProperties
<1>3. FlowsOf(m) \subseteq Flows
  BY <1>1, <1>2 DEF FlowsOf, Flows
<1>4. ASSUME NEW f \in Flows
      PROVE  f \in FlowsOf(m) <=> Belongs(f, i)
  <2>1. f = <<f[1], f[2]>> /\ f[2] \in Index \union {NoIndex}
    BY FlowParts
  <2>2. Belongs(f, i) <=> /\ \E j \in DOMAIN m.topics : m.topics[j] = f[1]
                          /\ f[2] \in m.indexes \union {NoIndex}
    BY <2>1 DEF Belongs
  <2>3. f \in FlowsOf(m) <=> \E j \in DOMAIN m.topics, x \in m.indexes \union {NoIndex} : f = <<m.topics[j], x>>
    BY DEF FlowsOf
  <2>4. \A t, x : f = <<t, x>> <=> t = f[1] /\ x = f[2]
    BY <2>1
  <2> HIDE DEF m
  <2>5. QED
    BY <2>2, <2>3, <2>4
<1>5. QED
  BY <1>3, <1>4

\* The numbers count up: one more for each message of the flow.
LEMMA Numbering ==
  ASSUME NEW f, NEW k \in Nat
  PROVE  /\ IsFiniteSet(Wanted(f, k)) /\ NumberOf(f, k) \in Nat
         /\ NumberOf(f, k + 1) = NumberOf(f, k) + (IF Belongs(f, k + 1) THEN 1 ELSE 0)
         /\ \A j \in 0 .. k : NumberOf(f, j) <= NumberOf(f, k)
<1>1. \A j \in Nat : /\ IsFiniteSet(Wanted(f, j)) /\ NumberOf(f, j) \in Nat /\ Wanted(f, j) \subseteq 1 .. j
  <2>1. SUFFICES ASSUME NEW j \in Nat
                 PROVE  /\ IsFiniteSet(Wanted(f, j)) /\ NumberOf(f, j) \in Nat /\ Wanted(f, j) \subseteq 1 .. j
    OBVIOUS
  <2>2. Wanted(f, j) \subseteq 1 .. j
    BY DEF Wanted
  <2>3. IsFiniteSet(1 .. j)
    BY FS_Interval
  <2>4. IsFiniteSet(Wanted(f, j))
    BY <2>2, <2>3, FS_Subset
  <2>5. QED
    BY <2>2, <2>4, FS_CardinalityType DEF NumberOf
<1>2. NumberOf(f, k + 1) = NumberOf(f, k) + (IF Belongs(f, k + 1) THEN 1 ELSE 0)
  <2>1. CASE Belongs(f, k + 1)
    <3>1. Wanted(f, k + 1) = Wanted(f, k) \union {k + 1}
      BY <2>1 DEF Wanted
    <3>2. k + 1 \notin Wanted(f, k)
      BY DEF Wanted
    <3>3. Cardinality(Wanted(f, k) \union {k + 1}) = Cardinality(Wanted(f, k)) + 1
      BY <1>1, <3>2, FS_AddElement
    <3>4. QED
      BY <2>1, <3>1, <3>3 DEF NumberOf
  <2>2. CASE ~Belongs(f, k + 1)
    <3>1. Wanted(f, k + 1) = Wanted(f, k)
      BY <2>2 DEF Wanted
    <3>2. QED
      BY <1>1, <2>2, <3>1 DEF NumberOf
  <2>3. QED
    BY <2>1, <2>2
<1>3. ASSUME NEW j \in 0 .. k
      PROVE  NumberOf(f, j) <= NumberOf(f, k)
  <2>1. Wanted(f, j) \subseteq Wanted(f, k)
    BY DEF Wanted
  <2>2. QED
    BY <1>1, <2>1, FS_Subset DEF NumberOf
<1>4. QED
  BY <1>1, <1>2, <1>3

\* Only the last message has the last number.
LEMMA LastOfFlow ==
  ASSUME NEW f, NEW k \in Nat \ {0}, Belongs(f, k), NEW m \in Wanted(f, k), NumberOf(f, m) = NumberOf(f, k)
  PROVE  m = k
<1>1. m \in 1 .. k
  BY DEF Wanted
<1>2. SUFFICES ASSUME m # k PROVE FALSE
  OBVIOUS
<1>3. k - 1 \in Nat /\ m \in 0 .. k - 1 /\ k - 1 + 1 = k
  BY <1>1, <1>2
<1>4. NumberOf(f, m) <= NumberOf(f, k - 1) /\ NumberOf(f, k) = NumberOf(f, k - 1) + 1 /\ NumberOf(f, k - 1) \in Nat
  BY <1>3, Numbering
<1>5. m \in Nat /\ NumberOf(f, m) \in Nat
  BY <1>1, Numbering
<1>6. QED
  BY <1>4, <1>5

-----------------------------------------------------------------------------
(* The invariant.                                                          *)

\* The last message a flow has been given, of those in it.
Appended(f) == IF f \in work THEN dispatched - 1 ELSE dispatched

\* A flow holds its messages, the k-th under the number k; an index finds them
\* in its topic.
Keeping(f) ==
  \A k \in 1 .. Count(f) :
    /\ f[2] # NoIndex => log[f][k] \in 0 .. Count(Over(f)) - 1
    /\ Get(f, k - 1) \in Wanted(f, Appended(f)) /\ NumberOf(f, Get(f, k - 1)) = k
LogRight(f) == Count(f) = NumberOf(f, Appended(f)) /\ Keeping(f)

WorkRight ==
  /\ work # {} => dispatched >= 1
  /\ \A f \in work : Belongs(f, dispatched)
  /\ \A f \in Flows : f[2] = NoIndex /\ Count(f) > 0 => f[1] \in registered

\* The number that the request i asks for, by the order of the results.
Asked(i) ==
  IF results[i].number > 0 THEN results[i].number
  ELSE NumberOf(results[i].flow, i - 1) + results[i].number
FrontRight ==
  \A i \in DOMAIN front :
    /\ results[front[i][1]].type # "publish"
    /\ results[front[i][1]].type = "sub" => front[i][2] = Asked(front[i][1])

\* An end point has sent, or passed over, what lies between the first number it
\* sent, or was asked for, and where it is.
Gone(s, n, no) == no \in NumbersSent(s, n) \/ ~Holds(endpoint[s][n].flow, no - 1)
Sending(s, n) ==
  LET e == endpoint[s][n]
      q == sent[s][n]
  IN  /\ \A i \in DOMAIN q : q[i][1] \in 1 .. e.next /\ q[i][2] = Get(e.flow, q[i][1] - 1)
      /\ \A i, j \in DOMAIN q : i < j => q[i][1] < q[j][1]
      /\ \A i \in DOMAIN q : \A no \in q[i][1] .. e.next : Gone(s, n, no)
Beginnings(s, n) ==
  LET e == endpoint[s][n]
  IN  ~Misled(e) =>
        /\ \A no \in Due(e) + 1 .. e.next : Gone(s, n, no)
        /\ results[e.from].number <= 0 => e.next >= Due(e) /\ \A no \in NumbersSent(s, n) : no > Due(e)
Served(s, n) ==
  LET e == endpoint[s][n]
  IN  e # NoSub =>
        /\ results[e.from].type = "sub"
        /\ ~Misled(e) \/ sent[s][n] # <<>> => e.next <= Count(e.flow)
        /\ Sending(s, n) /\ Beginnings(s, n)

FanInv ==
  /\ FanTypeOK /\ Cardinality(Published) <= MaxPublished
  /\ \A f \in Flows : LogRight(f)
  /\ WorkRight /\ FrontRight
  /\ \A s \in Session, n \in Local : Served(s, n)

\* While session s is ended by the request at position i: what lies between the
\* reader and where it was is sent or passed over, and the loop ended with all
\* that was published before, or behind a message that is gone.
Closes(s, n, i) ==
  LET e == endpoint[s][n]
      c == closing[n]
  IN  e # NoSub =>
        /\ c.start <= e.next /\ (c.start < e.next => e.next <= Count(e.flow))
        /\ \A no \in c.start + 1 .. e.next : Gone(s, n, no)
        /\ c.open \/ NumberOf(e.flow, i - 1) <= e.next \/ (c.start < e.next /\ ~Holds(e.flow, e.next - 1))
ClosingRight == Closing => Pending("del") /\ \A n \in Local : Closes(Leaving, n, Entry[1])

-----------------------------------------------------------------------------
(* What was so stays so: the results and the flows only grow.              *)

Grows ==
  /\ results' \in Seq(Result) /\ Len(results) <= Len(results')
  /\ \A i \in 1 .. Len(results) : results'[i] = results[i]
  /\ dispatched <= dispatched'
  /\ \A f \in Flows : /\ Count(f)' \in Nat /\ Count(f) <= Count(f)'
                      /\ \A k \in 1 .. Count(f) : log'[f][k] = log[f][k]

LEMMA Domains ==
  ASSUME FanTypeOK
  PROVE  /\ results \in Seq(Result) /\ Len(results) \in Nat /\ DOMAIN results = 1 .. Len(results)
         /\ \A i \in 1 .. Len(results) : results[i] \in Result
         /\ dispatched \in 0 .. Len(results) /\ dispatched \in Nat
         /\ \A f \in Flows : /\ log[f] \in Seq(0 .. Len(results)) /\ Count(f) \in Nat /\ DOMAIN log[f] = 1 .. Count(f)
                             /\ \A k \in 1 .. Count(f) : log[f][k] \in 0 .. Len(results)
         /\ Len(front) \in Nat /\ DOMAIN front = 1 .. Len(front)
         /\ \A i \in 1 .. Len(front) : front[i][1] \in 1 .. dispatched /\ front[i][2] \in Int
<1>1. results \in Seq(Result)
  BY DEF FanTypeOK, Result
<1>2. dispatched \in 0 .. Len(results) /\ front \in Seq((1 .. dispatched) \X Int)
  BY DEF FanTypeOK
<1>3. \A i \in 1 .. Len(front) : front[i] \in (1 .. dispatched) \X Int
  BY <1>2, LenProperties
<1>4. ASSUME NEW f \in Flows
      PROVE  /\ log[f] \in Seq(0 .. Len(results)) /\ Count(f) \in Nat /\ DOMAIN log[f] = 1 .. Count(f)
             /\ \A k \in 1 .. Count(f) : log[f][k] \in 0 .. Len(results)
  <2>1. log[f] \in Seq(0 .. Len(results))
    BY DEF FanTypeOK
  <2>2. QED
    BY <2>1, LenProperties DEF Count
<1>5. QED
  BY <1>1, <1>2, <1>3, <1>4, LenProperties

\* Which messages belong to a flow, and under which numbers.
LEMMA NumbersStay ==
  ASSUME FanTypeOK, Grows
  PROVE  \A f : \A k \in 0 .. Len(results) :
           /\ Wanted(f, k)' = Wanted(f, k) /\ NumberOf(f, k)' = NumberOf(f, k)
           /\ k # 0 => (Belongs(f, k)' <=> Belongs(f, k))
<1>1. Len(results) \in Nat
  BY Domains
<1>2. ASSUME NEW f, NEW i \in 1 .. Len(results)
      PROVE  Belongs(f, i)' <=> Belongs(f, i)
  <2>1. results'[i] = results[i]
    BY DEF Grows
  <2>2. QED
    BY <2>1 DEF Belongs
<1>3. ASSUME NEW f, NEW k \in 0 .. Len(results)
      PROVE  Wanted(f, k)' = Wanted(f, k)
  <2>1. \A i \in 1 .. k : i \in 1 .. Len(results)
    BY <1>1
  <2>2. QED
    BY <1>2, <2>1 DEF Wanted
<1>4. \A f : \A k \in 0 .. Len(results) : NumberOf(f, k)' = NumberOf(f, k)
  BY <1>3 DEF NumberOf
<1>5. QED
  BY <1>1, <1>2, <1>3, <1>4

LEMMA Rooms ==
  ASSUME NEW f \in Flows, Count(f) \in Nat
  PROVE  Room(f) \in Nat \ {0} /\ FirstID(f) \in 0 .. Count(f) /\ (FirstID(f) = 0 \/ FirstID(f) = Count(f) - Room(f))
BY FanoutBounds DEF Room, FirstID, Higher

LEMMA FirstStays ==
  ASSUME FanTypeOK, Grows, NEW f \in Flows
  PROVE  FirstID(f) <= FirstID(f)' /\ FirstID(f)' \in Nat
<1>1. Count(f) \in Nat /\ Count(f)' \in Nat /\ Count(f) <= Count(f)' /\ Room(f) \in Nat
  BY Domains, Rooms DEF Grows
<1>2. FirstID(f) = Higher(0, Count(f) - Room(f)) /\ FirstID(f)' = Higher(0, Count(f)' - Room(f))
  BY DEF FirstID, Room
<1>3. QED
  BY <1>1, <1>2 DEF Higher

\* A message is under its number as long as it is held; one that is gone is gone.
LEMMA FlowsStay ==
  ASSUME FanTypeOK, \A f \in Flows : LogRight(f), Grows
  PROVE  \A f \in Flows : \A id \in 0 .. Count(f) - 1 :
           Get(f, id)' = Get(f, id) /\ (Holds(f, id)' => Holds(f, id))
<1>1. SUFFICES ASSUME NEW f \in Flows, NEW id \in 0 .. Count(f) - 1
               PROVE  Get(f, id)' = Get(f, id) /\ (Holds(f, id)' => Holds(f, id))
  OBVIOUS
<1>2. Over(f) \in Flows
  BY FlowParts
<1>3. Count(f) \in Nat /\ Count(Over(f)) \in Nat /\ FirstID(Over(f)) \in Nat /\ FirstID(f) \in Nat
  BY <1>2, Domains, Rooms
<1>4. id + 1 \in 1 .. Count(f)
  BY <1>3
<1>5. log'[f][id + 1] = log[f][id + 1]
  BY <1>4 DEF Grows
<1>6. f[2] # NoIndex => log[f][id + 1] \in 0 .. Count(Over(f)) - 1
  BY <1>4 DEF LogRight, Keeping
<1>7. f[2] # NoIndex => log'[Over(f)][log[f][id + 1] + 1] = log[Over(f)][log[f][id + 1] + 1]
  <2>1. f[2] # NoIndex => log[f][id + 1] + 1 \in 1 .. Count(Over(f))
    BY <1>3, <1>6
  <2>2. QED
    BY <1>2, <2>1 DEF Grows
<1>8. Get(f, id)' = Get(f, id)
  BY <1>5, <1>7 DEF Get
<1>9. FirstID(f) <= FirstID(f)' /\ FirstID(Over(f)) <= FirstID(Over(f))' /\ {FirstID(f)', FirstID(Over(f))'} \subseteq Nat
  BY <1>2, FirstStays
<1>10. ASSUME Holds(f, id)'
       PROVE  Holds(f, id)
  <2>1. id >= FirstID(f)' /\ (f[2] # NoIndex => log[f][id + 1] \in FirstID(Over(f))' .. Count(Over(f))' - 1)
    BY <1>5, <1>10 DEF Holds
  <2>2. id >= FirstID(f)
    BY <1>3, <1>9, <2>1
  <2>3. f[2] # NoIndex => log[f][id + 1] \in FirstID(Over(f)) .. Count(Over(f)) - 1
    BY <1>3, <1>6, <1>9, <2>1
  <2>4. QED
    BY <2>2, <2>3 DEF Holds
<1>11. QED
  BY <1>8, <1>10

\* How many messages a flow has got.
LEMMA Counts ==
  ASSUME FanTypeOK, WorkRight, NEW f \in Flows, LogRight(f)
  PROVE  /\ Appended(f) \in 0 .. dispatched /\ dispatched - 1 <= Appended(f)
         /\ NumberOf(f, Appended(f)) = Count(f)
         /\ \A k \in 0 .. Appended(f) : NumberOf(f, k) <= Count(f) /\ NumberOf(f, k) \in Nat
         /\ \A id \in 0 .. Count(f) - 1 : Get(f, id) \in Wanted(f, Appended(f)) /\ NumberOf(f, Get(f, id)) = id + 1
<1>1. Appended(f) \in 0 .. dispatched /\ dispatched - 1 <= Appended(f)
  BY Domains DEF Appended, WorkRight
<1>2. Appended(f) \in Nat /\ Count(f) \in Nat
  BY <1>1, Domains
<1>3. \A k \in 0 .. Appended(f) : NumberOf(f, k) <= Count(f) /\ NumberOf(f, k) \in Nat
  BY <1>2, Numbering DEF LogRight
<1>4. ASSUME NEW id \in 0 .. Count(f) - 1
      PROVE  Get(f, id) \in Wanted(f, Appended(f)) /\ NumberOf(f, Get(f, id)) = id + 1
  <2>1. id + 1 \in 1 .. Count(f) /\ id + 1 - 1 = id
    BY <1>2
  <2>2. \A k \in 1 .. Count(f) : Get(f, k - 1) \in Wanted(f, Appended(f)) /\ NumberOf(f, Get(f, k - 1)) = k
    BY DEF LogRight, Keeping
  <2>3. Get(f, id + 1 - 1) \in Wanted(f, Appended(f)) /\ NumberOf(f, Get(f, id + 1 - 1)) = id + 1
    BY <2>1, <2>2
  <2>4. QED
    BY <2>1, <2>3
<1>5. QED
  BY <1>1, <1>3, <1>4 DEF LogRight

LEMMA EndPoints ==
  ASSUME FanTypeOK, NEW s \in Session, NEW n \in Local
  PROVE  /\ endpoint[s][n] # NoSub =>
              /\ endpoint[s][n].flow \in Flows /\ endpoint[s][n].next \in 0 .. MaxPublished
              /\ endpoint[s][n].from \in 1 .. dispatched
         /\ sent[s][n] \in Seq((1 .. MaxPublished) \X (1 .. dispatched))
         /\ DOMAIN sent[s][n] = 1 .. Len(sent[s][n]) /\ Len(sent[s][n]) \in Nat
         /\ \A i \in DOMAIN sent[s][n] : sent[s][n][i] \in (1 .. MaxPublished) \X (1 .. dispatched)
         /\ \A no \in NumbersSent(s, n) : no \in 1 .. MaxPublished
         /\ sent[s][n] = <<>> <=> DOMAIN sent[s][n] = {}
<1>1. /\ endpoint[s][n] \in {NoSub} \union [flow : Flows, next : 0 .. MaxPublished, from : 1 .. dispatched]
      /\ sent[s][n] \in Seq((1 .. MaxPublished) \X (1 .. dispatched))
  BY DEF FanTypeOK
<1>2. DOMAIN sent[s][n] = 1 .. Len(sent[s][n]) /\ Len(sent[s][n]) \in Nat
  BY <1>1, LenProperties
<1>3. \A i \in DOMAIN sent[s][n] : sent[s][n][i] \in (1 .. MaxPublished) \X (1 .. dispatched)
  BY <1>1, <1>2, LenProperties
<1>4. \A no \in NumbersSent(s, n) : no \in 1 .. MaxPublished
  BY <1>3 DEF NumbersSent
<1>5. sent[s][n] = <<>> <=> DOMAIN sent[s][n] = {}
  <2>1. sent[s][n] = <<>> <=> Len(sent[s][n]) = 0
    BY <1>1, EmptySeq
  <2>2. DOMAIN sent[s][n] = {} <=> Len(sent[s][n]) = 0
    <3>1. \A k \in Nat : 1 .. k = {} <=> k = 0
      <4>1. \A k \in Nat \ {0} : 1 \in 1 .. k
        OBVIOUS
      <4>2. 1 .. 0 = {}
        OBVIOUS
      <4>3. QED
        BY <4>1, <4>2
    <3>2. QED
      BY <1>2, <3>1
  <2>3. QED
    BY <2>1, <2>2
<1>6. QED
  BY <1>1, <1>2, <1>3, <1>4, <1>5

\* What a request asks for.
LEMMA AskedStays ==
  ASSUME FanTypeOK, Grows, NEW i \in 1 .. dispatched
  PROVE  /\ results'[i] = results[i] /\ Asked(i)' = Asked(i)
         /\ results[i].type = "sub" => Asked(i) \in Int /\ results[i].number \in Int /\ results[i].flow \in Flows
<1>1. dispatched \in 0 .. Len(results) /\ Len(results) \in Nat /\ results[i] \in Result
  BY Domains
<1>2. i \in 1 .. Len(results) /\ i - 1 \in 0 .. Len(results)
  BY <1>1
<1>3. results'[i] = results[i]
  BY <1>2 DEF Grows
<1>4. \A f : NumberOf(f, i - 1)' = NumberOf(f, i - 1)
  BY <1>2, NumbersStay
<1>5. PICK k \in 0 .. Len(results) : k = i - 1
  BY <1>2
<1>6. \A f : NumberOf(f, i - 1) \in Nat
  BY <1>1, <1>5, Numbering
<1>7. results[i].type = "sub" => results[i].number \in Int /\ results[i].flow \in Flows
  BY <1>1, ResultKinds
<1>8. Asked(i)' = Asked(i)
  <2>1. NumberOf(results[i].flow, i - 1)' = NumberOf(results[i].flow, i - 1)
    <3>1. \A j \in 1 .. i - 1 : results'[j] = results[j]
      BY <1>1 DEF Grows
    <3>2. Wanted(results[i].flow, i - 1)' = Wanted(results[i].flow, i - 1)
      BY <1>3, <3>1 DEF Wanted, Belongs
    <3>3. QED
      BY <3>2 DEF NumberOf
  <2>2. QED
    BY <1>3, <2>1 DEF Asked
<1>9. QED
  BY <1>3, <1>6, <1>7, <1>8 DEF Asked

LEMMA DueAsked == \A e : results[e.from].flow = e.flow => Due(e) = Asked(e.from)
BY DEF Due, Asked

\* What an end point was served stays right, whatever the other thread does.
LEMMA ServedStays ==
  ASSUME FanTypeOK, \A f \in Flows : LogRight(f), Grows, NEW s \in Session, NEW n \in Local,
         Served(s, n), endpoint'[s][n] = endpoint[s][n], sent'[s][n] = sent[s][n]
  PROVE  Served(s, n)'
<1> DEFINE e == endpoint[s][n]
           q == sent[s][n]
<1>1. CASE e = NoSub
  BY <1>1 DEF Served
<1>2. CASE e # NoSub
  <2>1. e.flow \in Flows /\ e.next \in Nat /\ e.from \in 1 .. dispatched /\ e.from \in Nat
    BY <1>2, EndPoints, FanoutBounds
  <2>2. /\ results[e.from].type = "sub" /\ Sending(s, n) /\ Beginnings(s, n)
        /\ ~Misled(e) \/ q # <<>> => e.next <= Count(e.flow)
    BY <1>2 DEF Served
  <2>3. /\ results'[e.from] = results[e.from] /\ Asked(e.from)' = Asked(e.from)
        /\ Asked(e.from) \in Int /\ results[e.from].number \in Int
    BY <2>1, <2>2, AskedStays
  <2>4. Count(e.flow) \in Nat /\ Count(e.flow) <= Count(e.flow)' /\ Count(e.flow)' \in Nat
    BY <2>1, Domains DEF Grows
  <2>5. \A id \in 0 .. Count(e.flow) - 1 : Get(e.flow, id)' = Get(e.flow, id) /\ (Holds(e.flow, id)' => Holds(e.flow, id))
    BY <2>1, FlowsStay
  <2>6. NumbersSent(s, n)' = NumbersSent(s, n)
    BY DEF NumbersSent
  <2>7. endpoint'[s][n] = e /\ sent'[s][n] = q
    OBVIOUS
  <2>8. /\ DOMAIN q = 1 .. Len(q) /\ Len(q) \in Nat /\ (q = <<>> <=> DOMAIN q = {})
        /\ \A i \in DOMAIN q : q[i] \in (1 .. MaxPublished) \X (1 .. dispatched)
    BY EndPoints
  <2>9. ASSUME NEW no \in 1 .. Count(e.flow), Gone(s, n, no)
        PROVE  Gone(s, n, no)'
    <3>1. no - 1 \in 0 .. Count(e.flow) - 1
      BY <2>4
    <3>2. Holds(e.flow, no - 1)' => Holds(e.flow, no - 1)
      BY <2>5, <3>1
    <3>3. Holds(endpoint[s][n].flow, no - 1)' => Holds(e.flow, no - 1)
      BY <3>2, <2>7 DEF Holds, FirstID, Count, Room, Over
    <3>4. QED
      BY <2>6, <2>9, <3>3 DEF Gone
  <2>10. Misled(endpoint[s][n])' <=> Misled(e)
    <3>1. Due(endpoint[s][n])' = Due(e)' 
      BY <2>7 DEF Due, NumberOf, Wanted, Belongs
    <3>2. results[e.from].flow = e.flow => Due(e) = Asked(e.from)
      BY DueAsked
    <3>3. results[e.from].flow = e.flow => Due(endpoint[s][n])' = Asked(e.from)'
      BY <2>3, <2>7 DEF Due, Asked, NumberOf, Wanted, Belongs
    <3>4. QED
      BY <2>3, <2>7, <3>2, <3>3 DEF Misled
  <2>11. ~Misled(e) => Due(endpoint[s][n])' = Due(e) /\ Due(e) \in Int /\ Due(e) > 0
    <3>1. ~Misled(e) => Due(e) = Asked(e.from) /\ results[e.from].flow = e.flow /\ Due(e) > 0
      BY DueAsked, <2>3 DEF Misled
    <3>2. results[e.from].flow = e.flow => Due(endpoint[s][n])' = Asked(e.from)'
      BY <2>3, <2>7 DEF Due, Asked, NumberOf, Wanted, Belongs
    <3>3. QED
      BY <2>3, <3>1, <3>2
  <2>12. Sending(s, n)'
    <3>1. ASSUME NEW i \in DOMAIN q
          PROVE  q[i][1] \in 1 .. e.next /\ q[i][2] = Get(e.flow, q[i][1] - 1)' /\ q[i][1] \in Nat
      <4>1. q[i][1] \in 1 .. e.next /\ q[i][2] = Get(e.flow, q[i][1] - 1) /\ q[i][1] \in Nat
        BY <2>1, <2>2 DEF Sending
      <4>2. q[i][1] - 1 \in 0 .. Count(e.flow) - 1
        BY <2>1, <2>2, <2>4, <2>8, <4>1
      <4>3. QED
        BY <2>5, <4>1, <4>2
    <3>2. ASSUME NEW i \in DOMAIN q, NEW no \in q[i][1] .. e.next
          PROVE  Gone(s, n, no)'
      <4>1. q[i][1] \in 1 .. e.next
        BY <3>1
      <4>2. no \in 1 .. Count(e.flow)
        BY <2>1, <2>2, <2>4, <2>8, <4>1
      <4>3. Gone(s, n, no)
        BY <2>2 DEF Sending
      <4>4. QED
        BY <2>9, <4>2, <4>3
    <3>3. \A i, j \in DOMAIN q : i < j => q[i][1] < q[j][1]
      BY <2>2 DEF Sending
    <3>4. QED
      BY <2>7, <3>1, <3>2, <3>3 DEF Sending
  <2>13. Beginnings(s, n)'
    <3>1. SUFFICES ASSUME ~Misled(e)
                   PROVE  /\ \A no \in Due(e) + 1 .. e.next : Gone(s, n, no)'
                          /\ results[e.from].number <= 0 =>
                               e.next >= Due(e) /\ \A no \in NumbersSent(s, n) : no > Due(e)
      BY <2>3, <2>6, <2>7, <2>10, <2>11 DEF Beginnings
    <3>2. ASSUME NEW no \in Due(e) + 1 .. e.next
          PROVE  Gone(s, n, no)'
      <4>1. no \in 1 .. Count(e.flow)
        BY <2>1, <2>2, <2>4, <2>11, <3>1
      <4>2. Gone(s, n, no)
        BY <2>2, <3>1 DEF Beginnings
      <4>3. QED
        BY <2>9, <4>1, <4>2
    <3>3. QED
      BY <2>2, <3>1, <3>2 DEF Beginnings
  <2>14. ~Misled(endpoint[s][n])' \/ sent'[s][n] # <<>> => e.next <= Count(e.flow)'
    BY <2>1, <2>2, <2>4, <2>7, <2>10
  <2>15. Count(endpoint[s][n].flow)' = Count(e.flow)'
    BY <2>7 DEF Count
  <2>16. QED
    BY <2>2, <2>3, <2>7, <2>12, <2>13, <2>14, <2>15 DEF Served
<1>3. QED
  BY <1>1, <1>2

\* What a flow holds stays right, however much it has got meanwhile.
LEMMA HoldingStays ==
  ASSUME FanTypeOK, WorkRight, \A f \in Flows : LogRight(f), Grows,
         NEW f \in Flows, Appended(f) <= Appended(f)', Appended(f)' \in Nat,
         NEW k \in 1 .. Count(f)
  PROVE  /\ f[2] # NoIndex => log'[f][k] \in 0 .. Count(Over(f))' - 1
         /\ Get(f, k - 1)' \in Wanted(f, Appended(f))' /\ NumberOf(f, Get(f, k - 1))' = k
<1>1. Over(f) \in Flows /\ LogRight(f)
  BY FlowParts
<1>2. /\ Count(f) \in Nat /\ Count(Over(f)) \in Nat /\ Count(Over(f))' \in Nat /\ Count(Over(f)) <= Count(Over(f))'
      /\ log'[f][k] = log[f][k] /\ dispatched \in 0 .. Len(results) /\ Len(results) \in Nat
  BY <1>1, Domains DEF Grows
<1>3. f[2] # NoIndex => log'[f][k] \in 0 .. Count(Over(f))' - 1
  <2>1. f[2] # NoIndex => log[f][k] \in 0 .. Count(Over(f)) - 1
    BY <1>1 DEF LogRight, Keeping
  <2>2. QED
    BY <1>2, <2>1
<1>4. k - 1 \in 0 .. Count(f) - 1 /\ k - 1 + 1 = k
  BY <1>2
<1>5. PICK g : g = Get(f, k - 1)
  OBVIOUS
<1>6. Get(f, k - 1)' = g
  BY <1>4, <1>5, FlowsStay
<1>7. g \in Wanted(f, Appended(f)) /\ NumberOf(f, g) = k /\ Appended(f) \in 0 .. dispatched
  <2>1. Appended(f) \in 0 .. dispatched
    BY <1>1, Counts
  <2>2. QED
    BY <1>1, <1>5, <2>1 DEF LogRight, Keeping
<1>8. g \in 1 .. Appended(f) /\ Belongs(f, g)
  BY <1>7 DEF Wanted
<1>9. g \in 0 .. Len(results) /\ g # 0 /\ g \in 1 .. Appended(f)'
  BY <1>2, <1>7, <1>8
<1>10. Belongs(f, g)' /\ NumberOf(f, g)' = k
  BY <1>7, <1>8, <1>9, NumbersStay
<1>11. NumberOf(f, Get(f, k - 1))' = NumberOf(f, g)'
  BY <1>6 DEF NumberOf, Wanted, Belongs
<1>12. g \in Wanted(f, Appended(f))'
  BY <1>9, <1>10 DEF Wanted, Belongs
<1>13. QED
  BY <1>3, <1>6, <1>10, <1>11, <1>12

\* A flow that is given nothing.
LEMMA FlowAlone ==
  ASSUME FanTypeOK, WorkRight, \A f \in Flows : LogRight(f), Grows,
         NEW f \in Flows, Appended(f) <= Appended(f)', Appended(f)' \in Nat,
         Count(f)' = Count(f), NumberOf(f, Appended(f))' = Count(f)
  PROVE  LogRight(f)'
<1>1. \A k \in 1 .. Count(f) :
        /\ f[2] # NoIndex => log'[f][k] \in 0 .. Count(Over(f))' - 1
        /\ Get(f, k - 1)' \in Wanted(f, Appended(f))' /\ NumberOf(f, Get(f, k - 1))' = k
  BY HoldingStays
<1>2. Keeping(f)'
  BY <1>1 DEF Keeping
<1>3. QED
  BY <1>2 DEF LogRight

-----------------------------------------------------------------------------
(* The matching thread and the dispatcher.                                 *)

EndPoint(d) == {NoSub} \union [flow : Flows, next : 0 .. MaxPublished, from : 1 .. d]
Sent(d) == Seq((1 .. MaxPublished) \X (1 .. d))
LastBatches == {<<>>} \union [Local -> [open : BOOLEAN, start : 0 .. MaxPublished]]

LEMMA TypesStay ==
  ASSUME FanTypeOK, Grows, dispatched' \in 0 .. Len(results')
  PROVE  /\ log \in [Flows -> Seq(0 .. Len(results'))] /\ front \in Seq((1 .. dispatched') \X Int)
         /\ endpoint \in [Session -> [Local -> EndPoint(dispatched')]]
         /\ sent \in [Session -> [Local -> Sent(dispatched')]]
<1>1. Len(results) \in Nat /\ Len(results') \in Nat /\ Len(results) <= Len(results') /\ dispatched \in Nat
      /\ dispatched' \in Nat /\ dispatched <= dispatched'
  BY Domains, LenProperties DEF Grows
<1>2. 0 .. Len(results) \subseteq 0 .. Len(results') /\ 1 .. dispatched \subseteq 1 .. dispatched'
  BY <1>1
<1>3. /\ log \in [Flows -> Seq(0 .. Len(results))] /\ front \in Seq((1 .. dispatched) \X Int)
      /\ endpoint \in [Session -> [Local -> EndPoint(dispatched)]]
      /\ sent \in [Session -> [Local -> Sent(dispatched)]]
  BY DEF FanTypeOK, EndPoint, Sent
<1>4. Seq(0 .. Len(results)) \subseteq Seq(0 .. Len(results'))
  BY <1>2, SeqMonotonic
<1>5. Seq((1 .. dispatched) \X Int) \subseteq Seq((1 .. dispatched') \X Int)
  <2>1. (1 .. dispatched) \X Int \subseteq (1 .. dispatched') \X Int
    BY <1>2
  <2>2. QED
    BY <2>1, SeqMonotonic
<1>6. EndPoint(dispatched) \subseteq EndPoint(dispatched')
  BY <1>2 DEF EndPoint
<1>7. Sent(dispatched) \subseteq Sent(dispatched')
  <2>1. (1 .. MaxPublished) \X (1 .. dispatched) \subseteq (1 .. MaxPublished) \X (1 .. dispatched')
    BY <1>2
  <2>2. QED
    BY <2>1, SeqMonotonic DEF Sent
<1>8. QED
  BY <1>3, <1>4, <1>5, <1>6, <1>7

LEMMA FrontendStays ==
  ASSUME FanInv, Grows, UNCHANGED frontend
  PROVE  \A s \in Session, n \in Local : Served(s, n)'
<1>1. SUFFICES ASSUME NEW s \in Session, NEW n \in Local
               PROVE  Served(s, n)'
  OBVIOUS
<1>2. FanTypeOK /\ (\A f \in Flows : LogRight(f)) /\ Served(s, n)
  BY DEF FanInv
<1>3. endpoint'[s][n] = endpoint[s][n] /\ sent'[s][n] = sent[s][n]
  BY DEF frontend
<1>4. QED
  BY <1>2, <1>3, ServedStays

LEMMA FrontStays ==
  ASSUME FanTypeOK, Grows, FrontRight, NEW i \in DOMAIN front, front'[i] = front[i]
  PROVE  /\ results'[front'[i][1]].type # "publish"
         /\ results'[front'[i][1]].type = "sub" => front'[i][2] = Asked(front[i][1])'
<1>1. PICK p \in 1 .. dispatched : p = front[i][1]
  BY Domains
<1>2. results'[p] = results[p] /\ Asked(p)' = Asked(p)
  BY AskedStays
<1>3. results[p].type # "publish" /\ (results[p].type = "sub" => front[i][2] = Asked(p))
  BY <1>1 DEF FrontRight
<1>4. Asked(front[i][1])' = Asked(p)'
  BY <1>1 DEF Asked, NumberOf, Wanted, Belongs
<1>5. QED
  BY <1>1, <1>2, <1>3, <1>4

\* A result, or nothing.
LEMMA MatchingKeeps ==
  ASSUME FanInv, Grows, UNCHANGED <<dispatcher, frontend>>, Cardinality(Published)' <= MaxPublished
  PROVE  FanInv'
<1>1. FanTypeOK /\ (\A f \in Flows : LogRight(f)) /\ WorkRight /\ FrontRight
  BY DEF FanInv
<1>2. UNCHANGED <<dispatched, work, registered, log, front, handled, sessions, endpoint, sent, closing>>
  BY DEF dispatcher, frontend
<1>3. dispatched \in 0 .. Len(results) /\ dispatched \in 0 .. Len(results') /\ dispatched \in Nat /\ Len(results) \in Nat
  BY <1>1, Domains, LenProperties DEF Grows
<1>4. FanTypeOK'
  <2>1. /\ log' \in [Flows -> Seq(0 .. Len(results'))] /\ front' \in Seq((1 .. dispatched') \X Int)
        /\ endpoint' \in [Session -> [Local -> EndPoint(dispatched')]]
        /\ sent' \in [Session -> [Local -> Sent(dispatched')]]
    BY <1>1, <1>2, <1>3, TypesStay
  <2>2. results' \in Seq(Result) /\ dispatched' \in 0 .. Len(results')
    BY <1>2, <1>3 DEF Grows
  <2>3. /\ handled' \in 0 .. Len(front') /\ work' \subseteq Flows /\ registered' \subseteq Topic
        /\ sessions' \subseteq Session /\ closing' \in LastBatches /\ \A f \in Flows : Count(f)' <= MaxPublished
    BY <1>1, <1>2 DEF FanTypeOK, Count, LastBatches
  <2>4. QED
    BY <2>1, <2>2, <2>3 DEF FanTypeOK, Result, EndPoint, Sent, LastBatches
<1>5. ASSUME NEW f \in Flows
      PROVE  LogRight(f)'
  <2>1. Appended(f)' = Appended(f) /\ Count(f)' = Count(f)
    BY <1>2 DEF Appended, Count
  <2>2. Appended(f) \in 0 .. dispatched /\ NumberOf(f, Appended(f)) = Count(f)
    BY <1>1, Counts
  <2>3. PICK k \in 0 .. Len(results) : k = Appended(f)
    BY <1>3, <2>2
  <2>4. NumberOf(f, k)' = NumberOf(f, k)
    BY <1>1, NumbersStay
  <2>5. NumberOf(f, Appended(f))' = NumberOf(f, k)'
    BY <2>1, <2>3 DEF NumberOf, Wanted, Belongs
  <2>6. NumberOf(f, Appended(f))' = Count(f)
    BY <2>2, <2>3, <2>4, <2>5
  <2>7. Appended(f) <= Appended(f)' /\ Appended(f)' \in Nat
    BY <1>3, <2>1, <2>2
  <2>8. QED
    BY <1>1, <2>1, <2>6, <2>7, FlowAlone
<1>6. WorkRight'
  <2>1. \A f : dispatched # 0 => (Belongs(f, dispatched)' <=> Belongs(f, dispatched))
    <3>1. dispatched # 0 => results'[dispatched] = results[dispatched]
      BY <1>3 DEF Grows
    <3>2. QED
      BY <1>2, <3>1 DEF Belongs
  <2>2. \A f \in work : Belongs(f, dispatched)'
    BY <1>1, <1>3, <2>1 DEF WorkRight
  <2>3. QED
    BY <1>1, <1>2, <2>2 DEF WorkRight, Count
<1>7. FrontRight'
  <2>1. \A i \in DOMAIN front : front'[i] = front[i]
    BY <1>2
  <2>2. \A i \in DOMAIN front : /\ results'[front'[i][1]].type # "publish"
                                /\ results'[front'[i][1]].type = "sub" => front'[i][2] = Asked(front[i][1])'
    BY <1>1, <2>1, FrontStays
  <2>3. QED
    BY <1>2, <2>2 DEF FrontRight
<1>8. \A s \in Session, n \in Local : Served(s, n)'
  BY <1>2, FrontendStays DEF frontend
<1>9. QED
  BY <1>4, <1>5, <1>6, <1>7, <1>8 DEF FanInv

LEMMA QuietGrows ==
  ASSUME FanTypeOK, UNCHANGED <<results, dispatched, log>>
  PROVE  Grows
<1>1. \A f \in Flows : Count(f) \in Nat /\ Count(f)' = Count(f)
  BY Domains DEF Count
<1>2. QED
  BY <1>1, Domains DEF Grows

LEMMA AppendGrows ==
  ASSUME FanTypeOK, NEW m \in Result, results' = Append(results, m), UNCHANGED <<dispatched, log>>
  PROVE  /\ Grows /\ Len(results') = Len(results) + 1 /\ DOMAIN results' = 1 .. Len(results) + 1
         /\ results'[Len(results) + 1] = m
<1>1. \A f \in Flows : Count(f) \in Nat /\ Count(f)' = Count(f)
  BY Domains DEF Count
<1>2. results \in Seq(Result) /\ Len(results) \in Nat /\ dispatched \in Nat
  BY Domains
<1>3. /\ results' \in Seq(Result) /\ Len(results') = Len(results) + 1 /\ results'[Len(results) + 1] = m
      /\ \A i \in 1 .. Len(results) : results'[i] = results[i]
  BY <1>2, AppendProperties
<1>4. DOMAIN results' = 1 .. Len(results) + 1
  BY <1>3, LenProperties
<1>5. QED
  BY <1>1, <1>2, <1>3, <1>4 DEF Grows

LEMMA TakingGrows ==
  ASSUME FanTypeOK, Ready, dispatched' = dispatched + 1, UNCHANGED <<results, log>>
  PROVE  Grows
<1>1. \A f \in Flows : Count(f) \in Nat /\ Count(f)' = Count(f)
  BY Domains DEF Count
<1>2. QED
  BY <1>1, Domains DEF Grows

LEMMA PublishedFinite ==
  ASSUME FanTypeOK
  PROVE  IsFiniteSet(Published) /\ Cardinality(Published) \in Nat /\ Published \subseteq 1 .. Len(results)
<1>1. Len(results) \in Nat /\ Published \subseteq 1 .. Len(results)
  BY Domains DEF Published
<1>2. PICK k \in Nat : k = Len(results)
  BY <1>1
<1>3. IsFiniteSet(1 .. k)
  BY FS_Interval
<1>4. QED
  BY <1>1, <1>2, <1>3, FS_Subset, FS_CardinalityType

LEMMA PublishKeeps ==
  ASSUME FanInv, NEW k \in Kinds, Publish(k)
  PROVE  FanInv'
<1> DEFINE m == [type |-> "publish", topics |-> k[1], indexes |-> k[2]]
<1>1. FanTypeOK /\ m \in Result /\ m.type = "publish"
  BY DEF FanInv, Result
<1>2. results' = Append(results, m) /\ UNCHANGED <<dispatcher, frontend>>
      /\ Cardinality(Published) < MaxPublished
  BY DEF Publish
<1> HIDE DEF m
<1>3. /\ Grows /\ DOMAIN results' = 1 .. Len(results) + 1 /\ results'[Len(results) + 1] = m
      /\ \A i \in 1 .. Len(results) : results'[i] = results[i]
  BY <1>1, <1>2, AppendGrows DEF dispatcher, Grows
<1>4. DOMAIN results = 1 .. Len(results) /\ Len(results) \in Nat
  BY <1>1, Domains
<1>5. Published' = Published \union {Len(results) + 1}
  BY <1>1, <1>3, <1>4 DEF Published
<1>6. Cardinality(Published') = Cardinality(Published) + 1 /\ Cardinality(Published) \in Nat
  <2>1. IsFiniteSet(Published) /\ Cardinality(Published) \in Nat /\ Len(results) + 1 \notin Published
    BY <1>1, <1>4, PublishedFinite
  <2>2. Cardinality(Published \union {Len(results) + 1}) = Cardinality(Published) + 1
    BY <2>1, FS_AddElement
  <2>3. QED
    BY <1>5, <2>1, <2>2
<1>7. Cardinality(Published)' <= MaxPublished
  BY <1>2, <1>6, FanoutBounds
<1>8. QED
  BY <1>2, <1>3, <1>7, MatchingKeeps

LEMMA RequestKeeps ==
  ASSUME FanInv, NEW r \in Requests, Request(r)
  PROVE  FanInv'
<1>1. FanTypeOK /\ r \in Result /\ r.type # "publish" /\ Cardinality(Published) <= MaxPublished
  BY DEF FanInv, Result, Requests
<1>2. results' = Append(results, r) /\ UNCHANGED <<dispatcher, frontend>>
  BY DEF Request
<1>3. /\ Grows /\ DOMAIN results' = 1 .. Len(results) + 1 /\ results'[Len(results) + 1] = r
      /\ \A i \in 1 .. Len(results) : results'[i] = results[i]
  BY <1>1, <1>2, AppendGrows DEF dispatcher, Grows
<1>4. DOMAIN results = 1 .. Len(results) /\ Len(results) \in Nat
  BY <1>1, Domains
<1>5. Published' = Published
  BY <1>1, <1>3, <1>4 DEF Published
<1>6. QED
  BY <1>1, <1>2, <1>3, <1>5, MatchingKeeps

LEMMA FanoutStutters ==
  ASSUME FanInv, UNCHANGED fanVars
  PROVE  FanInv'
<1>1. FanTypeOK /\ Cardinality(Published) <= MaxPublished
  BY DEF FanInv
<1>2. UNCHANGED <<dispatcher, frontend>> /\ results' = results
  BY DEF fanVars
<1>3. Grows
  BY <1>1, <1>2, QuietGrows DEF dispatcher
<1>4. Published' = Published
  BY <1>2 DEF Published
<1>5. QED
  BY <1>1, <1>2, <1>3, <1>4, MatchingKeeps

\* The dispatcher takes the next result.
LEMMA TakesOne ==
  ASSUME FanInv, Ready, dispatched' = dispatched + 1, UNCHANGED <<results, log, frontend>>,
         work' \subseteq Flows, \A f \in Flows : f \in work' <=> Belongs(f, dispatched + 1),
         registered \subseteq registered', registered' \subseteq Topic,
         front' \in Seq((1 .. dispatched') \X Int), Len(front) <= Len(front'), FrontRight'
  PROVE  FanInv'
<1>1. FanTypeOK /\ (\A f \in Flows : LogRight(f)) /\ WorkRight /\ FrontRight /\ Cardinality(Published) <= MaxPublished
  BY DEF FanInv
<1>2. UNCHANGED <<handled, sessions, endpoint, sent, closing>>
  BY DEF frontend
<1>3. dispatched \in Nat /\ Len(results) \in Nat /\ dispatched + 1 \in 1 .. Len(results) /\ work = {}
      /\ dispatched + 1 \in 0 .. Len(results) /\ dispatched \in 0 .. Len(results)
  BY <1>1, Domains DEF Ready
<1>4. Grows
  BY <1>1, TakingGrows
<1>5. FanTypeOK'
  <2>1. /\ log' \in [Flows -> Seq(0 .. Len(results'))]
        /\ endpoint' \in [Session -> [Local -> EndPoint(dispatched')]]
        /\ sent' \in [Session -> [Local -> Sent(dispatched')]]
    BY <1>1, <1>2, <1>3, <1>4, TypesStay
  <2>2. results' \in Seq(Result) /\ dispatched' \in 0 .. Len(results')
    BY <1>3, <1>4 DEF Grows
  <2>3. handled' \in 0 .. Len(front')
    <3>1. handled \in 0 .. Len(front) /\ Len(front) \in Nat /\ Len(front') \in Nat
      BY <1>1, Domains, LenProperties DEF FanTypeOK
    <3>2. QED
      BY <1>2, <3>1
  <2>4. sessions' \subseteq Session /\ closing' \in LastBatches /\ \A f \in Flows : Count(f)' <= MaxPublished
    BY <1>1, <1>2 DEF FanTypeOK, Count, LastBatches
  <2>5. QED
    BY <2>1, <2>2, <2>3, <2>4 DEF FanTypeOK, Result, EndPoint, Sent, LastBatches
<1>6. ASSUME NEW f \in Flows
      PROVE  LogRight(f)'
  <2>1. Appended(f) = dispatched /\ Count(f)' = Count(f)
    BY <1>3 DEF Appended, Count
  <2>2. NumberOf(f, dispatched) = Count(f) /\ Count(f) \in Nat
    BY <1>1, <2>1, Counts, Domains
  <2>3. Appended(f)' = IF Belongs(f, dispatched + 1) THEN dispatched ELSE dispatched + 1
    BY <1>3 DEF Appended
  <2>4. /\ NumberOf(f, dispatched + 1) = NumberOf(f, dispatched) + (IF Belongs(f, dispatched + 1) THEN 1 ELSE 0)
        /\ NumberOf(f, dispatched) \in Nat
    BY <1>3, Numbering
  <2>5. PICK k \in 0 .. Len(results) : k = IF Belongs(f, dispatched + 1) THEN dispatched ELSE dispatched + 1
    BY <1>3
  <2>6. NumberOf(f, k) = Count(f)
    BY <2>2, <2>4, <2>5
  <2>7. NumberOf(f, k)' = NumberOf(f, k)
    BY <1>1, <1>4, NumbersStay
  <2>8. NumberOf(f, Appended(f))' = NumberOf(f, k)'
    BY <2>3, <2>5 DEF NumberOf, Wanted, Belongs
  <2>9. Appended(f) <= Appended(f)' /\ Appended(f)' \in Nat
    BY <1>3, <2>1, <2>3
  <2>10. QED
    BY <1>1, <1>4, <2>1, <2>6, <2>7, <2>8, <2>9, FlowAlone
<1>7. WorkRight'
  <2>1. \A f \in work' : Belongs(f, dispatched)'
    BY <1>3 DEF Belongs
  <2>2. QED
    BY <1>1, <1>3, <2>1 DEF WorkRight, Count
<1>8. \A s \in Session, n \in Local : Served(s, n)'
  BY <1>4, FrontendStays
<1>9. Published' = Published
  BY DEF Published
<1>10. QED
  BY <1>1, <1>5, <1>6, <1>7, <1>8, <1>9 DEF FanInv

LEMMA ToTopicsKeeps ==
  ASSUME FanInv, ToTopics
  PROVE  FanInv'
<1>1. FanTypeOK /\ FrontRight /\ WorkRight
  BY DEF FanInv
<1>2. /\ Ready /\ Current.type = "publish" /\ dispatched' = dispatched + 1 /\ work' = FlowsOf(Current)
      /\ UNCHANGED <<results, registered, log, front, frontend>>
  BY DEF ToTopics
<1>3. dispatched \in Nat /\ dispatched + 1 \in 1 .. Len(results) /\ dispatched + 1 \in 0 .. Len(results)
  BY <1>1, <1>2, Domains DEF Ready
<1>4. results[dispatched + 1] \in Result /\ results[dispatched + 1].type = "publish"
  BY <1>1, <1>2, <1>3, Domains DEF Current
<1>5. work' \subseteq Flows /\ \A f \in Flows : f \in work' <=> Belongs(f, dispatched + 1)
  BY <1>2, <1>4, FlowsBelong DEF Current
<1>6. Grows
  BY <1>1, <1>2, TakingGrows
<1>7. front' \in Seq((1 .. dispatched') \X Int)
  BY <1>1, <1>2, <1>3, <1>6, TypesStay
<1>8. FrontRight'
  <2>1. \A i \in DOMAIN front : front'[i] = front[i]
    BY <1>2
  <2>2. \A i \in DOMAIN front : /\ results'[front'[i][1]].type # "publish"
                                /\ results'[front'[i][1]].type = "sub" => front'[i][2] = Asked(front[i][1])'
    BY <1>1, <1>6, <2>1, FrontStays
  <2>3. QED
    BY <1>2, <2>2 DEF FrontRight
<1>9. registered' \subseteq Topic /\ Len(front) <= Len(front')
  BY <1>1, <1>2, Domains DEF FanTypeOK
<1>10. QED
  BY <1>2, <1>5, <1>7, <1>8, <1>9, TakesOne

\* What is made of the number of a request: a topic that is not known has no
\* messages, and no index over it has any.
LEMMA ResolvedRight ==
  ASSUME FanInv, Ready, Current.type = "sub"
  PROVE  Resolved(Current) = Asked(dispatched + 1) /\ Resolved(Current) \in Int
<1> DEFINE r == results[dispatched + 1]
           f == r.flow
<1>1. FanTypeOK /\ WorkRight /\ \A g \in Flows : LogRight(g)
  BY DEF FanInv
<1>2. dispatched \in Nat /\ dispatched + 1 \in 1 .. Len(results) /\ work = {} /\ Current = r
  BY <1>1, Domains DEF Ready, Current
<1>3. r.number \in Int /\ f \in Flows
  BY <1>1, <1>2, Domains, ResultKinds
<1>4. \A g \in Flows : Appended(g) = dispatched /\ NumberOf(g, dispatched) = Count(g) /\ Count(g) \in Nat
  BY <1>1, <1>2, Counts, Domains DEF Appended
<1>5. Asked(dispatched + 1) = IF r.number > 0 THEN r.number ELSE Count(f) + r.number
  BY <1>2, <1>3, <1>4 DEF Asked
<1>6. ASSUME ~Exists(f)
      PROVE  Count(f) = 0
  <2>1. f[2] # NoIndex /\ f[1] \notin registered /\ Over(f) \in Flows /\ Over(f)[1] = f[1] /\ Over(f)[2] = NoIndex
    BY <1>3, <1>6, FlowParts DEF Exists
  <2>2. Count(Over(f)) = 0
    BY <1>1, <1>4, <2>1 DEF WorkRight
  <2>3. Wanted(f, dispatched) \subseteq Wanted(Over(f), dispatched)
    BY <1>3, OverBelongs DEF Wanted
  <2>4. IsFiniteSet(Wanted(Over(f), dispatched))
    BY <1>2, Numbering
  <2>5. NumberOf(f, dispatched) <= NumberOf(Over(f), dispatched)
    BY <2>3, <2>4, FS_Subset DEF NumberOf
  <2>6. QED
    BY <1>3, <1>4, <2>1, <2>2, <2>5
<1>7. Resolved(r) = IF r.number <= 0 /\ Exists(f) THEN r.number + Count(f) ELSE r.number
  BY DEF Resolved
<1>8. Count(f) \in Nat
  BY <1>3, <1>4
<1> HIDE DEF r
<1>9. QED
  BY <1>2, <1>3, <1>5, <1>6, <1>7, <1>8

LEMMA ToFrontKeeps ==
  ASSUME FanInv, ToFront
  PROVE  FanInv'
<1> DEFINE no == IF Current.type = "sub" THEN Resolved(Current) ELSE 0
<1>1. FanTypeOK /\ FrontRight /\ WorkRight
  BY DEF FanInv
<1>2. /\ Ready /\ Current.type # "publish" /\ dispatched' = dispatched + 1
      /\ front' = Append(front, <<dispatched + 1, no>>)
      /\ UNCHANGED <<results, work, log, frontend>>
  BY DEF ToFront
<1>3. dispatched \in Nat /\ dispatched + 1 \in 1 .. Len(results) /\ work = {}
  BY <1>1, <1>2, Domains DEF Ready
<1>4. results[dispatched + 1] = Current /\ Current \in Result
  BY <1>1, <1>3, Domains DEF Current
<1>5. no \in Int /\ (Current.type = "sub" => no = Asked(dispatched + 1))
  BY <1>2, ResolvedRight
<1>6. work' = {} /\ \A f \in Flows : ~Belongs(f, dispatched + 1)
  BY <1>2, <1>3, <1>4 DEF Belongs
<1>7. Grows
  BY <1>1, <1>2, TakingGrows
<1> HIDE DEF no
<1>8. /\ front' \in Seq((1 .. dispatched') \X Int) /\ Len(front') = Len(front) + 1 /\ Len(front) \in Nat
      /\ front'[Len(front) + 1] = <<dispatched + 1, no>>
      /\ \A i \in 1 .. Len(front) : front'[i] = front[i]
      /\ DOMAIN front = 1 .. Len(front) /\ DOMAIN front' = 1 .. Len(front) + 1
  <2>1. dispatched' \in 0 .. Len(results')
    BY <1>1, <1>2, <1>3, Domains
  <2>2. front \in Seq((1 .. dispatched') \X Int)
    BY <1>1, <1>7, <2>1, TypesStay
  <2>3. <<dispatched + 1, no>> \in (1 .. dispatched') \X Int
    BY <1>2, <1>3, <1>5
  <2>4. QED
    BY <1>2, <2>2, <2>3, AppendProperties, LenProperties
<1>9. FrontRight'
  <2>1. ASSUME NEW i \in DOMAIN front'
        PROVE  /\ results'[front'[i][1]].type # "publish"
               /\ results'[front'[i][1]].type = "sub" => front'[i][2] = Asked(front[i][1])'
    <3>1. CASE i \in 1 .. Len(front)
      BY <1>1, <1>7, <1>8, <3>1, FrontStays
    <3>2. CASE i = Len(front) + 1
      <4>1. front'[i] = <<dispatched + 1, no>>
        BY <1>8, <3>2
      <4>2. PICK p : p = dispatched + 1
        OBVIOUS
      <4>3. Asked(front[i][1])' = Asked(p)'
        BY <4>1, <4>2 DEF Asked, NumberOf, Wanted, Belongs
      <4>4. Asked(p)' = Asked(p)
        BY <1>2 DEF Asked, NumberOf, Wanted, Belongs
      <4>5. QED
        BY <1>2, <1>4, <1>5, <4>1, <4>2, <4>3, <4>4
    <3>3. QED
      BY <1>8, <2>1, <3>1, <3>2
  <2>2. QED
    BY <2>1 DEF FrontRight
<1>10. registered \subseteq registered' /\ registered' \subseteq Topic
  <2>1. registered \subseteq Topic
    BY <1>1 DEF FanTypeOK
  <2>2. CASE Current.type = "sub"
    <3>1. Current.flow[1] \in Topic
      BY <1>4, <2>2, ResultKinds, FlowParts
    <3>2. QED
      BY <2>1, <2>2, <3>1 DEF ToFront, GetFlow
  <2>3. CASE Current.type # "sub"
    BY <2>1, <2>3 DEF ToFront
  <2>4. QED
    BY <2>2, <2>3
<1>11. QED
  BY <1>2, <1>6, <1>8, <1>9, <1>10, TakesOne

\* What is appended finds the message: the topic has got it before its indexes,
\* and nothing after it.
LEMMA NextEntry ==
  ASSUME FanInv, NEW f \in Flows, f \in work, Turn(f),
         NEW x, x = IF f[2] = NoIndex THEN dispatched ELSE IndexEntry(f)
  PROVE  /\ dispatched \in 1 .. Len(results) /\ Belongs(f, dispatched) /\ x \in 0 .. Len(results)
         /\ NumberOf(f, dispatched) = Count(f) + 1 /\ Count(f) < MaxPublished
         /\ f[2] # NoIndex => x \in 0 .. Count(Over(f)) - 1 /\ log[Over(f)][x + 1] = dispatched
<1>1. FanTypeOK /\ WorkRight /\ Cardinality(Published) <= MaxPublished /\ \A g \in Flows : LogRight(g)
  BY DEF FanInv
<1>2. dispatched \in 1 .. Len(results) /\ Len(results) \in Nat /\ Belongs(f, dispatched) /\ dispatched - 1 \in Nat
  BY <1>1, Domains DEF WorkRight
<1>3. NumberOf(f, dispatched) = Count(f) + 1
  <2>1. Appended(f) = dispatched - 1 /\ NumberOf(f, Appended(f)) = Count(f)
    BY <1>1, Counts DEF Appended
  <2>2. PICK k \in Nat : k = dispatched - 1
    BY <1>2
  <2>3. k + 1 = dispatched
    BY <1>2, <2>2
  <2>4. NumberOf(f, k + 1) = NumberOf(f, k) + (IF Belongs(f, k + 1) THEN 1 ELSE 0)
    BY Numbering
  <2>5. NumberOf(f, dispatched) = NumberOf(f, k) + 1
    BY <1>2, <2>3, <2>4
  <2>6. QED
    BY <2>1, <2>2, <2>5
<1>4. Count(f) < MaxPublished
  <2>1. Wanted(f, dispatched) \subseteq Published
    BY <1>1, <1>2, Domains DEF Wanted, Belongs, Published
  <2>2. NumberOf(f, dispatched) <= Cardinality(Published)
    BY <1>1, <2>1, PublishedFinite, FS_Subset DEF NumberOf
  <2>3. Cardinality(Published) \in Nat /\ Count(f) \in Nat
    BY <1>1, PublishedFinite, Domains
  <2>4. QED
    BY <1>1, <1>3, <2>2, <2>3, FanoutBounds
<1>5. CASE f[2] = NoIndex
  BY <1>2, <1>3, <1>4, <1>5
<1>6. CASE f[2] # NoIndex
  <2> DEFINE g == Over(f)
  <2>1. g \in Flows /\ g \notin work /\ g[2] = NoIndex
    BY <1>6, FlowParts DEF Turn
  <2>2. LogRight(g) /\ Appended(g) = dispatched /\ Count(g) \in Nat
    BY <1>1, <2>1, Domains DEF Appended
  <2>3. Belongs(g, dispatched)
    BY <1>2, OverBelongs
  <2>4. NumberOf(g, dispatched) = Count(g)
    BY <2>2 DEF LogRight
  <2>5. Count(g) >= 1
    <3>1. PICK k \in Nat : k = dispatched - 1
      BY <1>2
    <3>2. k + 1 = dispatched
      BY <1>2, <3>1
    <3>3. NumberOf(g, k + 1) = NumberOf(g, k) + (IF Belongs(g, k + 1) THEN 1 ELSE 0) /\ NumberOf(g, k) \in Nat
      BY Numbering
    <3>4. NumberOf(g, dispatched) = NumberOf(g, k) + 1 /\ NumberOf(g, k) \in Nat
      BY <2>3, <3>2, <3>3
    <3>5. QED
      BY <2>2, <2>4, <3>4
  <2> HIDE DEF g
  <2>6. PICK c \in Nat : c = Count(g) - 1
    BY <2>2, <2>5
  <2>7. c \in 0 .. Count(g) - 1 /\ c + 1 = Count(g) /\ x = c
    BY <1>6, <2>2, <2>6 DEF IndexEntry, g
  <2>8. Get(g, c) \in Wanted(g, dispatched) /\ NumberOf(g, Get(g, c)) = c + 1
    BY <1>1, <2>1, <2>2, <2>7, Counts
  <2>9. Get(g, c) = log[g][c + 1]
    BY <2>1 DEF Get
  <2>10. NumberOf(g, Get(g, c)) = NumberOf(g, dispatched)
    BY <2>4, <2>7, <2>8
  <2>11. dispatched \in Nat \ {0}
    BY <1>2
  <2>12. Get(g, c) = dispatched
    BY <2>3, <2>8, <2>10, <2>11, LastOfFlow
  <2>13. x \in 0 .. Count(g) - 1 /\ log[g][x + 1] = dispatched
    BY <2>7, <2>9, <2>12
  <2>14. Count(g) <= Len(results)
    <3>1. Wanted(g, dispatched) \subseteq 1 .. dispatched /\ IsFiniteSet(1 .. dispatched) /\ Cardinality(1 .. dispatched) = dispatched
      <4>1. 1 \in Int /\ dispatched \in Int /\ ~(1 > dispatched) /\ dispatched - 1 + 1 = dispatched
        BY <1>2
      <4>2. IsFiniteSet(1 .. dispatched) /\ Cardinality(1 .. dispatched) = IF 1 > dispatched THEN 0 ELSE dispatched - 1 + 1
        BY <4>1, FS_Interval
      <4>3. QED
        BY <4>1, <4>2 DEF Wanted
    <3>2. NumberOf(g, dispatched) <= dispatched
      BY <3>1, FS_Subset DEF NumberOf
    <3>3. QED
      BY <1>2, <2>2, <2>4, <3>2
  <2>15. x \in 0 .. Len(results)
    BY <1>2, <2>2, <2>13, <2>14
  <2>16. QED
    BY <1>2, <1>3, <1>4, <2>13, <2>15 DEF g
<1>7. QED
  BY <1>5, <1>6

LEMMA AppendNextWrites ==
  ASSUME FanInv, NEW f \in Flows, AppendNext(f), NEW x, x = IF f[2] = NoIndex THEN dispatched ELSE IndexEntry(f)
  PROVE  /\ log' \in [Flows -> Seq(0 .. Len(results))] /\ log'[f][Count(f) + 1] = x
         /\ \A g \in Flows \ {f} : log'[g] = log[g]
         /\ Count(f)' = Count(f) + 1 /\ \A g \in Flows \ {f} : Count(g)' = Count(g)
         /\ Grows
<1>1. FanTypeOK
  BY DEF FanInv
<1>2. /\ f \in work /\ Turn(f) /\ UNCHANGED <<results, dispatched>>
      /\ log' = [log EXCEPT ![f] = Append(@, x)]
  BY DEF AppendNext
<1>3. x \in 0 .. Len(results)
  BY <1>2, NextEntry
<1>4. \A g \in Flows : Count(g) \in Nat /\ log[g] \in Seq(0 .. Len(results))
  BY <1>1, Domains
<1>5. log \in [Flows -> Seq(0 .. Len(results))]
  BY <1>1 DEF FanTypeOK
<1>6. PICK l : l = Append(log[f], x)
  OBVIOUS
<1>7. /\ l \in Seq(0 .. Len(results)) /\ Len(l) = Count(f) + 1 /\ l[Count(f) + 1] = x
      /\ \A k \in 1 .. Count(f) : l[k] = log[f][k]
  BY <1>3, <1>4, <1>6, AppendProperties DEF Count
<1>8. log' = [log EXCEPT ![f] = l]
  BY <1>2, <1>6
<1>9. /\ log' \in [Flows -> Seq(0 .. Len(results))] /\ log'[f] = l
      /\ \A g \in Flows \ {f} : log'[g] = log[g]
  BY <1>5, <1>7, <1>8
<1>10. Count(f)' = Count(f) + 1 /\ \A g \in Flows \ {f} : Count(g)' = Count(g)
  BY <1>7, <1>9 DEF Count
<1>11. ASSUME NEW g \in Flows
       PROVE  Count(g)' \in Nat /\ Count(g) <= Count(g)' /\ \A k \in 1 .. Count(g) : log'[g][k] = log[g][k]
  BY <1>4, <1>7, <1>9, <1>10
<1>12. Grows
  BY <1>1, <1>2, <1>11, Domains DEF Grows
<1>13. QED
  BY <1>7, <1>9, <1>10, <1>12

LEMMA AppendNextKeeps ==
  ASSUME FanInv, NEW f \in Flows, AppendNext(f)
  PROVE  FanInv'
<1>1. /\ FanTypeOK /\ WorkRight /\ FrontRight /\ Cardinality(Published) <= MaxPublished
      /\ \A g \in Flows : LogRight(g)
  BY DEF FanInv
<1>2. PICK x : x = IF f[2] = NoIndex THEN dispatched ELSE IndexEntry(f)
  OBVIOUS
<1>3. /\ f \in work /\ Turn(f) /\ work' = work \ {f} /\ GetFlow(f)
      /\ UNCHANGED <<results, dispatched, front, frontend>>
      /\ log' = [log EXCEPT ![f] = Append(@, x)]
  BY <1>2 DEF AppendNext
<1>4. /\ dispatched \in 1 .. Len(results) /\ Belongs(f, dispatched) /\ x \in 0 .. Len(results)
      /\ NumberOf(f, dispatched) = Count(f) + 1 /\ Count(f) < MaxPublished
      /\ f[2] # NoIndex => x \in 0 .. Count(Over(f)) - 1 /\ log[Over(f)][x + 1] = dispatched
  BY <1>2, <1>3, NextEntry
<1>5. UNCHANGED <<results, handled, sessions, endpoint, sent, closing>>
  BY <1>3 DEF frontend
<1>6. Len(results) \in Nat /\ \A g \in Flows : Count(g) \in Nat /\ log[g] \in Seq(0 .. Len(results))
  BY <1>1, Domains
<1>7. /\ log' \in [Flows -> Seq(0 .. Len(results))] /\ log'[f][Count(f) + 1] = x
      /\ \A g \in Flows \ {f} : log'[g] = log[g]
      /\ Count(f)' = Count(f) + 1 /\ \A g \in Flows \ {f} : Count(g)' = Count(g)
      /\ Grows
  BY <1>2, AppendNextWrites
<1>8. FanTypeOK'
  <2>1. dispatched' = dispatched /\ front' = front /\ results' = results
    BY <1>3
  <2>2. work' \subseteq Flows /\ registered' \subseteq Topic
    BY <1>1, <1>3, FlowParts DEF FanTypeOK, GetFlow
  <2>3. \A g \in Flows : Count(g)' <= MaxPublished
    <3>1. \A g \in Flows : Count(g) <= MaxPublished
      BY <1>1 DEF FanTypeOK
    <3>2. Count(f) + 1 <= MaxPublished
      BY <1>4, <1>6, FanoutBounds
    <3>3. QED
      BY <1>7, <3>1, <3>2
  <2>4. QED
    BY <1>1, <1>5, <1>7, <2>1, <2>2, <2>3 DEF FanTypeOK
<1>9. ASSUME NEW g \in Flows, g # f
      PROVE  LogRight(g)'
  <2>1. Appended(g)' = Appended(g) /\ Count(g)' = Count(g)
    BY <1>3, <1>7, <1>9 DEF Appended
  <2>2. Appended(g) \in 0 .. dispatched /\ NumberOf(g, Appended(g)) = Count(g)
    BY <1>1, Counts
  <2>3. NumberOf(g, Appended(g))' = NumberOf(g, Appended(g))
    BY <1>5, <2>1 DEF NumberOf, Wanted, Belongs
  <2>4. Appended(g) <= Appended(g)' /\ Appended(g)' \in Nat
    BY <1>4, <1>6, <2>1, <2>2
  <2>5. QED
    BY <1>1, <1>7, <2>1, <2>2, <2>3, <2>4, FlowAlone
<1>10. LogRight(f)'
  <2>1. Appended(f) = dispatched - 1 /\ Appended(f)' = dispatched
    BY <1>3 DEF Appended
  <2>2. Appended(f) <= Appended(f)' /\ Appended(f)' \in Nat
    BY <1>4, <1>6, <2>1
  <2>3. NumberOf(f, Appended(f))' = Count(f) + 1
    <3>1. NumberOf(f, Appended(f))' = NumberOf(f, dispatched)
      BY <1>5, <2>1 DEF NumberOf, Wanted, Belongs
    <3>2. QED
      BY <1>4, <3>1
  <2>4. ASSUME NEW k \in 1 .. Count(f)
        PROVE  /\ f[2] # NoIndex => log'[f][k] \in 0 .. Count(Over(f))' - 1
               /\ Get(f, k - 1)' \in Wanted(f, Appended(f))' /\ NumberOf(f, Get(f, k - 1))' = k
    BY <1>1, <1>7, <2>2, HoldingStays
  <2>5. ASSUME NEW k, k = Count(f) + 1
        PROVE  /\ f[2] # NoIndex => log'[f][k] \in 0 .. Count(Over(f))' - 1
               /\ Get(f, k - 1)' \in Wanted(f, Appended(f))' /\ NumberOf(f, Get(f, k - 1))' = k
    <3>1. log'[f][k] = x /\ k - 1 + 1 = k
      BY <1>6, <1>7, <2>5
    <3>2. Over(f) \in Flows /\ (f[2] # NoIndex => Over(f) # f)
      BY FlowParts
    <3>3. f[2] # NoIndex => log'[Over(f)] = log[Over(f)] /\ Count(Over(f))' = Count(Over(f))
      BY <1>7, <3>2
    <3>4. f[2] # NoIndex => log'[f][k] \in 0 .. Count(Over(f))' - 1
      BY <1>4, <3>1, <3>3
    <3>5. Get(f, k - 1)' = dispatched
      BY <1>2, <1>4, <3>1, <3>3 DEF Get
    <3>6. dispatched \in Wanted(f, Appended(f))'
      BY <1>4, <1>5, <1>6, <2>1 DEF Wanted, Belongs
    <3>7. NumberOf(f, Get(f, k - 1))' = NumberOf(f, dispatched)
      BY <1>5, <3>5 DEF NumberOf, Wanted, Belongs
    <3>8. QED
      BY <1>4, <2>5, <3>4, <3>5, <3>6, <3>7
  <2>6. ASSUME NEW k \in 1 .. Count(f)'
        PROVE  /\ f[2] # NoIndex => log'[f][k] \in 0 .. Count(Over(f))' - 1
               /\ Get(f, k - 1)' \in Wanted(f, Appended(f))' /\ NumberOf(f, Get(f, k - 1))' = k
    <3>1. k \in 1 .. Count(f) \/ k = Count(f) + 1
      BY <1>6, <1>7
    <3>2. QED
      BY <2>4, <2>5, <3>1
  <2>7. Keeping(f)'
    BY <2>6 DEF Keeping
  <2>8. QED
    BY <1>7, <2>3, <2>7 DEF LogRight
<1>11. WorkRight'
  <2>1. \A g \in work' : Belongs(g, dispatched)'
    BY <1>1, <1>3, <1>5 DEF WorkRight, Belongs
  <2>2. \A g \in Flows : g[2] = NoIndex /\ Count(g)' > 0 => g[1] \in registered'
    BY <1>1, <1>3, <1>7 DEF WorkRight, GetFlow
  <2>3. QED
    BY <1>3, <1>4, <2>1, <2>2 DEF WorkRight
<1>12. FrontRight'
  <2>1. \A i \in DOMAIN front : front'[i] = front[i]
    BY <1>3
  <2>2. \A i \in DOMAIN front : /\ results'[front'[i][1]].type # "publish"
                                /\ results'[front'[i][1]].type = "sub" => front'[i][2] = Asked(front[i][1])'
    BY <1>1, <1>7, <2>1, FrontStays
  <2>3. QED
    BY <1>3, <2>2 DEF FrontRight
<1>13. \A s \in Session, n \in Local : Served(s, n)'
  BY <1>3, <1>7, FrontendStays
<1>14. Published' = Published
  BY <1>5 DEF Published
<1>15. QED
  BY <1>1, <1>8, <1>9, <1>10, <1>11, <1>12, <1>13, <1>14 DEF FanInv

-----------------------------------------------------------------------------
(* The thread of the front.                                                *)

\* What the thread of the front does concerns the end points.
LEMMA FrontSteps ==
  ASSUME FanInv, UNCHANGED <<results, dispatched, work, log, front>>,
         registered \subseteq registered', registered' \subseteq Topic,
         handled' \in 0 .. Len(front), sessions' \subseteq Session, closing' \in LastBatches,
         endpoint' \in [Session -> [Local -> EndPoint(dispatched)]],
         sent' \in [Session -> [Local -> Sent(dispatched)]],
         \A s \in Session, n \in Local : Served(s, n)'
  PROVE  FanInv'
<1>1. FanTypeOK /\ WorkRight /\ FrontRight /\ Cardinality(Published) <= MaxPublished /\ \A f \in Flows : LogRight(f)
  BY DEF FanInv
<1>2. FanTypeOK'
  BY <1>1 DEF FanTypeOK, Count, EndPoint, Sent, LastBatches
<1>3. Published' = Published
  BY DEF Published
<1>4. \A f \in Flows : LogRight(f)'
  <2>1. SUFFICES ASSUME NEW f \in Flows
                 PROVE  LogRight(f)'
    OBVIOUS
  <2>2. Appended(f)' = Appended(f) /\ Count(f)' = Count(f)
    BY DEF Appended, Count
  <2>3. Appended(f) \in 0 .. dispatched /\ NumberOf(f, Appended(f)) = Count(f) /\ dispatched \in Nat
    BY <1>1, Counts, Domains
  <2>4. NumberOf(f, Appended(f))' = NumberOf(f, Appended(f))
    BY <2>2 DEF NumberOf, Wanted, Belongs
  <2>5. Appended(f) <= Appended(f)' /\ Appended(f)' \in Nat /\ Grows
    BY <1>1, <2>2, <2>3, QuietGrows
  <2>6. QED
    BY <1>1, <2>2, <2>3, <2>4, <2>5, FlowAlone
<1>5. WorkRight'
  BY <1>1 DEF WorkRight, Belongs, Count
<1>6. FrontRight'
  BY <1>1 DEF FrontRight, Asked, NumberOf, Wanted, Belongs
<1>7. QED
  BY <1>1, <1>2, <1>3, <1>4, <1>5, <1>6 DEF FanInv

\* An end point that is gone, or as it was.
LEMMA OthersServed ==
  ASSUME FanInv, UNCHANGED <<results, dispatched, log>>, NEW s \in Session, NEW n \in Local,
         \/ endpoint'[s][n] = NoSub
         \/ endpoint'[s][n] = endpoint[s][n] /\ sent'[s][n] = sent[s][n]
  PROVE  Served(s, n)'
<1>1. FanTypeOK /\ (\A f \in Flows : LogRight(f)) /\ Served(s, n) /\ Grows
  BY QuietGrows DEF FanInv
<1>2. CASE endpoint'[s][n] = NoSub
  BY <1>2 DEF Served, NoSub
<1>3. CASE endpoint'[s][n] = endpoint[s][n] /\ sent'[s][n] = sent[s][n]
  BY <1>1, <1>3, ServedStays
<1>4. QED
  BY <1>2, <1>3

\* The requests that come out of the flow of the front.
LEMMA EntryRight ==
  ASSUME FanInv, handled < Len(front)
  PROVE  /\ handled + 1 \in 0 .. Len(front) /\ Entry[1] \in 1 .. dispatched /\ Entry[2] \in Int
         /\ results[Entry[1]] \in Result /\ results[Entry[1]].type # "publish"
         /\ results[Entry[1]].type = "sub" => Entry[2] = Asked(Entry[1])
         /\ Entry[1] \in 1 .. Len(results)
<1>1. FanTypeOK /\ FrontRight
  BY DEF FanInv
<1>2. handled \in 0 .. Len(front) /\ Len(front) \in Nat /\ dispatched \in 0 .. Len(results) /\ Len(results) \in Nat
  BY <1>1, Domains DEF FanTypeOK
<1>3. handled + 1 \in 1 .. Len(front) /\ handled + 1 \in 0 .. Len(front) /\ DOMAIN front = 1 .. Len(front)
  BY <1>1, <1>2, Domains
<1>4. PICK i \in 1 .. Len(front) : i = handled + 1
  BY <1>3
<1>5. Entry = front[i]
  BY <1>4 DEF Entry
<1>6. front[i][1] \in 1 .. dispatched /\ front[i][2] \in Int
  BY <1>1, Domains
<1>7. front[i][1] \in 1 .. Len(results)
  BY <1>2, <1>6
<1>8. results[front[i][1]] \in Result
  BY <1>1, <1>7, Domains
<1>9. /\ results[front[i][1]].type # "publish"
      /\ results[front[i][1]].type = "sub" => front[i][2] = Asked(front[i][1])
  BY <1>1, <1>3 DEF FrontRight
<1>10. QED
  BY <1>3, <1>5, <1>6, <1>7, <1>8, <1>9

LEMMA UnSubTopicKeeps ==
  ASSUME FanInv, UnSubTopic
  PROVE  FanInv'
<1> DEFINE r == results[Entry[1]]
<1>1. FanTypeOK
  BY DEF FanInv
<1>2. /\ handled < Len(front) /\ handled' = handled + 1
      /\ endpoint' = [endpoint EXCEPT ![r.session] =
           [n \in Local |-> IF r.type = "unsuball" \/ r.local = n THEN NoSub ELSE @[n]]]
      /\ UNCHANGED <<results, dispatched, work, registered, log, front, sessions, sent, closing>>
  BY DEF UnSubTopic, Pending, dispatcher
<1>3. handled' \in 0 .. Len(front)
  BY <1>2, EntryRight
<1>4. endpoint \in [Session -> [Local -> EndPoint(dispatched)]] /\ sent \in [Session -> [Local -> Sent(dispatched)]]
      /\ registered \subseteq Topic /\ sessions \subseteq Session /\ closing \in LastBatches
  BY <1>1 DEF FanTypeOK, EndPoint, Sent, LastBatches
<1>5. NoSub \in EndPoint(dispatched)
  BY DEF EndPoint
<1> HIDE DEF r
<1>6. /\ endpoint' \in [Session -> [Local -> EndPoint(dispatched)]]
      /\ \A s \in Session, n \in Local : endpoint'[s][n] = NoSub \/ endpoint'[s][n] = endpoint[s][n]
  BY <1>2, <1>4, <1>5
<1>7. \A s \in Session, n \in Local : Served(s, n)'
  BY <1>2, <1>6, OthersServed
<1>8. QED
  BY <1>2, <1>3, <1>4, <1>6, <1>7, FrontSteps

LEMMA SessionLostKeeps ==
  ASSUME FanInv, NEW s \in Session, SessionLost(s)
  PROVE  FanInv'
<1>1. FanTypeOK
  BY DEF FanInv
<1>2. /\ sessions' = sessions \ {s} /\ endpoint' = [endpoint EXCEPT ![s] = [n \in Local |-> NoSub]]
      /\ UNCHANGED <<results, dispatched, work, registered, log, front, handled, sent, closing>>
  BY DEF SessionLost, dispatcher
<1>3. endpoint \in [Session -> [Local -> EndPoint(dispatched)]] /\ sent \in [Session -> [Local -> Sent(dispatched)]]
      /\ registered \subseteq Topic /\ sessions \subseteq Session /\ handled \in 0 .. Len(front)
      /\ closing \in LastBatches
  BY <1>1 DEF FanTypeOK, EndPoint, Sent, LastBatches
<1>4. NoSub \in EndPoint(dispatched)
  BY DEF EndPoint
<1>5. /\ endpoint' \in [Session -> [Local -> EndPoint(dispatched)]]
      /\ \A t \in Session, n \in Local : endpoint'[t][n] = NoSub \/ endpoint'[t][n] = endpoint[t][n]
  BY <1>2, <1>3, <1>4
<1>6. \A t \in Session, n \in Local : Served(t, n)'
  BY <1>2, <1>5, OthersServed
<1>7. sessions' \subseteq Session
  BY <1>2, <1>3
<1>8. QED
  BY <1>2, <1>3, <1>5, <1>6, <1>7, FrontSteps

\* Where a subscription begins: no message that is held lies between the number
\* it asks for and its reader.
LEMMA BeginningRight ==
  ASSUME FanTypeOK, NEW f \in Flows, NEW no \in Int
  PROVE  /\ Beginning(f, no) \in 0 .. Count(f)
         /\ no > 0 => \A i \in no + 1 .. Beginning(f, no) : ~Holds(f, i - 1)
         /\ no > 0 /\ no <= Count(f) => Beginning(f, no) >= no
<1>1. Count(f) \in Nat /\ FirstID(f) \in 0 .. Count(f)
  BY Domains, Rooms
<1>2. PICK c : c = Count(f)
  OBVIOUS
<1>3. PICK a : a = FirstID(f)
  OBVIOUS
<1>4. Beginning(f, no) = Higher(a, Lower(c, IF no <= 0 THEN c + no ELSE no))
  BY <1>2, <1>3 DEF Beginning
<1>5. Beginning(f, no) \in 0 .. c /\ Beginning(f, no) >= a
  BY <1>1, <1>2, <1>3, <1>4 DEF Higher, Lower
<1>6. no > 0 => (Beginning(f, no) > no => Beginning(f, no) = a) /\ (no <= c => Beginning(f, no) >= no)
  BY <1>1, <1>2, <1>3, <1>4 DEF Higher, Lower
<1>7. ASSUME no > 0, NEW i \in no + 1 .. Beginning(f, no)
      PROVE  ~Holds(f, i - 1)
  <2>1. Beginning(f, no) > no /\ i - 1 < Beginning(f, no) /\ i \in Int
    BY <1>1, <1>2, <1>5, <1>7
  <2>2. i - 1 < FirstID(f)
    BY <1>3, <1>6, <1>7, <2>1
  <2>3. QED
    BY <1>1, <2>1, <2>2 DEF Holds
<1>8. QED
  BY <1>2, <1>5, <1>6, <1>7

LEMMA SubscribedServed ==
  ASSUME FanInv, UNCHANGED <<results, dispatched, log>>, NEW s \in Session, NEW n \in Local,
         NEW i \in 1 .. dispatched, results[i].type = "sub", NEW no, no = Asked(i),
         NEW f \in Flows,
         endpoint'[s][n] = [flow |-> f, next |-> Beginning(results[i].flow, no), from |-> i],
         sent'[s][n] = <<>>
  PROVE  Served(s, n)' /\ endpoint'[s][n] \in EndPoint(dispatched)
<1>1. FanTypeOK /\ WorkRight /\ \A g \in Flows : LogRight(g)
  BY DEF FanInv
<1>2. Grows
  BY <1>1, QuietGrows
<1>3. results[i].flow \in Flows /\ no \in Int /\ results[i].number \in Int
  BY <1>1, <1>2, AskedStays
<1>4. PICK b : b = Beginning(results[i].flow, no)
  OBVIOUS
<1>5. Count(results[i].flow) \in Nat /\ Count(results[i].flow) <= MaxPublished /\ b \in 0 .. Count(results[i].flow)
  BY <1>1, <1>3, <1>4, BeginningRight, Domains DEF FanTypeOK
<1>6. PICK e : e = [flow |-> f, next |-> b, from |-> i]
  OBVIOUS
<1>7. e.flow = f /\ e.next = b /\ e.from = i /\ endpoint'[s][n] = e
  BY <1>4, <1>6
<1>8. e \in EndPoint(dispatched)
  BY <1>5, <1>6, FanoutBounds DEF EndPoint
<1>9. Due(endpoint[s][n])' = Due(e) /\ (Misled(endpoint[s][n])' <=> Misled(e))
  BY <1>7 DEF Misled, Due, NumberOf, Wanted, Belongs
<1>10. ASSUME ~Misled(e)
       PROVE  results[i].flow = f /\ Due(e) = no /\ no > 0
  <2>1. results[i].flow = f /\ ~(Due(e) <= 0)
    BY <1>7, <1>10 DEF Misled
  <2>2. Due(e) = Asked(i)
    BY <1>7, <2>1 DEF Due, Asked
  <2>3. QED
    BY <1>3, <2>1, <2>2
<1>11. Count(f)' = Count(f) /\ \A id : Holds(f, id)' <=> Holds(f, id)
  BY DEF Count, Holds, FirstID, Over, Room
<1>12. DOMAIN sent'[s][n] = {} /\ NumbersSent(s, n)' = {}
  <2>1. DOMAIN sent'[s][n] = {}
    BY EmptySeq, LenProperties
  <2>2. QED
    BY <2>1 DEF NumbersSent
<1>13. Sending(s, n)'
  BY <1>12 DEF Sending
<1>14. Beginnings(s, n)'
  <2>1. ASSUME ~Misled(e), NEW m \in no + 1 .. b
        PROVE  ~Holds(f, m - 1)
    BY <1>1, <1>3, <1>4, <1>10, <2>1, BeginningRight
  <2>2. ASSUME ~Misled(e), results[i].number <= 0
        PROVE  b >= no
    <3>1. no = NumberOf(f, i - 1) + results[i].number
      BY <1>3, <1>10, <2>2 DEF Asked
    <3>2. Appended(f) \in 0 .. dispatched /\ dispatched - 1 <= Appended(f) /\ dispatched \in Nat
      BY <1>1, Counts, Domains
    <3>3. i - 1 \in 0 .. Appended(f)
      BY <3>2
    <3>4. NumberOf(f, i - 1) <= Count(f) /\ NumberOf(f, i - 1) \in Nat /\ Count(f) \in Nat
      BY <1>1, <3>3, Counts, Domains
    <3>5. no <= Count(f)
      BY <1>3, <2>2, <3>1, <3>4
    <3>6. QED
      BY <1>1, <1>3, <1>4, <1>10, <2>2, <3>5, BeginningRight
  <2>3. ASSUME ~Misled(e)
        PROVE  /\ \A m \in no + 1 .. b : Gone(s, n, m)'
               /\ results[i].number <= 0 => b >= no
    <3>1. ASSUME NEW m \in no + 1 .. b
          PROVE  Gone(s, n, m)'
      <4>1. ~Holds(f, m - 1)
        BY <2>1, <2>3
      <4>2. Holds(endpoint[s][n].flow, m - 1)' <=> Holds(f, m - 1)'
        BY <1>7 DEF Holds, FirstID, Count, Room, Over
      <4>3. QED
        BY <1>11, <4>1, <4>2 DEF Gone
    <3>2. QED
      BY <2>2, <2>3, <3>1
  <2>4. QED
    BY <1>7, <1>9, <1>10, <1>12, <2>3 DEF Beginnings
<1>15. ~Misled(endpoint[s][n])' \/ sent'[s][n] # <<>> => e.next <= Count(endpoint[s][n].flow)'
  <2>1. Count(endpoint[s][n].flow)' = Count(f)
    BY <1>7 DEF Count
  <2>2. ~Misled(e) => b <= Count(f)
    BY <1>5, <1>10
  <2>3. QED
    BY <1>7, <1>9, <2>1, <2>2
<1>16. QED
  BY <1>7, <1>8, <1>13, <1>14, <1>15 DEF Served

LEMMA SubTopicKeeps ==
  ASSUME FanInv, SubTopic
  PROVE  FanInv'
<1>1. FanTypeOK
  BY DEF FanInv
<1>2. PICK i : i = Entry[1]
  OBVIOUS
<1>3. PICK r : r = results[i]
  OBVIOUS
<1>4. /\ handled < Len(front) /\ r.type = "sub" /\ handled' = handled + 1 /\ (GetFlow(r.flow) \/ UNCHANGED registered)
      /\ UNCHANGED <<results, dispatched, work, log, front, sessions, closing>>
  BY <1>2, <1>3 DEF SubTopic, Pending
<1>5. \/ UNCHANGED <<endpoint, sent>>
      \/ /\ endpoint' = [endpoint EXCEPT ![r.session][r.local] =
                [flow |-> IF endpoint[r.session][r.local] = NoSub THEN r.flow ELSE endpoint[r.session][r.local].flow,
                 next |-> Beginning(r.flow, Entry[2]), from |-> i]]
         /\ sent' = [sent EXCEPT ![r.session][r.local] = <<>>]
  BY <1>2, <1>3 DEF SubTopic
<1>6. handled' \in 0 .. Len(front) /\ i \in 1 .. dispatched /\ Entry[2] = Asked(i) /\ r \in Result
  BY <1>2, <1>3, <1>4, EntryRight
<1>7. r.session \in Session /\ r.local \in Local /\ r.flow \in Flows
  BY <1>4, <1>6, ResultKinds
<1>8. endpoint \in [Session -> [Local -> EndPoint(dispatched)]] /\ sent \in [Session -> [Local -> Sent(dispatched)]]
      /\ registered \subseteq Topic /\ sessions \subseteq Session /\ closing \in LastBatches
  BY <1>1 DEF FanTypeOK, EndPoint, Sent, LastBatches
<1>9. registered \subseteq registered' /\ registered' \subseteq Topic /\ sessions' \subseteq Session /\ closing' \in LastBatches
  BY <1>4, <1>7, <1>8, FlowParts DEF GetFlow
<1>10. CASE UNCHANGED <<endpoint, sent>>
  <2>1. \A s \in Session, n \in Local : Served(s, n)'
    BY <1>4, <1>10, OthersServed
  <2>2. QED
    BY <1>4, <1>6, <1>8, <1>9, <1>10, <2>1, FrontSteps
<1>11. CASE ~UNCHANGED <<endpoint, sent>>
  <2>1. PICK s \in Session : s = r.session
    BY <1>7
  <2>2. PICK n \in Local : n = r.local
    BY <1>7
  <2>3. PICK f : f = IF endpoint[s][n] = NoSub THEN r.flow ELSE endpoint[s][n].flow
    OBVIOUS
  <2>4. f \in Flows
    BY <1>1, <1>7, <2>3, EndPoints
  <2>5. PICK no : no = Entry[2]
    OBVIOUS
  <2>6. PICK e : e = [flow |-> f, next |-> Beginning(results[i].flow, no), from |-> i]
    OBVIOUS
  <2>7. endpoint' = [endpoint EXCEPT ![s][n] = e] /\ sent' = [sent EXCEPT ![s][n] = <<>>]
    BY <1>3, <1>5, <1>11, <2>1, <2>2, <2>3, <2>5, <2>6
  <2>8. endpoint'[s][n] = e /\ sent'[s][n] = <<>>
    BY <1>8, <2>7
  <2>9. Served(s, n)' /\ e \in EndPoint(dispatched)
    BY <1>3, <1>4, <1>6, <2>4, <2>5, <2>6, <2>8, SubscribedServed
  <2>10. <<>> \in Sent(dispatched)
    BY EmptySeq DEF Sent
  <2>11. /\ endpoint' \in [Session -> [Local -> EndPoint(dispatched)]]
         /\ sent' \in [Session -> [Local -> Sent(dispatched)]]
    BY <1>8, <2>7, <2>9, <2>10
  <2>12. ASSUME NEW t \in Session, NEW m \in Local, t # s \/ m # n
         PROVE  Served(t, m)'
    <3>1. endpoint'[t][m] = endpoint[t][m] /\ sent'[t][m] = sent[t][m]
      BY <1>8, <2>7, <2>12
    <3>2. QED
      BY <1>4, <3>1, OthersServed
  <2>13. \A t \in Session, m \in Local : Served(t, m)'
    BY <2>9, <2>12
  <2>14. QED
    BY <1>4, <1>6, <1>9, <2>11, <2>13, FrontSteps
<1>12. QED
  BY <1>10, <1>11

LEMMA PublishSendServes ==
  ASSUME FanInv, UNCHANGED <<results, dispatched, log>>, NEW s \in Session, NEW n \in Local,
         Unsent(endpoint[s][n]) > 0,
         endpoint'[s][n] = [endpoint[s][n] EXCEPT !.next = @ + 1],
         sent'[s][n] = sent[s][n] \o Found(endpoint[s][n])
  PROVE  /\ Served(s, n)' /\ endpoint'[s][n] \in EndPoint(dispatched) /\ sent'[s][n] \in Sent(dispatched)
         /\ endpoint[s][n].next + 1 <= Count(endpoint[s][n].flow)
         /\ \A no : no = endpoint[s][n].next + 1 \/ Gone(s, n, no) => Gone(s, n, no)'
<1>1. FanTypeOK /\ WorkRight /\ Served(s, n) /\ \A g \in Flows : LogRight(g)
  BY DEF FanInv
<1>2. PICK e : e = endpoint[s][n]
  OBVIOUS
<1>3. PICK q : q = sent[s][n]
  OBVIOUS
<1>4. e # NoSub /\ e.flow \in Flows /\ e.next \in Nat /\ e.from \in 1 .. dispatched
      /\ e \in [flow : Flows, next : 0 .. MaxPublished, from : 1 .. dispatched]
  BY <1>1, <1>2, EndPoints, FanoutBounds DEF Unsent, FanTypeOK
<1>5. PICK c : c = e.next
  OBVIOUS
<1>6. PICK f \in Flows : f = e.flow
  BY <1>4
<1>7. Count(f) \in Nat /\ Count(f) <= MaxPublished /\ c \in Nat /\ c < Count(f)
  <2>1. Count(f) \in Nat /\ Count(f) <= MaxPublished
    BY <1>1, Domains DEF FanTypeOK
  <2>2. Unsent(e) = Higher(0, Count(f) - c) /\ Unsent(e) > 0
    BY <1>2, <1>4, <1>5, <1>6 DEF Unsent
  <2>3. QED
    BY <1>4, <1>5, <2>1, <2>2 DEF Higher
<1>8. PICK d : d = [e EXCEPT !.next = c + 1]
  OBVIOUS
<1>9. endpoint'[s][n] = d /\ d.flow = f /\ d.next = c + 1 /\ d.from = e.from /\ d \in EndPoint(dispatched)
  BY <1>2, <1>4, <1>5, <1>6, <1>7, <1>8, FanoutBounds DEF EndPoint
<1>10. PICK p : p = <<c + 1, Get(f, c)>>
  OBVIOUS
<1>11. p \in (1 .. MaxPublished) \X (1 .. dispatched) /\ p[1] = c + 1 /\ p[2] = Get(f, c)
  <2>1. c \in 0 .. Count(f) - 1
    BY <1>7
  <2>2. Get(f, c) \in Wanted(f, Appended(f)) /\ Appended(f) \in 0 .. dispatched /\ dispatched \in Nat
    BY <1>1, <2>1, Counts, Domains
  <2>3. Get(f, c) \in 1 .. dispatched
    BY <2>2 DEF Wanted
  <2>4. c + 1 \in 1 .. MaxPublished
    BY <1>7, FanoutBounds
  <2>5. QED
    BY <1>10, <2>3, <2>4
<1>12. q \in Sent(dispatched) /\ DOMAIN q = 1 .. Len(q) /\ Len(q) \in Nat
  BY <1>1, <1>3, EndPoints DEF Sent
<1>13. PICK r : r = sent'[s][n]
  OBVIOUS
<1>14. r = IF Holds(f, c) THEN q \o <<p>> ELSE q
  <2>1. Found(e) = IF Holds(f, c) THEN <<p>> ELSE <<>>
    BY <1>5, <1>6, <1>10 DEF Found
  <2>2. q \o <<>> = q
    BY <1>12, ConcatEmptySeq DEF Sent
  <2>3. QED
    BY <1>2, <1>3, <1>13, <2>1, <2>2
<1>15. /\ r \in Sent(dispatched)
       /\ ~Holds(f, c) => r = q
       /\ Holds(f, c) => /\ DOMAIN r = 1 .. Len(q) + 1 /\ r[Len(q) + 1] = p
                         /\ \A i \in 1 .. Len(q) : r[i] = q[i]
  <2>1. q \o <<p>> = Append(q, p)
    BY <1>11, <1>12, AppendIsConcat DEF Sent
  <2>2. /\ Append(q, p) \in Sent(dispatched) /\ Len(Append(q, p)) = Len(q) + 1 /\ Append(q, p)[Len(q) + 1] = p
        /\ \A i \in 1 .. Len(q) : Append(q, p)[i] = q[i]
    BY <1>11, <1>12, AppendProperties DEF Sent
  <2>3. DOMAIN Append(q, p) = 1 .. Len(q) + 1
    BY <2>2, LenProperties DEF Sent
  <2>4. QED
    BY <1>12, <1>14, <2>1, <2>2, <2>3
<1>16. /\ results[e.from].type = "sub" /\ Sending(s, n) /\ Beginnings(s, n)
  BY <1>1, <1>2, <1>4 DEF Served
<1>17. /\ \A i \in DOMAIN q : q[i][1] \in 1 .. c /\ q[i][2] = Get(f, q[i][1] - 1)
       /\ \A i, j \in DOMAIN q : i < j => q[i][1] < q[j][1]
       /\ \A i \in DOMAIN q : \A no \in q[i][1] .. c : Gone(s, n, no)
  BY <1>2, <1>3, <1>5, <1>6, <1>16 DEF Sending
<1>18. \A i \in DOMAIN q : i \in DOMAIN r /\ r[i] = q[i]
  BY <1>12, <1>15
<1>19. ASSUME NEW no, Gone(s, n, no)
       PROVE  Gone(s, n, no)'
  <2>1. Holds(endpoint[s][n].flow, no - 1)' <=> Holds(f, no - 1)
    BY <1>9 DEF Holds, FirstID, Count, Room, Over
  <2>2. NumbersSent(s, n) \subseteq NumbersSent(s, n)'
    <3>1. ASSUME NEW i \in DOMAIN q
          PROVE  q[i][1] \in {r[j][1] : j \in DOMAIN r}
      BY <1>18
    <3>2. NumbersSent(s, n) = {q[i][1] : i \in DOMAIN q} /\ NumbersSent(s, n)' = {r[j][1] : j \in DOMAIN r}
      BY <1>3, <1>13 DEF NumbersSent
    <3>3. QED
      BY <3>1, <3>2
  <2>3. QED
    BY <1>2, <1>6, <1>19, <2>1, <2>2 DEF Gone
<1>20. Gone(s, n, c + 1)'
  <2>1. PICK m : m = c + 1
    OBVIOUS
  <2>2. m - 1 = c
    BY <1>7, <2>1
  <2>3. Holds(endpoint[s][n].flow, m - 1)' <=> Holds(f, c)
    BY <1>9, <2>2 DEF Holds, FirstID, Count, Room, Over
  <2>4. Holds(f, c) => m \in NumbersSent(s, n)'
    <3>1. Holds(f, c) => Len(q) + 1 \in DOMAIN r /\ r[Len(q) + 1] = p
      BY <1>12, <1>15
    <3>2. QED
      BY <1>11, <1>13, <2>1, <3>1 DEF NumbersSent
  <2>5. Gone(s, n, m)'
    BY <2>3, <2>4 DEF Gone
  <2>6. QED
    BY <2>1, <2>5
<1>21. ASSUME NEW i \in DOMAIN r
       PROVE  i \in DOMAIN q \/ (i = Len(q) + 1 /\ r[i] = p)
  BY <1>12, <1>15
<1>22. Sending(s, n)'
  <2>1. ASSUME NEW i \in DOMAIN r
        PROVE  r[i][1] \in 1 .. c + 1 /\ r[i][2] = Get(f, r[i][1] - 1)
    <3>1. CASE i \in DOMAIN q
      BY <1>7, <1>17, <1>18, <3>1
    <3>2. CASE r[i] = p
      <4>1. PICK m : m = r[i][1]
        OBVIOUS
      <4>2. m \in 1 .. c + 1 /\ m - 1 = c
        BY <1>7, <1>11, <3>2, <4>1
      <4>3. r[i][2] = Get(f, m - 1)
        BY <1>11, <3>2, <4>2
      <4>4. QED
        BY <4>1, <4>2, <4>3
    <3>3. QED
      BY <1>21, <3>1, <3>2
  <2>2. ASSUME NEW i \in DOMAIN r, NEW j \in DOMAIN r, i < j
        PROVE  r[i][1] < r[j][1]
    <3>1. i \in DOMAIN q
      BY <1>12, <1>21, <2>2
    <3>2. CASE j \in DOMAIN q
      BY <1>17, <1>18, <2>2, <3>1, <3>2
    <3>3. CASE r[j] = p
      BY <1>7, <1>11, <1>17, <1>18, <3>1, <3>3
    <3>4. QED
      BY <1>21, <3>2, <3>3
  <2>3. ASSUME NEW i \in DOMAIN r, NEW no \in r[i][1] .. c + 1
        PROVE  Gone(s, n, no)'
    <3>1. CASE no = c + 1
      BY <1>20, <3>1
    <3>2. CASE no # c + 1
      <4>1. r[i][1] \in 1 .. c + 1 /\ no <= c /\ no >= r[i][1] /\ no \in Int /\ c \in Nat
        BY <1>7, <2>1, <3>2
      <4>2. i \in DOMAIN q
        BY <1>11, <1>21, <4>1
      <4>3. no \in q[i][1] .. c
        BY <1>17, <1>18, <4>1, <4>2
      <4>4. QED
        BY <1>17, <1>19, <4>2, <4>3
    <3>3. QED
      BY <3>1, <3>2
  <2>4. Get(f, 0)' = Get(f, 0) /\ \A x : Get(endpoint[s][n].flow, sent[s][n][x][1] - 1)' = Get(f, r[x][1] - 1)
    BY <1>9, <1>13 DEF Get, Over
  <2>5. QED
    BY <1>9, <1>13, <2>1, <2>2, <2>3, <2>4 DEF Sending
<1>23. Due(endpoint[s][n])' = Due(e) /\ (Misled(endpoint[s][n])' <=> Misled(e))
  BY <1>6, <1>9 DEF Misled, Due, NumberOf, Wanted, Belongs
<1>24. Beginnings(s, n)'
  <2>1. SUFFICES ASSUME ~Misled(e)
                 PROVE  /\ \A no \in Due(e) + 1 .. c + 1 : Gone(s, n, no)'
                        /\ results[e.from].number <= 0 =>
                             c + 1 >= Due(e) /\ \A no \in NumbersSent(s, n)' : no > Due(e)
    BY <1>9, <1>23 DEF Beginnings
  <2>2. /\ \A no \in Due(e) + 1 .. c : Gone(s, n, no)
        /\ results[e.from].number <= 0 => c >= Due(e) /\ \A no \in NumbersSent(s, n) : no > Due(e)
    BY <1>2, <1>5, <1>16, <2>1 DEF Beginnings
  <2>3. Due(e) \in Int
    <3>1. Grows
      BY <1>1, QuietGrows
    <3>2. Due(e) = Asked(e.from)
      BY <2>1, DueAsked DEF Misled
    <3>3. QED
      BY <1>1, <1>4, <1>16, <3>1, <3>2, AskedStays
  <2>4. ASSUME NEW no \in Due(e) + 1 .. c + 1
        PROVE  Gone(s, n, no)'
    <3>1. no = c + 1 \/ no \in Due(e) + 1 .. c
      BY <1>7, <2>3
    <3>2. QED
      BY <1>19, <1>20, <2>2, <3>1
  <2>5. ASSUME results[e.from].number <= 0, NEW no \in NumbersSent(s, n)'
        PROVE  no > Due(e)
    <3>1. PICK i \in DOMAIN r : no = r[i][1]
      BY <1>13 DEF NumbersSent
    <3>2. CASE i \in DOMAIN q
      <4>1. no \in NumbersSent(s, n)
        BY <1>3, <1>18, <3>1, <3>2 DEF NumbersSent
      <4>2. QED
        BY <2>2, <2>5, <4>1
    <3>3. CASE r[i] = p
      BY <1>7, <1>11, <2>2, <2>3, <2>5, <3>1, <3>3
    <3>4. QED
      BY <1>21, <3>2, <3>3
  <2>6. results[e.from].number <= 0 => c + 1 >= Due(e)
    BY <1>7, <2>2, <2>3
  <2>7. QED
    BY <2>4, <2>5, <2>6
<1>25. d.next <= Count(endpoint[s][n].flow)'
  <2>1. Count(endpoint[s][n].flow)' = Count(f)
    BY <1>9 DEF Count
  <2>2. QED
    BY <1>7, <1>9, <2>1
<1>26. Served(s, n)'
  BY <1>9, <1>13, <1>15, <1>16, <1>22, <1>24, <1>25 DEF Served
<1>27. e.next + 1 <= Count(e.flow) /\ \A no : no = e.next + 1 \/ Gone(s, n, no) => Gone(s, n, no)'
  BY <1>5, <1>6, <1>7, <1>19, <1>20
<1>28. QED
  BY <1>2, <1>9, <1>13, <1>15, <1>26, <1>27

LEMMA SendNextWrites ==
  ASSUME FanTypeOK, NEW s \in Session, NEW n \in Local, SendNext(s, n)
  PROVE  /\ Unsent(endpoint[s][n]) > 0
         /\ endpoint' = [endpoint EXCEPT ![s][n] = [endpoint[s][n] EXCEPT !.next = @ + 1]]
         /\ sent' = [sent EXCEPT ![s][n] = sent[s][n] \o Found(endpoint[s][n])]
         /\ endpoint'[s][n] = [endpoint[s][n] EXCEPT !.next = @ + 1]
         /\ sent'[s][n] = sent[s][n] \o Found(endpoint[s][n])
         /\ \A t \in Session, m \in Local : t # s \/ m # n =>
              endpoint'[t][m] = endpoint[t][m] /\ sent'[t][m] = sent[t][m]
<1>1. endpoint \in [Session -> [Local -> EndPoint(dispatched)]] /\ sent \in [Session -> [Local -> Sent(dispatched)]]
  BY DEF FanTypeOK, EndPoint, Sent
<1>2. PICK e : e = [endpoint[s][n] EXCEPT !.next = @ + 1]
  OBVIOUS
<1>3. PICK r : r = sent[s][n] \o Found(endpoint[s][n])
  OBVIOUS
<1>4. /\ Unsent(endpoint[s][n]) > 0
      /\ endpoint' = [endpoint EXCEPT ![s][n].next = @ + 1]
      /\ sent' = [sent EXCEPT ![s][n] = r]
  BY <1>3 DEF SendNext, Passed
<1>5. endpoint' = [endpoint EXCEPT ![s][n] = e]
  BY <1>1, <1>2, <1>4
<1>6. /\ endpoint'[s][n] = e /\ sent'[s][n] = r
      /\ \A t \in Session, m \in Local : t # s \/ m # n =>
           endpoint'[t][m] = endpoint[t][m] /\ sent'[t][m] = sent[t][m]
  BY <1>1, <1>4, <1>5
<1>7. QED
  BY <1>2, <1>3, <1>4, <1>5, <1>6

LEMMA SendNextKeeps ==
  ASSUME FanInv, NEW s \in Session, NEW n \in Local, SendNext(s, n),
         UNCHANGED <<results, dispatcher, handled, sessions>>, closing' \in LastBatches
  PROVE  FanInv'
<1>1. FanTypeOK
  BY DEF FanInv
<1>2. PICK e : e = [endpoint[s][n] EXCEPT !.next = @ + 1]
  OBVIOUS
<1>3. PICK r : r = sent[s][n] \o Found(endpoint[s][n])
  OBVIOUS
<1>4. endpoint \in [Session -> [Local -> EndPoint(dispatched)]] /\ sent \in [Session -> [Local -> Sent(dispatched)]]
      /\ registered \subseteq Topic /\ sessions \subseteq Session /\ handled \in 0 .. Len(front)
  BY <1>1 DEF FanTypeOK, EndPoint, Sent
<1>5. UNCHANGED <<results, dispatched, work, registered, log, front, handled, sessions>>
  BY DEF dispatcher
<1>6. /\ Unsent(endpoint[s][n]) > 0 /\ endpoint'[s][n] = e /\ sent'[s][n] = r
      /\ endpoint' = [endpoint EXCEPT ![s][n] = e] /\ sent' = [sent EXCEPT ![s][n] = r]
      /\ \A t \in Session, m \in Local : t # s \/ m # n =>
           endpoint'[t][m] = endpoint[t][m] /\ sent'[t][m] = sent[t][m]
  BY <1>1, <1>2, <1>3, SendNextWrites
<1>7. Served(s, n)' /\ e \in EndPoint(dispatched) /\ r \in Sent(dispatched)
  <2>1. /\ endpoint'[s][n] = [endpoint[s][n] EXCEPT !.next = @ + 1]
        /\ sent'[s][n] = sent[s][n] \o Found(endpoint[s][n])
    BY <1>2, <1>3, <1>6
  <2>2. Served(s, n)' /\ endpoint'[s][n] \in EndPoint(dispatched) /\ sent'[s][n] \in Sent(dispatched)
    BY <1>5, <1>6, <2>1, PublishSendServes
  <2>3. QED
    BY <1>6, <2>2
<1>8. /\ endpoint' \in [Session -> [Local -> EndPoint(dispatched)]]
      /\ sent' \in [Session -> [Local -> Sent(dispatched)]]
  BY <1>4, <1>6, <1>7
<1>9. ASSUME NEW t \in Session, NEW m \in Local
      PROVE  Served(t, m)'
  <2>1. t # s \/ m # n => endpoint'[t][m] = endpoint[t][m] /\ sent'[t][m] = sent[t][m]
    BY <1>6
  <2>2. QED
    BY <1>5, <1>7, <2>1, OthersServed
<1>10. QED
  BY <1>4, <1>5, <1>8, <1>9, FrontSteps

LEMMA PublishSendKeeps ==
  ASSUME FanInv, NEW s \in Session, NEW n \in Local, PublishSend(s, n)
  PROVE  FanInv'
<1>1. closing \in LastBatches
  BY DEF FanInv, FanTypeOK, LastBatches
<1>2. QED
  BY <1>1, SendNextKeeps DEF PublishSend

LEMMA DeleteSessionKeeps ==
  ASSUME FanInv, DeleteSession
  PROVE  FanInv'
<1>1. FanTypeOK
  BY DEF FanInv
<1>2. PICK s : s = results[Entry[1]].session
  OBVIOUS
<1>3. /\ handled < Len(front) /\ (handled' = handled + 1 \/ UNCHANGED handled)
      /\ UNCHANGED closing \/ closing' = [n \in Local |-> [open |-> TRUE, start |-> endpoint[s][n].next]]
      /\ UNCHANGED <<results, dispatched, work, registered, log, front, sessions, endpoint, sent>>
  BY <1>2 DEF DeleteSession, Pending, dispatcher
<1>4. handled' \in 0 .. Len(front) /\ s \in Session
  <2>1. handled + 1 \in 0 .. Len(front) /\ s \in Session
    <3>1. results[Entry[1]].type # "publish" /\ results[Entry[1]] \in Result
      BY <1>3, EntryRight
    <3>2. QED
      BY <1>2, <1>3, <3>1, EntryRight, ResultKinds
  <2>2. handled \in 0 .. Len(front)
    BY <1>1 DEF FanTypeOK
  <2>3. QED
    BY <1>3, <2>1, <2>2
<1>5. endpoint \in [Session -> [Local -> EndPoint(dispatched)]] /\ sent \in [Session -> [Local -> Sent(dispatched)]]
      /\ registered \subseteq Topic /\ sessions \subseteq Session /\ closing \in LastBatches
  BY <1>1 DEF FanTypeOK, EndPoint, Sent, LastBatches
<1>6. closing' \in LastBatches
  <2>1. \A n \in Local : endpoint[s][n].next \in 0 .. MaxPublished
    <3>1. 0 \in 0 .. MaxPublished
      BY FanoutBounds
    <3>2. QED
      BY <1>4, <1>5, <3>1 DEF EndPoint, NoSub
  <2>2. [n \in Local |-> [open |-> TRUE, start |-> endpoint[s][n].next]] \in LastBatches
    BY <2>1 DEF LastBatches
  <2>3. QED
    BY <1>3, <1>5, <2>2
<1>7. \A t \in Session, n \in Local : Served(t, n)'
  BY <1>3, OthersServed
<1>8. QED
  BY <1>3, <1>4, <1>5, <1>6, <1>7, FrontSteps

-----------------------------------------------------------------------------
(* The last batch of a session that is ended.                              *)

\* The session and the request that ends it.
LEMMA OrderRight ==
  ASSUME FanInv, ClosingRight, Closing
  PROVE  /\ handled < Len(front) /\ handled + 1 \in 0 .. Len(front) /\ results[Entry[1]].type = "del"
         /\ Entry[1] \in 1 .. dispatched /\ Entry[1] \in 1 .. Len(results) /\ Leaving \in Session
         /\ closing \in [Local -> [open : BOOLEAN, start : 0 .. MaxPublished]] /\ MaxPublished \in Nat
<1>1. handled < Len(front) /\ results[Entry[1]].type = "del"
  BY DEF ClosingRight, Pending
<1>2. results[Entry[1]] \in Result /\ results[Entry[1]].type # "publish"
  BY <1>1, EntryRight
<1>3. Leaving \in Session
  BY <1>2, ResultKinds DEF Leaving
<1>4. closing \in [Local -> [open : BOOLEAN, start : 0 .. MaxPublished]]
  BY DEF FanInv, FanTypeOK, Closing
<1>5. QED
  BY <1>1, <1>3, <1>4, EntryRight, FanoutBounds

LEMMA SendLastKeeps ==
  ASSUME FanInv, ClosingRight, NEW n \in Local, SendLast(n)
  PROVE  FanInv'
<1>1. /\ Closing /\ UNCHANGED <<results, dispatcher, handled, sessions>>
      /\ \E b \in BOOLEAN : closing' = [closing EXCEPT ![n].open = b]
      /\ SendNext(Leaving, n) \/ UNCHANGED <<endpoint, sent>>
  BY DEF SendLast, Holds
<1>2. Leaving \in Session /\ closing \in [Local -> [open : BOOLEAN, start : 0 .. MaxPublished]]
  BY <1>1, OrderRight
<1>3. closing' \in LastBatches
  BY <1>1, <1>2 DEF LastBatches
<1>4. CASE SendNext(Leaving, n)
  BY <1>1, <1>2, <1>3, <1>4, SendNextKeeps
<1>5. CASE UNCHANGED <<endpoint, sent>>
  <2>1. UNCHANGED <<results, dispatched, work, registered, log, front, handled, sessions>>
    BY <1>1 DEF dispatcher
  <2>2. endpoint \in [Session -> [Local -> EndPoint(dispatched)]] /\ sent \in [Session -> [Local -> Sent(dispatched)]]
        /\ registered \subseteq Topic /\ sessions \subseteq Session /\ handled \in 0 .. Len(front)
    BY DEF FanInv, FanTypeOK, EndPoint, Sent
  <2>3. \A s \in Session, m \in Local : Served(s, m)'
    BY <1>5, <2>1, OthersServed
  <2>4. QED
    BY <1>3, <1>5, <2>1, <2>2, <2>3, FrontSteps
<1>6. QED
  BY <1>1, <1>4, <1>5

LEMMA DisconnectKeeps ==
  ASSUME FanInv, ClosingRight, Disconnect
  PROVE  FanInv'
<1>1. PICK s : s = Leaving
  OBVIOUS
<1>2. /\ Closing /\ handled' = handled + 1 /\ closing' = <<>> /\ sessions' = sessions \ {s}
      /\ endpoint' = [endpoint EXCEPT ![s] = [n \in Local |-> NoSub]]
      /\ UNCHANGED <<results, dispatched, work, registered, log, front, sent>>
  BY <1>1 DEF Disconnect, dispatcher
<1>3. s \in Session /\ handled' \in 0 .. Len(front)
  BY <1>1, <1>2, OrderRight
<1>4. endpoint \in [Session -> [Local -> EndPoint(dispatched)]] /\ sent \in [Session -> [Local -> Sent(dispatched)]]
      /\ registered \subseteq Topic /\ sessions \subseteq Session
  BY DEF FanInv, FanTypeOK, EndPoint, Sent
<1>5. NoSub \in EndPoint(dispatched) /\ closing' \in LastBatches
  BY <1>2 DEF EndPoint, LastBatches
<1>6. /\ endpoint' \in [Session -> [Local -> EndPoint(dispatched)]]
      /\ \A t \in Session, n \in Local : endpoint'[t][n] = NoSub \/ endpoint'[t][n] = endpoint[t][n]
  BY <1>2, <1>4, <1>5
<1>7. \A t \in Session, n \in Local : Served(t, n)'
  BY <1>2, <1>6, OthersServed
<1>8. sessions' \subseteq Session
  BY <1>2, <1>4
<1>9. QED
  BY <1>2, <1>3, <1>4, <1>5, <1>6, <1>7, <1>8, FrontSteps

\* All that was published before a request that has reached the front is in the
\* flows.
LEMMA Before ==
  ASSUME FanInv, NEW f \in Flows, NEW i \in 1 .. dispatched
  PROVE  NumberOf(f, i - 1) <= Count(f) /\ NumberOf(f, i - 1) \in Nat /\ Count(f) \in Nat
<1>1. FanTypeOK /\ WorkRight /\ LogRight(f)
  BY DEF FanInv
<1>2. Appended(f) \in 0 .. dispatched /\ dispatched - 1 <= Appended(f) /\ dispatched \in Nat
  BY <1>1, Counts, Domains
<1>3. i - 1 \in 0 .. Appended(f)
  BY <1>2
<1>4. QED
  BY <1>1, <1>3, Counts, Domains

\* The loop of another end point, and of this one while the dispatcher goes on.
LEMMA ClosesStays ==
  ASSUME FanTypeOK, \A f \in Flows : LogRight(f), Grows, NEW s \in Session, NEW n \in Local,
         NEW i \in 1 .. Len(results), closing[n].start \in Nat,
         endpoint'[s][n] = endpoint[s][n], sent'[s][n] = sent[s][n], closing'[n] = closing[n], Closes(s, n, i)
  PROVE  Closes(s, n, i)'
<1>1. PICK e : e = endpoint[s][n]
  OBVIOUS
<1>2. PICK c : c = closing[n]
  OBVIOUS
<1>3. CASE e = NoSub
  BY <1>1, <1>3 DEF Closes
<1>4. CASE e # NoSub
  <2>1. PICK f \in Flows : f = e.flow
    BY <1>1, <1>4, EndPoints
  <2>2. e.next \in Nat /\ c.start \in Nat
    BY <1>1, <1>2, <1>4, EndPoints, FanoutBounds
  <2>3. /\ c.start <= e.next /\ (c.start < e.next => e.next <= Count(f))
        /\ \A no \in c.start + 1 .. e.next : Gone(s, n, no)
        /\ c.open \/ NumberOf(f, i - 1) <= e.next \/ (c.start < e.next /\ ~Holds(f, e.next - 1))
    BY <1>1, <1>2, <1>4, <2>1 DEF Closes
  <2>4. Count(f) \in Nat /\ Count(f) <= Count(f)' /\ Count(f)' \in Nat /\ Len(results) \in Nat
    BY Domains DEF Grows
  <2>5. \A id \in 0 .. Count(f) - 1 : Holds(f, id)' => Holds(f, id)
    BY FlowsStay
  <2>6. NumbersSent(s, n)' = NumbersSent(s, n)
    BY DEF NumbersSent
  <2>7. ASSUME NEW no \in c.start + 1 .. e.next
        PROVE  Gone(s, n, no)'
    <3>1. no - 1 \in 0 .. Count(f) - 1
      BY <2>2, <2>3, <2>4
    <3>2. Holds(endpoint[s][n].flow, no - 1)' <=> Holds(f, no - 1)'
      BY <1>1, <2>1 DEF Holds, FirstID, Count, Room, Over
    <3>3. Gone(s, n, no)
      BY <2>3
    <3>4. QED
      BY <1>1, <2>1, <2>5, <2>6, <3>1, <3>2, <3>3 DEF Gone
  <2>8. NumberOf(f, i - 1)' = NumberOf(f, i - 1)
    <3>1. PICK k \in 0 .. Len(results) : k = i - 1
      BY <2>4
    <3>2. NumberOf(f, k)' = NumberOf(f, k)
      BY NumbersStay
    <3>3. NumberOf(f, i - 1)' = NumberOf(f, k)'
      BY <3>1 DEF NumberOf, Wanted, Belongs
    <3>4. QED
      BY <3>1, <3>2, <3>3
  <2>9. c.start < e.next => (Holds(f, e.next - 1)' => Holds(f, e.next - 1))
    <3>1. c.start < e.next => e.next - 1 \in 0 .. Count(f) - 1
      BY <2>2, <2>3, <2>4
    <3>2. QED
      BY <2>5, <3>1
  <2>10. /\ NumberOf(endpoint[s][n].flow, i - 1)' = NumberOf(f, i - 1)'
         /\ Count(endpoint[s][n].flow)' = Count(f)'
         /\ Holds(endpoint[s][n].flow, endpoint[s][n].next - 1)' <=> Holds(f, e.next - 1)'
    BY <1>1, <2>1 DEF NumberOf, Wanted, Belongs, Holds, FirstID, Count, Room, Over
  <2>11. c.start < e.next => e.next <= Count(f)'
    BY <2>2, <2>3, <2>4
  <2>12. endpoint'[s][n] = e /\ closing'[n] = c
    BY <1>1, <1>2
  <2>13. QED
    BY <2>3, <2>7, <2>8, <2>9, <2>10, <2>11, <2>12 DEF Closes
<1>5. QED
  BY <1>3, <1>4

LEMMA ClosingAgain ==
  ASSUME NEW s, NEW i, Leaving' = s, Entry'[1] = i, Pending("del")', \A n \in Local : Closes(s, n, i)'
  PROVE  ClosingRight'
<1>1. \A n \in Local : Closes(Leaving, n, Entry[1])' <=> Closes(s, n, i)'
  BY DEF Closes, Gone, NumbersSent, Holds, FirstID, Count, Room, Over, NumberOf, Wanted, Belongs
<1>2. QED
  BY <1>1 DEF ClosingRight

\* What the other threads do.
LEMMA ClosingElsewhere ==
  ASSUME FanInv, ClosingRight, Grows, UNCHANGED frontend, Len(front) <= Len(front'), Len(front') \in Nat,
         \A i \in DOMAIN front : front'[i] = front[i]
  PROVE  ClosingRight'
<1>1. UNCHANGED <<handled, endpoint, sent, closing>>
  BY DEF frontend
<1>2. CASE ~Closing
  BY <1>1, <1>2 DEF ClosingRight, Closing
<1>3. CASE Closing
  <2>1. PICK s \in Session : s = Leaving
    BY <1>3, OrderRight
  <2>2. PICK i \in 1 .. Len(results) : i = Entry[1]
    BY <1>3, OrderRight
  <2>3. /\ handled < Len(front) /\ results[i].type = "del" /\ results'[i] = results[i]
        /\ closing \in [Local -> [open : BOOLEAN, start : 0 .. MaxPublished]] /\ MaxPublished \in Nat
    BY <1>3, <2>2, OrderRight DEF Grows
  <2>4. Entry' = Entry
    <3>1. handled + 1 \in DOMAIN front
      <4>1. handled \in Nat /\ Len(front) \in Nat /\ DOMAIN front = 1 .. Len(front)
        BY Domains DEF FanInv, FanTypeOK
      <4>2. QED
        BY <2>3, <4>1
    <3>2. QED
      BY <1>1, <3>1 DEF Entry
  <2>5. Leaving' = s /\ Entry'[1] = i
    BY <2>1, <2>2, <2>3, <2>4 DEF Leaving
  <2>6. Pending("del")'
    <3>1. handled' < Len(front')
      <4>1. handled \in Nat /\ Len(front) \in Nat
        BY Domains DEF FanInv, FanTypeOK
      <4>2. QED
        BY <1>1, <2>3, <4>1
    <3>2. QED
      BY <2>3, <2>5, <3>1 DEF Pending
  <2>7. ASSUME NEW n \in Local
        PROVE  Closes(s, n, i)'
    <3>1. Closes(s, n, i) /\ closing[n].start \in Nat
      BY <1>3, <2>1, <2>2, <2>3 DEF ClosingRight
    <3>2. FanTypeOK /\ \A f \in Flows : LogRight(f)
      BY DEF FanInv
    <3>3. QED
      BY <1>1, <3>1, <3>2, ClosesStays
  <2>8. QED
    BY <2>5, <2>6, <2>7, ClosingAgain
<1>4. QED
  BY <1>2, <1>3

LEMMA DispatcherCloses ==
  ASSUME FanInv, ClosingRight, Dispatch
  PROVE  ClosingRight'
<1>1. FanTypeOK /\ Len(front) \in Nat /\ DOMAIN front = 1 .. Len(front)
  BY Domains DEF FanInv
<1>2. UNCHANGED frontend
  BY DEF Dispatch, ToFront, ToTopics, AppendNext
<1>3. CASE ToFront
  <2>1. Grows
    BY <1>1, <1>3, TakingGrows DEF ToFront
  <2>2. PICK m : front' = Append(front, m)
    BY <1>3 DEF ToFront
  <2>3. PICK S : front \in Seq(S) /\ m \in S
    <3>1. front \in Seq(((1 .. dispatched) \X Int) \union {m})
      BY <1>1, SeqMonotonic DEF FanTypeOK
    <3>2. QED
      BY <3>1
  <2>4. Len(front') = Len(front) + 1 /\ \A i \in 1 .. Len(front) : front'[i] = front[i]
    BY <2>2, <2>3, AppendProperties
  <2>5. QED
    BY <1>1, <1>2, <2>1, <2>4, ClosingElsewhere
<1>4. CASE ToTopics
  BY <1>1, <1>2, <1>4, TakingGrows, ClosingElsewhere DEF ToTopics
<1>5. CASE \E f \in Flows : AppendNext(f)
  <2>1. PICK f \in Flows : AppendNext(f)
    BY <1>5
  <2>2. PICK x : x = IF f[2] = NoIndex THEN dispatched ELSE IndexEntry(f)
    OBVIOUS
  <2>3. Grows
    BY <2>1, <2>2, AppendNextWrites
  <2>4. UNCHANGED front
    BY <2>1 DEF AppendNext
  <2>5. QED
    BY <1>1, <1>2, <2>3, <2>4, ClosingElsewhere
<1>6. QED
  BY <1>3, <1>4, <1>5 DEF Dispatch

LEMMA MatchingCloses ==
  ASSUME FanInv, ClosingRight, (\E k \in Kinds : Publish(k)) \/ (\E r \in Requests : Request(r)) \/ UNCHANGED fanVars
  PROVE  ClosingRight'
<1>1. FanTypeOK /\ Len(front) \in Nat
  BY Domains DEF FanInv
<1>2. UNCHANGED <<dispatcher, frontend>>
  BY DEF Publish, Request, fanVars
<1>3. Grows
  <2>1. CASE \E m \in Result : results' = Append(results, m)
    BY <1>1, <1>2, <2>1, AppendGrows DEF dispatcher
  <2>2. CASE results' = results
    BY <1>1, <1>2, <2>2, QuietGrows DEF dispatcher
  <2>3. QED
    BY <2>1, <2>2 DEF Publish, Request, fanVars, Result
<1>4. QED
  BY <1>1, <1>2, <1>3, ClosingElsewhere DEF dispatcher

\* What the front does between two such ends.
LEMMA FrontCloses ==
  ASSUME FanInv, ClosingRight,
         \/ SubTopic \/ UnSubTopic \/ Disconnect
         \/ \E s \in Session : SessionLost(s) \/ \E n \in Local : PublishSend(s, n)
  PROVE  ClosingRight'
<1>1. CASE SubTopic \/ UnSubTopic
  <2>1. ~Closing /\ closing' = closing
    BY <1>1 DEF ClosingRight, Pending, SubTopic, UnSubTopic
  <2>2. QED
    BY <2>1 DEF ClosingRight, Closing
<1>2. CASE \E s \in Session : SessionLost(s) \/ \E n \in Local : PublishSend(s, n)
  BY <1>2 DEF ClosingRight, Closing, SessionLost, PublishSend
<1>3. CASE Disconnect
  BY <1>3 DEF ClosingRight, Closing, Disconnect
<1>4. QED
  BY <1>1, <1>2, <1>3

LEMMA DeleteSessionCloses ==
  ASSUME FanInv, ClosingRight, DeleteSession
  PROVE  ClosingRight'
<1>1. /\ Pending("del") /\ ~Closing /\ UNCHANGED <<results, dispatcher, sessions, endpoint, sent>>
      /\ \/ /\ closing' = [n \in Local |-> [open |-> TRUE, start |-> endpoint[Leaving][n].next]]
            /\ UNCHANGED handled
         \/ UNCHANGED closing
  BY DEF DeleteSession, Leaving
<1>2. CASE UNCHANGED closing
  BY <1>1, <1>2 DEF ClosingRight, Closing
<1>3. CASE /\ closing' = [n \in Local |-> [open |-> TRUE, start |-> endpoint[Leaving][n].next]]
           /\ UNCHANGED handled
  <2>1. handled < Len(front) /\ UNCHANGED front
    BY <1>1 DEF Pending, dispatcher
  <2>2. results[Entry[1]] \in Result /\ results[Entry[1]].type # "publish"
    BY <2>1, EntryRight
  <2>3. PICK s \in Session : s = Leaving
    BY <2>2, ResultKinds DEF Leaving
  <2>4. PICK i : i = Entry[1]
    OBVIOUS
  <2>5. Leaving' = s /\ Entry'[1] = i /\ Pending("del")'
    BY <1>1, <1>3, <2>1, <2>3, <2>4 DEF Leaving, Entry, Pending
  <2>6. ASSUME NEW n \in Local
        PROVE  Closes(s, n, i)'
    <3>1. PICK e : e = endpoint[s][n]
      OBVIOUS
    <3>2. e # NoSub => e.next \in Nat
      BY <3>1, EndPoints, FanoutBounds DEF FanInv
    <3>3. closing'[n] = [open |-> TRUE, start |-> e.next] /\ endpoint'[s][n] = e
      BY <1>1, <1>3, <2>3, <3>1
    <3>4. QED
      BY <3>2, <3>3 DEF Closes
  <2>7. QED
    BY <2>5, <2>6, ClosingAgain
<1>4. QED
  BY <1>1, <1>2, <1>3

LEMMA SendLastCloses ==
  ASSUME FanInv, ClosingRight, NEW n \in Local, SendLast(n)
  PROVE  ClosingRight'
<1>1. Closing /\ UNCHANGED <<results, dispatched, front, log, handled>>
  BY DEF SendLast, dispatcher
<1>2. PICK s \in Session : /\ s = Leaving
                          /\ \/ /\ SendNext(s, n)
                                /\ closing' = [closing EXCEPT ![n].open = Holds(endpoint[s][n].flow, endpoint[s][n].next)]
                             \/ /\ Unsent(endpoint[s][n]) = 0
                                /\ closing' = [closing EXCEPT ![n].open = FALSE]
                                /\ UNCHANGED <<endpoint, sent>>
  BY <1>1, OrderRight DEF SendLast
<1>3. PICK i \in 1 .. dispatched : i = Entry[1]
  BY <1>1, OrderRight
<1>4. i \in 1 .. Len(results) /\ closing \in [Local -> [open : BOOLEAN, start : 0 .. MaxPublished]] /\ MaxPublished \in Nat
  BY <1>1, <1>3, OrderRight
<1>5. Leaving' = s /\ Entry'[1] = i /\ Pending("del")' /\ \A m \in Local : Closes(s, m, i)
  BY <1>1, <1>2, <1>3 DEF ClosingRight, Leaving, Entry, Pending
<1>6. FanTypeOK /\ (\A f \in Flows : LogRight(f)) /\ Grows
  BY <1>1, QuietGrows DEF FanInv
<1>7. ASSUME NEW m \in Local, m # n
      PROVE  Closes(s, m, i)'
  <2>1. closing'[m] = closing[m] /\ closing[m].start \in Nat
    BY <1>2, <1>4, <1>7
  <2>2. endpoint'[s][m] = endpoint[s][m] /\ sent'[s][m] = sent[s][m]
    <3>1. CASE SendNext(s, n)
      <4>1. \A t \in Session, k \in Local : t # s \/ k # n =>
              endpoint'[t][k] = endpoint[t][k] /\ sent'[t][k] = sent[t][k]
        BY <1>6, <3>1, SendNextWrites
      <4>2. QED
        BY <1>7, <4>1
    <3>2. CASE UNCHANGED <<endpoint, sent>>
      BY <3>2
    <3>3. QED
      BY <1>2, <3>1, <3>2
  <2>3. QED
    BY <1>4, <1>5, <1>6, <2>1, <2>2, ClosesStays
<1>8. PICK e : e = endpoint[s][n]
  OBVIOUS
<1>9. PICK c : c = closing[n]
  OBVIOUS
<1>10. c.start \in Nat
  BY <1>4, <1>9
<1>11. Closes(s, n, i)'
  <2>1. CASE e = NoSub
    <3>1. Unsent(e) = 0
      BY <2>1 DEF Unsent
    <3>2. ~SendNext(s, n)
      BY <1>8, <3>1 DEF SendNext
    <3>3. UNCHANGED <<endpoint, sent>>
      BY <1>2, <3>2
    <3>4. endpoint'[s][n] = NoSub
      BY <1>8, <2>1, <3>3
    <3>5. QED
      BY <3>4 DEF Closes
  <2>2. CASE e # NoSub
    <3>1. PICK f \in Flows : f = e.flow
      BY <1>6, <1>8, <2>2, EndPoints
    <3>2. PICK k \in Nat : k = e.next
      BY <1>6, <1>8, <2>2, EndPoints, FanoutBounds
    <3>3. NumberOf(f, i - 1) <= Count(f) /\ NumberOf(f, i - 1) \in Nat /\ Count(f) \in Nat
      BY Before
    <3>4. c.start <= k /\ (c.start < k => k <= Count(f)) /\ \A no \in c.start + 1 .. k : Gone(s, n, no)
      BY <1>5, <1>8, <1>9, <2>2, <3>1, <3>2 DEF Closes
    <3>5. CASE SendNext(s, n) /\ closing' = [closing EXCEPT ![n].open = Holds(f, k)]
      <4>1. endpoint'[s][n] = [e EXCEPT !.next = @ + 1]
        BY <1>6, <1>8, <3>5, SendNextWrites
      <4>2. k + 1 <= Count(f) /\ \A no : no = k + 1 \/ Gone(s, n, no) => Gone(s, n, no)'
        <5>1. /\ Unsent(endpoint[s][n]) > 0 /\ endpoint'[s][n] = [endpoint[s][n] EXCEPT !.next = @ + 1]
              /\ sent'[s][n] = sent[s][n] \o Found(endpoint[s][n])
          BY <1>6, <3>5, SendNextWrites
        <5>2. QED
          BY <1>1, <1>8, <3>1, <3>2, <5>1, PublishSendServes
      <4>3. closing'[n].start = c.start /\ closing'[n].open = Holds(f, k)
        BY <1>4, <1>9, <3>5
      <4>4. PICK d : d = [e EXCEPT !.next = @ + 1]
        OBVIOUS
      <4>5. endpoint'[s][n] = d /\ d.next = k + 1 /\ d.flow = f
        <5>1. e \in [flow : Flows, next : 0 .. MaxPublished, from : 1 .. dispatched]
          BY <1>6, <1>8, <2>2 DEF FanTypeOK
        <5>2. QED
          BY <3>1, <3>2, <4>1, <4>4, <5>1
      <4>6. Count(d.flow)' = Count(f) /\ (Holds(d.flow, d.next - 1)' <=> Holds(f, k))
        <5>1. d.next - 1 = k
          BY <4>5
        <5>2. QED
          BY <1>1, <4>5, <5>1 DEF Count, Holds, FirstID, Room, Over
      <4>7. ASSUME NEW no \in c.start + 1 .. k + 1
            PROVE  Gone(s, n, no)'
        <5>1. no = k + 1 \/ no \in c.start + 1 .. k
          BY <1>10
        <5>2. QED
          BY <3>4, <4>2, <5>1
      <4>8. c.start < k + 1
        BY <1>10, <3>4
      <4>9. /\ Count(endpoint[s][n].flow)' = Count(d.flow)'
            /\ Holds(endpoint[s][n].flow, endpoint[s][n].next - 1)' <=> Holds(d.flow, d.next - 1)'
        BY <4>5 DEF Count, Holds, FirstID, Room, Over
      <4>10. QED
        BY <1>10, <4>2, <4>3, <4>5, <4>6, <4>7, <4>8, <4>9 DEF Closes
    <3>6. CASE Unsent(e) = 0 /\ closing' = [closing EXCEPT ![n].open = FALSE] /\ UNCHANGED <<endpoint, sent>>
      <4>1. Count(f) <= k
        BY <2>2, <3>1, <3>2, <3>3, <3>6 DEF Unsent, Higher
      <4>2. NumberOf(f, i - 1) <= k
        BY <3>3, <4>1
      <4>3. closing'[n].start = c.start /\ endpoint'[s][n] = e
        BY <1>4, <1>8, <1>9, <3>6
      <4>4. /\ NumberOf(endpoint[s][n].flow, i - 1)' = NumberOf(f, i - 1) /\ Count(endpoint[s][n].flow)' = Count(f)
            /\ \A no : Gone(s, n, no)' <=> Gone(s, n, no)
        BY <1>1, <1>8, <3>1, <3>6 DEF NumberOf, Wanted, Belongs, Count, Gone, NumbersSent, Holds, FirstID, Room, Over
      <4>5. QED
        BY <3>2, <3>4, <4>2, <4>3, <4>4 DEF Closes
    <3>7. QED
      BY <1>2, <1>8, <3>1, <3>2, <3>5, <3>6
  <2>3. QED
    BY <2>1, <2>2
<1>12. QED
  BY <1>5, <1>7, <1>11, ClosingAgain

LEMMA FanInitHolds ==
  ASSUME FanInit
  PROVE  FanInv /\ ClosingRight
<1>1. \A S : <<>> \in Seq(S) /\ Len(<<>>) = 0 /\ DOMAIN <<>> = {}
  BY EmptySeq
<1>2. \A f \in Flows : log[f] = <<>> /\ Count(f) = 0
  BY <1>1 DEF FanInit, Count
<1>3. MaxPublished \in Nat /\ Len(results) = 0 /\ Len(front) = 0
  BY <1>1, FanoutBounds DEF FanInit
<1>4. FanTypeOK
  <2>1. results \in Seq(Result) /\ front \in Seq((1 .. dispatched) \X Int) /\ log \in [Flows -> Seq(0 .. Len(results))]
    BY <1>1 DEF FanInit
  <2>2. dispatched \in 0 .. Len(results) /\ handled \in 0 .. Len(front)
    BY <1>3 DEF FanInit
  <2>3. work \subseteq Flows /\ registered \subseteq Topic /\ sessions \subseteq Session /\ closing \in LastBatches
    BY DEF FanInit, LastBatches
  <2>4. endpoint \in [Session -> [Local -> EndPoint(dispatched)]]
    BY DEF FanInit, EndPoint
  <2>5. sent \in [Session -> [Local -> Sent(dispatched)]]
    BY <1>1 DEF FanInit, Sent
  <2>6. \A f \in Flows : Count(f) <= MaxPublished
    BY <1>2, <1>3
  <2>7. QED
    BY <2>1, <2>2, <2>3, <2>4, <2>5, <2>6 DEF FanTypeOK, Result, EndPoint, Sent, LastBatches
<1>5. Cardinality(Published) <= MaxPublished
  <2>1. DOMAIN results = {}
    BY <1>1 DEF FanInit
  <2>2. Published = {}
    BY <2>1 DEF Published
  <2>3. QED
    BY <1>3, <2>2, FS_EmptySet
<1>6. ASSUME NEW f \in Flows
      PROVE  LogRight(f)
  <2>1. Appended(f) = 0
    BY DEF FanInit, Appended
  <2>2. Wanted(f, 0) = {}
    BY DEF Wanted
  <2>3. NumberOf(f, 0) = 0
    BY <2>2, FS_EmptySet DEF NumberOf
  <2>4. Keeping(f)
    BY <1>2 DEF Keeping
  <2>5. QED
    BY <1>2, <2>1, <2>3, <2>4 DEF LogRight
<1>7. WorkRight /\ FrontRight
  BY <1>1, <1>2 DEF FanInit, WorkRight, FrontRight
<1>8. \A s \in Session, n \in Local : Served(s, n)
  BY DEF FanInit, Served
<1>9. ClosingRight
  BY DEF FanInit, ClosingRight, Closing
<1>10. QED
  BY <1>4, <1>5, <1>6, <1>7, <1>8, <1>9 DEF FanInv

LEMMA FanNextKeeps ==
  ASSUME FanInv, ClosingRight, [FanNext]_fanVars
  PROVE  FanInv' /\ ClosingRight'
<1>1. CASE \E k \in Kinds : Publish(k)
  BY <1>1, PublishKeeps, MatchingCloses
<1>2. CASE \E r \in Requests : Request(r)
  BY <1>2, RequestKeeps, MatchingCloses
<1>3. CASE ToFront
  BY <1>3, ToFrontKeeps, DispatcherCloses DEF Dispatch
<1>4. CASE ToTopics
  BY <1>4, ToTopicsKeeps, DispatcherCloses DEF Dispatch
<1>5. CASE \E f \in Flows : AppendNext(f)
  BY <1>5, AppendNextKeeps, DispatcherCloses DEF Dispatch
<1>6. CASE SubTopic
  BY <1>6, SubTopicKeeps, FrontCloses
<1>7. CASE UnSubTopic
  BY <1>7, UnSubTopicKeeps, FrontCloses
<1>8. CASE DeleteSession
  BY <1>8, DeleteSessionKeeps, DeleteSessionCloses
<1>9. CASE \E n \in Local : SendLast(n)
  BY <1>9, SendLastKeeps, SendLastCloses
<1>10. CASE Disconnect
  BY <1>10, DisconnectKeeps, FrontCloses
<1>11. CASE \E s \in Session : SessionLost(s)
  BY <1>11, SessionLostKeeps, FrontCloses
<1>12. CASE \E s \in Session : \E n \in Local : PublishSend(s, n)
  BY <1>12, PublishSendKeeps, FrontCloses
<1>13. CASE UNCHANGED fanVars
  BY <1>13, FanoutStutters, MatchingCloses
<1>14. QED
  BY <1>1, <1>2, <1>3, <1>4, <1>5, <1>6, <1>7, <1>8, <1>9, <1>10, <1>11, <1>12, <1>13 DEF FanNext

\* Whatever the two threads do, every flow holds its messages under their numbers,
\* every request has its number, and every end point has sent or passed over what
\* lies behind it, also while the last batch of its session is sent.
THEOREM FanHolds == FanSpec => [](FanInv /\ ClosingRight)
<1>1. FanInit => FanInv /\ ClosingRight
  BY FanInitHolds
<1>2. FanInv /\ ClosingRight /\ [FanNext]_fanVars => FanInv' /\ ClosingRight'
  BY FanNextKeeps
<1>3. QED
  BY <1>1, <1>2, PTL DEF FanSpec

LEMMA SentInOrder == FanInv => DeliveredInOrder
<1>1. SUFFICES ASSUME FanInv, NEW s \in Session, NEW n \in Local, endpoint[s][n] # NoSub
               PROVE  LET e == endpoint[s][n]
                          q == sent[s][n]
                      IN  /\ \A i \in DOMAIN q : q[i][2] \in Wanted(e.flow, Len(results)) /\ q[i][1] = NumberOf(e.flow, q[i][2])
                          /\ \A i \in 1 .. Len(q) - 1 :
                               /\ q[i][1] < q[i + 1][1]
                               /\ \A no \in q[i][1] + 1 .. q[i + 1][1] - 1 : ~Holds(e.flow, no - 1)
  <2>1. FanInv => FanTypeOK /\ sessions \subseteq Session
    BY DEF FanInv, FanTypeOK
  <2>2. FanInv => \A p \in Subscriptions : p[1] \in Session /\ p[2] \in Local /\ endpoint[p[1]][p[2]] # NoSub
    BY <2>1 DEF Subscriptions
  <2>3. QED
    BY <2>1, <2>2 DEF DeliveredInOrder
<1>2. PICK q : q = sent[s][n]
  OBVIOUS
<1>3. PICK e : e = endpoint[s][n]
  OBVIOUS
<1>4. FanTypeOK /\ WorkRight /\ Served(s, n) /\ \A g \in Flows : LogRight(g)
  BY <1>1 DEF FanInv
<1>5. PICK f \in Flows : f = e.flow
  BY <1>1, <1>3, <1>4, EndPoints
<1>6. PICK c \in Nat : c = e.next
  BY <1>1, <1>3, <1>4, EndPoints, FanoutBounds
<1>7. /\ q # <<>> => c <= Count(f)
      /\ \A i \in DOMAIN q : q[i][1] \in 1 .. c /\ q[i][2] = Get(f, q[i][1] - 1)
      /\ \A i, j \in DOMAIN q : i < j => q[i][1] < q[j][1]
      /\ \A i \in DOMAIN q : \A no \in q[i][1] .. c : Gone(s, n, no)
  BY <1>1, <1>2, <1>3, <1>4, <1>5, <1>6 DEF Served, Sending
<1>8. DOMAIN q = 1 .. Len(q) /\ Len(q) \in Nat /\ (q = <<>> <=> DOMAIN q = {})
  BY <1>2, <1>4, EndPoints
<1>9. Count(f) \in Nat /\ dispatched \in 0 .. Len(results) /\ Len(results) \in Nat /\ dispatched \in Nat
  BY <1>4, Domains
<1>10. ASSUME NEW i \in DOMAIN q
       PROVE  q[i][2] \in Wanted(f, Len(results)) /\ q[i][1] = NumberOf(f, q[i][2])
  <2>1. PICK m : m = q[i][1]
    OBVIOUS
  <2>2. m \in 1 .. Count(f)
    BY <1>6, <1>7, <1>8, <1>9, <2>1
  <2>3. m - 1 \in 0 .. Count(f) - 1 /\ m - 1 + 1 = m
    BY <1>9, <2>2
  <2>4. q[i][2] \in Wanted(f, Appended(f)) /\ NumberOf(f, q[i][2]) = m /\ Appended(f) \in 0 .. dispatched
    BY <1>4, <1>7, <2>1, <2>3, Counts
  <2>5. Wanted(f, Appended(f)) \subseteq Wanted(f, Len(results))
    BY <1>9, <2>4 DEF Wanted
  <2>6. QED
    BY <2>1, <2>4, <2>5
<1>11. ASSUME NEW i \in 1 .. Len(q) - 1
       PROVE  /\ q[i][1] < q[i + 1][1]
              /\ \A no \in q[i][1] + 1 .. q[i + 1][1] - 1 : ~Holds(f, no - 1)
  <2>1. PICK j : j = i + 1
    OBVIOUS
  <2>2. i \in DOMAIN q /\ j \in DOMAIN q /\ i < j
    BY <1>8, <2>1
  <2>3. q[i][1] < q[j][1] /\ q[i][1] \in 1 .. c /\ q[j][1] \in 1 .. c
    BY <1>7, <2>2
  <2>4. ASSUME NEW no \in q[i][1] + 1 .. q[j][1] - 1
        PROVE  ~Holds(f, no - 1)
    <3>1. no \in q[i][1] .. c /\ no \in Int /\ q[i][1] < no /\ no < q[j][1]
      BY <1>6, <2>3
    <3>2. Gone(s, n, no)
      BY <1>7, <2>2, <3>1
    <3>3. ASSUME no \in NumbersSent(s, n)
          PROVE  FALSE
      <4>1. PICK k \in DOMAIN q : q[k][1] = no
        BY <1>2, <3>3 DEF NumbersSent
      <4>2. k < i \/ k = i \/ k = j \/ j < k
        BY <1>8, <2>1, <2>2
      <4>3. ~(k < i) /\ ~(j < k)
        <5>1. k < i => no < q[i][1]
          BY <1>7, <2>2, <4>1
        <5>2. j < k => q[j][1] < no
          BY <1>7, <2>2, <4>1
        <5>3. QED
          BY <2>3, <3>1, <5>1, <5>2
      <4>4. QED
        BY <2>3, <3>1, <4>1, <4>2, <4>3
    <3>4. QED
      BY <1>3, <1>5, <3>2, <3>3 DEF Gone
  <2>5. QED
    BY <2>1, <2>3, <2>4
<1>12. QED
  BY <1>2, <1>3, <1>5, <1>10, <1>11

\* Every session is sent the messages of its flows under their numbers, in order,
\* none twice and none left out but those that are no longer held, although the
\* dispatcher appends to a topic and its indexes one after the other.
THEOREM DeliveredRight == FanSpec => []DeliveredInOrder
BY FanHolds, SentInOrder, PTL

LEMMA Begins == FanInv => BeginsWhereAsked
<1>1. SUFFICES ASSUME FanInv, NEW s \in Session, NEW n \in Local, endpoint[s][n] # NoSub, ~Misled(endpoint[s][n])
               PROVE  LET e == endpoint[s][n]
                      IN  /\ e.next <= Count(e.flow)
                          /\ \A no \in Due(e) + 1 .. e.next : no \in NumbersSent(s, n) \/ ~Holds(e.flow, no - 1)
                          /\ results[e.from].number <= 0 => \A no \in NumbersSent(s, n) : no > Due(e)
  <2>1. FanInv => sessions \subseteq Session
    BY DEF FanInv, FanTypeOK
  <2>2. FanInv => \A p \in Subscriptions : p[1] \in Session /\ p[2] \in Local /\ endpoint[p[1]][p[2]] # NoSub
    BY <2>1 DEF Subscriptions
  <2>3. QED
    BY <2>2 DEF BeginsWhereAsked
<1>2. Served(s, n)
  BY <1>1 DEF FanInv
<1>3. QED
  BY <1>1, <1>2 DEF Served, Beginnings, Gone

\* A subscription begins where it was asked to when the results were ordered, for
\* any number of results that lie between the two threads.
THEOREM BeginsRight == FanSpec => []BeginsWhereAsked
BY FanHolds, Begins, PTL

\* The entries of an index increase, so that what is held of a flow is its end.
LEMMA HeldFrom ==
  ASSUME FanInv, NEW f \in Flows, NEW id \in 0 .. Count(f) - 1, NEW jd \in id .. Count(f) - 1, Holds(f, id)
  PROVE  Holds(f, jd)
<1>1. FanTypeOK /\ WorkRight /\ \A g \in Flows : LogRight(g)
  BY DEF FanInv
<1>2. /\ Count(f) \in Nat /\ FirstID(f) \in Nat /\ id \in Nat /\ jd \in Nat /\ id <= jd
      /\ id + 1 \in 1 .. Count(f) /\ jd + 1 \in 1 .. Count(f) /\ jd \in 0 .. Count(f) - 1
  <2>1. Count(f) \in Nat /\ FirstID(f) \in 0 .. Count(f)
    BY <1>1, Domains, Rooms
  <2>2. QED
    BY <2>1
<1>3. jd >= FirstID(f)
  BY <1>2 DEF Holds
<1>4. CASE f[2] = NoIndex
  BY <1>3, <1>4 DEF Holds
<1>5. CASE f[2] # NoIndex
  <2>1. PICK g \in Flows : g = Over(f) /\ g[2] = NoIndex
    BY FlowParts
  <2>2. PICK a : a = log[f][id + 1]
    OBVIOUS
  <2>3. PICK b : b = log[f][jd + 1]
    OBVIOUS
  <2>4. Count(g) \in Nat /\ a \in 0 .. Count(g) - 1 /\ b \in 0 .. Count(g) - 1
    BY <1>1, <1>2, <1>5, <2>1, <2>2, <2>3, Domains DEF LogRight, Keeping
  <2>5. FirstID(g) \in Nat /\ a >= FirstID(g)
    <3>1. a \in FirstID(g) .. Count(g) - 1
      BY <1>5, <2>1, <2>2 DEF Holds
    <3>2. FirstID(g) \in 0 .. Count(g)
      BY <2>4, Rooms
    <3>3. QED
      BY <2>4, <3>1, <3>2
  <2>6. PICK x : x = Get(f, id)
    OBVIOUS
  <2>7. PICK y : y = Get(f, jd)
    OBVIOUS
  <2>8. x = Get(g, a) /\ y = Get(g, b)
    BY <1>5, <2>1, <2>2, <2>3, <2>6, <2>7 DEF Get
  <2>9. x \in Wanted(f, Appended(f)) /\ NumberOf(f, x) = id + 1 /\ y \in Wanted(f, Appended(f)) /\ NumberOf(f, y) = jd + 1
    BY <1>1, <1>2, <2>6, <2>7, Counts
  <2>10. NumberOf(g, x) = a + 1 /\ NumberOf(g, y) = b + 1
    BY <1>1, <2>4, <2>8, Counts
  <2>11. x \in Nat /\ y \in Nat
    BY <2>9 DEF Wanted
  <2>12. x <= y => NumberOf(g, x) <= NumberOf(g, y)
    <3>1. x <= y => x \in 0 .. y
      BY <2>11
    <3>2. QED
      BY <2>11, <3>1, Numbering
  <2>13. y <= x => NumberOf(f, y) <= NumberOf(f, x)
    <3>1. y <= x => y \in 0 .. x
      BY <2>11
    <3>2. QED
      BY <2>11, <3>1, Numbering
  <2>14. a <= b
    <3>1. CASE x <= y
      BY <2>4, <2>10, <2>12, <3>1
    <3>2. CASE y <= x
      <4>1. id = jd
        BY <1>2, <2>9, <2>13, <3>2
      <4>2. QED
        BY <2>2, <2>3, <2>4, <4>1
    <3>3. QED
      BY <2>11, <3>1, <3>2
  <2>15. b \in FirstID(g) .. Count(g) - 1
    BY <2>4, <2>5, <2>14
  <2>16. QED
    BY <1>3, <2>1, <2>3, <2>15 DEF Holds
<1>6. QED
  BY <1>4, <1>5

LEMMA LastBatchRight == FanInv /\ ClosingRight => LogoutComplete
<1>1. SUFFICES ASSUME FanInv, ClosingRight, Closing, NEW n \in Local, endpoint[Leaving][n] # NoSub, ~Looping(n),
                      NEW no \in closing[n].start + 1 ..
                        Lower(closing[n].start + Batch, NumberOf(endpoint[Leaving][n].flow, Entry[1] - 1)),
                      no \notin NumbersSent(Leaving, n), Holds(endpoint[Leaving][n].flow, closing[n].start)
               PROVE  FALSE
  BY DEF LogoutComplete
<1>2. PICK s \in Session : s = Leaving
  BY <1>1, OrderRight
<1>3. PICK i \in 1 .. dispatched : i = Entry[1]
  BY <1>1, OrderRight
<1>4. PICK e : e = endpoint[s][n]
  OBVIOUS
<1>5. PICK c : c = closing[n]
  OBVIOUS
<1>6. PICK f \in Flows : f = e.flow
  BY <1>1, <1>2, <1>4, EndPoints DEF FanInv
<1>7. PICK k \in Nat : k = e.next
  BY <1>1, <1>2, <1>4, EndPoints, FanoutBounds DEF FanInv
<1>8. PICK b \in Nat : b = c.start
  BY <1>1, <1>5, OrderRight
<1>9. PICK w \in Nat : w = NumberOf(f, i - 1)
  BY <1>1, Before
<1>10. w <= Count(f) /\ Count(f) \in Nat /\ Batch \in Nat
  BY <1>1, <1>9, Before, FanoutBounds
<1>11. no \in Nat /\ b < no /\ no <= b + Batch /\ no <= w
  <2>1. no \in b + 1 .. Lower(b + Batch, w)
    BY <1>1, <1>2, <1>3, <1>4, <1>5, <1>6, <1>8, <1>9
  <2>2. QED
    BY <1>10, <2>1 DEF Lower
<1>12. /\ b <= k /\ (b < k => k <= Count(f)) /\ (\A m \in b + 1 .. k : Gone(s, n, m))
       /\ c.open \/ w <= k \/ (b < k /\ ~Holds(f, k - 1))
  BY <1>1, <1>2, <1>3, <1>4, <1>5, <1>6, <1>7, <1>8, <1>9 DEF ClosingRight, Closes
<1>13. \A id \in b .. Count(f) - 1 : Holds(f, id)
  <2>1. b \in 0 .. Count(f) - 1 /\ Holds(f, b)
    BY <1>1, <1>2, <1>4, <1>5, <1>6, <1>8, <1>10, <1>11
  <2>2. QED
    BY <1>1, <2>1, HeldFrom
<1>14. CASE no <= k
  <2>1. no - 1 \in b .. Count(f) - 1 /\ no \in b + 1 .. k
    BY <1>10, <1>11, <1>12, <1>14
  <2>2. QED
    BY <1>1, <1>2, <1>4, <1>6, <1>12, <1>13, <2>1 DEF Gone
<1>15. CASE k < no
  <2>1. ~c.open
    BY <1>1, <1>2, <1>4, <1>5, <1>7, <1>8, <1>10, <1>11, <1>15 DEF Looping
  <2>2. b < k /\ ~Holds(f, k - 1)
    BY <1>11, <1>12, <1>15, <2>1
  <2>3. k - 1 \in b .. Count(f) - 1
    BY <1>10, <1>12, <2>2
  <2>4. QED
    BY <1>13, <2>2, <2>3
<1>16. QED
  BY <1>11, <1>14, <1>15

\* Whoever is logged out by the application has been sent all that was published
\* before, but for the batch, unless the flow lets go of the message that was to
\* be the next: at the moment the order to end the session comes out of the flow
\* of the front, the dispatcher has appended all of it, and what is held of a flow
\* is its end, so that the loop stops at no message but the first.
THEOREM LogoutSendsAll == FanSpec => []LogoutComplete
BY FanHolds, LastBatchRight, PTL
=============================================================================
