----------------------- MODULE SequencerThreadsProofs -----------------------
(***************************************************************************)
(* Proofs about the two threads of an active node, for any number of       *)
(* messages and takeovers.                                                 *)
(***************************************************************************)
EXTENDS SequencerThreads, SequenceTheorems, TLAPS

-----------------------------------------------------------------------------
(* The inductive invariant.                                                *)

\* The statements of a call for one key, from the confirmation on, and those that
\* deal with the entry of CPubFlow.
Releasing == {"publishPending", "clearResult", "clearSeries"}
Acknowledging == {"ack", "testPending", "testKey"} \union Releasing

\* What this node has persisted, or a standby has answered for.
IsStored(n) == n <= UnderCount \/ n <= stored

\* Lengths, and the states a call can be in, whatever the threads do.
Calls ==
  /\ \A t \in Threads : pc[t] \in Confirming => key[t] < pre
  /\ noAckSeries <= pre /\ noAckResult <= pre /\ ack <= pre
  /\ stored <= pre /\ standby <= pre
  /\ mode = "init" => pc.sequencer = "idle"
  /\ pc.sequencer \in Looping => mode = "single"
  /\ (\A t \in Threads : pc[t] \in Confirming) => overlapped

\* A call under way appends the key that comes next; the loop of a thread is
\* never beyond what is persisted, an answer of a standby never beyond what that
\* has stored.
Keys ==
  /\ \A t \in Threads : pc[t] = "syncAppend" => key[t] = UnderCount
  /\ pc.kernel \in Confirming \union {"loopTest"} => key.kernel <= UnderCount
  /\ pc.kernel \in Acknowledging => key.kernel < UnderCount
  /\ mode = "single" =>
       /\ pc.sequencer \in Confirming \union {"loopTest"} => key.sequencer <= UnderCount
       /\ pc.sequencer \in Acknowledging => key.sequencer < UnderCount
  /\ mode = "primary" /\ pc.sequencer \in Confirming => key.sequencer < stored

\* The entry of CPubFlow belongs to one thread at a time, and is released for
\* what has been stored.
Entry ==
  /\ noAckResult <= noAckSeries
  /\ pc.kernel \in {"check", "publish", "storeSeries"} => noAckSeries < 0
  /\ pc.kernel \in {"storeSeries", "storeResult"} => ack < pre
  /\ pc.kernel = "storeResult" => noAckSeries = pre
  /\ pc.sequencer \in Releasing => pc.kernel # "storeResult"
  /\ \A t \in Threads : /\ pc[t] \in {"testKey"} \union Releasing => noAckSeries >= 0
                        /\ pc[t] \in Releasing => IsStored(noAckSeries)
                        /\ pc[t] = "clearSeries" => noAckResult < 0

Stored ==
  /\ IsStored(ack) /\ IsStored(published)
  /\ pc.kernel = "publish" => IsStored(pre)

SequencerInv ==
  /\ TypeOK /\ Calls
  /\ ~overlapped => TradeIsPrefix /\ Keys /\ Entry /\ Stored

-----------------------------------------------------------------------------
(* A step of a thread.                                                     *)

KernelPC == {"append", "mode", "spin", "check", "publish", "storeSeries", "storeResult"}
              \union Confirming \union Looping
SequencerPC == {"idle"} \union Confirming \union Looping

LEMMA StepFacts ==
  ASSUME pc \in PC, NEW t \in Threads, NEW from, NEW to, Step(t, from, to),
         t = "kernel" => to \in KernelPC, t = "sequencer" => to \in SequencerPC
  PROVE  /\ pc[t] = from /\ pc'[t] = to /\ pc' \in PC
         /\ \A u \in Threads : u # t => pc'[u] = pc[u]
         /\ overlapped => overlapped'
         /\ (\A u \in Threads : pc'[u] \in Confirming) => overlapped'
<1>1. pc[t] = from /\ pc' = [pc EXCEPT ![t] = to]
  BY DEF Step
<1>2. CASE t = "kernel"
  BY <1>1, <1>2 DEF PC, KernelPC, Threads, Step
<1>3. CASE t = "sequencer"
  BY <1>1, <1>3 DEF PC, SequencerPC, Threads, Step
<1>4. QED
  BY <1>2, <1>3 DEF Threads

LEMMA Words ==
  ASSUME TypeOK, NEW t \in Threads
  PROVE  /\ pc \in PC /\ key \in [Threads -> Nat] /\ key[t] \in Nat
         /\ pre \in Nat /\ pre <= MaxMessages /\ MaxMessages \in Nat
         /\ trade \in Seq(0 .. MaxMessages - 1) /\ UnderCount \in Nat
         /\ ack \in Int /\ published \in Int /\ noAckSeries \in Int /\ noAckResult \in Int
         /\ standby \in Int /\ stored \in Nat
<1>1. trade \in Seq(0 .. MaxMessages - 1)
  BY DEF TypeOK
<1>2. UnderCount \in Nat
  BY <1>1, LenProperties DEF UnderCount
<1>3. MaxMessages \in Nat
  BY SequencerBounds
<1>4. QED
  BY <1>1, <1>2, <1>3 DEF TypeOK

\* The call for one key returns.
LEMMA CallsReturn ==
  ASSUME TypeOK, Calls, NEW t \in Threads, NEW from \in Confirming,
         Step(t, from, AfterKey(t)), Advance(t), UNCHANGED <<pre, ack, noAckResult, node>>,
         noAckSeries' <= pre
  PROVE  Calls'
<1>1. /\ pc \in PC /\ key \in [Threads -> Nat] /\ pre \in Nat
      /\ noAckSeries \in Int /\ noAckResult \in Int /\ ack \in Int
  BY Words
<1>2. AfterKey(t) \in {"idle", "loopTest"} /\ (t = "kernel" => AfterKey(t) = "loopTest")
      /\ (t = "sequencer" => (AfterKey(t) = "idle" <=> mode = "primary"))
  BY DEF AfterKey
<1>3. t = "sequencer" => mode \in {"single", "primary"}
  BY DEF Calls, Step, TypeOK, Confirming
<1>4. /\ pc[t] = from /\ pc'[t] = AfterKey(t) /\ pc' \in PC
      /\ \A u \in Threads : u # t => pc'[u] = pc[u]
      /\ overlapped => overlapped'
      /\ (\A u \in Threads : pc'[u] \in Confirming) => overlapped'
  BY <1>1, <1>2, StepFacts DEF KernelPC, SequencerPC, Confirming, Looping
<1>5. pc'[t] \notin Confirming /\ \A u \in Threads : u # t => key'[u] = key[u]
  BY <1>1, <1>2, <1>4 DEF Advance, Confirming
<1>6. \A u \in Threads : pc'[u] \in Confirming => key'[u] < pre'
  BY <1>4, <1>5 DEF Calls
<1>7. mode' = "init" => pc'.sequencer = "idle"
  BY <1>3, <1>4 DEF Calls, node, Threads
<1>8. pc'.sequencer \in Looping => mode' = "single"
  BY <1>2, <1>3, <1>4 DEF Calls, node, Threads, Looping
<1>9. noAckSeries' <= pre' /\ noAckResult' <= pre' /\ ack' <= pre' /\ stored' <= pre' /\ standby' <= pre'
  BY DEF Calls, node
<1>10. QED
  BY <1>4, <1>6, <1>7, <1>8, <1>9 DEF Calls

LEMMA CallsConfirm ==
  ASSUME TypeOK, Calls, NEW t \in Threads, Confirm(t)
  PROVE  Calls'
<1>1. /\ pc \in PC /\ key \in [Threads -> Nat] /\ pre \in Nat /\ UnderCount \in Nat
      /\ noAckSeries \in Int /\ noAckResult \in Int /\ ack \in Int /\ key[t] \in Nat
  BY Words
<1> USE <1>1 DEF node, pubflow, KernelPC, SequencerPC, Confirming, Looping, Threads
<1>2. CASE LoopInit(t)
  BY <1>2, StepFacts DEF LoopInit, Calls
<1>3. CASE LoopTest(t)
  BY <1>3, StepFacts DEF LoopTest, Calls
<1>4. CASE CheckUnder(t)
  <2>1. CASE key[t] >= UnderCount
    BY <1>4, <2>1, StepFacts DEF CheckUnder, Calls
  <2>2. CASE key[t] < UnderCount /\ t = "kernel"
    <3>1. Step(t, "checkUnder", "append") /\ Advance(t)
      BY <1>4, <2>2 DEF CheckUnder
    <3>2. key'["sequencer"] = key["sequencer"] /\ pc'["kernel"] = "append"
          /\ pc'["sequencer"] = pc["sequencer"] /\ (overlapped => overlapped')
      BY <2>2, <3>1 DEF Advance, Step, PC
    <3>3. QED
      BY <1>4, <2>2, <3>2 DEF CheckUnder, Calls
  <2>3. CASE key[t] < UnderCount /\ t = "sequencer"
    BY <1>4, <2>3, CallsReturn DEF CheckUnder, Calls
  <2>4. QED
    BY <2>1, <2>2, <2>3
<1>5. CASE SyncTest(t)
  BY <1>5, StepFacts DEF SyncTest, Calls, Advance
<1>6. CASE SyncAppend(t)
  BY <1>6, StepFacts DEF SyncAppend, Calls
<1>7. CASE ConfirmAck(t)
  BY <1>7, StepFacts DEF ConfirmAck, Calls
<1>8. CASE TestPending(t)
  <2>1. CASE noAckSeries >= 0
    BY <1>8, <2>1, StepFacts DEF TestPending, Calls
  <2>2. CASE ~(noAckSeries >= 0)
    BY <1>8, <2>2, CallsReturn DEF TestPending, Calls
  <2>3. QED
    BY <2>1, <2>2
<1>9. CASE TestKey(t)
  <2>1. CASE noAckSeries <= ack
    BY <1>9, <2>1, StepFacts DEF TestKey, Calls
  <2>2. CASE ~(noAckSeries <= ack)
    BY <1>9, <2>2, CallsReturn DEF TestKey, Calls
  <2>3. QED
    BY <2>1, <2>2
<1>10. CASE PublishPending(t)
  BY <1>10, StepFacts DEF PublishPending, Calls
<1>11. CASE ClearResult(t)
  BY <1>11, StepFacts DEF ClearResult, Calls
<1>12. CASE ClearSeries(t)
  <2>1. noAckSeries' <= pre
    BY <1>12 DEF ClearSeries
  <2>2. QED
    BY <1>12, <2>1, CallsReturn DEF ClearSeries
<1>13. QED
  BY <1>2, <1>3, <1>4, <1>5, <1>6, <1>7, <1>8, <1>9, <1>10, <1>11, <1>12 DEF Confirm

LEMMA CallsNext ==
  ASSUME TypeOK, Calls, [Next]_vars
  PROVE  Calls'
<1>1. /\ pc \in PC /\ key \in [Threads -> Nat] /\ pre \in Nat /\ UnderCount \in Nat
      /\ noAckSeries \in Int /\ noAckResult \in Int /\ ack \in Int /\ published \in Int
      /\ stored \in Nat /\ standby \in Int
  BY Words DEF Threads
<1> USE <1>1 DEF node, pubflow, KernelPC, SequencerPC, Confirming, Looping, Threads
<1>2. CASE \E t \in Threads : Confirm(t)
  BY <1>2, CallsConfirm
<1>3. CASE AppendAndHandle
  BY <1>3, StepFacts DEF AppendAndHandle, Calls
<1>4. CASE TestMode
  BY <1>4, StepFacts DEF TestMode, Calls
<1>5. CASE SpinWhilePending
  BY <1>5, StepFacts DEF SpinWhilePending, Calls
<1>6. CASE CheckAck
  BY <1>6, StepFacts DEF CheckAck, Calls
<1>7. CASE PublishNow
  BY <1>7, StepFacts DEF PublishNow, Calls
<1>8. CASE StoreSeries
  BY <1>8, StepFacts DEF StoreSeries, Calls
<1>9. CASE StoreResult
  BY <1>9, StepFacts DEF StoreResult, Calls
<1>10. CASE LoginReq
  BY <1>10 DEF LoginReq, Calls
<1>11. CASE ConfirmRspSingle
  BY <1>11 DEF ConfirmRspSingle, Calls
<1>12. CASE ConfirmRspPrimary
  BY <1>12, StepFacts DEF ConfirmRspPrimary, Calls
<1>13. CASE EnterMaster
  BY <1>13 DEF EnterMaster, Calls
<1>14. CASE EnterSingle
  BY <1>14, StepFacts DEF EnterSingle, Calls
<1>15. CASE UNCHANGED vars
  BY <1>15 DEF vars, Calls
<1>16. QED
  BY <1>2, <1>3, <1>4, <1>5, <1>6, <1>7, <1>8, <1>9, <1>10, <1>11, <1>12, <1>13, <1>14, <1>15
  DEF Next, Kernel, Sequencer

-----------------------------------------------------------------------------
(* Types.                                                                  *)

LEMMA TypeReturn ==
  ASSUME pc \in PC, key \in [Threads -> Nat], NEW t \in Threads, NEW from,
         Step(t, from, AfterKey(t)), Advance(t)
  PROVE  pc' \in PC /\ key' \in [Threads -> Nat]
<1>1. AfterKey(t) \in {"idle", "loopTest"} /\ (t = "kernel" => AfterKey(t) = "loopTest")
  BY DEF AfterKey
<1>2. pc' \in PC
  BY <1>1, StepFacts DEF KernelPC, SequencerPC, Looping
<1>3. key' \in [Threads -> Nat]
  BY DEF Advance
<1>4. QED
  BY <1>2, <1>3

LEMMA TypeConfirm ==
  ASSUME TypeOK, Calls, NEW t \in Threads, Confirm(t)
  PROVE  TypeOK'
<1>1. /\ pc \in PC /\ key \in [Threads -> Nat] /\ key[t] \in Nat /\ pre \in Nat /\ UnderCount \in Nat
      /\ pre <= MaxMessages /\ MaxMessages \in Nat /\ trade \in Seq(0 .. MaxMessages - 1)
      /\ ack \in Int /\ published \in Int /\ noAckSeries \in Int /\ noAckResult \in Int
  BY Words
<1>2. /\ pre' \in 0 .. MaxMessages /\ mode' \in {"init", "single", "primary"}
      /\ standby' \in -1 .. MaxMessages /\ prepared' \in BOOLEAN
      /\ takeovers' \in 0 .. MaxTakeovers /\ stored' \in 0 .. MaxMessages
  BY DEF TypeOK, node, Confirm, LoopInit, LoopTest, CheckUnder, SyncTest, SyncAppend,
         ConfirmAck, TestPending, TestKey, PublishPending, ClearResult, ClearSeries
<1>3. overlapped' \in BOOLEAN
  BY DEF TypeOK, Step, Confirm, LoopInit, LoopTest, CheckUnder, SyncTest, SyncAppend,
         ConfirmAck, TestPending, TestKey, PublishPending, ClearResult, ClearSeries
<1>4. /\ ack' \in Int /\ published' \in Int /\ noAckSeries' \in Int /\ noAckResult' \in Int
  BY <1>1 DEF pubflow, Confirm, LoopInit, LoopTest, CheckUnder, SyncTest, SyncAppend,
         ConfirmAck, TestPending, TestKey, PublishPending, ClearResult, ClearSeries
<1>5. trade' \in Seq(0 .. MaxMessages - 1)
  <2>1. CASE SyncAppend(t)
    <3>1. pc[t] = "syncAppend" /\ trade' = Append(trade, key[t])
      BY <2>1 DEF SyncAppend, Step
    <3>2. key[t] \in 0 .. MaxMessages - 1
      BY <1>1, <3>1 DEF Calls, Confirming
    <3>3. QED
      BY <1>1, <3>1, <3>2, AppendProperties
  <2>2. CASE UNCHANGED trade
    BY <1>1, <2>2
  <2>3. QED
    BY <2>1, <2>2 DEF Confirm, LoopInit, LoopTest, CheckUnder, SyncTest,
       ConfirmAck, TestPending, TestKey, PublishPending, ClearResult, ClearSeries
<1>6. pc' \in PC /\ key' \in [Threads -> Nat]
  <2> USE <1>1 DEF KernelPC, SequencerPC, Confirming, Looping, Threads
  <2>1. CASE LoopInit(t)
    BY <2>1, StepFacts DEF LoopInit
  <2>2. CASE LoopTest(t)
    BY <2>2, StepFacts DEF LoopTest
  <2>3. CASE CheckUnder(t)
    <3>1. CASE key[t] >= UnderCount
      BY <2>3, <3>1, StepFacts DEF CheckUnder
    <3>2. CASE ~(key[t] >= UnderCount) /\ t = "kernel"
      <4>1. Step(t, "checkUnder", "append") /\ Advance(t)
        BY <2>3, <3>2 DEF CheckUnder
      <4>2. pc' \in PC
        BY <3>2, <4>1, StepFacts
      <4>3. key' \in [Threads -> Nat]
        BY <4>1 DEF Advance
      <4>4. QED
        BY <4>2, <4>3
    <3>3. CASE ~(key[t] >= UnderCount) /\ t = "sequencer"
      BY <2>3, <3>3, TypeReturn DEF CheckUnder
    <3>4. QED
      BY <3>1, <3>2, <3>3
  <2>4. CASE SyncTest(t)
    BY <2>4, StepFacts DEF SyncTest, Advance
  <2>5. CASE SyncAppend(t)
    BY <2>5, StepFacts DEF SyncAppend
  <2>6. CASE ConfirmAck(t)
    BY <2>6, StepFacts DEF ConfirmAck
  <2>7. CASE TestPending(t)
    BY <2>7, StepFacts, TypeReturn DEF TestPending
  <2>8. CASE TestKey(t)
    BY <2>8, StepFacts, TypeReturn DEF TestKey
  <2>9. CASE PublishPending(t)
    BY <2>9, StepFacts DEF PublishPending
  <2>10. CASE ClearResult(t)
    BY <2>10, StepFacts DEF ClearResult
  <2>11. CASE ClearSeries(t)
    BY <2>11, TypeReturn DEF ClearSeries
  <2>12. QED
    BY <2>1, <2>2, <2>3, <2>4, <2>5, <2>6, <2>7, <2>8, <2>9, <2>10, <2>11 DEF Confirm
<1>7. QED
  BY <1>2, <1>3, <1>4, <1>5, <1>6 DEF TypeOK

LEMMA TypeNext ==
  ASSUME TypeOK, Calls, [Next]_vars
  PROVE  TypeOK'
<1>1. /\ pc \in PC /\ key \in [Threads -> Nat] /\ pre \in Nat
      /\ noAckSeries \in Int /\ noAckResult \in Int /\ ack \in Int /\ published \in Int
      /\ stored \in Nat /\ standby \in Int /\ pre <= MaxMessages /\ MaxMessages \in Nat
  BY Words DEF Threads
<1>0. stored \in 0 .. MaxMessages
  BY DEF TypeOK
<1> USE <1>1 DEF KernelPC, SequencerPC, Confirming, Looping, Threads
<1>2. CASE \E t \in Threads : Confirm(t)
  BY <1>2, TypeConfirm
<1>3. CASE AppendAndHandle
  <2>1. pc' \in PC /\ overlapped' \in BOOLEAN
    BY <1>3, StepFacts DEF AppendAndHandle, Step
  <2>2. pre' \in 0 .. MaxMessages
    BY <1>3 DEF AppendAndHandle
  <2>3. QED
    BY <1>3, <2>1, <2>2 DEF AppendAndHandle, TypeOK, node, pubflow
<1>4. CASE TestMode
  <2>1. pc' \in PC /\ overlapped' \in BOOLEAN
    BY <1>4, StepFacts DEF TestMode, Step
  <2>2. QED
    BY <1>4, <2>1 DEF TestMode, TypeOK, node, pubflow
<1>5. CASE SpinWhilePending
  <2>1. pc' \in PC /\ overlapped' \in BOOLEAN
    BY <1>5, StepFacts DEF SpinWhilePending, Step
  <2>2. QED
    BY <1>5, <2>1 DEF SpinWhilePending, TypeOK, node, pubflow
<1>6. CASE CheckAck
  <2>1. pc' \in PC /\ overlapped' \in BOOLEAN
    BY <1>6, StepFacts DEF CheckAck, Step
  <2>2. QED
    BY <1>6, <2>1 DEF CheckAck, TypeOK, node, pubflow
<1>7. CASE PublishNow
  <2>1. pc' \in PC /\ overlapped' \in BOOLEAN
    BY <1>7, StepFacts DEF PublishNow, Step
  <2>2. QED
    BY <1>7, <2>1 DEF PublishNow, TypeOK, node
<1>8. CASE StoreSeries
  <2>1. pc' \in PC /\ overlapped' \in BOOLEAN
    BY <1>8, StepFacts DEF StoreSeries, Step
  <2>2. QED
    BY <1>8, <2>1 DEF StoreSeries, TypeOK, node
<1>9. CASE StoreResult
  <2>1. pc' \in PC /\ overlapped' \in BOOLEAN
    BY <1>9, StepFacts DEF StoreResult, Step
  <2>2. QED
    BY <1>9, <2>1 DEF StoreResult, TypeOK, node
<1>10. CASE LoginReq
  <2>1. standby' \in -1 .. MaxMessages
    BY <1>10 DEF LoginReq
  <2>2. QED
    BY <1>10, <2>1 DEF LoginReq, TypeOK, pubflow
<1>11. CASE ConfirmRspSingle
  <2>1. standby' \in -1 .. MaxMessages /\ stored' \in 0 .. MaxMessages
    BY <1>0, <1>11 DEF ConfirmRspSingle
  <2>2. prepared' \in BOOLEAN
    BY <1>11 DEF ConfirmRspSingle, TypeOK
  <2>3. QED
    BY <1>11, <2>1, <2>2 DEF ConfirmRspSingle, TypeOK, pubflow
<1>12. CASE ConfirmRspPrimary
  <2>1. pc' \in PC /\ overlapped' \in BOOLEAN
    BY <1>12, StepFacts DEF ConfirmRspPrimary, Step
  <2>2. standby' \in -1 .. MaxMessages /\ stored' \in 0 .. MaxMessages
    BY <1>0, <1>12 DEF ConfirmRspPrimary
  <2>3. key' \in [Threads -> Nat]
    BY <1>12 DEF ConfirmRspPrimary
  <2>4. QED
    BY <1>12, <2>1, <2>2, <2>3 DEF ConfirmRspPrimary, TypeOK, pubflow
<1>13. CASE EnterMaster
  BY <1>13 DEF EnterMaster, TypeOK, pubflow
<1>14. CASE EnterSingle
  <2>1. pc' \in PC /\ overlapped' \in BOOLEAN
    BY <1>14, StepFacts DEF EnterSingle, Step
  <2>2. takeovers' \in 0 .. MaxTakeovers
    BY <1>14, SequencerBounds DEF EnterSingle, TypeOK
  <2>3. prepared' \in BOOLEAN
    BY <1>14 DEF EnterSingle
  <2>4. standby' \in -1 .. MaxMessages
    BY <1>14 DEF EnterSingle
  <2>5. QED
    BY <1>14, <2>1, <2>2, <2>3, <2>4 DEF EnterSingle, TypeOK, pubflow
<1>15. CASE UNCHANGED vars
  BY <1>15 DEF vars, TypeOK, pubflow
<1>16. QED
  BY <1>2, <1>3, <1>4, <1>5, <1>6, <1>7, <1>8, <1>9, <1>10, <1>11, <1>12, <1>13, <1>14, <1>15
  DEF Next, Kernel, Sequencer

-----------------------------------------------------------------------------
(* Without overlap.                                                        *)

\* What only grows.
LEMMA Growth ==
  ASSUME TypeOK, [Next]_vars
  PROVE  /\ pre <= pre' /\ stored <= stored'
         /\ UnderCount \in Nat /\ UnderCount' \in Nat /\ UnderCount <= UnderCount'
<1>1. /\ pre \in Nat /\ UnderCount \in Nat /\ stored \in Nat /\ standby \in Int
      /\ key \in [Threads -> Nat] /\ trade \in Seq(0 .. MaxMessages - 1)
  BY Words DEF Threads
<1>2. pre <= pre'
  BY <1>1 DEF Next, Kernel, Sequencer, Confirm, LoopInit, LoopTest, CheckUnder, SyncTest,
     SyncAppend, ConfirmAck, TestPending, TestKey, PublishPending, ClearResult, ClearSeries,
     AppendAndHandle, TestMode, SpinWhilePending, CheckAck, PublishNow, StoreSeries,
     StoreResult, LoginReq, ConfirmRspSingle, ConfirmRspPrimary, EnterMaster, EnterSingle,
     vars
<1>3. stored <= stored'
  BY <1>1 DEF Next, Kernel, Sequencer, Confirm, LoopInit, LoopTest, CheckUnder, SyncTest,
     SyncAppend, ConfirmAck, TestPending, TestKey, PublishPending, ClearResult, ClearSeries,
     AppendAndHandle, TestMode, SpinWhilePending, CheckAck, PublishNow, StoreSeries,
     StoreResult, LoginReq, ConfirmRspSingle, ConfirmRspPrimary, EnterMaster, EnterSingle,
     vars, node
<1>4. (\E t \in Threads : trade' = Append(trade, key[t])) \/ trade' = trade
  BY DEF Next, Kernel, Sequencer, Confirm, LoopInit, LoopTest, CheckUnder, SyncTest,
     SyncAppend, ConfirmAck, TestPending, TestKey, PublishPending, ClearResult, ClearSeries,
     AppendAndHandle, TestMode, SpinWhilePending, CheckAck, PublishNow, StoreSeries,
     StoreResult, LoginReq, ConfirmRspSingle, ConfirmRspPrimary, EnterMaster, EnterSingle,
     vars, Threads
<1>5. trade \in Seq(Nat)
  BY <1>1, SequencerBounds
<1>6. UnderCount' = UnderCount \/ UnderCount' = UnderCount + 1
  BY <1>1, <1>4, <1>5, AppendProperties DEF UnderCount
<1>7. QED
  BY <1>1, <1>2, <1>3, <1>6

\* A message is appended to the confirmed series.
LEMMA Appended ==
  ASSUME TypeOK, TradeIsPrefix, NEW k \in Nat, trade' = Append(trade, k), k = UnderCount,
         k < pre, pre' = pre
  PROVE  TradeIsPrefix' /\ UnderCount' = UnderCount + 1
<1>1. trade \in Seq(Nat) /\ UnderCount \in Nat /\ pre \in Nat
  BY Words, SequencerBounds DEF Threads
<1>2. /\ Len(trade') = Len(trade) + 1
      /\ \A i \in 1 .. Len(trade) : trade'[i] = trade[i]
      /\ trade'[Len(trade) + 1] = k
  BY <1>1, AppendProperties
<1>3. UnderCount' = UnderCount + 1
  BY <1>2 DEF UnderCount
<1>4. \A i \in 1 .. UnderCount' : trade'[i] = i - 1
  <2> SUFFICES ASSUME NEW i \in 1 .. UnderCount + 1
               PROVE  trade'[i] = i - 1
    BY <1>3
  <2>1. CASE i \in 1 .. UnderCount
    BY <2>1, <1>1, <1>2 DEF TradeIsPrefix, UnderCount
  <2>2. CASE i = UnderCount + 1
    BY <2>2, <1>1, <1>2 DEF UnderCount
  <2>3. UnderCount \in Int
    BY <1>1
  <2>4. i \in 1 .. UnderCount \/ i = UnderCount + 1
    BY <2>3
  <2>5. QED
    BY <2>1, <2>2, <2>4
<1>5. QED
  BY <1>1, <1>3, <1>4 DEF TradeIsPrefix

LEMMA PrefixNext ==
  ASSUME TypeOK, Calls, TradeIsPrefix, Keys, [Next]_vars
  PROVE  TradeIsPrefix'
<1>1. pre <= pre' /\ UnderCount \in Nat /\ pre \in Nat
  BY Growth, Words DEF Threads
<1>2. CASE trade' = trade
  <2>1. UnderCount' = UnderCount
    BY <1>2 DEF UnderCount
  <2>2. UnderCount' <= pre'
    <3>1. pre' \in Nat
      BY TypeNext DEF TypeOK
    <3>2. QED
      BY <1>1, <2>1, <3>1 DEF TradeIsPrefix
  <2>3. QED
    BY <1>2, <2>1, <2>2 DEF TradeIsPrefix
<1>3. ASSUME NEW t \in Threads, SyncAppend(t)
      PROVE  TradeIsPrefix'
  <2>1. /\ pc[t] = "syncAppend" /\ trade' = Append(trade, key[t]) /\ pre' = pre
    BY <1>3 DEF SyncAppend, Step
  <2>2. key[t] \in Nat /\ key[t] = UnderCount /\ key[t] < pre
    BY <2>1, Words DEF Keys, Calls, Confirming
  <2>3. QED
    BY <2>1, <2>2, Appended
<1>4. trade' = trade \/ \E t \in Threads : SyncAppend(t)
  BY DEF Next, Kernel, Sequencer, Confirm, LoopInit, LoopTest, CheckUnder, SyncTest,
     ConfirmAck, TestPending, TestKey, PublishPending, ClearResult, ClearSeries,
     AppendAndHandle, TestMode, SpinWhilePending, CheckAck, PublishNow, StoreSeries,
     StoreResult, LoginReq, ConfirmRspSingle, ConfirmRspPrimary, EnterMaster, EnterSingle,
     vars, Threads
<1>5. QED
  BY <1>2, <1>3, <1>4

\* The call for one key returns.
LEMMA KeepsReturn ==
  ASSUME TypeOK, Calls, Keys, Entry, Stored, ~overlapped',
         NEW t \in Threads, NEW from \in Confirming,
         Step(t, from, AfterKey(t)), Advance(t),
         UNCHANGED <<pre, trade, ack, published, noAckResult, node>>,
         \/ UNCHANGED noAckSeries
         \/ from = "clearSeries" /\ noAckSeries' = -1,
         (mode = "primary" /\ t = "sequencer") \/ key[t] < UnderCount
  PROVE  Keys' /\ Entry' /\ Stored'
<1>1. /\ pc \in PC /\ key \in [Threads -> Nat] /\ pre \in Nat /\ key[t] \in Nat
      /\ noAckSeries \in Int /\ noAckResult \in Int /\ ack \in Int /\ published \in Int
      /\ UnderCount \in Nat /\ stored \in Nat
  BY Words
<1>2. AfterKey(t) \in {"idle", "loopTest"} /\ (t = "kernel" => AfterKey(t) = "loopTest")
      /\ (t = "sequencer" => (AfterKey(t) = "idle" <=> mode = "primary"))
  BY DEF AfterKey
<1>3. /\ pc[t] = from /\ pc'[t] = AfterKey(t) /\ pc' \in PC
      /\ \A u \in Threads : u # t => pc'[u] = pc[u]
      /\ ~overlapped
  BY <1>1, <1>2, StepFacts DEF KernelPC, SequencerPC, Confirming, Looping
<1>4. /\ key'[t] = key[t] + 1 /\ \A u \in Threads : u # t => key'[u] = key[u]
  BY <1>1 DEF Advance
<1>5. UnderCount' = UnderCount /\ mode' = mode /\ stored' = stored
  BY DEF UnderCount, node
<1>6. \A u \in Threads : u # t => pc[u] \notin Confirming
  BY <1>3 DEF Calls, Threads
<1> USE <1>1, <1>2, <1>3, <1>4, <1>5, <1>6 DEF Threads
<1>7. Keys'
  BY DEF Keys, Confirming, Acknowledging, Releasing
<1>8. Entry'
  <2>1. CASE UNCHANGED noAckSeries
    BY <2>1 DEF Entry, Releasing, IsStored, Confirming
  <2>2. CASE from = "clearSeries" /\ noAckSeries' = -1
    BY <2>2 DEF Entry, Releasing, IsStored, Confirming
  <2>3. QED
    BY <2>1, <2>2
<1>9. Stored'
  BY DEF Stored, IsStored
<1>10. QED
  BY <1>7, <1>8, <1>9

LEMMA KeepsConfirm ==
  ASSUME TypeOK, Calls, TradeIsPrefix, Keys, Entry, Stored, ~overlapped',
         NEW t \in Threads, Confirm(t)
  PROVE  Keys' /\ Entry' /\ Stored'
<1>1. /\ pc \in PC /\ key \in [Threads -> Nat] /\ pre \in Nat /\ key[t] \in Nat
      /\ noAckSeries \in Int /\ noAckResult \in Int /\ ack \in Int /\ published \in Int
      /\ UnderCount \in Nat /\ stored \in Nat
  BY Words
<1>0. pc.sequencer # "idle" => mode \in {"single", "primary"}
  BY DEF TypeOK, Calls
<1> USE <1>1 DEF Threads, node, pubflow
<1>2. CASE LoopInit(t)
  <2>1. /\ pc[t] \in {"loopInit", "loopTest"} \union Confirming
        /\ ~overlapped /\ pc' \in PC
        /\ \A u \in Threads : u # t => pc'[u] = pc[u]
        /\ pc[t] \in Confirming => \A u \in Threads : u # t => pc[u] \notin Confirming
    BY <1>2, StepFacts DEF LoopInit, Calls, KernelPC, SequencerPC, Confirming, Looping
  <2>2. UnderCount' = UnderCount
    BY <1>2 DEF LoopInit, UnderCount
  <2>3. Keys'
    BY <1>2, <2>1, <2>2, StepFacts
    DEF LoopInit, Keys, Confirming, Looping, Acknowledging, Releasing, KernelPC,
        SequencerPC
  <2>4. Entry'
    BY <1>2, <2>1, <2>2, StepFacts
    DEF LoopInit, Entry, Confirming, Looping, Releasing, IsStored, KernelPC,
        SequencerPC
  <2>5. Stored'
    BY <1>2, <2>1, <2>2, StepFacts
    DEF LoopInit, Stored, IsStored, Confirming, Looping, KernelPC, SequencerPC
  <2>6. QED
    BY <2>3, <2>4, <2>5
<1>3. CASE LoopTest(t)
  <2>1. /\ pc[t] \in {"loopInit", "loopTest"} \union Confirming
        /\ ~overlapped /\ pc' \in PC
        /\ \A u \in Threads : u # t => pc'[u] = pc[u]
        /\ pc[t] \in Confirming => \A u \in Threads : u # t => pc[u] \notin Confirming
    BY <1>3, StepFacts DEF LoopTest, Calls, KernelPC, SequencerPC, Confirming, Looping
  <2>2. UnderCount' = UnderCount
    BY <1>3 DEF LoopTest, UnderCount
  <2>3. t = "sequencer" => mode = "single"
    BY <1>0, <1>3 DEF LoopTest, Calls, Step, Looping
  <2>4. Keys'
    BY <1>3, <2>1, <2>2, <2>3, StepFacts
    DEF LoopTest, Keys, Confirming, Looping, Acknowledging, Releasing, KernelPC,
        SequencerPC
  <2>5. Entry'
    BY <1>3, <2>1, <2>2, StepFacts
    DEF LoopTest, Entry, Confirming, Looping, Releasing, IsStored, KernelPC,
        SequencerPC
  <2>6. Stored'
    BY <1>3, <2>1, <2>2, StepFacts
    DEF LoopTest, Stored, IsStored, Confirming, Looping, KernelPC, SequencerPC
  <2>7. QED
    BY <2>4, <2>5, <2>6
<1>4. CASE CheckUnder(t)
  <2>1. CASE key[t] >= UnderCount
    <3>1. /\ pc[t] \in {"loopInit", "loopTest"} \union Confirming
          /\ ~overlapped /\ pc' \in PC
          /\ \A u \in Threads : u # t => pc'[u] = pc[u]
          /\ pc[t] \in Confirming => \A u \in Threads : u # t => pc[u] \notin Confirming
      BY <2>1, <1>4, StepFacts
      DEF CheckUnder, Calls, KernelPC, SequencerPC, Confirming, Looping
    <3>2. UnderCount' = UnderCount
      BY <1>4 DEF CheckUnder, UnderCount
    <3>3. Keys'
      BY <2>1, <1>4, <3>1, <3>2, StepFacts
      DEF CheckUnder, Keys, Confirming, Looping, Acknowledging, Releasing,
          KernelPC, SequencerPC
    <3>4. Entry'
      BY <2>1, <1>4, <3>1, <3>2, StepFacts
      DEF CheckUnder, Entry, Confirming, Looping, Releasing, IsStored, KernelPC,
          SequencerPC
    <3>5. Stored'
      BY <2>1, <1>4, <3>1, <3>2, StepFacts
      DEF CheckUnder, Stored, IsStored, Confirming, Looping, KernelPC,
          SequencerPC
    <3>6. QED
      BY <3>3, <3>4, <3>5
  <2>2. CASE ~(key[t] >= UnderCount)
    <3>1. CASE t = "kernel"
      <4>1. /\ Step(t, "checkUnder", "append") /\ Advance(t)
            /\ UNCHANGED <<pre, trade, pubflow, node>>
        BY <1>4, <2>2, <3>1 DEF CheckUnder
      <4>2. ~overlapped /\ pc' = [pc EXCEPT !["kernel"] = "append"]
        BY <3>1, <4>1 DEF Step
      <4>3. pc'["kernel"] = "append" /\ pc'["sequencer"] = pc["sequencer"] /\ key'["sequencer"] = key["sequencer"]
        BY <3>1, <4>1, <4>2 DEF Advance, PC
      <4>4. UnderCount' = UnderCount
        BY <4>1 DEF UnderCount
      <4>5. QED
        BY <3>1, <4>1, <4>2, <4>3, <4>4
        DEF Keys, Entry, Stored, IsStored, Confirming, Acknowledging, Releasing
    <3>2. CASE t = "sequencer"
      <4>1. Step(t, "checkUnder", AfterKey(t)) /\ Advance(t) /\ key[t] < UnderCount
        BY <1>4, <2>2, <3>2 DEF CheckUnder
      <4>2. "checkUnder" \in Confirming
        BY DEF Confirming
      <4>3. QED
        BY <1>4, <4>1, <4>2, KeepsReturn DEF CheckUnder
    <3>3. QED
      BY <3>1, <3>2
  <2>3. QED
    BY <2>1, <2>2
<1>5. CASE SyncTest(t)
  <2>1. CASE key[t] = UnderCount \/ t = "sequencer"
    <3>1. /\ pc[t] \in {"loopInit", "loopTest"} \union Confirming
          /\ ~overlapped /\ pc' \in PC
          /\ \A u \in Threads : u # t => pc'[u] = pc[u]
          /\ pc[t] \in Confirming => \A u \in Threads : u # t => pc[u] \notin Confirming
      BY <2>1, <1>5, StepFacts
      DEF SyncTest, Calls, KernelPC, SequencerPC, Confirming, Looping
    <3>2. UnderCount' = UnderCount
      BY <1>5 DEF SyncTest, UnderCount
    <3>3. t = "kernel" \/ mode = "single" => key[t] <= UnderCount
      BY <1>0, <1>5 DEF SyncTest, Keys, Step, Confirming
    <3>4. Keys'
      BY <2>1, <1>5, <3>1, <3>2, <3>3, StepFacts
      DEF SyncTest, Keys, Confirming, Looping, Acknowledging, Releasing,
          KernelPC, SequencerPC
    <3>5. Entry'
      BY <2>1, <1>5, <3>1, <3>2, StepFacts
      DEF SyncTest, Entry, Confirming, Looping, Releasing, IsStored, KernelPC,
          SequencerPC
    <3>6. Stored'
      BY <2>1, <1>5, <3>1, <3>2, StepFacts
      DEF SyncTest, Stored, IsStored, Confirming, Looping, KernelPC, SequencerPC
    <3>7. QED
      BY <3>4, <3>5, <3>6
  <2>2. CASE key[t] # UnderCount /\ t = "kernel"
    <3>1. Step(t, "syncTest", AfterKey(t)) /\ Advance(t)
      BY <1>5, <2>2 DEF SyncTest, AfterKey
    <3>2. key[t] < UnderCount
      BY <2>2, <3>1 DEF Keys, Step, Confirming
    <3>3. "syncTest" \in Confirming
      BY DEF Confirming
    <3>4. QED
      BY <1>5, <3>1, <3>2, <3>3, KeepsReturn DEF SyncTest
  <2>3. QED
    BY <2>1, <2>2
<1>6. CASE SyncAppend(t)
  <2>1. /\ pc[t] \in {"loopInit", "loopTest"} \union Confirming
        /\ ~overlapped /\ pc' \in PC
        /\ \A u \in Threads : u # t => pc'[u] = pc[u]
        /\ pc[t] \in Confirming => \A u \in Threads : u # t => pc[u] \notin Confirming
    BY <1>6, StepFacts DEF SyncAppend, Calls, KernelPC, SequencerPC, Confirming, Looping
  <2>2. UnderCount' = UnderCount + 1
    BY Appended, <1>6 DEF SyncAppend, Keys, Calls, Step, Confirming
  <2>3. Keys'
    BY <1>6, <2>1, <2>2, StepFacts
    DEF SyncAppend, Keys, Confirming, Looping, Acknowledging, Releasing, KernelPC,
        SequencerPC
  <2>4. Entry'
    BY <1>6, <2>1, <2>2, StepFacts
    DEF SyncAppend, Entry, Confirming, Looping, Releasing, IsStored, KernelPC,
        SequencerPC
  <2>5. Stored'
    BY <1>6, <2>1, <2>2, StepFacts
    DEF SyncAppend, Stored, IsStored, Confirming, Looping, KernelPC, SequencerPC
  <2>6. QED
    BY <2>3, <2>4, <2>5
<1>7. CASE ConfirmAck(t)
  <2>1. /\ pc[t] \in {"loopInit", "loopTest"} \union Confirming
        /\ ~overlapped /\ pc' \in PC
        /\ \A u \in Threads : u # t => pc'[u] = pc[u]
        /\ pc[t] \in Confirming => \A u \in Threads : u # t => pc[u] \notin Confirming
    BY <1>7, StepFacts DEF ConfirmAck, Calls, KernelPC, SequencerPC, Confirming, Looping
  <2>2. UnderCount' = UnderCount
    BY <1>7 DEF ConfirmAck, UnderCount
  <2>3. key[t] < pre /\ IsStored(key[t])
    BY <1>0, <1>7 DEF ConfirmAck, Calls, Keys, Step, Confirming, Acknowledging, IsStored
  <2>4. Keys'
    BY <1>7, <2>1, <2>2, StepFacts
    DEF ConfirmAck, Keys, Confirming, Looping, Acknowledging, Releasing, KernelPC,
        SequencerPC
  <2>5. Entry'
    BY <1>7, <2>1, <2>2, <2>3, StepFacts
    DEF ConfirmAck, Entry, Confirming, Looping, Releasing, IsStored, KernelPC,
        SequencerPC
  <2>6. Stored'
    BY <1>7, <2>1, <2>2, <2>3, StepFacts
    DEF ConfirmAck, Stored, IsStored, Confirming, Looping, KernelPC, SequencerPC
  <2>7. QED
    BY <2>4, <2>5, <2>6
<1>8. CASE TestPending(t)
  <2>1. CASE noAckSeries >= 0
    <3>1. /\ pc[t] \in {"loopInit", "loopTest"} \union Confirming
          /\ ~overlapped /\ pc' \in PC
          /\ \A u \in Threads : u # t => pc'[u] = pc[u]
          /\ pc[t] \in Confirming => \A u \in Threads : u # t => pc[u] \notin Confirming
      BY <2>1, <1>8, StepFacts
      DEF TestPending, Calls, KernelPC, SequencerPC, Confirming, Looping
    <3>2. UnderCount' = UnderCount
      BY <1>8 DEF TestPending, UnderCount
    <3>3. Keys'
      BY <2>1, <1>8, <3>1, <3>2, StepFacts
      DEF TestPending, Keys, Confirming, Looping, Acknowledging, Releasing,
          KernelPC, SequencerPC
    <3>4. Entry'
      BY <2>1, <1>8, <3>1, <3>2, StepFacts
      DEF TestPending, Entry, Confirming, Looping, Releasing, IsStored,
          KernelPC, SequencerPC
    <3>5. Stored'
      BY <2>1, <1>8, <3>1, <3>2, StepFacts
      DEF TestPending, Stored, IsStored, Confirming, Looping, KernelPC,
          SequencerPC
    <3>6. QED
      BY <3>3, <3>4, <3>5
  <2>2. CASE ~(noAckSeries >= 0)
    <3>1. Step(t, "testPending", AfterKey(t)) /\ Advance(t)
      BY <1>8, <2>2 DEF TestPending
    <3>2. (mode = "primary" /\ t = "sequencer") \/ key[t] < UnderCount
      BY <1>0, <3>1 DEF Keys, Step, Acknowledging
    <3>3. "testPending" \in Confirming
      BY DEF Confirming
    <3>4. QED
      BY <1>8, <3>1, <3>2, <3>3, KeepsReturn DEF TestPending
  <2>3. QED
    BY <2>1, <2>2
<1>9. CASE TestKey(t)
  <2>1. CASE noAckSeries <= ack
    <3>1. /\ pc[t] \in {"loopInit", "loopTest"} \union Confirming
          /\ ~overlapped /\ pc' \in PC
          /\ \A u \in Threads : u # t => pc'[u] = pc[u]
          /\ pc[t] \in Confirming => \A u \in Threads : u # t => pc[u] \notin Confirming
      BY <2>1, <1>9, StepFacts
      DEF TestKey, Calls, KernelPC, SequencerPC, Confirming, Looping
    <3>2. UnderCount' = UnderCount
      BY <1>9 DEF TestKey, UnderCount
    <3>3. Keys'
      BY <2>1, <1>9, <3>1, <3>2, StepFacts
      DEF TestKey, Keys, Confirming, Looping, Acknowledging, Releasing,
          KernelPC, SequencerPC
    <3>4. Entry'
      BY <2>1, <1>9, <3>1, <3>2, StepFacts
      DEF TestKey, Entry, Stored, Confirming, Looping, Releasing, IsStored, KernelPC,
          SequencerPC
    <3>5. Stored'
      BY <2>1, <1>9, <3>1, <3>2, StepFacts
      DEF TestKey, Stored, IsStored, Confirming, Looping, KernelPC, SequencerPC
    <3>6. QED
      BY <3>3, <3>4, <3>5
  <2>2. CASE ~(noAckSeries <= ack)
    <3>1. Step(t, "testKey", AfterKey(t)) /\ Advance(t)
      BY <1>9, <2>2 DEF TestKey
    <3>2. (mode = "primary" /\ t = "sequencer") \/ key[t] < UnderCount
      BY <1>0, <3>1 DEF Keys, Step, Acknowledging
    <3>3. "testKey" \in Confirming
      BY DEF Confirming
    <3>4. QED
      BY <1>9, <3>1, <3>2, <3>3, KeepsReturn DEF TestKey
  <2>3. QED
    BY <2>1, <2>2
<1>10. CASE PublishPending(t)
  <2>1. /\ pc[t] \in {"loopInit", "loopTest"} \union Confirming
        /\ ~overlapped /\ pc' \in PC
        /\ \A u \in Threads : u # t => pc'[u] = pc[u]
        /\ pc[t] \in Confirming => \A u \in Threads : u # t => pc[u] \notin Confirming
    BY <1>10, StepFacts
    DEF PublishPending, Calls, KernelPC, SequencerPC, Confirming, Looping
  <2>2. UnderCount' = UnderCount
    BY <1>10 DEF PublishPending, UnderCount
  <2>3. noAckResult <= noAckSeries /\ IsStored(noAckSeries)
    BY <1>0, <1>10 DEF PublishPending, Entry, Step, Releasing
  <2>4. Keys'
    BY <1>10, <2>1, <2>2, StepFacts
    DEF PublishPending, Keys, Confirming, Looping, Acknowledging, Releasing,
        KernelPC, SequencerPC
  <2>5. Entry'
    BY <1>10, <2>1, <2>2, StepFacts
    DEF PublishPending, Entry, Confirming, Looping, Releasing, IsStored, KernelPC,
        SequencerPC
  <2>6. Stored'
    BY <1>10, <2>1, <2>2, <2>3, StepFacts
    DEF PublishPending, Stored, IsStored, Confirming, Looping, KernelPC,
        SequencerPC
  <2>7. QED
    BY <2>4, <2>5, <2>6
<1>11. CASE ClearResult(t)
  <2>1. /\ pc[t] \in {"loopInit", "loopTest"} \union Confirming
        /\ ~overlapped /\ pc' \in PC
        /\ \A u \in Threads : u # t => pc'[u] = pc[u]
        /\ pc[t] \in Confirming => \A u \in Threads : u # t => pc[u] \notin Confirming
    BY <1>11, StepFacts
    DEF ClearResult, Calls, KernelPC, SequencerPC, Confirming, Looping
  <2>2. UnderCount' = UnderCount
    BY <1>11 DEF ClearResult, UnderCount
  <2>3. Keys'
    BY <1>11, <2>1, <2>2, StepFacts
    DEF ClearResult, Keys, Confirming, Looping, Acknowledging, Releasing,
        KernelPC, SequencerPC
  <2>4. Entry'
    BY <1>11, <2>1, <2>2, StepFacts
    DEF ClearResult, Entry, Confirming, Looping, Releasing, IsStored, KernelPC,
        SequencerPC
  <2>5. Stored'
    BY <1>11, <2>1, <2>2, StepFacts
    DEF ClearResult, Stored, IsStored, Confirming, Looping, KernelPC, SequencerPC
  <2>6. QED
    BY <2>3, <2>4, <2>5
<1>12. CASE ClearSeries(t)
  <2>1. Step(t, "clearSeries", AfterKey(t)) /\ Advance(t)
    BY <1>12 DEF ClearSeries
  <2>2. (mode = "primary" /\ t = "sequencer") \/ key[t] < UnderCount
    BY <1>0, <2>1 DEF Keys, Step, Acknowledging, Releasing
  <2>3. "clearSeries" \in Confirming
    BY DEF Confirming
  <2>4. QED
    BY <1>12, <2>1, <2>2, <2>3, KeepsReturn DEF ClearSeries
<1>13. QED
  BY <1>2, <1>3, <1>4, <1>5, <1>6, <1>7, <1>8, <1>9, <1>10, <1>11, <1>12 DEF Confirm

LEMMA KeepsNext ==
  ASSUME TypeOK, Calls, TradeIsPrefix, Keys, Entry, Stored, ~overlapped', [Next]_vars
  PROVE  Keys' /\ Entry' /\ Stored'
<1>1. /\ pc \in PC /\ key \in [Threads -> Nat] /\ pre \in Nat
      /\ noAckSeries \in Int /\ noAckResult \in Int /\ ack \in Int /\ published \in Int
      /\ UnderCount \in Nat /\ stored \in Nat /\ standby \in Int
  BY Words DEF Threads
<1>2. CASE \E t \in Threads : Confirm(t)
  BY <1>2, KeepsConfirm
<1> USE <1>1 DEF Threads, node, pubflow
<1>3. CASE AppendAndHandle
  <2>1. UnderCount' = UnderCount /\ pc' \in PC /\ pc'["sequencer"] = pc["sequencer"]
    BY <1>3, StepFacts
    DEF AppendAndHandle, UnderCount, KernelPC, SequencerPC, Confirming, Looping
  <2>2. Keys'
    BY <1>3, <2>1, StepFacts
    DEF AppendAndHandle, Keys, Confirming, Looping, Acknowledging, Releasing,
        Calls, KernelPC, SequencerPC
  <2>3. Entry'
    BY <1>3, <2>1, StepFacts
    DEF AppendAndHandle, Entry, Confirming, Looping, Releasing, IsStored, Calls,
        KernelPC, SequencerPC
  <2>4. Stored'
    BY <1>3, <2>1, StepFacts
    DEF AppendAndHandle, Stored, IsStored, Confirming, Looping, Calls, KernelPC,
        SequencerPC
  <2>5. QED
    BY <2>2, <2>3, <2>4
<1>4. CASE TestMode
  <2>1. UnderCount' = UnderCount /\ pc' \in PC /\ pc'["sequencer"] = pc["sequencer"]
    BY <1>4, StepFacts
    DEF TestMode, UnderCount, KernelPC, SequencerPC, Confirming, Looping
  <2>2. Keys'
    BY <1>4, <2>1, StepFacts
    DEF TestMode, Keys, Confirming, Looping, Acknowledging, Releasing, KernelPC,
        SequencerPC
  <2>3. Entry'
    BY <1>4, <2>1, StepFacts
    DEF TestMode, Entry, Confirming, Looping, Releasing, IsStored, KernelPC,
        SequencerPC
  <2>4. Stored'
    BY <1>4, <2>1, StepFacts
    DEF TestMode, Stored, IsStored, Confirming, Looping, KernelPC, SequencerPC
  <2>5. QED
    BY <2>2, <2>3, <2>4
<1>5. CASE SpinWhilePending
  <2>1. UnderCount' = UnderCount /\ pc' \in PC /\ pc'["sequencer"] = pc["sequencer"]
    BY <1>5, StepFacts
    DEF SpinWhilePending, UnderCount, KernelPC, SequencerPC, Confirming, Looping
  <2>2. Keys'
    BY <1>5, <2>1, StepFacts
    DEF SpinWhilePending, Keys, Confirming, Looping, Acknowledging, Releasing,
        KernelPC, SequencerPC
  <2>3. Entry'
    BY <1>5, <2>1, StepFacts
    DEF SpinWhilePending, Entry, Confirming, Looping, Releasing, IsStored,
        KernelPC, SequencerPC
  <2>4. Stored'
    BY <1>5, <2>1, StepFacts
    DEF SpinWhilePending, Stored, IsStored, Confirming, Looping, KernelPC,
        SequencerPC
  <2>5. QED
    BY <2>2, <2>3, <2>4
<1>6. CASE CheckAck
  <2>1. UnderCount' = UnderCount /\ pc' \in PC /\ pc'["sequencer"] = pc["sequencer"]
    BY <1>6, StepFacts
    DEF CheckAck, UnderCount, KernelPC, SequencerPC, Confirming, Looping
  <2>2. Keys'
    BY <1>6, <2>1, StepFacts
    DEF CheckAck, Keys, Confirming, Looping, Acknowledging, Releasing, KernelPC,
        SequencerPC
  <2>3. Entry'
    BY <1>6, <2>1, StepFacts
    DEF CheckAck, Entry, Confirming, Looping, Releasing, IsStored, KernelPC,
        SequencerPC
  <2>4. Stored'
    BY <1>6, <2>1, StepFacts
    DEF CheckAck, Stored, IsStored, Confirming, Looping, KernelPC, SequencerPC
  <2>5. QED
    BY <2>2, <2>3, <2>4
<1>7. CASE PublishNow
  <2>1. UnderCount' = UnderCount /\ pc' \in PC /\ pc'["sequencer"] = pc["sequencer"]
    BY <1>7, StepFacts
    DEF PublishNow, UnderCount, KernelPC, SequencerPC, Confirming, Looping
  <2>2. Keys'
    BY <1>7, <2>1, StepFacts
    DEF PublishNow, Keys, Confirming, Looping, Acknowledging, Releasing, KernelPC,
        SequencerPC
  <2>3. Entry'
    BY <1>7, <2>1, StepFacts
    DEF PublishNow, Entry, Confirming, Looping, Releasing, IsStored, KernelPC,
        SequencerPC
  <2>4. Stored'
    BY <1>7, <2>1, StepFacts
    DEF PublishNow, Stored, IsStored, Confirming, Looping, KernelPC, SequencerPC
  <2>5. QED
    BY <2>2, <2>3, <2>4
<1>8. CASE StoreSeries
  <2>1. UnderCount' = UnderCount /\ pc' \in PC /\ pc'["sequencer"] = pc["sequencer"]
    BY <1>8, StepFacts
    DEF StoreSeries, UnderCount, KernelPC, SequencerPC, Confirming, Looping
  <2>2. Keys'
    BY <1>8, <2>1, StepFacts
    DEF StoreSeries, Keys, Confirming, Looping, Acknowledging, Releasing,
        KernelPC, SequencerPC
  <2>3. Entry'
    BY <1>8, <2>1, StepFacts
    DEF StoreSeries, Entry, Confirming, Looping, Releasing, IsStored, KernelPC,
        SequencerPC
  <2>4. Stored'
    BY <1>8, <2>1, StepFacts
    DEF StoreSeries, Stored, IsStored, Confirming, Looping, KernelPC, SequencerPC
  <2>5. QED
    BY <2>2, <2>3, <2>4
<1>9. CASE StoreResult
  <2>1. UnderCount' = UnderCount /\ pc' \in PC /\ pc'["sequencer"] = pc["sequencer"]
    BY <1>9, StepFacts
    DEF StoreResult, UnderCount, KernelPC, SequencerPC, Confirming, Looping
  <2>2. Keys'
    BY <1>9, <2>1, StepFacts
    DEF StoreResult, Keys, Confirming, Looping, Acknowledging, Releasing,
        KernelPC, SequencerPC
  <2>3. Entry'
    BY <1>9, <2>1, StepFacts
    DEF StoreResult, Entry, Confirming, Looping, Releasing, IsStored, KernelPC,
        SequencerPC
  <2>4. Stored'
    BY <1>9, <2>1, StepFacts
    DEF StoreResult, Stored, IsStored, Confirming, Looping, KernelPC, SequencerPC
  <2>5. QED
    BY <2>2, <2>3, <2>4
<1>10. CASE LoginReq
  <2>1. UnderCount' = UnderCount /\ pc' = pc
    BY <1>10 DEF LoginReq, UnderCount
  <2>2. Keys'
    BY <1>10, <2>1 DEF LoginReq, Keys, Confirming, Looping, Acknowledging, Releasing
  <2>3. Entry'
    BY <1>10, <2>1 DEF LoginReq, Entry, Confirming, Looping, Releasing, IsStored
  <2>4. Stored'
    BY <1>10, <2>1 DEF LoginReq, Stored, IsStored, Confirming, Looping
  <2>5. QED
    BY <2>2, <2>3, <2>4
<1>11. CASE ConfirmRspSingle
  <2>1. UnderCount' = UnderCount /\ pc' = pc
    BY <1>11 DEF ConfirmRspSingle, UnderCount
  <2>2. Keys'
    BY <1>11, <2>1
    DEF ConfirmRspSingle, Keys, Confirming, Looping, Acknowledging, Releasing
  <2>3. Entry'
    BY <1>11, <2>1 DEF ConfirmRspSingle, Entry, Confirming, Looping, Releasing, IsStored
  <2>4. Stored'
    BY <1>11, <2>1 DEF ConfirmRspSingle, Stored, IsStored, Confirming, Looping
  <2>5. QED
    BY <2>2, <2>3, <2>4
<1>12. CASE ConfirmRspPrimary
  <2>1. UnderCount' = UnderCount /\ pc' \in PC /\ pc'["kernel"] = pc["kernel"]
    BY <1>12, StepFacts
    DEF ConfirmRspPrimary, UnderCount, KernelPC, SequencerPC, Confirming, Looping
  <2>2. Keys'
    BY <1>12, <2>1, StepFacts
    DEF ConfirmRspPrimary, Keys, Confirming, Looping, Acknowledging, Releasing,
        KernelPC, SequencerPC
  <2>3. Entry'
    BY <1>12, <2>1, StepFacts
    DEF ConfirmRspPrimary, Entry, Confirming, Looping, Releasing, IsStored,
        KernelPC, SequencerPC
  <2>4. Stored'
    BY <1>12, <2>1, StepFacts
    DEF ConfirmRspPrimary, Stored, IsStored, Confirming, Looping, KernelPC,
        SequencerPC
  <2>5. QED
    BY <2>2, <2>3, <2>4
<1>13. CASE EnterMaster
  <2>1. UnderCount' = UnderCount /\ pc' = pc
    BY <1>13 DEF EnterMaster, UnderCount
  <2>2. Keys'
    BY <1>13, <2>1 DEF EnterMaster, Keys, Confirming, Looping, Acknowledging, Releasing
  <2>3. Entry'
    BY <1>13, <2>1 DEF EnterMaster, Entry, Confirming, Looping, Releasing, IsStored
  <2>4. Stored'
    BY <1>13, <2>1 DEF EnterMaster, Stored, IsStored, Confirming, Looping
  <2>5. QED
    BY <2>2, <2>3, <2>4
<1>14. CASE EnterSingle
  <2>1. UnderCount' = UnderCount /\ pc' \in PC /\ pc'["kernel"] = pc["kernel"]
    BY <1>14, StepFacts
    DEF EnterSingle, UnderCount, KernelPC, SequencerPC, Confirming, Looping
  <2>2. Keys'
    BY <1>14, <2>1, StepFacts
    DEF EnterSingle, Keys, Confirming, Looping, Acknowledging, Releasing,
        KernelPC, SequencerPC
  <2>3. Entry'
    BY <1>14, <2>1, StepFacts
    DEF EnterSingle, Entry, Confirming, Looping, Releasing, IsStored, KernelPC,
        SequencerPC
  <2>4. Stored'
    BY <1>14, <2>1, StepFacts
    DEF EnterSingle, Stored, IsStored, Confirming, Looping, KernelPC, SequencerPC
  <2>5. QED
    BY <2>2, <2>3, <2>4
<1>15. CASE UNCHANGED vars
  <2>1. UnderCount' = UnderCount
    BY <1>15 DEF vars, UnderCount
  <2>2. QED
    BY <1>15, <2>1 DEF vars, Keys, Entry, Stored, IsStored, pubflow
<1>16. QED
  BY <1>2, <1>3, <1>4, <1>5, <1>6, <1>7, <1>8, <1>9, <1>10, <1>11, <1>12, <1>13, <1>14, <1>15
  DEF Next, Kernel, Sequencer

-----------------------------------------------------------------------------
(* The theorems.                                                           *)

LEMMA InvInit ==
  ASSUME Init
  PROVE  SequencerInv
<1> USE SequencerBounds DEF Init, Threads
<1>1. UnderCount = 0
  BY EmptySeq DEF UnderCount
<1>2. pc \in PC /\ key \in [Threads -> Nat] /\ trade \in Seq(0 .. MaxMessages - 1)
  BY EmptySeq DEF PC
<1>3. prepared \in BOOLEAN /\ overlapped \in BOOLEAN
  OBVIOUS
<1>4. pre \in 0 .. MaxMessages /\ standby \in -1 .. MaxMessages
      /\ takeovers \in 0 .. MaxTakeovers /\ stored \in 0 .. MaxMessages
  OBVIOUS
<1>5. TypeOK
  BY <1>2, <1>3, <1>4 DEF TypeOK
<1>6. Calls
  BY DEF Calls, Confirming, Looping
<1>7. TradeIsPrefix
  BY <1>1 DEF TradeIsPrefix
<1>8. Keys /\ Entry /\ Stored
  BY <1>1 DEF Keys, Entry, Stored, IsStored, Confirming, Acknowledging, Releasing
<1>9. QED
  BY <1>5, <1>6, <1>7, <1>8 DEF SequencerInv

LEMMA OverlapStays ==
  ASSUME [Next]_vars, overlapped
  PROVE  overlapped'
  BY DEF Next, Kernel, Sequencer, Confirm, LoopInit, LoopTest, CheckUnder, SyncTest,
     SyncAppend, ConfirmAck, TestPending, TestKey, PublishPending, ClearResult, ClearSeries,
     AppendAndHandle, TestMode, SpinWhilePending, CheckAck, PublishNow, StoreSeries,
     StoreResult, LoginReq, ConfirmRspSingle, ConfirmRspPrimary, EnterMaster, EnterSingle,
     vars, Step

LEMMA InvNext ==
  ASSUME SequencerInv, [Next]_vars
  PROVE  SequencerInv'
<1>1. TypeOK /\ Calls
  BY DEF SequencerInv
<1>2. TypeOK' /\ Calls'
  BY <1>1, TypeNext, CallsNext
<1>3. ASSUME ~overlapped'
      PROVE  TradeIsPrefix' /\ Keys' /\ Entry' /\ Stored'
  <2>1. TradeIsPrefix /\ Keys /\ Entry /\ Stored
    BY <1>3, OverlapStays DEF SequencerInv
  <2>2. QED
    BY <1>1, <1>3, <2>1, PrefixNext, KeepsNext
<1>4. QED
  BY <1>2, <1>3 DEF SequencerInv

\* The strengthening of both properties below is invariant.
THEOREM ThreadsHold == Spec => []SequencerInv
<1>1. Init => SequencerInv
  BY InvInit
<1>2. SequencerInv /\ [Next]_vars => SequencerInv'
  BY InvNext
<1>3. QED
  BY <1>1, <1>2, PTL DEF Spec

\* As long as the two threads have never confirmed at the same time, the
\* confirmed series (CCompServer::ConfirmQueued and CKernelApp::RealDo both write
\* it) holds the messages of the input series, each once and in order.
THEOREM ConfirmedExact == Spec => []ExactWithoutOverlap
<1>1. SequencerInv => ExactWithoutOverlap
  BY DEF SequencerInv, ExactWithoutOverlap
<1>2. QED
  BY <1>1, ThreadsHold, PTL

\* ... and CPubFlow publishes nothing that this node has not persisted and no
\* standby has answered for.
THEOREM PublishedStored == Spec => []PublishedIsStored
<1>1. SequencerInv => PublishedIsStored
  BY DEF SequencerInv, PublishedIsStored, Stored, IsStored
<1>2. QED
  BY <1>1, ThreadsHold, PTL
=============================================================================
