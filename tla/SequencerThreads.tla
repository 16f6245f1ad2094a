-------------------------- MODULE SequencerThreads --------------------------
(***************************************************************************)
(* The active node of a hot-standby pair (SINGLE or PRIMARY) as two        *)
(* threads that share, without a common lock, the state of the node        *)
(* (CKernelApp::m_CompStateID), the input series (m_pPreSeries), the       *)
(* confirmed series beneath it (m_pTradeSeries) and the four words of      *)
(* CPubFlow:                                                               *)
(*                                                                         *)
(*   - the matching thread, CKernelApp::RealDo;                            *)
(*   - the sequencer thread, CCompServer with its state objects.           *)
(*                                                                         *)
(* Both call CCachedFlow::SyncUnderFlow and CPubFlow::ConfirmQueued: the   *)
(* sequencer for every answer of the standby while PRIMARY and for all     *)
(* that is unconfirmed when it enters SINGLE, the matching thread for its  *)
(* own messages while SINGLE.  The grain is one access to shared memory;   *)
(* an Append holds the write lock of its flow and is one step.             *)
(*                                                                         *)
(* Messages are named by their key in the input series.  Each produces one *)
(* result, so a length of the result flow is a number of messages; PubFlow *)
(* treats any number of results.                                           *)
(***************************************************************************)
EXTENDS Integers, Sequences

CONSTANTS
  MaxMessages,  (* bound: messages appended                                *)
  MaxTakeovers  (* bound: times PRIMARY falls back to SINGLE               *)

ASSUME SequencerBounds == MaxMessages \in Nat /\ MaxTakeovers \in Nat

VARIABLES
  mode,         (* m_CompStateID and the state object of CCompServer       *)
  pre,          (* m_pPreSeries->GetCount()                                *)
  trade,        (* m_pTradeSeries: the keys written, in order              *)
  ack, published, noAckSeries, noAckResult,   (* CPubFlow, see PubFlow     *)
  pc,           (* the statement each thread is about to execute           *)
  key,          (* nKey in the calls of each thread                        *)
  standby,      (* next key the standby will confirm; -1: none attached    *)
  prepared,     (* CCompSingleState::m_bPreapreFlag                        *)
  takeovers,    (* PRIMARY to SINGLE changes so far                        *)
  stored,       (* history: messages some standby has confirmed            *)
  overlapped    (* history: both threads were confirming at the same time  *)

pubflow == <<ack, published, noAckSeries, noAckResult>>
node == <<mode, standby, prepared, takeovers, stored>>
vars == <<mode, pre, trade, pubflow, pc, key, standby, prepared, takeovers,
          stored, overlapped>>

Threads == {"kernel", "sequencer"}

\* m_pPreSeries->GetUnderCount()
UnderCount == Len(trade)

\* Statements of the code both threads run to confirm a key.
Confirming == {"checkUnder", "syncTest", "syncAppend", "ack", "testPending",
               "testKey", "publishPending", "clearResult", "clearSeries"}
Looping == {"loopInit", "loopTest"}

PC == [kernel    : {"append", "mode", "spin", "check", "publish",
                    "storeSeries", "storeResult"} \union Confirming \union Looping,
       sequencer : {"idle"} \union Confirming \union Looping]

TypeOK ==
  /\ mode \in {"init", "single", "primary"}
  /\ pre \in 0 .. MaxMessages
  /\ trade \in Seq(0 .. MaxMessages - 1)
  /\ ack \in Int /\ published \in Int /\ noAckSeries \in Int /\ noAckResult \in Int
  /\ pc \in PC
  /\ key \in [Threads -> Nat]
  /\ standby \in -1 .. MaxMessages
  /\ prepared \in BOOLEAN
  /\ takeovers \in 0 .. MaxTakeovers
  /\ stored \in 0 .. MaxMessages
  /\ overlapped \in BOOLEAN

\* The node was started on empty flows: FirstReDo has confirmed the empty prefix
\* and calls SetSIDAndRID.
Init ==
  /\ mode = "init"
  /\ pre = 0
  /\ trade = <<>>
  /\ ack = 0 /\ published = 0 /\ noAckSeries = -1 /\ noAckResult = -1
  /\ pc = [kernel |-> "spin", sequencer |-> "idle"]
  /\ key = [t \in Threads |-> 0]
  /\ standby = -1
  /\ prepared = FALSE
  /\ takeovers = 0
  /\ stored = 0
  /\ overlapped = FALSE

\* Thread t moves between two statements; the history variable sees whether
\* the other thread is confirming too.
Step(t, from, to) ==
  /\ pc[t] = from
  /\ pc' = [pc EXCEPT ![t] = to]
  /\ overlapped' = (overlapped \/ \A u \in Threads : pc'[u] \in Confirming)

-----------------------------------------------------------------------------
(* Confirming a key: CCompServer::ConfirmQueued, and the body of the loop   *)
(* in RealDo.                                                              *)

\* Where a thread goes when its call for one key returns: on to the next key
\* of its loop, or, for a single answer of the standby, back to the reactor.
AfterKey(t) == IF t = "sequencer" /\ mode = "primary" THEN "idle" ELSE "loopTest"

\* The next key, once this one is dealt with.
Advance(t) == key' = [key EXCEPT ![t] = @ + 1]

LoopInit(t) ==
  /\ Step(t, "loopInit", "loopTest")
  /\ key' = [key EXCEPT ![t] = UnderCount]
  /\ UNCHANGED <<pre, trade, pubflow, node>>

LoopTest(t) ==
  /\ IF key[t] < pre THEN Step(t, "loopTest", "checkUnder")
     ELSE Step(t, "loopTest", IF t = "kernel" THEN "spin" ELSE "idle")
  /\ UNCHANGED <<pre, trade, pubflow, key, node>>

\* Already confirmed: RealDo returns, ConfirmQueued goes on to the next key.
CheckUnder(t) ==
  /\ IF key[t] >= UnderCount
     THEN Step(t, "checkUnder", "syncTest") /\ UNCHANGED key
     ELSE /\ Step(t, "checkUnder", IF t = "kernel" THEN "append" ELSE AfterKey(t))
          /\ Advance(t)
  /\ UNCHANGED <<pre, trade, pubflow, node>>

\* Mutant: SyncUnderFlow does not compare the key with the under flow.
SyncTestAlways(t) ==
  /\ Step(t, "syncTest", "syncAppend")
  /\ UNCHANGED <<pre, trade, pubflow, key, node>>

\* CCachedFlow::SyncUnderFlow reads the length of the under flow.  It returns
\* a bool, so CCompServer's test for a negative value never holds and the
\* sequencer confirms in either case; RealDo only reports the failure.
SyncTest(t) ==
  /\ IF key[t] = UnderCount
     THEN Step(t, "syncTest", "syncAppend") /\ UNCHANGED key
     ELSE IF t = "sequencer"
     THEN Step(t, "syncTest", "ack") /\ UNCHANGED key
     ELSE Step(t, "syncTest", "loopTest") /\ Advance(t)
  /\ UNCHANGED <<pre, trade, pubflow, node>>

\* ... and appends the message it has found to the under flow.
SyncAppend(t) ==
  /\ Step(t, "syncAppend", "ack")
  /\ trade' = Append(trade, key[t])
  /\ UNCHANGED <<pre, pubflow, key, node>>

\* CPubFlow::ConfirmQueued, word by word as in PubFlow.
ConfirmAck(t) ==
  /\ Step(t, "ack", "testPending")
  /\ ack' = key[t]
  /\ UNCHANGED <<pre, trade, published, noAckSeries, noAckResult, key, node>>

TestPending(t) ==
  /\ IF noAckSeries >= 0
     THEN Step(t, "testPending", "testKey") /\ UNCHANGED key
     ELSE Step(t, "testPending", AfterKey(t)) /\ Advance(t)
  /\ UNCHANGED <<pre, trade, pubflow, node>>

TestKey(t) ==
  /\ IF noAckSeries <= ack
     THEN Step(t, "testKey", "publishPending") /\ UNCHANGED key
     ELSE Step(t, "testKey", AfterKey(t)) /\ Advance(t)
  /\ UNCHANGED <<pre, trade, pubflow, node>>

PublishPending(t) ==
  /\ Step(t, "publishPending", "clearResult")
  /\ published' = noAckResult
  /\ UNCHANGED <<pre, trade, ack, noAckSeries, noAckResult, key, node>>

ClearResult(t) ==
  /\ Step(t, "clearResult", "clearSeries")
  /\ noAckResult' = -1
  /\ UNCHANGED <<pre, trade, ack, published, noAckSeries, key, node>>

\* Mutant: the entry is published but not given back.
ClearSeriesForgotten(t) ==
  /\ Step(t, "clearSeries", AfterKey(t))
  /\ Advance(t)
  /\ UNCHANGED <<pre, trade, pubflow, node>>

ClearSeries(t) ==
  /\ Step(t, "clearSeries", AfterKey(t))
  /\ noAckSeries' = -1
  /\ Advance(t)
  /\ UNCHANGED <<pre, trade, ack, published, noAckResult, node>>

Confirm(t) ==
  \/ LoopInit(t)
  \/ LoopTest(t)
  \/ CheckUnder(t)
  \/ SyncTest(t)
  \/ SyncAppend(t)
  \/ ConfirmAck(t)
  \/ TestPending(t)
  \/ TestKey(t)
  \/ PublishPending(t)
  \/ ClearResult(t)
  \/ ClearSeries(t)

-----------------------------------------------------------------------------
(* The matching thread.                                                    *)

\* Run in INIT only sleeps.  RealDo: append the next message and handle it (its result is appended to
\* the result flow, which only this thread touches).
AppendAndHandle ==
  /\ Step("kernel", "append", "mode")
  /\ mode # "init"
  /\ pre < MaxMessages
  /\ pre' = pre + 1
  /\ UNCHANGED <<trade, pubflow, key, node>>

\* RealDo: only a SINGLE node confirms for itself.
TestMode ==
  /\ Step("kernel", "mode", IF mode = "single" THEN "loopInit" ELSE "spin")
  /\ UNCHANGED <<pre, trade, pubflow, key, node>>

\* Mutant: SetSIDAndRID does not wait for the previous entry.
SpinWhilePendingNoWait ==
  /\ Step("kernel", "spin", "check")
  /\ UNCHANGED <<pre, trade, pubflow, key, node>>

SpinWhilePending ==
  /\ Step("kernel", "spin", "check")
  /\ noAckSeries < 0
  /\ UNCHANGED <<pre, trade, pubflow, key, node>>

CheckAck ==
  /\ Step("kernel", "check", IF pre <= ack THEN "publish" ELSE "storeSeries")
  /\ UNCHANGED <<pre, trade, pubflow, key, node>>

PublishNow ==
  /\ Step("kernel", "publish", "append")
  /\ published' = pre
  /\ UNCHANGED <<pre, trade, ack, noAckSeries, noAckResult, key, node>>

StoreSeries ==
  /\ Step("kernel", "storeSeries", "storeResult")
  /\ noAckSeries' = pre
  /\ UNCHANGED <<pre, trade, ack, published, noAckResult, key, node>>

StoreResult ==
  /\ Step("kernel", "storeResult", "append")
  /\ noAckResult' = pre
  /\ UNCHANGED <<pre, trade, ack, published, noAckSeries, key, node>>

Kernel ==
  \/ AppendAndHandle
  \/ TestMode
  \/ Confirm("kernel")
  \/ SpinWhilePending
  \/ CheckAck
  \/ PublishNow
  \/ StoreSeries
  \/ StoreResult

-----------------------------------------------------------------------------
(* The sequencer thread: what it takes from the reactor when idle.          *)

\* A standby logs in at any point of the series and is attached
\* (CCompSingleState, HTID_LOGIN_REQ).
LoginReq ==
  /\ pc.sequencer = "idle" /\ mode = "single" /\ standby = -1
  /\ standby' \in 0 .. pre
  /\ UNCHANGED <<mode, pre, trade, pubflow, pc, key, prepared, takeovers, stored,
                 overlapped>>

\* The standby answers for the next message.  SINGLE only looks whether it has
\* caught up; HTID_CONFIRM_RSP carries key + 1.
ConfirmRspSingle ==
  /\ pc.sequencer = "idle" /\ mode = "single" /\ standby \in 0 .. pre - 1
  /\ standby' = standby + 1
  /\ stored' = IF standby' > stored THEN standby' ELSE stored
  /\ prepared' = (prepared \/ standby + 2 >= pre)
  /\ UNCHANGED <<mode, pre, trade, pubflow, pc, key, takeovers, overlapped>>

\* PRIMARY confirms the key.
ConfirmRspPrimary ==
  /\ Step("sequencer", "idle", "checkUnder")
  /\ mode = "primary" /\ standby \in 0 .. pre - 1
  /\ key' = [key EXCEPT !["sequencer"] = standby]
  /\ standby' = standby + 1
  /\ stored' = IF standby' > stored THEN standby' ELSE stored
  /\ UNCHANGED <<mode, pre, trade, pubflow, prepared, takeovers>>

\* The guard answers ARB_EVENT_PREPARE_OK: CCompServer::ChangeState(CS_PRIMARY).
EnterMaster ==
  /\ pc.sequencer = "idle" /\ mode = "single" /\ prepared
  /\ mode' = "primary"
  /\ UNCHANGED <<pre, trade, pubflow, pc, key, standby, prepared, takeovers,
                 stored, overlapped>>

\* The guard commands SINGLE, to start (the sequencer exists once FirstReDo has
\* returned) or because the hotline is gone: EnterSingle changes the state the
\* matching thread sees, then OnEntry runs ConfirmAllQueued.
EnterSingle ==
  /\ Step("sequencer", "idle", "loopInit")
  /\ \/ mode = "init" /\ pc.kernel = "append" /\ UNCHANGED takeovers
     \/ mode = "primary" /\ takeovers < MaxTakeovers /\ takeovers' = takeovers + 1
  /\ mode' = "single"
  /\ standby' = -1
  /\ prepared' = FALSE
  /\ UNCHANGED <<pre, trade, pubflow, key, stored>>

Sequencer ==
  \/ Confirm("sequencer")
  \/ LoginReq
  \/ ConfirmRspSingle
  \/ ConfirmRspPrimary

Next == Kernel \/ Sequencer \/ EnterMaster \/ EnterSingle

Spec == Init /\ [][Next]_vars

\* The threads run and an attached standby answers; the guard owes nothing.
FairSpec == Spec /\ WF_vars(Kernel) /\ WF_vars(Sequencer)

-----------------------------------------------------------------------------
(* Properties.                                                             *)

\* The confirmed series holds the messages of the input series, each once and
\* in order.  (CachedFlow.h:122 promises this to one writer of a flow only, and
\* m_pTradeSeries has two.)
TradeIsPrefix ==
  /\ UnderCount <= pre
  /\ \A i \in 1 .. UnderCount : trade[i] = i - 1

\* As long as the two threads never confirm at the same time, the confirmed
\* series is exact whatever the changes between SINGLE and PRIMARY.
ExactWithoutOverlap == TypeOK /\ (~overlapped => TradeIsPrefix)

\* ... and what is published has been stored by this node or by a standby.
PublishedIsStored ==
  ~overlapped => published <= UnderCount \/ published <= stored

\* The standby has answered, while this node was SINGLE, for a message that the
\* matching thread then leaves for PRIMARY to confirm: the answer was the only
\* one there will be.
AnswerMissed ==
  mode = "primary" /\ pc.sequencer = "idle" /\ standby > UnderCount

\* The matching thread does not wait in SetSIDAndRID for ever, unless an answer
\* was missed or the two threads have disturbed each other.
WaitsOnlyForMissed ==
  pc.kernel = "spin" ~> (pc.kernel # "spin" \/ overlapped \/ AnswerMissed)
=============================================================================
