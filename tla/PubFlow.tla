------------------------------ MODULE PubFlow ------------------------------
(***************************************************************************)
(* CPubFlow (src_protocol/flow/PubFlow.cpp): the gate between the result   *)
(* flow and everything that distributes it.  Two threads meet here without *)
(* a lock, through four volatile words:                                    *)
(*                                                                         *)
(*   - the matching thread (CKernelApp::Run) appends a message to the      *)
(*     input series, handles it, and calls SetSIDAndRID with the length of *)
(*     the series and the length of the result flow;                       *)
(*   - the sequencer thread (CCompReactor) calls ConfirmQueued with the    *)
(*     key of each message the standby has stored.                         *)
(*                                                                         *)
(* This module models one node that has finished FirstReDo and then stays  *)
(* PRIMARY, at the grain of single reads and writes of the shared words.   *)
(* Changes of state of the node are in SequencerThreads and HotStandby.    *)
(***************************************************************************)
EXTENDS Integers, Sequences

CONSTANTS
  Base,         (* messages replayed by FirstReDo                          *)
  BaseResults,  (* results they produced                                   *)
  MaxMessages,  (* bound: messages appended after the replay               *)
  MaxResults    (* bound: results one message may produce                  *)

ASSUME BaseAssumption == Base \in Nat /\ BaseResults \in Nat
ASSUME BoundAssumption == MaxMessages \in Nat /\ MaxResults \in Nat

VARIABLES
  ack,          (* m_iAckSeriesId                                          *)
  published,    (* m_iAckResultId, what CPubFlow::GetCount returns         *)
  noAckSeries,  (* m_iLastNoAckSeriesId, -1 when nothing waits             *)
  noAckResult,  (* m_iLastNoAckResultId                                    *)
  count,        (* m_pPreSeries->GetCount()                                *)
  produced,     (* produced[i]: length of the result flow once message     *)
                (* Base + i - 1 has been handled                           *)
  started,      (* m_bFinishInitInstance: FirstReDo has returned           *)
  kpc,          (* the statement the matching thread is about to execute   *)
  cpc,          (* the statement the sequencer thread is about to execute  *)
  confirmed     (* history: highest key passed to ConfirmQueued            *)

flow == <<ack, published, noAckSeries, noAckResult>>
vars == <<ack, published, noAckSeries, noAckResult, count, produced, started,
          kpc, cpc, confirmed>>

\* m_pPreResult->GetCount()
Results == IF produced = <<>> THEN BaseResults ELSE produced[Len(produced)]

\* The length of the result flow once the first s messages are handled.
ResultsAt(s) ==
  IF s <= Base THEN BaseResults
  ELSE IF s - Base <= Len(produced) THEN produced[s - Base]
  ELSE Results

KernelPC == {"redo", "append", "handle", "spin", "check", "publish",
             "storeSeries", "storeResult"}
SequencerPC == {"idle", "testPending", "testKey", "publish", "clearResult",
                "clearSeries"}

TypeOK ==
  /\ ack \in Int
  /\ published \in Nat
  /\ noAckSeries \in Int
  /\ noAckResult \in Int
  /\ count \in Nat
  /\ produced \in Seq(Nat)
  /\ started \in BOOLEAN
  /\ kpc \in KernelPC
  /\ cpc \in SequencerPC
  /\ confirmed \in Int

\* The constructor, and the series as AttachUnderFlow loaded it.
Init ==
  /\ ack = -1
  /\ published = 0
  /\ noAckSeries = -1
  /\ noAckResult = -1
  /\ count = Base
  /\ produced = <<>>
  /\ started = FALSE
  /\ kpc = "redo"
  /\ cpc = "idle"
  /\ confirmed = Base - 1

-----------------------------------------------------------------------------
(* The matching thread.                                                    *)

Kernel(from, to) == kpc = from /\ kpc' = to

\* FirstReDo has handled the whole series and calls ConfirmQueued with its
\* length; nothing waits yet, so only m_iAckSeriesId changes.  It then calls
\* SetSIDAndRID like RealDo does.
FirstReDo ==
  /\ Kernel("redo", "spin")
  /\ ack' = count
  /\ UNCHANGED <<published, noAckSeries, noAckResult, count, produced, started,
                 cpc, confirmed>>

\* RealDo: the next message gets the key `count'.
AppendMessage ==
  /\ Kernel("append", "handle")
  /\ count < Base + MaxMessages
  /\ count' = count + 1
  /\ UNCHANGED <<flow, produced, started, cpc, confirmed>>

\* RealDo: handleMessage appends any number of results to the result flow.
HandleMessage ==
  /\ Kernel("handle", "spin")
  /\ \E n \in 0 .. MaxResults : produced' = Append(produced, Results + n)
  /\ UNCHANGED <<flow, count, started, cpc, confirmed>>

\* Mutant: SetSIDAndRID does not wait for the previous entry.
SpinWhilePendingNoWait ==
  /\ Kernel("spin", "check")
  /\ UNCHANGED <<flow, count, produced, started, cpc, confirmed>>

\* SetSIDAndRID: leave the loop once the previous entry has been released.
SpinWhilePending ==
  /\ Kernel("spin", "check")
  /\ noAckSeries < 0
  /\ UNCHANGED <<flow, count, produced, started, cpc, confirmed>>

\* SetSIDAndRID: compare the length of the series with the confirmed key.
CheckAck ==
  /\ kpc = "check"
  /\ kpc' = IF count <= ack THEN "publish" ELSE "storeSeries"
  /\ UNCHANGED <<flow, count, produced, started, cpc, confirmed>>

\* SetSIDAndRID: already confirmed, publish at once.
PublishNow ==
  /\ Kernel("publish", "append")
  /\ published' = Results
  /\ started' = TRUE
  /\ UNCHANGED <<ack, noAckSeries, noAckResult, count, produced, cpc,
                 confirmed>>

\* SetSIDAndRID: leave the pair for ConfirmQueued, the series id first.
StoreSeries ==
  /\ Kernel("storeSeries", "storeResult")
  /\ noAckSeries' = count
  /\ UNCHANGED <<ack, published, noAckResult, count, produced, started, cpc,
                 confirmed>>

StoreResult ==
  /\ Kernel("storeResult", "append")
  /\ noAckResult' = Results
  /\ started' = TRUE
  /\ UNCHANGED <<ack, published, noAckSeries, count, produced, cpc, confirmed>>

-----------------------------------------------------------------------------
(* The sequencer thread.  COfKernelApiImp::Start creates it only after      *)
(* m_bFinishInitInstance.                                                  *)

Sequencer(from, to) == cpc = from /\ cpc' = to

\* CKernelApp::ConfirmQueued for the key of a CONFIRM_RSP: the standby answers
\* in order, for messages it was sent, that is, messages already appended.
ConfirmQueued(key) ==
  /\ Sequencer("idle", "testPending")
  /\ started
  /\ confirmed < key
  /\ key < count
  /\ ack' = key
  /\ confirmed' = key
  /\ UNCHANGED <<published, noAckSeries, noAckResult, count, produced, started,
                 kpc>>

TestPending ==
  /\ cpc = "testPending"
  /\ cpc' = IF noAckSeries >= 0 THEN "testKey" ELSE "idle"
  /\ UNCHANGED <<flow, count, produced, started, kpc, confirmed>>

\* Mutant: the key is not compared with the entry that waits.
TestKeyUnchecked ==
  /\ Sequencer("testKey", "publish")
  /\ UNCHANGED <<flow, count, produced, started, kpc, confirmed>>

TestKey ==
  /\ cpc = "testKey"
  /\ cpc' = IF noAckSeries <= ack THEN "publish" ELSE "idle"
  /\ UNCHANGED <<flow, count, produced, started, kpc, confirmed>>

PublishPending ==
  /\ Sequencer("publish", "clearResult")
  /\ published' = noAckResult
  /\ UNCHANGED <<ack, noAckSeries, noAckResult, count, produced, started, kpc,
                 confirmed>>

ClearResult ==
  /\ Sequencer("clearResult", "clearSeries")
  /\ noAckResult' = -1
  /\ UNCHANGED <<ack, published, noAckSeries, count, produced, started, kpc,
                 confirmed>>

\* Mutant: the entry is published but never given back.
ClearSeriesForgotten ==
  /\ Sequencer("clearSeries", "idle")
  /\ UNCHANGED <<flow, count, produced, started, kpc, confirmed>>

ClearSeries ==
  /\ Sequencer("clearSeries", "idle")
  /\ noAckSeries' = -1
  /\ UNCHANGED <<ack, published, noAckResult, count, produced, started, kpc,
                 confirmed>>

-----------------------------------------------------------------------------

MatchingThread ==
  \/ FirstReDo
  \/ AppendMessage
  \/ HandleMessage
  \/ SpinWhilePending
  \/ CheckAck
  \/ PublishNow
  \/ StoreSeries
  \/ StoreResult

ConfirmAny == \E key \in confirmed + 1 .. count - 1 : ConfirmQueued(key)

SequencerThread ==
  \/ ConfirmAny
  \/ TestPending
  \/ TestKey
  \/ PublishPending
  \/ ClearResult
  \/ ClearSeries

Next == MatchingThread \/ SequencerThread

Spec == Init /\ [][Next]_vars

\* Both threads keep running, and the hotline keeps answering: the standby
\* confirms every message it is sent.
FairSpec == Spec /\ WF_vars(MatchingThread) /\ WF_vars(SequencerThread)

-----------------------------------------------------------------------------
(* Properties.                                                             *)

\* Only results of messages the standby has confirmed are published, whatever
\* the interleaving of the unlocked words.  (CPubFlow::ConfirmQueued and
\* SetSIDAndRID; before the first confirmation only the replayed prefix is out.)
PublishedOnlyConfirmed ==
  started => published <= ResultsAt(confirmed + 1)

\* Nothing is forgotten: when both threads are between calls and no entry
\* waits, every result has been published.
NothingForgotten ==
  (started /\ kpc = "append" /\ cpc = "idle" /\ noAckSeries < 0) =>
    published = Results

\* While the sequencer publishes and gives back an entry, the matching thread
\* is not inside the part of SetSIDAndRID that writes the same words.
HandedOver ==
  cpc \in {"publish", "clearResult", "clearSeries"} =>
    kpc \in {"append", "handle", "spin"}

\* The published flow only grows: a reader that has taken result r may rely on
\* GetCount() > r from then on.
PublishedMonotone == [][published' >= published]_published

\* The matching thread does not spin in SetSIDAndRID for ever as long as the
\* standby confirms what it is sent.
KernelNotStuck == (kpc = "spin") ~> (kpc = "append")

-----------------------------------------------------------------------------
(* The inductive invariant behind the theorems of PubFlowProofs.            *)

\* Series length last given to SetSIDAndRID, counting the call under way from
\* the moment it has stored the series id.
Registered ==
  IF kpc \in {"handle", "spin", "check", "storeSeries"} THEN count - 1 ELSE count

\* Series length whose results are published.
Released ==
  IF noAckSeries = -1 \/ cpc \in {"clearResult", "clearSeries"}
  THEN Registered ELSE Registered - 1

ProducedInv ==
  /\ Len(produced) = count - Base - (IF kpc = "handle" THEN 1 ELSE 0)
  /\ \A i \in 1 .. Len(produced) : BaseResults <= produced[i]
  /\ \A i, j \in 1 .. Len(produced) : i <= j => produced[i] <= produced[j]

StartingInv ==
  ~started =>
    /\ kpc \in {"redo", "spin", "check", "publish"}
    /\ cpc = "idle"
    /\ count = Base
    /\ noAckSeries = -1
    /\ published = 0
    /\ confirmed = Base - 1
    /\ kpc # "redo" => ack = Base

ConfirmedInv ==
  started =>
    /\ confirmed < count
    /\ confirmed >= Base - 1
    /\ ack = confirmed \/ (ack = Base /\ confirmed = Base - 1)
    /\ kpc \notin {"redo", "publish"}
    /\ kpc # "append" => count > Base

PendingInv ==
  started =>
    /\ noAckSeries = -1 \/ (noAckSeries = Registered /\ noAckSeries > Base)
    /\ kpc \in {"check", "storeSeries"} => noAckSeries = -1
    /\ kpc = "storeResult" => noAckSeries # -1
    /\ (noAckSeries # -1 /\ kpc # "storeResult" /\ cpc # "clearSeries")
          => noAckResult = ResultsAt(noAckSeries)
    /\ cpc \in {"testKey", "publish", "clearResult", "clearSeries"}
          => noAckSeries # -1
    /\ cpc \in {"publish", "clearResult", "clearSeries"}
          => noAckSeries <= ack /\ kpc # "storeResult"

ReleasedInv ==
  started =>
    /\ published = ResultsAt(Released)
    /\ Released <= confirmed \/ Released = Base
    /\ Released >= Base

PubFlowInv ==
  /\ TypeOK
  /\ ProducedInv
  /\ StartingInv
  /\ ConfirmedInv
  /\ PendingInv
  /\ ReleasedInv
=============================================================================
