# Verification of oframe

oframe (OMQ) is a message middleware for services that must not lose, repeat or
reorder a message. A service takes its input from one numbered series, handles
the messages in order on one thread, and gives its results to fronts through a
numbered result flow. Two processes form a hot-standby pair: the active one
ships every message of its series to the other, and publishes a result only when
the other has stored the message that caused it.

This directory holds TLA+ modules for the way of a message through the program:
from the links into the series, through the sequencer, the matching thread and
the hotline, into the result flow, and from there through the dispatcher and the
fronts to the clients; and for what carries it there, flows in memory and on
disk, sessions, connections, timers and heartbeats. Paths below are relative to
`src/` of the repository.

## Running

    tlc -workers 2 -config MCPubFlow.cfg MCPubFlow      # any line of the table of runs
    tlapm FlowProofs.tla                                # any module ending in Proofs

`HotStandbyProofs`, `FlowProofs` and `PathProofs` take some minutes each, the others a
minute or two.

## The system

| part | state | operations | talks to |
|---|---|---|---|
| matching thread, `src/omqsapi/KernelApp.cpp` | state of the node (`m_CompStateID`), replay reader, input series `m_pPreSeries`, result flow `m_pPreResult` | `FirstReDo`, `Redo`, `RealDo`, `Run` | series (append), `CPubFlow` (`SetSIDAndRID`, `ConfirmQueued`), links and fronts (input) |
| published results, `src_protocol/flow/PubFlow.cpp` | four volatile words | `SetSIDAndRID`, `ConfirmQueued`, `GetCount` | read by dispatcher and fronts |
| sequencer, `src/sequence/` | one state object of five, hotline and guard sessions | guard commands, hotline packages, loss of either, timer, reset | series (append, sync), `CPubFlow`, guard, peer |
| hotline, `src_protocol/protocol_hotline/` | reader of the attached flow | login, publish, answer | aggregated session |
| guard protocol, `src_protocol/protocol_guard/` | - | state reports, events, commands | guard process (not in this repository) |
| flows, `src_protocol/flow/` | window of messages, files, counts, numbers of readers | `Append`, `Get`, `SyncUnderFlow`, `GetPointer` | every part |
| links, `src/linkmanager/`, `src_protocol/connect_tcp/` | series and response flows, dialog flow, whose turn it is | `GetNextMessage`, connect, log in, request | matching thread, other services |
| dispatcher, `src/omqsapi/FlowDispatcher.cpp`, `FlowManager.cpp` | topics and indexes | append to topics, resolve numbers, pass requests on | result flow, flows of the fronts |
| fronts, `src/fronts/`, `src_protocol/protocol_ftd/` | sessions and their subscriptions | subscribe, cancel, send, end | dispatcher's flows, clients |
| aggregated sessions, `src_protocol/protocol_sequence/` | channels of one peer, numbers sent and received | add and remove a channel, send, receive the next number | channel sessions |
| sessions, `src_protocol/protocol_channel/`, `protocol_link/` | sessions, connecters, listeners, heartbeats | connect loop, accept, end, give up a silent end | reactor, channels |
| reactor, `src_network/reactor/`, `src_network/block/` | ring of posted events, synchronous events, timers | post, send, dispatch, expire | every handler |
| multicast, `src_protocol/protocol_ofp/` (and `protocol_rudp`, another protocol of the same purpose) | ports with their subscribers, ordering queue | publish, ask again, acknowledge, put in order | datagrams, flows |

### What is hard

* Two threads, no common lock. The sequencer thread (a reactor) and the matching
  thread share the series, the flow beneath it, the state of the node and the
  words of `CPubFlow`. Only the order of single accesses protects them.
* Changes of state. SINGLE confirms its own messages, PRIMARY waits for the
  standby; the matching thread tests which it is once per message, while the
  sequencer changes it.
* Failure. A process exits at any point (most errors are an exit), the hotline
  loses what is in transit, and a node comes back with what it has persisted.
* Takeover. The standby goes on alone while the old primary may be alive, and its
  replay may be behind.
* Order. One numbered stream is carried by several channels, or in datagrams; a
  standby must have exactly a beginning of its primary's series.
* Flows that forget. A window, a pointer into it or a number counted from its end
  are used after it has moved on; readers go on whether or not they were given a
  message.
* Two ways to one client. What a client has asked for reaches its front through one
  flow, what it is to be sent through another.
* Connections that come and go. Results of attempts, events in a full ring, one-shot
  timers and ends of sessions meet in any order.
* Clocks. Milliseconds in 32 bits, a heap that counts days and ignores jumps,
  timeouts two ends tell each other while packages are under way.

### What makes each part correct

* `CPubFlow`: publishes results of confirmed messages only, forgets none, never
  shrinks, and the matching thread does not wait for ever.
* The two threads: the confirmed series has each message once and in order; what
  is published is stored by this node or a standby.
* The pair: the outputs of both nodes are one log; a standby has a beginning of
  its primary's series; what a PRIMARY confirmed is on both.
* Flows: what was appended is read back under its number, also after a restart.
* The way in: every message of a link enters the series once and in order.
* The way out: a client is sent exactly the messages from where it asked on.
* Aggregated session: a FIFO (each package once, in order) that ends.
* Factory and link: a result meets the connecter that asked for it; connecting
  goes on; what is subscribed arrives over all reconnections.
* Timers and heartbeats: neither early nor late; no false alarm, no missed one.
* Multicast: order, one port for each subscriber, everything arrives.

## Modules

Abstract specifications: `ReplicatedLog` (a pair of replicas) and `MessageFlow` (a
flow with readers). `HotStandby` implements the first; `CachedFlow`, also as a part
of `InputPath`, and `FileFlow` implement the second. `InputPath` composes
`CachedFlow` and `OneTimeFlow` with the links; `TcpLink` is built on
`SessionFactory`, `Multicast` on `OrderingQ`. Each `MC` module gives one of them
its constants.

In several modules a *history variable* names a condition under which the code does
not do what the property says; the property then reads "unless that has happened".
These are listed under "What the code does not do".

### PubFlow

`CPubFlow` between its two threads, one step per read or write of a shared word.
`ack`, `published`, `noAckSeries`, `noAckResult` are `m_iAckSeriesId`,
`m_iAckResultId`, `m_iLastNoAckSeriesId`, `m_iLastNoAckResultId`. The matching
thread (`kpc`) replays (`FirstReDo`), appends a message, handles it (any number of
results) and runs `SetSIDAndRID` statement by statement; the sequencer thread
(`cpc`) runs `ConfirmQueued` statement by statement for keys in increasing order,
as the standby answers. The words are doubles, aligned and so read and written
whole; the compiler keeps the order of volatile accesses, and the model assumes
that the processor does too (as x86 does for stores).

### SequencerThreads

The active node of a pair from the end of `FirstReDo` through SINGLE, PRIMARY and
back to SINGLE. Both threads run `ConfirmQueued`: the sequencer for every answer
while PRIMARY and for all unconfirmed keys when it enters SINGLE
(`ConfirmAllQueued`), the matching thread in `RealDo` while SINGLE. The code of both
is one set of actions with the thread as parameter (`Confirm(t)`); `SyncTest` and
`SyncAppend` are the two halves of `CCachedFlow::SyncUnderFlow`. Each message has one
result, so lengths of the result flow are numbers of messages (PubFlow covers any
number of results).

`stored` and `overlapped` are history variables: what some standby has confirmed,
and whether both threads have ever been confirming at the same time.

### HotStandby and ReplicatedLog

Two nodes, the hotline as a FIFO each way that may break and lose any suffix, and
the guard. One action per handler of the sequencer thread (SequencerThreads looks
inside them) and per step of the matching thread. Handlers of the five states are
found under `ReceiveX`, `EnterX`, `ForcedExit`, `GuardLost`, `Reset`; a package that
a state does not expect is dropped (`ReceiveIgnored`), as in the code. A restarted
node has its persisted series and has replayed it. `handled` are the messages the
application has seen, in its order; the result flow is what came of them.

External parts, modelled from what the nodes send and accept:

* The guard starts one node alone, the node that was active last; prepares the
  other; makes them a pair on PREPARE_OK; and on HOTLINE_FAIL, or when one of a
  pair comes back in INIT, promotes the other and sends the old one `DOWN`.
  **Assumption**: it promotes no node while the other is still SINGLE. (Without it
  the pair does split: a node that has not yet obeyed PRIMARY still confirms its
  own messages after the other was promoted.)
* When both are gone an operator may start either again (`GuardDissolve`).
* The hotline comes up between a node in PREPARE or SECONDARY (connecter) and one in
  SINGLE or PRIMARY (listener), on both sides at once.

`ReplicatedLog` says what the readers of the pair see: one log that only gets
longer, of which every replica gives a beginning. The refinement maps its log to the
longest output that was ever given (`shown`), and what a replica gives to the
published part of `handled`. A node that restarts may give less again: that is
`Restart` of the abstract log, and it happens, since a PRIMARY publishes results of
messages whose persisting has failed (`CompServer.cpp:157`).

History variables: `solo` (length a node has confirmed alone), `lossy` (a node was
started alone without messages the other has persisted, or promoted without
messages the other had confirmed alone: acknowledged data the code does not try to
keep), `skipped` (a new message was handled before the replay had caught up). With
either of the last two the promise of the log ends (`voided`).

The FIFO between the nodes is an aggregated session, the subject of AggrChannel.
Not modelled here: the bounded window of `m_pPreSeries` (a login below
`GetFirstID` is refused like one above the count), invalid packages, loss of data
the operating system had accepted.

### AggrChannel

The session under the hotline: several channels between two processes, one
numbered stream. `sendNo` and `recvNo` are the two words of `CSequenceNoCounter`,
`lowers` the channels of `m_mapSession` (and of `m_lowers`, over which
`CProtocol::Send` iterates). The connecting side adds a channel to its aggregation
when the connection is made (`CreateSession`), the listening side when it reads the
login (`HandleLogin`). `Break` cuts each direction of a channel at any point; each
side notices by itself and drops what it has not read (`RemoveSession`), deleting
the aggregation with its last channel. The numbers start again with the next one.

`epoch`, `mark` and `handed` are history variables: which aggregation of a side a
channel belongs to, and what the aggregation has handed up. A channel *covers* a
direction when it alone carries every number the receiver still misses; this is
what a second channel needs in order to be a substitute for the first. A channel
added later does not cover until the numbers sent before it have been received.

The two sides may be connected while they do not agree on which aggregation it is
(one has lost all channels and begun again, the other has not noticed): the code
has no means to see this, and the model allows it. `InOrder` names exactly what is
then left of the order. Where the two have met only each other, what is handed up
is a prefix of what was sent, the FIFO that HotStandby assumes.

The model is of one peer; a listener with several keeps an aggregation for each.
Writing to a channel only appends to the session's cache, which is flushed by the
reactor (`CChannelProtocol::Push`), so `Send` never fails.

### MessageFlow, CachedFlow, OneTimeFlow, InputPath

`MessageFlow` is what every flow promises: an append-only log, read message by
message.

`CachedFlow` is `m_pPreSeries`, a window of messages over `m_pTradeSeries`, between
the thread that appends (under the write lock, in the parts of `PopFront` and
`PushBack`), `SyncUnderFlow`, which reads the window without the lock in two steps,
and the reader. Which thread does what depends on the role of the node, which is
fixed in a behaviour; changes of role are SequencerThreads' subject. Nothing in
`CCachedFlow` keeps the window from dropping a message that has not been persisted:
`NothingDropped` holds because `CPubFlow` stops the matching thread one message
later. `raced`: `SyncUnderFlow` has looked at the window while an `Append` moved it.

`OneTimeFlow` is a flow with one writer and one reader that holds a pointer into it
without a lock (`GetPointer`, `Dereference`); a message that is older than the one
asked for last is dropped by the next `Append`.

`InputPath` puts them together with `CLinkManager::GetNextMessage`: links in turn, at
most `Quota` messages each, responses before the series, `setLinkInitOver`; and
`RealDo`, which appends what it has fetched.

### FileFlow

`CFileFlow`: files of `Gap` records, opened and closed by the one that appends and by
readers that share the position of a file and what `Get` remembers of the last read.
`Restart` is any end of the process, with a record half written (`Torn`) or not, and
the constructor, which counts the records of the last file by their lengths. A
reader is a client that comes back. `overlapped`: two readers inside `Get` at once
(the read lock admits them, and they move one another's file position); `torn`.

### TimerHeap

`CTimerHeap` with the reactor's 32-bit clock, `SyncTime`, the day after which the heap
begins again, and the jump of five minutes it ignores. `jumped`
says that so much time has passed between two calls of `Expire`. `now` is the real
time, of which the reactor knows only the rest. All expressions are taken in the
width the code takes them in: `TooFar` compares in 64 bits, `Elapsed` wraps.

### SessionFactory and TcpLink

`SessionFactory`: the connect loop of `CSessionFactory` between two threads and a ring
of posted events that may refuse one (`refused`). `ConnectNext` walks over
`m_connecters` from `m_nConnecterPos`; `TryConnect` and `ConnectEnds` are the connect
thread, which is blocked by the synchronous `UM_CONNECT_RESULT` until `HandleResult`.
A channel is a name that may be used again after its session has gone, like a
pointer.

`TcpLink` puts a client (`CXtpClientStub`, in `COfferLink`) and a server
(`CXtpServerStub`, in `CGateWayFront`) on top of a factory with one session. A
connection is a FIFO each way that goes with its session. The client logs in with
the number of its configuration after every reconnection (so messages repeat) and
disconnects on a gap; the server's flow forgets. `requesting` is the matching thread
between its test of `m_pDialogReqFlow` and its use; the first disconnection deletes
that flow for good.

### Heartbeat

`CXMPProtocol`: both ends of a connection with their timeouts, a read timeout that
tells the other end how often to write, and a slave that follows. A second is a step
(`Tick`) in which each end's timer fires once; packages take at most `Delay` seconds.

### Fanout

From the result flow to the clients: `FlowDispatcher` (`ToFront`, `ToTopics`,
`AppendNext`: one flow after the other), topics and index flows, and a front with its
sessions (`SubTopic`, `UnSubTopic`, `PublishSend`, `DeleteSession` to `Disconnect`). A message is its
position in the result flow, so that the order of results and requests is the order
in which the application produced them. `BeginsWhereAsked` relates the two ways on
which they reach the front. `Misled` names when it does not hold: the number came
out as 0, which the front takes to be counted from the end once more, or the local
number was in use, and the end point keeps its old flow.

The end of a session takes several steps. `DeleteSession` begins `Disconnect(0)`, which
calls `PublishSend` once for each end point (`SendLast`, one message each); the front's
thread does nothing else meanwhile (`Closing`), but the dispatcher goes on. A loop ends
with the batch, with the flow, or at a message the flow has let go of (`closing`);
then `Disconnect` clears the end points. The loops of several end points, which the code
runs in the order of their numbers, take turns in any order.

`work` are the flows `HandleNotify` has still to append the message to. They take their
`Turn` topic by topic, the topic before its indexes; the order of the indexes, which
is that of a string in the message, is left open. `FanoutBounds` says that a message
names a topic, and an index, once: the code appends for every time it is named.

### OrderingQ and Multicast

`OrderingQ`: the ring of slots over the ring of items of `COrderingQ`. `Multicast`: the
publisher's end point with its ports (`OnNak`, `OnAck`, merging, timing out) and the
subscribers' end points (`HandlePackage`, the parts of `OnTimer`, `OnHeartBeat`) over
a network that loses, repeats and overtakes. Of the data on its way to a subscriber
one at a time is kept, and of the control datagrams `MaxControl`: what is not kept is
lost, what is kept may arrive at any time and more than once. Intervals are
abstracted: a timer may find any of them over. Before ports are merged `qsort` puts
them in the order of their next number; where numbers are equal any order may come
out (`Sorted` is the set of them).

## Runs

| run | configuration | shows |
|---|---|---|
| `pubflow` | MCPubFlow | only confirmed results are published (`PublishedOnlyConfirmed`), none is dropped (`NothingForgotten`), the length never shrinks (`PublishedMonotone`), the thread does not wait for ever (`KernelNotStuck`); the inductive invariant of the proofs (`PubFlowInv`) |
| `threads` | MCSequencerThreads | the confirmed series is exact while the threads do not confirm at the same time (`ExactWithoutOverlap`), what is published is stored somewhere (`PublishedIsStored`), the matching thread waits only for an answer that was missed (`WaitsOnlyForMissed`) |
| `hot_standby` | MCHotStandby | the pair implements one replicated log (`ImplementsLog`), a standby's series is a beginning of its primary's (`StandbyIsPrefix`), what a PRIMARY persists is on both (`PersistedOnBoth`) |
| `aggr` | MCAggrChannel | each number is handed up once and in order (`InOrder`); a covering channel makes the loss of the others invisible (`KeepsCovering`); what is sent under one arrives (`CoveredIsDelivered`); the inductive invariant of the proofs (`AggrInv`) |
| `input` | MCInputPath | the series implements a message flow (`ImplementsFlow`); it has the messages of every link in order and each once (`TakenInOrder`), and in the end all of them (`EventuallyTaken`); the window drops nothing too early (`NothingDropped`); a held pointer stays good (`HeldIntact`) |
| `file` | MCFileFlow | the files implement a message flow across restarts (`ImplementsFlow`), so that what `Get` remembers of the last read leads to the next record, and no file stays open for nothing (`FilesBounded`) |
| `timers` | MCTimerHeap | a timer fires neither early (`NeverEarly`) nor late (`OnTime`) in any round of the clock, until more than five minutes pass between two calls of `Expire` |
| `sessions` | MCSessionFactory | one attempt at a time, whose result meets its connecter; connecters and sessions match; the limit of sessions and by how much it is passed (`FactoryInv`: `OneAttempt`, `ChannelMatches`, `SessionsBounded`); connecting goes on (`LoopAlive`, `Retried`) |
| `link` | MCTcpLink | what one connection brings is consecutive and requests are taken in order and once (`LinkInv`); nothing from the subscribed number on is missed (`NothingMissed`) and everything arrives (`SubscribedArrives`); requests are taken in the end (`RequestTaken`) |
| `heartbeat` | MCHeartbeat | an end that runs is never given up (`NoFalseAlarm`), one that has vanished always (`SilenceNoticed`) |
| `fanout` | MCFanout | the messages a session is sent (`DeliveredInOrder`), where they begin (`BeginsWhereAsked`), what its last batch has been sent when it is ended, while the dispatcher goes on (`LogoutComplete`), and that no subscription stops (`NeverStops`) |
| `multicast` | MCMulticast | order is kept (`InStep`), nobody is served twice (`ServedOnce`), everything arrives (`AllArrive`) |

Type invariants are the first conjunct of one of the invariants of each run.
`sessions` checks deadlock: the factory never comes to rest. The other models may
stop, because messages, exits, connections or time are bounded or because the
matching thread waits for a message nobody sends; each configuration says which.

### Bounds

* `pubflow`: one replayed message with two results, then up to four messages in all of
  at most two results. An entry lives from one message to the next, so three suffice
  for every interleaving of writing, releasing and writing again; the theorems hold
  for any number.
* `threads`: three messages, one fall-back to SINGLE. A message unconfirmed, one in
  confirmation and one being appended can coexist; the two loops overlap on two.
* `hot_standby`: three messages (one shared before the pair forms, one in doubt at
  the takeover, one taken in afterwards), two exits (a rejoin needs an exit of each
  node) and one break of a link. Messages and exits together are at most four
  (`TradedOff`): three messages with one exit, two with two. The two nodes are alike, so
  TLC checks one of each two states that differ in their names only (symmetry, sound
  since the run's properties are about safety): 1.7 million states.
* `aggr`: two channels, three packages of each aggregation, without symmetry: one
  channel breaks while the other lags or joins late, on either side in either order.
* `input`: a link with two messages and one with a message and a response, a quota of
  one, so that turns change after each; a window of two over at most two persisted
  messages, so that it is full, moves, and ends below, at and above what is persisted.
* `file`: files of two records, six messages (three files: one written, one read last,
  one being read), two readers, two restarts.
* `timers`: a clock of 12 ticks, a day of 3, a jump of 2 and calls up to 4 apart, for
  28 ticks: two rounds of the clock, several of the heap at every phase of the other.
* `sessions`: two connecters, a listener, at most two sessions, which `SessionsBounded`
  lets become four, and five channels; room for two posted events, so that the ring
  is full with one event of the factory's own and one of another.
* `link`: one server, four messages published through a window of two, two breaks,
  three requests through a dialog flow of two; subscriptions from the beginning, from
  a number, and from the end.
* `heartbeat`: a tenth of the real timeouts (60 and 120 seconds), at least 4, and read timeouts of 3
  (raised to 4), 7 and 10; packages of at most one second, two on the wire.
* `fanout`: a message of one topic and one of two topics and an index, windows of two,
  three messages, two requests of one session (number 1 or -1): a subscription moved
  or cancelled before, between and after three messages of which the first is
  forgotten; a batch of two, so that the last one ends at its limit, at the end of the
  flow, and at a message the dispatcher pushes out while it is sent. A million states.
* `multicast`: two subscribers, two ports, an ordering queue of two slots, so that a
  third message is out of its window; ports are far apart when two messages lie
  between them (`Distance` 1). Messages, subscribers and twice the leaves are at most
  four (`MaxWork`): three messages for one subscriber, two for two, a leave among two
  with one.

### Fairness

Weak fairness stands for a thread that runs: the two threads of PubFlow and
SequencerThreads are loops that never wait for a lock of the other (and the standby
answers what it is sent); in InputPath (`FairPath`) the matching thread runs and the
standby is sent everything and answers; in Fanout both threads run and the client
reads what it is sent; in AggrChannel the reactor reads a readable channel
(`HandleLogin`, `Pop`) but need not notice a break, open a channel or send.

`FairFactory`: both threads run and an attempt ends. Weak fairness of `OnTimer` says more
than the code: the one-shot timer is set anew by each lost session, and sessions
that break every five seconds for ever would keep it from firing. `FairLink` adds strong
fairness of a successful attempt (the server can be reached again and again); breaks
are bounded. In Multicast the timers run (weak fairness of `Drive` and `Silence`), and
for the subscribers in `Steady` the network is strongly fair to the two datagrams that
are sent again and again: their subscription and the message they must have next.
The others may be cut off for ever. HotStandby, FileFlow, TimerHeap and Heartbeat
state safety only; what must happen in time is an invariant of the last two.

## What the code does not do

No run contradicts a property; the properties end where the code's promise does. Met
while modelling:

1. `KernelApp.cpp:749`: off by one between `SetSIDAndRID` (length) and `ConfirmQueued`
   (key): results are released one confirmation late, and after a quiet period the
   last one stays unpublished. PubFlow has the code's arithmetic.
2. `KernelApp.cpp:742`, `CompServer.cpp:168`: two writers of `m_pTradeSeries`, so that a
   message is persisted twice (`overlapped` in SequencerThreads). The same overlap has
   two threads in `CPubFlow::ConfirmQueued`, where the second can publish the -1 the
   first has just stored.
3. `CompServer.cpp:157`: a bool compared with `< 0`; a failed synchronisation is
   confirmed. `PublishedIsStored` then holds through the standby only.
4. `CompSingleState.cpp:33`: an answer consumed in SINGLE leaves a message nobody
   confirms (`AnswerMissed` in `WaitsOnlyForMissed`).
5. `KernelApp.cpp:801`: a standby is promoted before the replay has caught up; new
   messages are handled and those in between never (`skipped` in HotStandby). The
   comment at `KernelApp.cpp:140` says there is no need to worry about it.
6. `HotlineSession.cpp:28`: a message is shipped before it is persisted, so a restarted
   primary may have less than its standby, which then asks for more than there is
   and is refused.
   A login carries a number and nothing of the series (`CompSingleState.cpp:31`): nodes whose
   series differ pair all the same once one has gone on without the other's messages
   (`lossy`), and `PersistedOnBoth` then says something of the numbers only.
7. `CachedFlow.cpp:126`: `SyncUnderFlow` reads the window without a lock (`raced`).
8. `FileFlow.cpp`: two readers share the position of a file (`overlapped`); a torn record
   is counted (`torn`); the file of the last read is closed at a rollover
   (`FileFlow.cpp:144`), after which a reader in that file cannot go on.
9. `SessionFactory.cpp:338`: the limit of sessions is passed by up to two with a listener;
   a refused `UM_CONNECT_LOOP` ends connecting until `EnableConnecter`.
10. `XtpClientStub.cpp:123`: the dialog flow is deleted with the first disconnection,
    also under the matching thread's hands; requests are refused ever after.
11. `FlowDispatcher.cpp:77`, `FtdFront.cpp:382`: a number that comes out as 0 or less is
    counted from the end twice; `FTDCProtocol.cpp:62`: a number that is in use keeps
    its old flow.
12. `KernelApp.cpp:112`: in hot-standby mode the dispatcher's thread is not created.
13. `XTPPubEndPoint.cpp:210`: a port without subscribers stays.
14. `FTDCPubEndPoint.cpp:22`, `FTDCSession.cpp:116`: a session that is ended has what it has
    not been sent yet sent by one call of `PublishSend`, which the comment above it calls
    an attempt to send what is unsent. It ends after 40 messages, and at the first message the flow
    has let go of: a client whose reader the window has passed is sent nothing, although
    the messages after that one are held. `LogoutComplete` says no more than that.

## Proofs

| module | proves |
|---|---|
| `FlowProofs` | PubFlow: `OnlyConfirmedIsPublished`, `NoResultForgotten`, `PublishedNeverShrinks`; FileFlow: `OpenFilesBounded`, the refinement `FilesImplementFlow`; Multicast: `OrderKept`, `NobodyServedTwice` |
| `SequencerThreadsProofs` | `ConfirmedExact`, `PublishedStored` |
| `HotStandbyProofs` | `StandbyFollows`, `BothPersist`; the refinement `LogImplemented` |
| `AggrChannelProofs` | `DeliveredInOrder`, `CoveringKept`, `FreshPairCovered` |
| `PathProofs` | the way in: `WindowSafe`, `HeldStays`, `TakenOnceInOrder`; the refinements `FlowImplemented` and `PathUsesFlow`; the way out (Fanout): `DeliveredRight`, `BeginsRight`, `LogoutSendsAll` |
| `TimingProofs` | TimerHeap: `NoneEarly`, `AllOnTime`; Heartbeat: `NeverGivenUp`, `SilenceIsNoticed` |
| `SessionFactoryProofs` | `FactoryInvariance`, `LoopNeverStands` |
| `TcpLinkProofs` | `BothDirections`, `LinkMissesNothing`; the refinement `LinkUsesFactory` |

Every safety property and action property that a run checks is a theorem; what only
TLC checks is liveness.

Each part begins with its inductive invariant, in named conjuncts; has lemmas for the
operators it needs; one lemma for each action, or for each conjunct of the invariant with
a step for each action; and ends with the theorems. The inductive invariants were checked by TLC
on the instances of the runs before they were proved. The theorems hold for every
value of the constants that the named assumptions allow.

Some definitions compute over data: a file's records are concatenated (`FlattenSeq`), an
ordering queue is emptied in a loop (`Drained`), messages are sent in one
(`Messages`). The library's induction theorems take an operator, which the provers cannot
instantiate. `Induction` is the same fact for a set of numbers, from the order of the finite
sets of the library by inclusion (`Least`); a recursive function is then shown to exist
for every length, and to keep what each of its steps keeps.

`FlowProofs` proves, first, the safety properties of `pubflow` for every replayed prefix
and every bound (assumptions: `BaseAssumption`, `BoundAssumption`, that the constants
are natural numbers). None of the properties is inductive: `published` depends on
which entry was released last and where both threads are. `PubFlowInv` says exactly
that. `ProducedInv`: the recorded result lengths are monotone. `StartingInv`: until
`FirstReDo` returns, the sequencer is idle. `ConfirmedInv`: `ack` is the last
confirmed key. `PendingInv`: an entry belongs to the series length last registered,
is complete when the sequencer reads it, and the matching thread is outside
`SetSIDAndRID`'s stores while it is given back. `ReleasedInv`: `published` is the
result length recorded at `Released`, a function of the two program counters. Each
action has a lemma that it preserves the invariant; the theorems follow from it:
`TypeCorrect`, `OnlyConfirmedIsPublished`, `EntryHandedOver`, `NoResultForgotten`,
`PublishedNeverShrinks`.

FileFlow (assumption: `FileBounds`). `FileInv` says how a number becomes a place: every
file but the last is full (`Layout`), so the record `n` is in the file `n \div Gap` at the
offset that remains (`Numbered`). `Remembered`: if the record after the one read last is in
the same file, it is at the offset that `Get` remembers. `InGet`: a reader inside `Get`
that is alone there finds its record at the position of its file, and nothing is open but
the file written last, the one read last, and the one being read. From it `FilesHold`,
`OpenFilesBounded` and, step by step, `FilesImplementFlow`: `WriteRecord` is the append of the
abstract flow, the end of `Get` its delivery, and nothing else a step of it.

Multicast (assumptions: `SlotAssumption`, `MulticastBounds`). `Ordered` is about a subscriber's
queue: the items are between head and tail of a ring of twice the window, no number is in
it twice (`Apart`), each that is still wanted is in its slot (`Found`), and the oldest item
is one that waits (`OldestWaits`), because `DeQueue` releases items from the head as long
as they have been delivered. So all items held are less than a window away from the oldest
and less than a window ahead of the next: fewer than twice the window, and the ring never
overflows. `InTurn`: queue and flow agree on what is next. `Parted`: nobody is in two
ports or in one twice, which `OnNak` keeps since it takes the subscriber out of its
port before it puts it into another, and merging since it joins disjoint sets. From these
`CastHolds`, `OrderKept` and `NobodyServedTwice`.

`AggrChannelProofs` proves every safety and action property of `aggr` for any set of
channels, any limit of sessions and any number of packages (assumption:
`AggrBounds`, that the two limits are natural numbers). `AggrInv` adds to the order
invariant what it rests on. `Members`: a channel stays in the aggregation it joined until it
breaks. `Logins`: a login is the first package of its channel. `Numbered`: numbers
increase along a channel, come from the aggregation of its other end and do not
exceed what that has sent. `Opened`: a channel not yet logged in still has
everything its aggregation sent. From it: `AggrTypeCorrect`, `DeliveredInOrder`,
`CoveringKept` (the number a `Pop` removes is the one accepted or, since numbers increase,
below it) and `FreshPairCovered` (the first channel that opens the aggregation on both sides
covers: `FreshPairCovers`). That property and `HandedOver` of PubFlow have only their
proofs, and no run.

`SessionFactoryProofs` proves the safety properties of `sessions` for any finite sets of
connecters and channels and any limits of sessions and posted events (assumption:
`FactoryBounds`). `FactoryInv` is not inductive; `FactoryIInv` adds what it rests on. A
channel that has been made is nobody's until its result is handled, so `ChannelMatches`
survives the result. The connecter at `m_nConnecterPos` has no channel, so it never gets
a second one. A round begins only while there is room, so the sessions pass the limit by
one while an attempt is under way and by two when its result comes after an accept
(`SessionsBounded`; without a listener they do not pass it). From it:
`FactoryInvariance`. `LoopNeverStands` proves `LoopAlive` beside it: each handler that
ends a round sets the timer or posts the event that does, and a posted event is in the
ring unless the ring has refused it.

`SequencerThreadsProofs` (assumption: `SequencerBounds`). `SequencerInv` has two halves.
`Calls` holds whatever the threads do: keys and recorded lengths do not pass the series,
the sequencer loops only in SINGLE, and two threads inside `ConfirmQueued` mean
`overlapped`. The rest needs that they have not overlapped, and says of the program
counters of both threads how far each is. `Keys`: a thread about to append holds the key
that comes next, a loop is never ahead of what is persisted, an answer never ahead of the
standby. `Entry`: the entry of `CPubFlow` has one owner at a time, and a thread that has
found its key in it may publish what it holds. `Stored`: `ack` and `published` belong to
messages that this node or a standby has stored. Without the first half the second is
not inductive, since it is the first that finds the overlap.

`HotStandbyProofs` (assumptions: `TwoNodes`, `StandbyBounds`). That a standby's series is
the beginning of its primary's depends on everything the pair does, so `PairInv` says what
each combination of states, commands and packages means. `Roles`: which states,
guard commands and leader go together. `Sessions`: nothing follows the end of a
session, and a standby is sent messages only. `Feeding`: the packages on their way to a standby are
the next ones of its series (`Numbered`) and those of its primary (`Genuine`), and the attached
flow or the login continues them (`Attachment`). `Answered`: an answer on its way was
persisted. `Ahead`: the node that is active has what the other will come back with. `Covered`:
what a PRIMARY has persisted since it was alone is on both, which must hold also when the
PRIMARY is gone and the other not yet promoted. `LogImplemented` needs `LogInv` besides:
what was ever shown is persisted on one of the nodes (`Kept`), both have persisted the
same (`Alike`), confirmed messages are vouched for by one of them (`Vouched`), and
`handled` follows the series unless the replay was overtaken (`Tracks`). A step that gives
back the entry of `CPubFlow` is a `Give` of the log, `Restart` of a node a `Restart` (both may
change nothing), a step that makes the pair `lossy` or `skipped` is `Void`, and every other
step leaves the log as it is.

`PathProofs` (assumptions: `FlowBounds`, `OneTimeBounds`, `LinkBounds`, `LinkMessages`;
`FanoutBounds` for the way out). `FlowInv` is about `CachedFlow`: the window and the flow beneath it
overlap or meet (`Overlap`) because in each role the appender waits before it gets two
messages ahead of what is persisted (`Alone`, `Paired`): it is the entry of `CPubFlow`, not
`CCachedFlow`, that keeps the window safe. `Agree`: until `raced`, what is in both places is
the same. From it `WindowSafe` and, step by step, `FlowImplemented`. `PathUsesFlow` shows
that links, fronts and matching thread use the window as `CachedFlow` allows, so that both hold on
the whole way. `PathInv` adds the links: `Queues` (what a reader holds is in its flow),
`Holding` (what `RealDo` holds is what it took last) and `Taken` (the series has of each flow
exactly what was taken of it, less the one under way).

The way out rests on `FanInv`. `LogRight`: what a flow has been given are the messages that
belong to it up to the one under way (`Appended`), the k-th under the number k, and
what an index holds leads to its message in the topic. The entry of an index is the number
of messages its topic has at that moment: it is right because the topic gets the message
before its indexes (`NextEntry`) and the next message waits until `work` is done.
`FrontRight`: the dispatcher resolves a number that counts from the end against the
length of the flow, which is the number of messages before the request in the order of the
results (`ResolvedRight`; a topic that is not registered has none, nor has an index over
it). `Served`: between the first number an end point sent, or was asked for, and its reader,
every number has been sent or is no longer held. The threads do not disturb each other
because results and flows only grow (`Grows`): a message keeps its number, and one that is
gone stays gone.

`ClosingRight` is about the last batch of a session (`FanHolds` proves it with `FanInv`):
between where the reader was and where it is every number has been sent or is no longer
held, and a loop that has ended has come to all that was published before the request,
which comes out of the front's flow only after that has been appended (`Before`), or
stands behind a message that is gone (`Closes`). What is held of a flow is its end, because
the entries of an index increase (`HeldFrom`); so that the loop can only have stopped at
a message that is gone if the first one is gone too, which is `LogoutSendsAll`.

`TimingProofs`, the timers (assumption: `TimerBounds`: a round of the clock, 2^32 ms in the code, is
longer than twice the longest interval and the longest pause between two calls of
`Expire` together). The lemmas are about numbers modulo the width of the clock:
`TimePassed`, that the 32-bit difference of `SyncTime` is the true one within a round.
`ClockRight`: the heap's clock and the beginning of its day add up to the real time.
`ExpiryRight`: an expiry time is the real one less that beginning, or 0 for a timer that was
overdue when a day began. `NoneDue`: what `Expire` leaves is not due.

Heartbeat (assumption: `HeartbeatBounds`: the least read timeout is above twice the delay
of a package, and the default read timeout at least twice the default write timeout). `Watching`
bounds an end's silence by its read timeout and a second. `Promised` is why a living peer is
not given up: of each direction it says, from the ages of the packages on the wire and the
clocks of both ends, that the next heartbeat will arrive in time (`Timely`). There are two
cases: the sender already writes often enough; or a package is under way that will tell it
to (`Told`), and both that package's delay and its own fit in the receiver's timeout.
While it is not known which end will vanish both directions are promised; then `Watching`
alone counts the silence down. From it `BeatsHold`, `NeverGivenUp`, `SilenceIsNoticed`.

`TcpLinkProofs` (assumptions: `FactoryBounds`, `LinkBounds`) stands on
`SessionFactoryProofs`. Each step of the link is a step of the factory (`FactoryStep`), so
`FactoryIInv` and `LoopAlive` come without being proved again, and with `MaxSession` 1 and no
listener they give one session at a time (`Single`). `Asked`: the requests on the wire and
in the dialog flow continue those taken. `Counted` and `ConsecutiveInConnection`: the
subscribed number is that of the last message. `NoneSkipped`: what the subscription
asked for and is below a message on its way, or below the server's reader, has been
received, precedes it on the wire, or was forgotten by the flow; `NothingMissed` is not
inductive without it.

Proving changed some definitions. `PersistedOnBoth` (HotStandby) compared contents in all
histories; with five messages and one exit TLC finds a pair whose nodes agree in numbers only,
after a node has gone on without messages the other had (the bound of three messages
hides it), so that the contents are now compared unless `lossy`. `TypeOK` of TimerHeap
bounded times by `MaxTime`, which holds only when that is at least a round of the
clock. InputPath states in `LinkMessages` what its constants had to be, and `TakenInOrder`
without a recursive helper. TcpLink takes the last element of `serial` by its index.
Fanout counts messages of a flow as a set and keeps `work` as a set, with the assumption that
a message names a topic once: without it `Count` would not be the number of messages.
Multicast sorts its ports in any order that `qsort` may leave.

Only model-checked is liveness, which is beyond the prover: `KernelNotStuck`,
`WaitsOnlyForMissed`, `CoveredIsDelivered`, `EventuallyTaken`, `Retried`, `SubscribedArrives`,
`RequestTaken`, `NeverStops`, `AllArrive`.

## Not modelled

* Third-party code, transports, the network layer, codecs, configuration and logging:
  they keep no state that the properties depend on. `protocol_rudp` and `connect_rudp`
  are not built. The block reactor blocks its producer where the modelled one refuses.
* Kernel: what the application does, START and STOP messages (`m_bRuning`), the modes
  without a standby.
* Flows: `Truncate`, a window without limit, readers that step by more than one, more
  than `CFNV_MAX_OBJECTS` messages, changes of role under CachedFlow, link flows kept
  in a `CFileFlow`, the count of records found behind a torn one.
* Timers: a clock that is set back, an interval of 0, the block reactor's heap.
* SessionFactory: its destructor (which can deadlock with a connect thread in
  `SendEvent`) and a `CreateSession` that gives NULL.
* TcpLink: `StopConnect` and `StartConnect`, a server that restarts, several addresses,
  the session that deletes its own stack in `HandlePackage`.
* Heartbeat: the warning timer, a heartbeat that cannot be written, read timeouts that
  change again.
* Fanout: persisted topics, responses to sessions, API keys, the low-latency mode,
  several fronts and their other kinds (web, HTTP, shared memory), flux control;
  `SubTopic` reads the length of the flow once.
* Multicast: several subscribers, of different ports, that time out in one call of
  `OnTimer`; a publisher's flow that forgets (`AllArrive` is about one that does not);
  transmission rates, datagrams with several messages, failed sends,
  delayed heartbeats, `SetAvailable`.

## Plan

1. Changes of role under CachedFlow, which joins it with SequencerThreads: `FlowInv` and
   `SequencerInv` meet in the key that is confirmed.
2. The shared-memory ring, the web and HTTP fronts, the block reactor.
3. The hotline as an aggregated session: HotStandby's FIFO implemented by AggrChannel
   while a channel covers (`CoveringKept`).
