----------------------------- MODULE HotStandby -----------------------------
(***************************************************************************)
(* The hot-standby pair of src/sequence: two nodes, each with a sequencer  *)
(* (CCompServer and its state objects), a matching thread (CKernelApp) and *)
(* two flows, the input series m_pPreSeries and beneath it the persisted   *)
(* m_pTradeSeries; the hotline between them; and the guard that commands   *)
(* them.                                                                   *)
(*                                                                         *)
(* A handler of the sequencer thread is one action: SequencerThreads looks *)
(* inside it.  The hotline is a FIFO channel each way that may break,      *)
(* losing any suffix of what is in transit (CSessionAggregation on top of  *)
(* TCP).  The guard is not in this repository; it is modelled from what    *)
(* the nodes report to it and the commands they accept.                    *)
(***************************************************************************)
EXTENDS Integers, Sequences, FiniteSets, SequencesExt

CONSTANTS
  Node,         (* the two nodes                                           *)
  NoNode,       (* no node yet                                             *)
  MaxMessages,  (* bound: messages taken in by either node                 *)
  MaxCrashes,   (* bound: exits of either process, for any reason          *)
  MaxBreaks     (* bound: breaks of the hotline and of the guard's links   *)

ASSUME TwoNodes == IsFiniteSet(Node) /\ Cardinality(Node) = 2 /\ NoNode \notin Node
ASSUME StandbyBounds == {MaxMessages, MaxCrashes, MaxBreaks} \subseteq Nat

VARIABLES
  alive,        (* the process runs                                        *)
  comp,         (* CCompServer::m_pCurrState                               *)
  pre,          (* m_pPreSeries: the messages, in order                    *)
  under,        (* m_pPreSeries->GetUnderCount(): how many are persisted   *)
  handled,      (* the messages handled, replayed or taken in by RealDo    *)
  ack, published, noAckSeries, noAckResult,   (* CPubFlow, see PubFlow; a  *)
                (* length of the result flow is a number of messages       *)
  kpc,          (* where the matching thread is                            *)
  hotline,      (* m_pHotlineSession is set                                *)
  attached,     (* id of m_pHotlineProtocol's reader, -1: no flow attached *)
  wire,         (* packages on the hotline, per receiving node             *)
  arb,          (* m_pArbSession is set                                    *)
  timer,        (* COMP_TIMER_HOTLINE_ID runs                              *)
  reset,        (* the event UM_sequence_RESET is posted                   *)
  prepareFlag,  (* CCompSingleState::m_bPreapreFlag                        *)
  cmd,          (* the guard's command on its way to each node             *)
  guard,        (* what the guard remembers                                *)
  fresh,        (* messages taken in so far                                *)
  crashes, breaks,   (* bounded counters                                   *)
  solo,         (* history: how many messages the node had persisted when  *)
                (* it last confirmed by itself, alone                      *)
  lossy,        (* history: a node was started alone without messages the  *)
                (* other has persisted, or promoted without messages the   *)
                (* other has confirmed alone                               *)
  shown,        (* history: the longest output the fronts of a node were   *)
                (* ever given                                              *)
  skipped       (* history: RealDo began before the replay had caught up   *)

pubflow == <<ack, published, noAckSeries, noAckResult, shown>>
flows == <<pre, under, handled, pubflow, kpc, fresh>>
links == <<hotline, attached, wire>>
control == <<arb, timer, reset, prepareFlag, cmd>>
bounds == <<crashes, breaks>>
history == <<solo, lossy, skipped>>
vars == <<alive, comp, flows, links, control, guard, bounds, history>>

Peer(n) == CHOOSE m \in Node : m # n

CompState == {"init", "prepare", "single", "primary", "secondary"}
Command == {"single", "prepare", "primary", "secondary", "down"}

\* Mutant: the standby asks again for the last message it has.
LoginReqLast(count) == [tid |-> "loginReq", no |-> IF count = 0 THEN 0 ELSE count - 1]
LoginReq(count) == [tid |-> "loginReq", no |-> count]
LoginError == [tid |-> "loginError"]
ConfirmReq(no, msg) == [tid |-> "confirmReq", no |-> no, msg |-> msg]
ConfirmRsp(no) == [tid |-> "confirmRsp", no |-> no]
\* Not a package: the session reports its end after what it has received.
Lost == [tid |-> "lost"]

Count(n) == Len(pre[n])
Persisted(n) == SubSeq(pre[n], 1, under[n])
\* The messages whose results the fronts of n have been given.
Distributed(n) == SubSeq(handled[n], 1, published[n])

TypeOK ==
  /\ alive \in [Node -> BOOLEAN]
  /\ comp \in [Node -> CompState]
  /\ \A n \in Node : /\ pre[n] \in Seq(1 .. MaxMessages)
                     /\ under[n] \in 0 .. Count(n)
                     /\ handled[n] \in Seq(1 .. MaxMessages) /\ Len(handled[n]) <= Count(n)
                     /\ published[n] \in 0 .. Len(handled[n])
                     /\ noAckSeries[n] \in -1 .. Count(n)
                     /\ noAckResult[n] \in -1 .. Count(n)
                     /\ ack[n] \in 0 .. Count(n)
                     /\ attached[n] \in -1 .. Count(n)
  /\ kpc \in [Node -> {"run", "redo", "confirm", "register"}]
  /\ hotline \in [Node -> BOOLEAN]
  /\ {arb, timer, reset} \subseteq [Node -> BOOLEAN]
  /\ prepareFlag \in [Node -> BOOLEAN]
  /\ cmd \in [Node -> Command \union {"none"}]

Init ==
  /\ alive = [n \in Node |-> TRUE]
  /\ comp = [n \in Node |-> "init"]
  /\ pre = [n \in Node |-> <<>>]
  /\ under = [n \in Node |-> 0]
  /\ handled = [n \in Node |-> <<>>]
  /\ ack = [n \in Node |-> 0]
  /\ published = [n \in Node |-> 0]
  /\ noAckSeries = [n \in Node |-> -1]
  /\ noAckResult = [n \in Node |-> -1]
  /\ kpc = [n \in Node |-> "run"]
  /\ hotline = [n \in Node |-> FALSE]
  /\ attached = [n \in Node |-> -1]
  /\ wire = [n \in Node |-> <<>>]
  /\ arb = [n \in Node |-> TRUE]
  /\ timer = [n \in Node |-> FALSE]
  /\ reset = [n \in Node |-> FALSE]
  /\ prepareFlag = [n \in Node |-> FALSE]
  /\ cmd = [n \in Node |-> "none"]
  /\ guard = [leader |-> NoNode, paired |-> FALSE, failed |-> FALSE, ok |-> FALSE]
  /\ fresh = 0 /\ crashes = 0 /\ breaks = 0
  /\ solo = [n \in Node |-> 0] /\ lossy = FALSE /\ skipped = FALSE
  /\ shown = <<>>

-----------------------------------------------------------------------------
(* Parts of the handlers.                                                  *)

\* The result flow of n now ends with the results of these messages.
Publish(n, messages) ==
  /\ published' = [published EXCEPT ![n] = Len(messages)]
  /\ shown' = IF Len(messages) > Len(shown) THEN messages ELSE shown

\* CPubFlow::ConfirmQueued: release the entry that waits, if k covers it.
PubFlowConfirm(n, k) ==
  /\ ack' = [ack EXCEPT ![n] = k]
  /\ IF noAckSeries[n] >= 0 /\ noAckSeries[n] <= k
     THEN /\ Publish(n, SubSeq(handled[n], 1, noAckResult[n]))
          /\ noAckResult' = [noAckResult EXCEPT ![n] = -1]
          /\ noAckSeries' = [noAckSeries EXCEPT ![n] = -1]
     ELSE UNCHANGED <<published, shown, noAckSeries, noAckResult>>

\* CCompServer::ConfirmQueued(nKey): nothing if message k is persisted; else
\* SyncUnderFlow, which persists it only if it is the next one, and CPubFlow.
ConfirmKey(n, k) ==
  IF k < under[n] THEN UNCHANGED <<under, pubflow>>
  ELSE /\ under' = [under EXCEPT ![n] = IF @ = k THEN k + 1 ELSE @]
       /\ PubFlowConfirm(n, k)

\* ConfirmAllQueued, and the loop of RealDo: every key from the persisted
\* length to the end of the series, so that the last key decides.
ConfirmAll(n) ==
  IF under[n] = Count(n) THEN UNCHANGED <<under, pubflow>>
  ELSE /\ under' = [under EXCEPT ![n] = Count(n)]
       /\ PubFlowConfirm(n, Count(n) - 1)

\* The session is up as long as neither side has its end still to see.
LinkUp == \A n \in Node : hotline[n] /\ Lost \notin ToSet(wire[n])

\* The wire once n has taken the package at its head and sent another.
Take(n) == [wire EXCEPT ![n] = Tail(@)]
Answer(n, package) ==
  wire' = IF LinkUp THEN [Take(n) EXCEPT ![Peer(n)] = Append(@, package)]
          ELSE Take(n)

\* NotifyArb: nothing is sent without a guard session.
Notify(n, event) ==
  guard' = IF ~arb[n] THEN guard
           ELSE CASE event = "hotlineFail" -> [guard EXCEPT !.failed = TRUE, !.ok = FALSE]
                  [] event = "hotlineOk"   -> [guard EXCEPT !.failed = FALSE]
                  [] event = "prepareOk"   -> [guard EXCEPT !.ok = TRUE]

\* The process is gone (exit, EMERGENCY_EXIT or a crash); its peer receives
\* some of what was in transit and then sees the session end.
Exit(n) ==
  /\ crashes < MaxCrashes
  /\ crashes' = crashes + 1
  /\ alive' = [alive EXCEPT ![n] = FALSE]
  /\ comp' = [comp EXCEPT ![n] = "init"]
  /\ hotline' = [hotline EXCEPT ![n] = FALSE]
  /\ attached' = [attached EXCEPT ![n] = -1]
  /\ arb' = [arb EXCEPT ![n] = FALSE]
  /\ timer' = [timer EXCEPT ![n] = FALSE]
  /\ reset' = [reset EXCEPT ![n] = FALSE]
  /\ prepareFlag' = [prepareFlag EXCEPT ![n] = FALSE]
  /\ cmd' = [cmd EXCEPT ![n] = "none"]
  /\ LET m == Peer(n) IN
       IF hotline[m] /\ Lost \notin ToSet(wire[m])
       THEN \E kept \in 0 .. Len(wire[m]) :
              wire' = [wire EXCEPT ![n] = <<>>, ![m] = Append(SubSeq(@, 1, kept), Lost)]
       ELSE wire' = [wire EXCEPT ![n] = <<>>]
  /\ UNCHANGED <<flows, guard, breaks, history>>

-----------------------------------------------------------------------------
(* The matching thread: CKernelApp::Run.                                   *)

Kernel(n, from, to) ==
  /\ alive[n]
  /\ kpc[n] = from
  /\ kpc' = [kpc EXCEPT ![n] = to]
  /\ UNCHANGED <<alive, comp, links, control, guard, bounds, lossy>>

\* SECONDARY: Redo.
EnterRedo(n) ==
  /\ Kernel(n, "run", "redo")
  /\ comp[n] = "secondary"
  /\ UNCHANGED <<pre, under, handled, pubflow, fresh, solo, skipped>>

RedoNext(n) ==
  /\ Kernel(n, "redo", "redo")
  /\ Len(handled[n]) < Count(n)
  /\ handled' = [handled EXCEPT ![n] = Append(@, pre[n][Len(@) + 1])]
  /\ UNCHANGED <<pre, under, pubflow, fresh, solo, skipped>>

\* The reader finds nothing; Redo sleeps and returns to Run.
RedoReturn(n) ==
  /\ Kernel(n, "redo", "run")
  /\ Len(handled[n]) = Count(n)
  /\ UNCHANGED <<pre, under, handled, pubflow, fresh, solo, skipped>>

\* PRIMARY or SINGLE: RealDo takes in a message, appends it and handles it.
RealDo(n) ==
  /\ Kernel(n, "run", "confirm")
  /\ comp[n] \in {"primary", "single"}
  /\ fresh < MaxMessages
  /\ fresh' = fresh + 1
  /\ pre' = [pre EXCEPT ![n] = Append(@, fresh')]
  /\ handled' = [handled EXCEPT ![n] = Append(@, fresh')]
  /\ skipped' = (skipped \/ Len(handled[n]) < Count(n))
  /\ UNCHANGED <<under, pubflow, solo>>

\* Mutant: a PRIMARY node confirms its own messages too.
SelfConfirmAlways(n) ==
  /\ Kernel(n, "confirm", "register")
  /\ ConfirmAll(n)
  /\ UNCHANGED <<pre, handled, fresh, solo, skipped>>

\* RealDo: only a SINGLE node confirms its own messages.
SelfConfirm(n) ==
  /\ Kernel(n, "confirm", "register")
  /\ IF comp[n] = "single"
     THEN ConfirmAll(n) /\ solo' = [solo EXCEPT ![n] = Count(n)]
     ELSE UNCHANGED <<under, pubflow, solo>>
  /\ UNCHANGED <<pre, handled, fresh, skipped>>

\* Mutant: SetSIDAndRID publishes without asking what is confirmed.
RegisterAtOnce(n) ==
  /\ Kernel(n, "register", "run")
  /\ noAckSeries[n] = -1
  /\ Publish(n, handled[n])
  /\ UNCHANGED <<pre, under, handled, ack, noAckSeries, noAckResult, fresh, solo, skipped>>

\* RealDo: SetSIDAndRID, once no entry waits.
Register(n) ==
  /\ Kernel(n, "register", "run")
  /\ noAckSeries[n] = -1
  /\ IF Count(n) <= ack[n]
     THEN /\ Publish(n, handled[n])
          /\ UNCHANGED <<noAckSeries, noAckResult>>
     ELSE /\ noAckSeries' = [noAckSeries EXCEPT ![n] = Count(n)]
          /\ noAckResult' = [noAckResult EXCEPT ![n] = Len(handled[n])]
          /\ UNCHANGED <<published, shown>>
  /\ UNCHANGED <<pre, under, handled, ack, fresh, solo, skipped>>

MatchingThread(n) ==
  \/ EnterRedo(n)
  \/ RedoNext(n)
  \/ RedoReturn(n)
  \/ RealDo(n)
  \/ SelfConfirm(n)
  \/ Register(n)

-----------------------------------------------------------------------------
(* The sequencer thread: the hotline.                                      *)

\* The listener is enabled in SINGLE and stays so in PRIMARY, the connecter in
\* PREPARE and SECONDARY.  OnHotlineConnected on both sides: only PREPARE logs
\* in.
HotlineConnect(n) ==
  /\ alive[n] /\ comp[n] \in {"prepare", "secondary"}
  /\ alive[Peer(n)] /\ comp[Peer(n)] \in {"single", "primary"}
  /\ \A m \in Node : ~hotline[m]
  /\ hotline' = [m \in Node |-> TRUE]
  /\ wire' = [wire EXCEPT ![Peer(n)] =
                IF comp[n] = "prepare" THEN <<LoginReq(Count(n))>> ELSE <<>>]
  /\ timer' = [m \in Node |-> FALSE]
  /\ guard' = IF \E m \in Node : arb[m] THEN [guard EXCEPT !.failed = FALSE] ELSE guard
  /\ UNCHANGED <<alive, comp, flows, attached, arb, reset, prepareFlag, cmd, bounds,
                 history>>

\* CHotlineProtocol::PublishSend: the next message of the attached flow.
PublishSend(n) ==
  /\ alive[n] /\ LinkUp
  /\ attached[n] \in 0 .. Count(n) - 1
  /\ attached' = [attached EXCEPT ![n] = @ + 1]
  /\ wire' = [wire EXCEPT ![Peer(n)] =
                Append(@, ConfirmReq(attached[n] + 1, pre[n][attached[n] + 1]))]
  /\ UNCHANGED <<alive, comp, flows, hotline, control, guard, bounds, history>>

Receive(n, tid) ==
  /\ alive[n]
  /\ wire[n] # <<>>
  /\ Head(wire[n]).tid = tid

\* SINGLE, LOGIN_REQ: HotlineAttachFlow, within the bounds of the series.
ReceiveLoginReq(n) ==
  /\ Receive(n, "loginReq")
  /\ comp[n] = "single"
  /\ LET start == Head(wire[n]).no IN
       IF start <= Count(n)
       THEN attached' = [attached EXCEPT ![n] = start] /\ wire' = Take(n)
       ELSE Answer(n, LoginError) /\ UNCHANGED attached
  /\ UNCHANGED <<alive, comp, flows, hotline, control, guard, bounds, history>>

\* PREPARE, LOGIN_ERROR: EMERGENCY_EXIT.
ReceiveLoginError(n) ==
  /\ Receive(n, "loginError")
  /\ comp[n] = "prepare"
  /\ Exit(n)

\* PREPARE and SECONDARY, CONFIRM_REQ: CCompServer::ConfirmQueued(pPackage).
ReceiveConfirmReq(n) ==
  /\ Receive(n, "confirmReq")
  /\ comp[n] \in {"prepare", "secondary"}
  /\ pre' = [pre EXCEPT ![n] = Append(@, Head(wire[n]).msg)]
  /\ ConfirmKey(n, Count(n))
  /\ Answer(n, ConfirmRsp(Head(wire[n]).no))
  /\ UNCHANGED <<alive, comp, handled, kpc, fresh, hotline, attached, control, guard,
                 bounds, history>>

\* PRIMARY, CONFIRM_RSP.
ReceiveConfirmRsp(n) ==
  /\ Receive(n, "confirmRsp")
  /\ comp[n] = "primary"
  /\ ConfirmKey(n, Head(wire[n]).no - 1)
  /\ wire' = Take(n)
  /\ UNCHANGED <<alive, comp, pre, handled, kpc, fresh, hotline, attached, control,
                 guard, bounds, history>>

\* SINGLE, CONFIRM_RSP: tell the guard, once, that the standby has caught up.
ReceivePrepareRsp(n) ==
  /\ Receive(n, "confirmRsp")
  /\ comp[n] = "single"
  /\ IF Head(wire[n]).no + 1 >= Count(n) /\ ~prepareFlag[n]
     THEN Notify(n, "prepareOk") /\ prepareFlag' = [prepareFlag EXCEPT ![n] = TRUE]
     ELSE UNCHANGED <<guard, prepareFlag>>
  /\ wire' = Take(n)
  /\ UNCHANGED <<alive, comp, flows, hotline, attached, arb, timer, reset, cmd, bounds,
                 history>>

\* Any other package is logged or dropped, such as what is left of the traffic
\* of a PRIMARY that is gone.
HandledIn ==
  [init |-> {}, prepare |-> {"confirmReq", "loginError"},
   single |-> {"loginReq", "confirmRsp"}, primary |-> {"confirmRsp"},
   secondary |-> {"confirmReq"}]

ReceiveIgnored(n) ==
  /\ \E tid \in {"loginReq", "loginError", "confirmReq", "confirmRsp"} \ HandledIn[comp[n]] :
       Receive(n, tid)
  /\ wire' = Take(n)
  /\ UNCHANGED <<alive, comp, flows, hotline, attached, control, guard, bounds, history>>

\* OnHotlineChannelLost.  PREPARE posts the reset; PRIMARY and SECONDARY do so
\* if the guard is gone as well, and start the timer; all but PREPARE tell the
\* guard.
ReceiveLost(n) ==
  /\ Receive(n, "lost")
  /\ hotline' = [hotline EXCEPT ![n] = FALSE]
  /\ attached' = [attached EXCEPT ![n] = -1]
  /\ wire' = Take(n)
  /\ LET paired == comp[n] \in {"primary", "secondary"} IN
       /\ reset' = [reset EXCEPT ![n] = @ \/ comp[n] = "prepare" \/ (paired /\ ~arb[n])]
       /\ timer' = [timer EXCEPT ![n] = @ \/ paired]
  /\ prepareFlag' = [prepareFlag EXCEPT ![n] = @ /\ comp[n] # "single"]
  /\ IF comp[n] = "prepare" THEN UNCHANGED guard ELSE Notify(n, "hotlineFail")
  /\ UNCHANGED <<alive, comp, flows, arb, cmd, bounds, history>>

\* OnTimer: COMP_TIMER_HOTLINE_ID.
HotlineTimer(n) ==
  /\ alive[n] /\ timer[n]
  /\ Notify(n, "hotlineFail")
  /\ UNCHANGED <<alive, comp, flows, links, control, bounds, history>>

-----------------------------------------------------------------------------
(* The sequencer thread: the guard's commands and its link.                *)

Obey(n, state, command) ==
  /\ alive[n]
  /\ comp[n] \in state
  /\ cmd[n] = command

\* ChangeState(CS_SINGLE) from INIT, PRIMARY or SECONDARY, with
\* CCompSingleState::OnEntry.
EnterSingle(n) ==
  /\ Obey(n, {"init", "primary", "secondary"}, "single")
  /\ comp' = [comp EXCEPT ![n] = "single"]
  /\ prepareFlag' = [prepareFlag EXCEPT ![n] = FALSE]
  /\ timer' = [timer EXCEPT ![n] = FALSE]
  /\ ConfirmAll(n)
  /\ cmd' = [cmd EXCEPT ![n] = "none"]
  /\ solo' = [solo EXCEPT ![n] = Count(n)]
  /\ LET kept == IF comp[n] = "init" THEN under[Peer(n)] ELSE solo[Peer(n)]
     IN  lossy' = (lossy \/ ~IsPrefix(SubSeq(pre[Peer(n)], 1, kept), pre[n]))
  /\ UNCHANGED <<alive, pre, handled, kpc, fresh, links, arb, reset, guard, bounds, skipped>>

ChangeState(n, state, new) ==
  /\ Obey(n, state, new)
  /\ comp' = [comp EXCEPT ![n] = new]
  /\ cmd' = [cmd EXCEPT ![n] = "none"]
  /\ UNCHANGED <<alive, flows, links, arb, timer, reset, prepareFlag, guard, bounds, history>>

EnterPrepare(n) == ChangeState(n, {"init"}, "prepare")
EnterMaster(n) == ChangeState(n, {"single"}, "primary")
EnterSlaver(n) == ChangeState(n, {"prepare"}, "secondary")

\* CS_DOWN: PostResetEvent.
ForcedExit(n) ==
  /\ Obey(n, CompState \ {"init"}, "down")
  /\ reset' = [reset EXCEPT ![n] = TRUE]
  /\ cmd' = [cmd EXCEPT ![n] = "none"]
  /\ UNCHANGED <<alive, comp, flows, links, arb, timer, prepareFlag, guard, bounds, history>>

\* OnGuardChannelLost: PREPARE and SINGLE post the reset; PRIMARY and SECONDARY
\* do so if the hotline is gone as well.  (INIT exits: see Crash.)
GuardLost(n) ==
  /\ alive[n] /\ arb[n] /\ comp[n] # "init"
  /\ breaks < MaxBreaks
  /\ breaks' = breaks + 1
  /\ arb' = [arb EXCEPT ![n] = FALSE]
  /\ cmd' = [cmd EXCEPT ![n] = "none"]
  /\ reset' = [reset EXCEPT ![n] = @ \/ comp[n] \in {"prepare", "single"} \/ ~hotline[n]]
  /\ UNCHANGED <<alive, comp, flows, links, timer, prepareFlag, guard, crashes, history>>

GuardConnected(n) ==
  /\ alive[n] /\ ~arb[n]
  /\ arb' = [arb EXCEPT ![n] = TRUE]
  /\ UNCHANGED <<alive, comp, flows, links, timer, reset, prepareFlag, cmd, guard, bounds,
                 history>>

\* HandleEvent: UM_sequence_RESET.
Reset(n) ==
  /\ alive[n] /\ reset[n]
  /\ Exit(n)

SequencerThread(n) ==
  \/ PublishSend(n)
  \/ ReceiveLoginReq(n)
  \/ ReceiveLoginError(n)
  \/ ReceiveConfirmReq(n)
  \/ ReceiveConfirmRsp(n)
  \/ ReceivePrepareRsp(n)
  \/ ReceiveIgnored(n)
  \/ ReceiveLost(n)
  \/ HotlineTimer(n)
  \/ EnterSingle(n)
  \/ EnterPrepare(n)
  \/ EnterMaster(n)
  \/ EnterSlaver(n)
  \/ ForcedExit(n)
  \/ GuardLost(n)
  \/ GuardConnected(n)
  \/ Reset(n)

-----------------------------------------------------------------------------
(* The environment: processes exit and restart, links break, and the guard. *)

\* Any other exit, that of INIT for want of a guard included.
Crash(n) == alive[n] /\ Exit(n)

\* A restarted node reads its persisted series and replays it (FirstReDo).
Restart(n) ==
  /\ ~alive[n]
  /\ alive' = [alive EXCEPT ![n] = TRUE]
  /\ arb' = [arb EXCEPT ![n] = TRUE]
  /\ pre' = [pre EXCEPT ![n] = Persisted(n)]
  /\ handled' = [handled EXCEPT ![n] = Persisted(n)]
  /\ ack' = [ack EXCEPT ![n] = under[n]]
  /\ Publish(n, Persisted(n))
  /\ noAckSeries' = [noAckSeries EXCEPT ![n] = -1]
  /\ noAckResult' = [noAckResult EXCEPT ![n] = -1]
  /\ kpc' = [kpc EXCEPT ![n] = "run"]
  /\ UNCHANGED <<under, fresh, comp, links, timer, reset, prepareFlag, cmd, guard, bounds,
                 history>>

HotlineBreak ==
  /\ LinkUp
  /\ breaks < MaxBreaks
  /\ breaks' = breaks + 1
  /\ \E kept \in [Node -> 0 .. MaxMessages + 1] :
       /\ \A n \in Node : kept[n] <= Len(wire[n])
       /\ wire' = [n \in Node |-> Append(SubSeq(wire[n], 1, kept[n]), Lost)]
  /\ UNCHANGED <<alive, comp, flows, hotline, attached, control, guard, crashes, history>>

\* The guard commands a node it is connected to, one command at a time.
CanCommand(n) == alive[n] /\ arb[n] /\ cmd[n] = "none"

Commands(orders, memory) ==
  /\ cmd' = orders
  /\ guard' = memory
  /\ UNCHANGED <<alive, comp, flows, links, arb, timer, reset, prepareFlag, bounds, history>>

\* Start alone the node that was active last, or any node the first time.
GuardStart(n) ==
  /\ CanCommand(n) /\ comp[n] = "init" /\ comp[Peer(n)] = "init"
  /\ cmd[Peer(n)] = "none"
  /\ ~guard.paired /\ guard.leader \in {NoNode, n}
  /\ Commands([cmd EXCEPT ![n] = "single"],
              [leader |-> n, paired |-> FALSE, failed |-> FALSE, ok |-> FALSE])

GuardPrepare(n) ==
  /\ CanCommand(n) /\ comp[n] = "init"
  /\ comp[Peer(n)] = "single" /\ CanCommand(Peer(n)) /\ guard.leader = Peer(n)
  /\ Commands([cmd EXCEPT ![n] = "prepare"], guard)

\* ARB_EVENT_PREPARE_OK: make the two a pair.
GuardPair(n) ==
  /\ \A m \in Node : CanCommand(m)
  /\ guard.ok /\ guard.leader = n
  /\ comp[n] = "single" /\ comp[Peer(n)] = "prepare"
  /\ Commands([cmd EXCEPT ![n] = "primary", ![Peer(n)] = "secondary"],
              [guard EXCEPT !.paired = TRUE, !.failed = FALSE, !.ok = FALSE])

\* ARB_EVENT_HOTLINE_FAIL, or the other node has come back in INIT: let this
\* one go on alone.  Never while the other is still SINGLE, and so confirms its
\* own messages; the other is told to exit.
GuardPromote(n) ==
  /\ CanCommand(n) /\ comp[n] \in {"primary", "secondary"}
  /\ guard.paired
  /\ comp[Peer(n)] # "single" /\ cmd[Peer(n)] = "none"
  /\ guard.failed \/ (arb[Peer(n)] /\ comp[Peer(n)] = "init")
  /\ Commands([cmd EXCEPT ![n] = "single",
                 ![Peer(n)] = IF arb[Peer(n)] /\ comp[Peer(n)] # "init"
                              THEN "down" ELSE @],
              [leader |-> n, paired |-> FALSE, failed |-> FALSE, ok |-> FALSE])

\* Both are gone: whoever operates the pair chooses where to start again.
GuardDissolve ==
  /\ guard.paired
  /\ \A n \in Node : comp[n] = "init" /\ cmd[n] = "none"
  /\ \E n \in Node : guard' = [guard EXCEPT !.leader = n, !.paired = FALSE]
  /\ UNCHANGED <<alive, comp, flows, links, control, bounds, history>>

Guard(n) == GuardStart(n) \/ GuardPrepare(n) \/ GuardPair(n) \/ GuardPromote(n)

-----------------------------------------------------------------------------

Next ==
  \/ \E n \in Node :
       \/ MatchingThread(n)
       \/ SequencerThread(n)
       \/ Guard(n)
       \/ HotlineConnect(n)
       \/ Crash(n)
       \/ Restart(n)
  \/ HotlineBreak
  \/ GuardDissolve

Spec == Init /\ [][Next]_vars

-----------------------------------------------------------------------------
(* Properties.                                                             *)

\* The pair implements one replicated log.  What the fronts of either node have
\* ever been given is one history: across exits, restarts, broken hotlines and
\* takeovers no node gives results that contradict what any node, itself
\* included, has given before, as long as nobody goes on alone without messages
\* the other had persisted, and nobody handles a new message before those already in
\* its series (the replay of a standby that is promoted may be behind).
Abstract == INSTANCE ReplicatedLog WITH
  Replica <- Node, Message <- 1 .. MaxMessages,
  log <- shown, given <- [n \in Node |-> Distributed(n)], voided <- lossy \/ skipped
ImplementsLog == Abstract!Spec

\* What a standby has, its primary has: from the login of a PREPARE node until
\* the end of the pair its series is the beginning of the other's, whatever is
\* lost with a broken hotline and replayed after the next login.
StandbyIsPrefix ==
  ~lossy => \A n \in Node :
    (comp[n] \in {"prepare", "secondary"} /\ comp[Peer(n)] \in {"single", "primary"}) =>
       IsPrefix(pre[n], pre[Peer(n)])

\* What a PRIMARY persists after it has stopped confirming alone, its standby
\* has persisted: a takeover does not lose it.  (Once a node has gone on alone
\* without messages the other had, only the numbers agree: a login is checked
\* for its number, not for what the series hold.)
PersistedOnBoth ==
  /\ TypeOK
  /\ \A n \in Node : (comp[n] = "primary" /\ under[n] > solo[n]) =>
       /\ under[n] <= under[Peer(n)]
       /\ ~lossy => IsPrefix(Persisted(n), Persisted(Peer(n)))
=============================================================================
