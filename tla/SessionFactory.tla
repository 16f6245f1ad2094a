---------------------------- MODULE SessionFactory ----------------------------
(***************************************************************************)
(* A session factory (CSessionFactory) with its connecters, its listener   *)
(* and its two threads: the reactor of the factory, which handles results, *)
(* events and timers and owns the sessions, and m_reactorConnect, in which *)
(* a connecter makes one blocking attempt and hands the result over with   *)
(* a synchronous event.  Events posted to the factory go through a ring    *)
(* (CEventQueue) that refuses them when it is full.                        *)
(***************************************************************************)
EXTENDS Integers, Sequences, FiniteSets

CONSTANTS
  Connecter,     (* the connecters                                         *)
  Channel,       (* the channels there can be at once                      *)
  NoOne,         (* NULL for a channel or a connecter                      *)
  Inbound,       (* the peer of a channel that was accepted                *)
  MaxSession,    (* m_nMaxSession                                          *)
  MaxPosted,     (* posted events the ring has room for                    *)
  Listener       (* whether the factory has a listener                     *)

ASSUME FactoryBounds ==
  /\ NoOne \notin Channel \union Connecter /\ Inbound \notin Connecter \union {NoOne}
  /\ MaxSession \in Nat \ {0} /\ MaxPosted \in Nat \ {0}
  /\ Listener \in BOOLEAN
  /\ IsFiniteSet(Connecter) /\ IsFiniteSet(Channel)

VARIABLES
  order,      (* m_connecters                                              *)
  pos,        (* m_nConnecterPos; 0 for -1                                 *)
  channel,    (* channel[c]: m_pChannel of connecter c                     *)
  peer,       (* peer[s]: whom the session on channel s is with, or NoOne  *)
  enabled,    (* m_bConnecterEnable                                        *)
  listening,  (* m_bListenerEnable                                         *)
  timer,      (* TIMER_ID_CONNECT is set                                   *)
  posted,     (* the ring: "loop" is UM_CONNECT_LOOP, "other" another's    *)
  tries,      (* UM_TRY_CONNECT posted to m_reactorConnect                 *)
  trying,     (* the connecter whose Connect is under way or has ended     *)
  answered,   (* Connect has ended, UM_CONNECT_RESULT is waiting           *)
  made,       (* ... with this channel, or NoOne                           *)
  refused     (* history: the ring has refused an event                    *)

connecting == <<order, pos, tries>>
thread == <<trying, answered, made>>
factory == <<connecting, thread, channel, peer, enabled, listening, timer, posted, refused>>

Sessions == {s \in Channel : peer[s] # NoOne}
Count == Cardinality(Sessions)
Room == Count < MaxSession
Free == Channel \ (Sessions \union {made})
Fresh == CHOOSE s \in Free : TRUE

Rotations(q) == {SubSeq(q, k + 1, Len(q)) \o SubSeq(q, 1, k) : k \in 0 .. Len(q)}

\* i is the first position after p of q whose connecter has no channel; 0: none.
FirstWithout(i, q, p, ch) ==
  /\ i # 0 => i \in p + 1 .. Len(q) /\ ch[q[i]] = NoOne
  /\ \A j \in p + 1 .. IF i = 0 THEN Len(q) ELSE i - 1 : ch[q[j]] # NoOne

\* Mutant: at the end the loop is not set going again.
ConnectNextEnds(q, p, ch, set) ==
  \E i \in 0 .. Len(q) :
    /\ FirstWithout(i, q, p, ch)
    /\ order' = q /\ pos' = i
    /\ tries' = IF i = 0 THEN tries ELSE Append(tries, q[i])
    /\ timer' = set
\* ConnectNext from position p on, with the timer set or not; at the end it
\* sends UM_CONNECT_LOOP to its own thread, which sets the timer at once.
ConnectNext(q, p, ch, set) ==
  \E i \in 0 .. Len(q) :
    /\ FirstWithout(i, q, p, ch)
    /\ order' = q /\ pos' = i
    /\ tries' = IF i = 0 THEN tries ELSE Append(tries, q[i])
    /\ timer' = (set \/ i = 0)

\* Mutant: an attempt under way is not looked at.
MayConnectTwice(allowed) == Room /\ allowed
MayConnect(allowed) == Room /\ allowed /\ pos = 0

\* OnTimer(TIMER_ID_CONNECT), which kills the timer first.
Connect(allowed) ==
  \/ MayConnect(allowed) /\ \E q \in Rotations(order) : ConnectNext(q, 0, channel, FALSE)
  \/ ~MayConnect(allowed) /\ timer' = FALSE /\ UNCHANGED connecting

\* After Start.
Init ==
  /\ order \in {q \in [1 .. Cardinality(Connecter) -> Connecter] :
                 \A i, j \in DOMAIN q : q[i] = q[j] => i = j}
  /\ pos = IF Connecter = {} THEN 0 ELSE 1
  /\ tries = IF Connecter = {} THEN <<>> ELSE <<order[1]>>
  /\ timer = (Connecter = {})
  /\ channel = [c \in Connecter |-> NoOne]
  /\ peer = [s \in Channel |-> NoOne]
  /\ enabled = TRUE /\ listening = TRUE
  /\ posted = <<>>
  /\ trying = NoOne /\ answered = FALSE /\ made = NoOne
  /\ refused = FALSE

-----------------------------------------------------------------------------
(* The connect thread.                                                     *)

\* It takes UM_TRY_CONNECT, unless it is waiting for the factory.
TryConnect ==
  /\ trying = NoOne /\ tries # <<>>
  /\ trying' = Head(tries)
  /\ tries' = Tail(tries)
  /\ UNCHANGED <<order, pos, answered, made, channel, peer, enabled, listening, timer, posted, refused>>

\* The attempt succeeds or fails; SendEvent(UM_CONNECT_RESULT) blocks the thread.
ConnectEnds(connected) ==
  /\ trying # NoOne /\ ~answered
  /\ connected => Free # {}
  /\ answered' = TRUE
  /\ made' = IF connected THEN Fresh ELSE NoOne
  /\ UNCHANGED <<connecting, trying, channel, peer, enabled, listening, timer, posted, refused>>

-----------------------------------------------------------------------------
(* The thread of the factory.  A synchronous event goes before what is     *)
(* posted.                                                                 *)

\* The channels and sessions after the result.
ChannelAfter == IF made = NoOne THEN channel ELSE [channel EXCEPT ![order[pos]] = made]
PeerAfter == IF made = NoOne THEN peer ELSE [peer EXCEPT ![made] = trying]
CountAfter == Count + IF made = NoOne THEN 0 ELSE 1

\* UM_CONNECT_RESULT: the next one, or CancelConnect.
HandleResult ==
  /\ answered
  /\ channel' = ChannelAfter
  /\ peer' = PeerAfter
  /\ IF CountAfter < MaxSession /\ enabled
     THEN ConnectNext(order, pos, ChannelAfter, timer)
     ELSE pos' = 0 /\ UNCHANGED <<order, tries, timer>>
  /\ trying' = NoOne /\ answered' = FALSE /\ made' = NoOne
  /\ UNCHANGED <<enabled, listening, posted, refused>>

\* UM_CONNECT_LOOP, or the event of another handler.
HandlePosted ==
  /\ ~answered /\ posted # <<>>
  /\ posted' = Tail(posted)
  /\ timer' = (timer \/ Head(posted) = "loop")
  /\ UNCHANGED <<connecting, thread, channel, peer, enabled, listening, refused>>

OnTimer ==
  /\ timer
  /\ Connect(enabled)
  /\ UNCHANGED <<thread, channel, peer, enabled, listening, posted, refused>>

EnableConnecter(b) ==
  /\ enabled' = b
  /\ Connect(b)
  /\ UNCHANGED <<thread, channel, peer, listening, posted, refused>>

EnableListener(b) ==
  /\ Listener
  /\ listening' = b
  /\ UNCHANGED <<connecting, thread, channel, peer, enabled, timer, posted, refused>>

LetIn == Count <= MaxSession /\ listening

\* UM_LISTEN_RESULT, sent by the listener in the same thread; a channel that is
\* not let in is closed.
Accept ==
  /\ Listener /\ LetIn /\ Free # {}
  /\ peer' = [peer EXCEPT ![Fresh] = Inbound]
  /\ UNCHANGED <<connecting, thread, channel, enabled, listening, timer, posted, refused>>

\* PostEvent, and what it returns is not looked at.
Post(e) ==
  /\ posted' = IF Len(posted) < MaxPosted THEN Append(posted, e) ELSE posted
  /\ refused' = (refused \/ Len(posted) >= MaxPosted)

CheckChannel(s) == [c \in Connecter |-> IF channel[c] = s THEN NoOne ELSE channel[c]]

\* OnSessionDisconnected.
SessionLost(s) ==
  /\ s \in Sessions
  /\ peer' = [peer EXCEPT ![s] = NoOne]
  /\ channel' = CheckChannel(s)
  /\ Post("loop")
  /\ UNCHANGED <<connecting, thread, enabled, listening, timer>>

\* Another handler of the reactor is sent an event.
PostOther ==
  /\ Len(posted) < MaxPosted
  /\ Post("other")
  /\ UNCHANGED <<connecting, thread, channel, peer, enabled, listening, timer>>

Next ==
  \/ TryConnect
  \/ \E b \in BOOLEAN : ConnectEnds(b) \/ EnableConnecter(b) \/ EnableListener(b)
  \/ HandleResult \/ HandlePosted \/ OnTimer \/ Accept \/ PostOther
  \/ \E s \in Channel : SessionLost(s)

Spec == Init /\ [][Next]_factory

\* Both threads run and an attempt ends; the timer is not set anew for ever,
\* which sessions that break every five seconds would do.
FairFactory ==
  /\ WF_factory(TryConnect) /\ WF_factory(ConnectEnds(FALSE))
  /\ WF_factory(HandleResult) /\ WF_factory(HandlePosted) /\ WF_factory(OnTimer)

FairSpec == Spec /\ FairFactory

-----------------------------------------------------------------------------
(* Properties.                                                             *)

TypeOK ==
  /\ order \in Seq(Connecter) /\ Len(order) = Cardinality(Connecter)
  /\ pos \in 0 .. Len(order)
  /\ channel \in [Connecter -> Channel \union {NoOne}]
  /\ peer \in [Channel -> Connecter \union {Inbound, NoOne}]
  /\ {enabled, listening, timer, answered, refused} \subseteq BOOLEAN
  /\ posted \in Seq({"loop", "other"}) /\ Len(posted) <= MaxPosted
  /\ tries \in Seq(Connecter)
  /\ trying \in Connecter \union {NoOne} /\ made \in Channel \union {NoOne}

\* At most one attempt is outstanding, and its result meets the connecter at
\* m_nConnecterPos that made it, whatever has been enabled, disabled, accepted
\* or lost since; so does ChannelMatches depend on it.
OneAttempt ==
  /\ pos = 0 => tries = <<>> /\ trying = NoOne
  /\ pos > 0 => <<tries, trying>> \in {<< <<order[pos]>>, NoOne>>, << <<>>, order[pos]>>}

\* A connecter knows its session and none else: it never makes a second
\* connection to the same place, and never keeps the pointer of a channel that
\* is gone, although another session may have got the same address.
ChannelMatches ==
  /\ \A c \in Connecter : channel[c] # NoOne => peer[channel[c]] = c
  /\ \A s \in Channel : peer[s] \in Connecter => channel[peer[s]] = s

\* With a listener there can be one session too many, since OnChannelCreated
\* comes after a test with >, and yet another whose attempt began before.
SessionsBounded ==
  Count + (IF made = NoOne THEN 0 ELSE 1) <= MaxSession + IF Listener THEN 2 ELSE 0

\* What the threads of the factory, of the connect loop and of the reactor keep
\* between them: one attempt at a time whose result finds its connecter, channels
\* and sessions that belong together, and a bound on the sessions.
FactoryInv ==
  /\ TypeOK
  /\ OneAttempt
  /\ ChannelMatches
  /\ SessionsBounded

\* What FactoryInv rests on: a channel that has been made is not yet a session's,
\* its attempt is under way and its connecter has none; and an attempt begins only
\* while there is room, so that the sessions pass the limit by one before it ends.
FactoryIInv ==
  /\ TypeOK
  /\ OneAttempt
  /\ ChannelMatches
  /\ made # NoOne => answered /\ peer[made] = NoOne
  /\ answered => trying # NoOne
  /\ pos > 0 => channel[order[pos]] = NoOne
  /\ Count <= MaxSession + IF Listener THEN 2 ELSE 0
  /\ pos > 0 => Count <= IF Listener THEN MaxSession + 1 ELSE MaxSession - 1

\* While the connecters are enabled and there is room, something is under way
\* that will make the next attempt; only an event that the ring has refused can
\* end it, and then nothing begins it again but EnableConnecter.
LoopAlive ==
  enabled /\ Room /\ pos = 0 => timer \/ refused \/ \E i \in DOMAIN posted : posted[i] = "loop"

\* A connecter without a channel is tried in the end, wherever the others are
\* in their turns.
Retried ==
  \A c \in Connecter :
    (enabled /\ Room /\ channel[c] = NoOne) ~> (trying = c \/ ~enabled \/ ~Room \/ refused)
=============================================================================
