------------------------------ MODULE Multicast ------------------------------
(***************************************************************************)
(* A numbered flow over datagrams that are lost, repeated and overtaken    *)
(* (CXTPProtocol).  The publisher's end point (CXTPPubEndPoint) serves all *)
(* subscribers from a few ports (CPublishPort), each of which goes through *)
(* the flow for a group of them; what it sends, everybody hears.  A        *)
(* subscriber's end point (CXTPSubEndPoint) puts what it hears in order    *)
(* (COrderingQ), asks for what it misses, and acknowledges now and then.   *)
(*                                                                         *)
(* Clocks are abstracted: a timer may find any interval over.              *)
(***************************************************************************)
EXTENDS OrderingQ, Sequences, SequencesExt

CONSTANTS
  Subscriber,
  Steady,        (* those the network does not cut off                     *)
  MaxPorts,      (* MAX_PUB_PORTS (8)                                      *)
  Distance,      (* FRONT_MERGE_DISTANCE, BACK_MERGE_DISTANCE (10000)      *)
  Batch,         (* messages a port sends in one interval                  *)
  MaxPublished,  (* bound: messages published                              *)
  MaxWork,       (* bound: messages, subscribers and twice the leaves       *)
  MaxControl,    (* bound: datagrams on their way to the publisher         *)
  MaxLeaves      (* bound: subscribers that leave or are timed out         *)

ASSUME MulticastBounds ==
  /\ {MaxPorts, Distance, Batch} \subseteq Nat \ {0}
  /\ {MaxPublished, MaxWork, MaxControl, MaxLeaves} \subseteq Nat
  /\ IsFiniteSet(Subscriber) /\ Steady \subseteq Subscriber

Number == 1 .. MaxPublished
Control == [type : {"subscribe", "ack"}, from : Subscriber, id : 0 .. MaxPublished]
             \union [type : {"unsubscribe"}]

VARIABLES
  issued,        (* messages in the flow                                    *)
  ports,        (* m_PublishPorts: next id and subscribers of each         *)
  active,       (* subscribers with an end point                           *)
  received,     (* GetReceivedCount of each                                *)
  queue,        (* m_orderingQ of each                                     *)
  disorder,     (* m_nDisorderClock is set                                 *)
  air,          (* the data on the way to each subscriber, 0 if none       *)
  control,      (* subscriptions and acknowledgements on the way           *)
  leaves        (* bounded counter                                         *)

Work == issued + Cardinality(active) + 2 * leaves

publisher == <<issued, ports>>
subscribers == <<active, received, queue, disorder>>
castVars == <<publisher, subscribers, air, control, leaves>>

CastInit ==
  /\ issued = 0 /\ ports = <<>>
  /\ active = {} /\ received = [s \in Subscriber |-> 0]
  /\ queue = [s \in Subscriber |-> SetStartIndex(1)]
  /\ disorder = [s \in Subscriber |-> FALSE]
  /\ air = [s \in Subscriber |-> 0] /\ control = {} /\ leaves = 0

-----------------------------------------------------------------------------
(* The network.                                                            *)

\* Of the control datagrams on the way and a new one, any part arrives.
Sent(new) == {kept \in SUBSET (control \union {new}) : Cardinality(kept) <= MaxControl}
\* To a subscriber one of the data is on the way at a time.
Heard(s, data) == {air[s]} \union data

Subscribe(s, n) == [type |-> "subscribe", from |-> s, id |-> n]
Ack(s, n) == [type |-> "ack", from |-> s, id |-> n]
UnSubscribe == [type |-> "unsubscribe"]

\* Mutant: the number that is missing, instead of the last one that is there.
MissingFrom(s) == queue[s].startIndex
Have(s) == queue[s].startIndex - 1

-----------------------------------------------------------------------------
(* A subscriber.                                                           *)

\* The application appends to the flow.
Publish ==
  /\ issued < MaxPublished /\ Work < MaxWork
  /\ issued' = issued + 1
  /\ UNCHANGED <<ports, subscribers, air, control, leaves>>

RegisterSubscriber(s) ==
  /\ s \notin active /\ Work < MaxWork
  /\ active' = active \union {s}
  /\ queue' = [queue EXCEPT ![s] = SetStartIndex(received[s] + 1)]
  /\ disorder' = [disorder EXCEPT ![s] = FALSE]
  /\ control' \in Sent(Subscribe(s, received[s]))
  /\ UNCHANGED <<publisher, received, air, leaves>>

UnRegisterSubscriber(s) ==
  /\ s \in active /\ Work < MaxWork /\ leaves < MaxLeaves
  /\ leaves' = leaves + 1
  /\ active' = active \ {s}
  /\ control' \in Sent(UnSubscribe)
  /\ UNCHANGED <<publisher, received, queue, disorder, air>>

\* Delivery of package n to who has received r.
Delivery(r, n) == IF n = r + 1 THEN n ELSE r

\* The package with the next number, and those that have been waiting for it.
Drained(q, r) ==
  LET after[k \in 0 .. MaxSlot] ==
        IF k = 0 THEN <<DeQueue(q), Delivery(r, q.startIndex)>>
        ELSE LET p == after[k - 1]
                 n == QueueFront(p[1])
             IN  IF n = 0 THEN p ELSE <<DeQueue(p[1]), Delivery(p[2], n)>>
  IN  after[MaxSlot]

HandlePackage(s, n) ==
  LET q == queue[s] IN
  /\ s \in active /\ n = air[s] /\ n # 0
  /\ \E again \in {0, n} : air' = [air EXCEPT ![s] = again]
  /\ \/ /\ n < q.startIndex
        /\ UNCHANGED <<received, queue, disorder, control>>
     \/ /\ n > q.startIndex
        /\ IF disorder[s] THEN UNCHANGED control
           ELSE control' \in Sent(Subscribe(s, Have(s)))
        /\ disorder' = [disorder EXCEPT ![s] = TRUE]
        /\ queue' = [queue EXCEPT ![s] = EnQueue(q, n)]
        /\ UNCHANGED received
     \/ /\ n = q.startIndex
        /\ LET p == Drained(q, received[s]) IN
             /\ queue' = [queue EXCEPT ![s] = p[1]]
             /\ received' = [received EXCEPT ![s] = p[2]]
        /\ disorder' = [disorder EXCEPT ![s] = FALSE]
        /\ UNCHANGED control
  /\ UNCHANGED <<publisher, active, leaves>>

\* OnTimer: silence since the last delivery counts as disorder; disorder asks
\* again and again; an acknowledgement is due now and then.  A call that does
\* several of these is as good as one for each.
Silence(s) ==
  /\ s \in active /\ ~disorder[s]
  /\ disorder' = [disorder EXCEPT ![s] = TRUE]
  /\ UNCHANGED <<publisher, active, received, queue, air, control, leaves>>

Ask(s, m) ==
  /\ s \in active
  /\ control' \in Sent(m)
  /\ UNCHANGED <<publisher, subscribers, air, leaves>>
SendNak(s) == disorder[s] /\ Ask(s, Subscribe(s, Have(s)))
SendAck(s) == Ask(s, Ack(s, queue[s].startIndex - 1))

\* A heartbeat that says there is no more.  It is not delayed here.
OnHeartBeat(s) ==
  /\ s \in active /\ disorder[s] /\ issued = queue[s].startIndex - 1
  /\ disorder' = [disorder EXCEPT ![s] = FALSE]
  /\ UNCHANGED <<publisher, active, received, queue, air, control, leaves>>

-----------------------------------------------------------------------------
(* The publisher.                                                          *)

Serves(p, s) == \E i \in DOMAIN p.subscribers : p.subscribers[i] = s
Serving(ps, s) == {i \in DOMAIN ps : Serves(ps[i], s)}
First(S) == CHOOSE i \in S : \A j \in S : i <= j
Near(d) == d > -Distance /\ d < Distance

AddSubscriber(p, s) == [p EXCEPT !.subscribers = Append(@, s)]
\* Mutant: the subscriber stays with the port it leaves.
DelSubscriberForgotten(p, s) == p
DelSubscriber(p, s) ==
  [p EXCEPT !.subscribers = RemoveAt(@, First({i \in DOMAIN @ : @[i] = s}))]
MoveTo(p, id) == [p EXCEPT !.next = id]

\* The nearest ports on either side of id.
Behind(ps, id) ==
  {i \in DOMAIN ps : ps[i].next < id /\ \A j \in DOMAIN ps : ps[j].next < id => ps[j].next <= ps[i].next}
Ahead(ps, id) ==
  {i \in DOMAIN ps : ps[i].next >= id /\ \A j \in DOMAIN ps : ps[j].next >= id => ps[j].next >= ps[i].next}

Full(ps) == Len(ps) >= MaxPorts

\* A subscriber that no port serves: the near port behind it will come; a near
\* one ahead goes back; otherwise there is a new port, or when there are too many
\* one of the two after all.
Joined(ps, s, id) ==
  LET back == Behind(ps, id)
      front == Ahead(ps, id)
      nearBack == back # {} /\ id - ps[First(back)].next <= Distance
      nearFront == front # {} /\ ps[First(front)].next - id <= Distance
      toBack == nearBack \/ (~nearFront /\ Full(ps) /\ back # {})
      toFront == ~toBack /\ (nearFront \/ Full(ps))
  IN  IF toBack THEN [ps EXCEPT ![First(back)] = AddSubscriber(@, s)]
      ELSE IF toFront THEN [ps EXCEPT ![First(front)] = MoveTo(AddSubscriber(@, s), id)]
      ELSE Append(ps, [next |-> id, subscribers |-> <<s>>])

\* OnNak: the port that serves the subscriber is moved, if it is near or serves
\* nobody else; whatever the others still miss.
AfterNak(ps, s, id) ==
  LET i == First(Serving(ps, s))
  IN  IF Serving(ps, s) = {} THEN Joined(ps, s, id)
      ELSE IF Len(ps[i].subscribers) <= 1 \/ Near(ps[i].next - id) THEN [ps EXCEPT ![i] = MoveTo(@, id)]
      ELSE Joined([ps EXCEPT ![i] = DelSubscriber(@, s)], s, id)

AfterAck(ps, s, id) ==
  LET i == First(Serving(ps, s))
  IN  IF Serving(ps, s) = {} \/ id <= ps[i].next THEN ps
      ELSE IF i < Len(ps) /\ 2 * (id - ps[i + 1].next) > Distance
           THEN [ps EXCEPT ![i] = DelSubscriber(@, s), ![i + 1] = AddSubscriber(@, s)]
      ELSE IF Len(ps[i].subscribers) <= 1 THEN [ps EXCEPT ![i] = MoveTo(@, id)]
      ELSE ps

OnControl(m) ==
  /\ m \in control
  /\ control' \in {control, control \ {m}}
  /\ ports' = CASE m.type = "subscribe" -> AfterNak(ports, m.from, m.id)
                [] m.type = "ack" -> AfterAck(ports, m.from, m.id)
                [] m.type = "unsubscribe" -> <<>>
  /\ UNCHANGED <<issued, subscribers, air, leaves>>

\* The ports in the order of the numbers they have reached; qsort leaves open which
\* of two that have reached the same comes first.
Sorted(ps) ==
  {q \in {[k \in DOMAIN ps |-> ps[p[k]]] : p \in Injection(DOMAIN ps, DOMAIN ps)} :
     \A i, j \in DOMAIN q : i < j => q[i].next <= q[j].next}

\* Two ports that are close become one, at the place of the one behind.
Merged(q) ==
  LET close == {i \in 1 .. Len(q) - 1 : 2 * (q[i + 1].next - q[i].next) < Distance}
      i == CHOOSE j \in close : \A k \in close : k <= j
  IN  IF close = {} THEN q
      ELSE RemoveAt([q EXCEPT ![i].subscribers = @ \o q[i + 1].subscribers], i + 1)

\* A subscriber nothing has been heard from is taken off its port.
TimedOut(ps, s) ==
  LET i == First(Serving(ps, s))
      rest == [ps EXCEPT ![i] = DelSubscriber(@, s)]
  IN  IF rest[i].subscribers = <<>> THEN RemoveAt(rest, i) ELSE rest

\* OnTimer: every port sends a batch; a subscriber may time out.
Batched(p) == [p EXCEPT !.next = IF @ + Batch < issued THEN @ + Batch ELSE issued]
Data == UNION {ports[i].next + 1 .. Batched(ports[i]).next : i \in DOMAIN ports}
AfterTimer == {Merged(q) : q \in Sorted([i \in DOMAIN ports |-> Batched(ports[i])])}

\* What may be on its way to each subscriber when the ports have sent.
Hearings == {heard \in [Subscriber -> {0} \union Number] : \A s \in Subscriber : heard[s] \in Heard(s, Data)}

Drive ==
  /\ ports' \in AfterTimer
  /\ air' \in Hearings
  /\ UNCHANGED <<issued, subscribers, control, leaves>>

DriveTimeout(s) ==
  /\ Work < MaxWork /\ leaves < MaxLeaves
  /\ Serving(ports, s) # {}
  /\ leaves' = leaves + 1
  /\ ports' \in {TimedOut(ps, s) : ps \in AfterTimer}
  /\ air' \in Hearings
  /\ UNCHANGED <<issued, subscribers, control>>

CastNext ==
  \/ Publish
  \/ \E s \in Subscriber :
       \/ RegisterSubscriber(s) \/ UnRegisterSubscriber(s)
       \/ HandlePackage(s, air[s])
       \/ Silence(s) \/ SendNak(s) \/ SendAck(s) \/ OnHeartBeat(s)
       \/ DriveTimeout(s)
  \/ \E m \in Control : OnControl(m)
  \/ Drive

CastSpec == CastInit /\ [][CastNext]_castVars

\* Timers run, and what is sent again and again is not lost every time: the
\* subscription of a subscriber, and the message it has to have next.
CastFairSpec ==
  /\ CastSpec
  /\ WF_castVars(Drive)
  /\ \A s \in Steady :
       /\ WF_castVars(Silence(s))
       /\ SF_castVars(SendNak(s) /\ Subscribe(s, Have(s)) \in control')
       /\ SF_castVars(OnControl(Subscribe(s, Have(s))))
       /\ SF_castVars(Drive /\ air'[s] = queue[s].startIndex)
       /\ SF_castVars(HandlePackage(s, queue[s].startIndex))
-----------------------------------------------------------------------------
(* Properties.                                                             *)

Port == [next : 0 .. MaxPublished, subscribers : Seq(Subscriber)]

CastTypeOK ==
  /\ issued \in 0 .. MaxPublished
  /\ ports \in Seq(Port) /\ Len(ports) <= MaxPorts
  /\ active \subseteq Subscriber /\ received \in [Subscriber -> 0 .. issued]
  /\ queue \in [Subscriber -> OrderingQueue]
  /\ disorder \in [Subscriber -> BOOLEAN]
  /\ air \in [Subscriber -> 0 .. issued]
  /\ control \subseteq Control /\ leaves \in 0 .. MaxLeaves

\* The order of a subscriber is not lost, whatever arrives when: the queue and the
\* flow agree on the number that comes next, or nothing could be delivered ever
\* again, and a package is found under its number.
InStep ==
  /\ CastTypeOK
  /\ \A s \in active : queue[s].startIndex = received[s] + 1 /\ SlotsRight(queue[s])

\* No subscriber is served twice: it would have to time out or leave twice, and
\* its requests would move only the first port.
ServedOnce ==
  \A s \in Subscriber :
    /\ Cardinality(Serving(ports, s)) <= 1
    /\ \A i \in DOMAIN ports : Cardinality({k \in DOMAIN ports[i].subscribers : ports[i].subscribers[k] = s}) <= 1

\* Every message arrives: a subscriber that stays again and again has all there
\* is, whatever has been lost and whatever the others of its port have asked for.
AllArrive == \A s \in Steady : []<>(s \in active => received[s] = issued)
=============================================================================
