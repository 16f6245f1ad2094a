-------------------------------- MODULE Fanout --------------------------------
(***************************************************************************)
(* From the results to the clients.  The dispatcher (CFlowDispatcher, a    *)
(* thread) reads the result flow and appends each message to the flow of   *)
(* its topics (CCachedFlow) and to index flows over them (CIndexFlow);     *)
(* what concerns a session goes to the flow of its front.  The thread of   *)
(* the front (CFtdFront) reads that flow, and sends each session what it   *)
(* has subscribed.  Neither thread waits for the other.                    *)
(*                                                                         *)
(* A message is named by its position in the result flow.                  *)
(***************************************************************************)
EXTENDS Integers, Sequences, FiniteSets

CONSTANTS
  Topic, Index,
  NoIndex,       (* in place of an index: the topic itself                 *)
  Session,       (* the sessions, all connected                            *)
  Local,         (* numbers under which a session knows its subscriptions  *)
  Kinds,         (* published messages: topics and set of indexes          *)
  Numbers,       (* sequence numbers that are asked for; <= 0 counts back  *)
                 (* from the end                                           *)
  Window,        (* messages a topic keeps (0x20000)                       *)
  IndexWindow,   (* messages an index flow keeps (16383)                   *)
  Batch,         (* messages PublishSend sends of a flow at once (40)      *)
  MaxPublished,  (* bound: messages published                              *)
  MaxRequests    (* bound: requests concerning sessions                    *)

Flows == Topic \X (Index \union {NoIndex})
Over(f) == <<f[1], NoIndex>>

ASSUME FanoutBounds ==
  /\ NoIndex \notin Index /\ Numbers \subseteq Int
  /\ Kinds \subseteq Seq(Topic) \X SUBSET Index
  \* A message names a topic once: it is appended for every time.
  /\ \A k \in Kinds : \A i, j \in DOMAIN k[1] : k[1][i] = k[1][j] => i = j
  /\ {Window, IndexWindow, Batch} \subseteq Nat \ {0}
  /\ {MaxPublished, MaxRequests} \subseteq Nat

Requests ==
  [type : {"sub"}, session : Session, local : Local, flow : Flows, number : Numbers]
    \union [type : {"unsub"}, session : Session, local : Local]
    \union [type : {"unsuball", "del"}, session : Session]

NoSub == [flow |-> <<>>, next |-> 0, from |-> 0]

VARIABLES
  results,      (* m_pPreResult, read by m_ResultReader                    *)
  dispatched,   (* m_ResultReader: messages it has taken                   *)
  work,         (* flows HandleNotify has still to append to               *)
  registered,   (* topics in m_mapFlowInfo                                 *)
  log,          (* log[f]: the messages of a topic; of an index flow the   *)
                (* ids they have in the topic, from 0                      *)
  front,        (* flow of the front: position of a request and the number *)
  handled,      (* m_ResultReader of the front                             *)
  sessions,     (* the sessions that are still there                       *)
  endpoint,     (* endpoint[s][n]: m_mapPubEndPoint; history: from         *)
  sent,         (* sent[s][n]: number and message of what was sent since   *)
                (* the subscription                                        *)
  closing       (* closing[n], while Disconnect(0) sends what is left:     *)
                (* whether PublishSend of n goes on; history: where its    *)
                (* reader was.  Otherwise empty                            *)

dispatcher == <<dispatched, work, registered, log, front>>
frontend == <<handled, sessions, endpoint, sent, closing>>
fanVars == <<results, dispatcher, frontend>>

FanInit ==
  /\ results = <<>> /\ dispatched = 0 /\ work = {}
  /\ registered = {}
  /\ log = [f \in Flows |-> <<>>]
  /\ front = <<>> /\ handled = 0
  /\ sessions = Session
  /\ endpoint = [s \in Session |-> [n \in Local |-> NoSub]]
  /\ sent = [s \in Session |-> [n \in Local |-> <<>>]]
  /\ closing = <<>>

-----------------------------------------------------------------------------
(* The flows.                                                              *)

Lower(a, b) == IF a < b THEN a ELSE b
Higher(a, b) == IF a > b THEN a ELSE b

Room(f) == IF f[2] = NoIndex THEN Window ELSE IndexWindow
Count(f) == Len(log[f])
FirstID(f) == Higher(0, Count(f) - Room(f))

\* Mutant: the index holds the number of messages.
IndexEntryCount(f) == Count(Over(f))
\* What Append of an index flow is given: the id of the message in the topic.
IndexEntry(f) == Count(Over(f)) - 1

\* Get finds the message: an index flow asks the topic for it.
Holds(f, id) ==
  /\ id >= FirstID(f)
  /\ f[2] # NoIndex => log[f][id + 1] \in FirstID(Over(f)) .. Count(Over(f)) - 1
Get(f, id) == IF f[2] = NoIndex THEN log[f][id + 1] ELSE log[Over(f)][log[f][id + 1] + 1]

-----------------------------------------------------------------------------
(* The matching thread.                                                    *)

Published == {i \in DOMAIN results : results[i].type = "publish"}
Requested == DOMAIN results \ Published

Publish(k) ==
  /\ Cardinality(Published) < MaxPublished
  /\ results' = Append(results, [type |-> "publish", topics |-> k[1], indexes |-> k[2]])
  /\ UNCHANGED <<dispatcher, frontend>>

Request(r) ==
  /\ Cardinality(Requested) < MaxRequests
  /\ results' = Append(results, r)
  /\ UNCHANGED <<dispatcher, frontend>>

-----------------------------------------------------------------------------
(* The dispatcher.                                                         *)

\* GetFlow registers a topic that is not known, GetIndexFlow does not.
GetFlow(f) == registered' = IF f[2] = NoIndex THEN registered \union {f[1]} ELSE registered
Exists(f) == f[2] = NoIndex \/ f[1] \in registered

\* Mutant: the number is left to the front.
ResolvedByFront(r) == r.number
\* A number that counts from the end is made one from the beginning here,
\* where it is known what was published before.
Resolved(r) == IF r.number <= 0 /\ Exists(r.flow) THEN r.number + Count(r.flow) ELSE r.number

Current == results[dispatched + 1]
Ready == work = {} /\ dispatched < Len(results)

\* HandleMessage: a subscription, cancellation or disconnection.
ToFront ==
  /\ Ready /\ Current.type # "publish"
  /\ dispatched' = dispatched + 1
  /\ front' = Append(front, <<dispatched + 1, IF Current.type = "sub" THEN Resolved(Current) ELSE 0>>)
  /\ IF Current.type = "sub" /\ Current.number <= 0 THEN GetFlow(Current.flow) ELSE UNCHANGED registered
  /\ UNCHANGED <<results, work, log, frontend>>

\* The flows of a message.
FlowsOf(m) == {<<m.topics[j], x>> : j \in DOMAIN m.topics, x \in m.indexes \union {NoIndex}}

\* HandleMessage: HandleNotify begins.
ToTopics ==
  /\ Ready /\ Current.type = "publish"
  /\ dispatched' = dispatched + 1
  /\ work' = FlowsOf(Current)
  /\ UNCHANGED <<results, registered, log, front, frontend>>

\* It appends to one flow after the other, topic by topic, the topic itself and
\* then its indexes, which the message names in some order.
Turn(f) ==
  /\ \E j \in DOMAIN results[dispatched].topics :
       /\ results[dispatched].topics[j] = f[1]
       /\ \A i \in 1 .. j - 1, g \in work : g[1] # results[dispatched].topics[i]
  /\ f[2] # NoIndex => Over(f) \notin work

AppendNext(f) ==
  /\ f \in work /\ Turn(f)
  /\ work' = work \ {f}
  /\ GetFlow(f)
  /\ log' = [log EXCEPT ![f] = Append(@, IF f[2] = NoIndex THEN dispatched ELSE IndexEntry(f))]
  /\ UNCHANGED <<results, dispatched, front, frontend>>

-----------------------------------------------------------------------------
(* The thread of the front.                                                *)

\* Where a subscription begins.
Beginning(f, n) == Higher(FirstID(f), Lower(Count(f), IF n <= 0 THEN Count(f) + n ELSE n))

Entry == front[handled + 1]
Pending(type) == handled < Len(front) /\ results[Entry[1]].type = type
\* The thread is inside Disconnect(0).
Closing == closing # <<>>

\* SubTopic and CFTDCProtocol::Publish: an end point there is already is moved,
\* and keeps its flow.
SubTopic ==
  /\ Pending("sub")
  /\ handled' = handled + 1
  /\ LET r == results[Entry[1]]
         e == endpoint[r.session][r.local]
     IN  IF r.session \in sessions
         THEN /\ GetFlow(r.flow)
              /\ IF Exists(r.flow)
                 THEN /\ endpoint' = [endpoint EXCEPT ![r.session][r.local] =
                           [flow |-> IF e = NoSub THEN r.flow ELSE e.flow,
                            next |-> Beginning(r.flow, Entry[2]), from |-> Entry[1]]]
                      /\ sent' = [sent EXCEPT ![r.session][r.local] = <<>>]
                 ELSE UNCHANGED <<endpoint, sent>>
         ELSE UNCHANGED <<registered, endpoint, sent>>
  /\ UNCHANGED <<results, dispatched, work, log, front, sessions, closing>>

\* UnSubTopic, of one subscription or of all.
UnSubTopic ==
  /\ Pending("unsub") \/ Pending("unsuball")
  /\ handled' = handled + 1
  /\ LET r == results[Entry[1]] IN
       endpoint' = [endpoint EXCEPT ![r.session] =
         [n \in Local |-> IF r.type = "unsuball" \/ r.local = n THEN NoSub ELSE @[n]]]
  /\ UNCHANGED <<results, dispatcher, sessions, sent, closing>>

\* OnSessionDisconnected.
SessionLost(s) ==
  /\ s \in sessions /\ ~Closing
  /\ sessions' = sessions \ {s}
  /\ endpoint' = [endpoint EXCEPT ![s] = [n \in Local |-> NoSub]]
  /\ UNCHANGED <<results, dispatcher, handled, sent, closing>>

Unsent(e) == IF e = NoSub THEN 0 ELSE Higher(0, Count(e.flow) - e.next)

\* Mutant: the reader waits for a message that is not there.
PassedWaiting(e) == IF Holds(e.flow, e.next) THEN 1 ELSE 0
Passed(e) == 1
\* What GetNext finds; the number sent is the reader's next.
Found(e) == IF Holds(e.flow, e.next) THEN << <<e.next + 1, Get(e.flow, e.next)>> >> ELSE <<>>

\* One turn of the loop of PublishSend: the reader goes on whether or not the flow
\* has still got the message.
SendNext(s, n) ==
  /\ Unsent(endpoint[s][n]) > 0
  /\ endpoint' = [endpoint EXCEPT ![s][n].next = @ + Passed(endpoint[s][n])]
  /\ sent' = [sent EXCEPT ![s][n] = @ \o Found(endpoint[s][n])]

\* The loop that a timer starts again and again, however it ends.
PublishSend(s, n) ==
  /\ ~Closing /\ SendNext(s, n)
  /\ UNCHANGED <<results, dispatcher, handled, sessions, closing>>

\* DeleteSession and Disconnect(0): PublishSend is called once for each end point,
\* while the dispatcher goes on; then the session is gone.
DeleteSession ==
  /\ Pending("del") /\ ~Closing
  /\ LET s == results[Entry[1]].session IN
       IF s \in sessions
       THEN /\ closing' = [n \in Local |-> [open |-> TRUE, start |-> endpoint[s][n].next]]
            /\ UNCHANGED handled
       ELSE handled' = handled + 1 /\ UNCHANGED closing
  /\ UNCHANGED <<results, dispatcher, sessions, endpoint, sent>>

Leaving == results[Entry[1]].session
\* Mutant: Disconnect does not call PublishSend.
LoopingNever(n) == FALSE
Looping(n) == closing[n].open /\ endpoint[Leaving][n].next < closing[n].start + Batch

\* The loop ends with the batch, at the end of the flow, and at a message that the
\* flow has let go of, after which nothing more is sent.
SendLast(n) ==
  /\ Closing /\ Looping(n)
  /\ LET e == endpoint[Leaving][n] IN
       \/ /\ SendNext(Leaving, n)
          /\ closing' = [closing EXCEPT ![n].open = Holds(e.flow, e.next)]
       \/ /\ Unsent(e) = 0
          /\ closing' = [closing EXCEPT ![n].open = FALSE]
          /\ UNCHANGED <<endpoint, sent>>
  /\ UNCHANGED <<results, dispatcher, handled, sessions>>

Disconnect ==
  /\ Closing /\ \A n \in Local : ~Looping(n)
  /\ handled' = handled + 1 /\ closing' = <<>>
  /\ sessions' = sessions \ {Leaving}
  /\ endpoint' = [endpoint EXCEPT ![Leaving] = [n \in Local |-> NoSub]]
  /\ UNCHANGED <<results, dispatcher, sent>>

HandleFront == SubTopic \/ UnSubTopic \/ DeleteSession \/ (\E n \in Local : SendLast(n)) \/ Disconnect
Dispatch == ToFront \/ ToTopics \/ \E f \in Flows : AppendNext(f)

FanNext ==
  \/ \E k \in Kinds : Publish(k)
  \/ \E r \in Requests : Request(r)
  \/ ToFront \/ ToTopics
  \/ \E f \in Flows : AppendNext(f)
  \/ SubTopic \/ UnSubTopic \/ DeleteSession \/ Disconnect
  \/ \E n \in Local : SendLast(n)
  \/ \E s \in Session : SessionLost(s) \/ \E n \in Local : PublishSend(s, n)

FanSpec == FanInit /\ [][FanNext]_fanVars

\* Both threads run, and the client reads what it is sent.
FanFairSpec ==
  /\ FanSpec
  /\ WF_fanVars(Dispatch) /\ WF_fanVars(HandleFront)
  /\ \A s \in Session, n \in Local : WF_fanVars(PublishSend(s, n))

-----------------------------------------------------------------------------
(* Properties.                                                             *)

FanTypeOK ==
  /\ results \in Seq(Requests \union {[type |-> "publish", topics |-> k[1], indexes |-> k[2]] : k \in Kinds})
  /\ dispatched \in 0 .. Len(results) /\ handled \in 0 .. Len(front)
  /\ work \subseteq Flows /\ registered \subseteq Topic
  /\ log \in [Flows -> Seq(0 .. Len(results))] /\ \A f \in Flows : Count(f) <= MaxPublished
  /\ front \in Seq((1 .. dispatched) \X Int)
  /\ sessions \subseteq Session
  /\ endpoint \in [Session -> [Local ->
       {NoSub} \union [flow : Flows, next : 0 .. MaxPublished, from : 1 .. dispatched]]]
  /\ sent \in [Session -> [Local -> Seq((1 .. MaxPublished) \X (1 .. dispatched))]]
  /\ closing \in {<<>>} \union [Local -> [open : BOOLEAN, start : 0 .. MaxPublished]]

\* The messages among the first k results that belong to flow f, which is what
\* the application and its clients understand by a topic or an index.
Belongs(f, i) ==
  /\ results[i].type = "publish"
  /\ \E j \in DOMAIN results[i].topics : results[i].topics[j] = f[1]
  /\ f[2] # NoIndex => f[2] \in results[i].indexes
Wanted(f, k) == {i \in 1 .. k : Belongs(f, i)}
\* How many they are: the number of the last one.
NumberOf(f, k) == Cardinality(Wanted(f, k))

NumbersSent(s, n) == {sent[s][n][i][1] : i \in DOMAIN sent[s][n]}
Subscriptions == {p \in sessions \X Local : endpoint[p[1]][p[2]] # NoSub}

\* Every session is sent, of each flow it has subscribed, the messages that the
\* application has published in it, under their numbers, in order, each once and
\* none passed over but those that the flow no longer had; although what an index
\* holds are places in another flow that forgets, too.
DeliveredInOrder ==
  /\ FanTypeOK
  /\ \A p \in Subscriptions :
    LET e == endpoint[p[1]][p[2]]
        q == sent[p[1]][p[2]]
    IN  /\ \A i \in DOMAIN q : q[i][2] \in Wanted(e.flow, Len(results)) /\ q[i][1] = NumberOf(e.flow, q[i][2])
        /\ \A i \in 1 .. Len(q) - 1 :
             /\ q[i][1] < q[i + 1][1]
             /\ \A no \in q[i][1] + 1 .. q[i + 1][1] - 1 : ~Holds(e.flow, no - 1)

\* The number an end point was last asked for, in the order of the results.
Due(e) ==
  LET r == results[e.from]
  IN  IF r.number > 0 THEN r.number ELSE NumberOf(e.flow, e.from - 1) + r.number
Misled(e) == results[e.from].flow # e.flow \/ Due(e) <= 0

\* A subscription begins exactly where it was asked to by the order of the
\* results: who asks for what comes next misses no message that was published
\* after the request, and is sent none from before, however far the two threads
\* are apart.  Not so when the number comes out as 0 (the topic was empty, or had
\* no more than was asked for): the front then counts from the end again, later;
\* nor when the session's number was in use for another flow.
BeginsWhereAsked ==
  \A p \in Subscriptions :
    LET e == endpoint[p[1]][p[2]]
    IN  ~Misled(e) =>
          /\ e.next <= Count(e.flow)
          /\ \A no \in Due(e) + 1 .. e.next : no \in NumbersSent(p[1], p[2]) \/ ~Holds(e.flow, no - 1)
          /\ results[e.from].number <= 0 => \A no \in NumbersSent(p[1], p[2]) : no > Due(e)

\* A session that the application ends has been sent everything published before,
\* up to Batch messages that were left of each subscription, although the order
\* to end it goes another way than the messages and the dispatcher goes on while
\* they are sent.  Not so when the flow lets go of the message that was to be the
\* next: then PublishSend stops, also before messages that are still held.
LogoutComplete ==
  Closing => \A n \in Local :
    LET e == endpoint[Leaving][n]
        c == closing[n]
    IN  e # NoSub /\ ~Looping(n) =>
          \A no \in c.start + 1 .. Lower(c.start + Batch, NumberOf(e.flow, Entry[1] - 1)) :
            no \in NumbersSent(Leaving, n) \/ ~Holds(e.flow, c.start)

\* No subscription stops: its reader gets past every message that is published,
\* also one that the flow has let go of.
NeverStops ==
  \A s \in Session, n \in Local : \A k \in 0 .. MaxPublished - 1 :
    (endpoint[s][n] # NoSub /\ k < NumberOf(endpoint[s][n].flow, Len(results)))
      ~> (endpoint[s][n] = NoSub \/ endpoint[s][n].next > k)
=============================================================================
