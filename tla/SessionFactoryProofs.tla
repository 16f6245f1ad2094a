------------------------ MODULE SessionFactoryProofs ------------------------
(***************************************************************************)
(* Proofs about SessionFactory, for any connecters, channels and limits.   *)
(* The argument: while an attempt is under way m_nConnecterPos names the   *)
(* connecter that was asked, and nothing moves it; the channel it may have *)
(* got is nobody's before the result has been handled.                     *)
(***************************************************************************)
EXTENDS SessionFactory, SequenceTheorems, FiniteSetTheorems, TLAPS

USE FactoryBounds

\* The sessions are finitely many, whatever becomes of them.
LEMMA SessionsFinite ==
  /\ IsFiniteSet(Sessions) /\ Count \in Nat
  /\ IsFiniteSet(Sessions') /\ Count' \in Nat
<1>1. Sessions \in SUBSET Channel /\ Sessions' \in SUBSET Channel
  BY DEF Sessions
<1>2. IsFiniteSet(Channel)
  OBVIOUS
<1>3. QED
  BY <1>1, <1>2, FS_Subset, FS_CardinalityType DEF Count

\* A channel becomes a session's, or stops being one.
LEMMA SessionAdded ==
  ASSUME peer \in [Channel -> Connecter \union {Inbound, NoOne}],
         NEW s \in Channel, peer[s] = NoOne, NEW c \in Connecter \union {Inbound},
         peer' = [peer EXCEPT ![s] = c]
  PROVE  Count' = Count + 1
<1>1. Sessions' = Sessions \union {s} /\ s \notin Sessions
  BY DEF Sessions
<1>2. Cardinality(Sessions \union {s}) = Cardinality(Sessions) + 1
  BY <1>1, SessionsFinite, FS_AddElement
<1>3. QED
  BY <1>1, <1>2 DEF Count

LEMMA SessionRemoved ==
  ASSUME peer \in [Channel -> Connecter \union {Inbound, NoOne}],
         NEW s \in Channel, peer[s] # NoOne, peer' = [peer EXCEPT ![s] = NoOne]
  PROVE  Count' = Count - 1
<1>1. Sessions' = Sessions \ {s} /\ s \in Sessions
  BY DEF Sessions
<1>2. Cardinality(Sessions \ {s}) = Cardinality(Sessions) - 1
  BY <1>1, SessionsFinite, FS_RemoveElement
<1>3. QED
  BY <1>1, <1>2 DEF Count

\* RandomConnecters only turns the list.
LEMMA RotationsOf ==
  ASSUME NEW S, NEW q \in Seq(S), NEW r \in Rotations(q)
  PROVE  r \in Seq(S) /\ Len(r) = Len(q)
<1>1. PICK k \in 0 .. Len(q) : r = SubSeq(q, k + 1, Len(q)) \o SubSeq(q, 1, k)
  BY DEF Rotations
<1> DEFINE a == SubSeq(q, k + 1, Len(q))
           b == SubSeq(q, 1, k)
<1>2. Len(q) \in Nat /\ \A i \in 1 .. Len(q) : q[i] \in S
  BY LenProperties, ElementOfSeq
<1>3. a \in Seq(S) /\ Len(a) = Len(q) - k
  <2>1. \A i \in k + 1 .. Len(q) : q[i] \in S
    BY <1>2
  <2>2. QED
    BY <1>2, <2>1, SubSeqProperties
<1>4. b \in Seq(S) /\ Len(b) = k
  <2>1. \A i \in 1 .. k : q[i] \in S
    BY <1>2
  <2>2. QED
    BY <1>2, <2>1, SubSeqProperties
<1> HIDE DEF a, b
<1>5. a \o b \in Seq(S) /\ Len(a \o b) = Len(a) + Len(b)
  BY <1>3, <1>4, ConcatProperties
<1>6. r = a \o b
  BY <1>1 DEF a, b
<1>7. QED
  BY <1>2, <1>3, <1>4, <1>5, <1>6

\* Where ConnectNext leaves the position and what it has asked for.
LEMMA ConnectNextEffect ==
  ASSUME NEW q \in Seq(Connecter), NEW p \in Nat, NEW ch, NEW set \in BOOLEAN,
         tries = <<>>, ConnectNext(q, p, ch, set)
  PROVE  /\ order' = q /\ pos' \in 0 .. Len(q) /\ timer' \in BOOLEAN
         /\ pos' = 0 => tries' = <<>> /\ timer' = TRUE
         /\ pos' > 0 => /\ tries' = <<q[pos']>> /\ q[pos'] \in Connecter
                        /\ ch[q[pos']] = NoOne
<1>1. PICK i \in 0 .. Len(q) :
        /\ FirstWithout(i, q, p, ch)
        /\ order' = q /\ pos' = i
        /\ tries' = IF i = 0 THEN tries ELSE Append(tries, q[i])
        /\ timer' = (set \/ i = 0)
  BY DEF ConnectNext
<1>2. Len(q) \in Nat
  BY LenProperties
<1>3. CASE i = 0
  <2>1. timer' = TRUE
    BY <1>1, <1>3
  <2>2. pos' = 0 /\ tries' = <<>>
    BY <1>1, <1>3
  <2>3. QED
    BY <1>1, <1>2, <2>1, <2>2
<1>4. CASE i # 0
  <2>1. i \in 1 .. Len(q) /\ ch[q[i]] = NoOne
    BY <1>1, <1>2, <1>4 DEF FirstWithout
  <2>2. q[i] \in Connecter
    BY <2>1, ElementOfSeq
  <2>3. Append(<<>>, q[i]) = <<q[i]>>
    BY <2>2
  <2>4. timer' \in BOOLEAN
    BY <1>1
  <2>5. QED
    BY <1>1, <1>2, <1>4, <2>1, <2>2, <2>3, <2>4
<1>5. QED
  BY <1>3, <1>4
-----------------------------------------------------------------------------

LEMMA FactoryInit == Init => FactoryIInv
<1> SUFFICES ASSUME Init PROVE FactoryIInv
  OBVIOUS
<1> DEFINE n == Cardinality(Connecter)
<1>1. n \in Nat /\ (n = 0 <=> Connecter = {})
  BY FS_CardinalityType, FS_EmptySet
<1>2. order \in [1 .. n -> Connecter]
  BY DEF Init
<1>3. order \in Seq(Connecter) /\ Len(order) = n
  BY <1>1, <1>2
<1>4. Count = 0
  <2>1. Sessions = {}
    BY DEF Init, Sessions
  <2>2. QED
    BY <2>1, FS_EmptySet DEF Count
<1>5. TypeOK
  <2>1. pos \in 0 .. Len(order) /\ tries \in Seq(Connecter)
    <3>1. CASE n = 0
      BY <1>1, <1>3, <3>1 DEF Init
    <3>2. CASE n # 0
      <4>1. order[1] \in Connecter
        BY <1>1, <1>2, <3>2
      <4>2. QED
        BY <1>1, <1>3, <3>2, <4>1 DEF Init
    <3>3. QED
      BY <3>1, <3>2
  <2>2. posted \in Seq({"loop", "other"}) /\ Len(posted) <= MaxPosted
    BY DEF Init
  <2>3. timer \in BOOLEAN
    BY DEF Init
  <2>4. QED
    BY <1>3, <2>1, <2>2, <2>3 DEF Init, TypeOK
<1>6. OneAttempt
  BY <1>1, <1>3 DEF Init, OneAttempt
<1>7. ChannelMatches
  BY DEF Init, ChannelMatches
<1>8. pos > 0 => channel[order[pos]] = NoOne
  BY <1>1, <1>2 DEF Init
<1>9. /\ Count <= MaxSession + IF Listener THEN 2 ELSE 0
      /\ pos > 0 => Count <= IF Listener THEN MaxSession + 1 ELSE MaxSession - 1
  BY <1>4
<1>10. QED
  BY <1>5, <1>6, <1>7, <1>8, <1>9 DEF FactoryIInv, Init
-----------------------------------------------------------------------------
(* What the invariant says of an attempt, from one state to the next.      *)

LEMMA Attempt ==
  ASSUME FactoryIInv
  PROVE  /\ pos \in Nat /\ Len(order) \in Nat
         /\ pos > 0 => order[pos] \in Connecter /\ order[pos] # NoOne
         /\ pos = 0 => tries = <<>> /\ trying = NoOne /\ ~answered /\ made = NoOne
         /\ trying # NoOne => pos > 0 /\ tries = <<>> /\ trying = order[pos]
         /\ tries # <<>> => pos > 0 /\ tries = <<order[pos]>> /\ trying = NoOne
<1> USE DEF FactoryIInv, TypeOK, OneAttempt
<1>1. pos \in Nat /\ Len(order) \in Nat
  BY LenProperties
<1>2. ASSUME pos > 0 PROVE order[pos] \in Connecter /\ order[pos] # NoOne
  BY <1>1, <1>2, ElementOfSeq
<1>3. ASSUME pos > 0
      PROVE  \/ tries = <<order[pos]>> /\ trying = NoOne
             \/ tries = <<>> /\ trying = order[pos]
  BY <1>3
<1>4. QED
  BY <1>1, <1>2, <1>3

\* Actions that leave the attempt, the channels and the sessions alone.
LEMMA Unattempted ==
  ASSUME FactoryIInv, TypeOK',
         UNCHANGED <<connecting, thread, channel, peer>>
  PROVE  FactoryIInv'
BY DEF FactoryIInv, OneAttempt, ChannelMatches, Count, Sessions, connecting, thread

LEMMA TryConnectInv ==
  ASSUME FactoryIInv, TryConnect
  PROVE  FactoryIInv'
<1> USE DEF FactoryIInv
<1>1. /\ tries = <<order[pos]>> /\ pos > 0
      /\ trying' = order[pos] /\ tries' = <<>>
      /\ order[pos] \in Connecter
      /\ UNCHANGED <<order, pos, answered, made, channel, peer, enabled, listening, timer, posted, refused>>
  BY Attempt DEF TryConnect
<1>2. TypeOK'
  BY <1>1 DEF TypeOK
<1>3. OneAttempt'
  BY <1>1 DEF OneAttempt
<1>4. ChannelMatches' /\ Count' = Count
  BY <1>1 DEF ChannelMatches, Count, Sessions
<1>5. QED
  BY <1>1, <1>2, <1>3, <1>4, Attempt

LEMMA ConnectEndsInv ==
  ASSUME FactoryIInv, NEW connected \in BOOLEAN, ConnectEnds(connected)
  PROVE  FactoryIInv'
<1> USE DEF FactoryIInv
<1>1. made' = NoOne \/ (made' \in Channel /\ peer[made'] = NoOne)
  <2>1. connected => Fresh \in Free
    BY DEF ConnectEnds, Fresh
  <2>2. QED
    BY <2>1 DEF ConnectEnds, Free, Sessions
<1>2. /\ trying # NoOne /\ answered' = TRUE
      /\ UNCHANGED <<order, pos, tries, trying, channel, peer, enabled, listening, timer, posted, refused>>
  BY DEF ConnectEnds, connecting
<1>3. TypeOK'
  BY <1>1, <1>2 DEF TypeOK
<1>4. OneAttempt'
  BY <1>2 DEF OneAttempt
<1>5. ChannelMatches' /\ Count' = Count
  BY <1>2 DEF ChannelMatches, Count, Sessions
<1>6. QED
  BY <1>1, <1>2, <1>3, <1>4, <1>5

-----------------------------------------------------------------------------
(* The result of an attempt.                                               *)

\* It makes a session of the channel, if there is one.
LEMMA ResultSession ==
  ASSUME FactoryIInv, HandleResult
  PROVE  /\ channel' \in [Connecter -> Channel \union {NoOne}]
         /\ peer' \in [Channel -> Connecter \union {Inbound, NoOne}]
         /\ ChannelMatches'
         /\ Count' = CountAfter
         /\ Count' <= MaxSession + IF Listener THEN 2 ELSE 0
<1> USE DEF FactoryIInv
<1> DEFINE c == order[pos]
<1>1. c \in Connecter /\ c # NoOne /\ c = trying /\ channel[c] = NoOne /\ pos > 0
  BY Attempt DEF HandleResult
<1>2. /\ channel' = IF made = NoOne THEN channel ELSE [channel EXCEPT ![c] = made]
      /\ peer' = IF made = NoOne THEN peer ELSE [peer EXCEPT ![made] = c]
  BY <1>1 DEF HandleResult, ChannelAfter, PeerAfter
<1>3. /\ channel \in [Connecter -> Channel \union {NoOne}]
      /\ peer \in [Channel -> Connecter \union {Inbound, NoOne}]
      /\ made \in Channel \union {NoOne}
  BY DEF TypeOK
<1> HIDE DEF c
<1>4. CASE made = NoOne
  <2>1. UNCHANGED <<channel, peer>>
    BY <1>2, <1>4
  <2>2. ChannelMatches' /\ Count' = Count
    BY <2>1 DEF ChannelMatches, Count, Sessions
  <2>3. Count \in Nat
    BY SessionsFinite
  <2>4. QED
    BY <1>3, <1>4, <2>1, <2>2, <2>3 DEF CountAfter
<1>5. CASE made # NoOne
  <2>1. /\ made \in Channel /\ peer[made] = NoOne
        /\ channel' = [channel EXCEPT ![c] = made]
        /\ peer' = [peer EXCEPT ![made] = c]
    BY <1>2, <1>3, <1>5
  <2>2. Count' = Count + 1
    BY <1>1, <1>3, <2>1, SessionAdded
  <2>3. \A d \in Connecter : d # c /\ channel[d] # NoOne => channel[d] # made
    BY <1>1, <1>3, <2>1 DEF ChannelMatches
  <2>4. ChannelMatches'
    <3>1. ASSUME NEW d \in Connecter, channel'[d] # NoOne PROVE peer'[channel'[d]] = d
      BY <1>1, <1>3, <2>1, <2>3, <3>1 DEF ChannelMatches
    <3>2. ASSUME NEW s \in Channel, peer'[s] \in Connecter PROVE channel'[peer'[s]] = s
      BY <1>1, <1>3, <2>1, <3>2 DEF ChannelMatches
    <3>3. QED
      BY <3>1, <3>2 DEF ChannelMatches
  <2>5. Count' <= MaxSession + IF Listener THEN 2 ELSE 0
    BY <1>1, <2>2, SessionsFinite
  <2>6. QED
    BY <1>1, <1>3, <1>5, <2>1, <2>2, <2>4, <2>5 DEF CountAfter
<1>6. QED
  BY <1>4, <1>5

LEMMA HandleResultInv ==
  ASSUME FactoryIInv, HandleResult
  PROVE  FactoryIInv'
<1> USE DEF FactoryIInv
<1>1. /\ order \in Seq(Connecter) /\ Len(order) = Cardinality(Connecter)
      /\ pos \in Nat /\ Len(order) \in Nat /\ tries = <<>>
      /\ timer \in BOOLEAN
  BY Attempt DEF HandleResult, TypeOK
<1>2. /\ trying' = NoOne /\ ~answered' /\ made' = NoOne
      /\ answered' \in BOOLEAN
      /\ UNCHANGED <<enabled, listening, posted, refused>>
  BY DEF HandleResult
<1>3. /\ order' = order /\ pos' \in 0 .. Len(order) /\ timer' \in BOOLEAN
      /\ pos' = 0 => tries' = <<>>
      /\ pos' > 0 => /\ tries' = <<order[pos']>> /\ order[pos'] \in Connecter
                     /\ channel'[order[pos']] = NoOne
                     /\ CountAfter < MaxSession
  <2>1. CASE CountAfter < MaxSession /\ enabled
    <3>1. ConnectNext(order, pos, channel', timer)
      BY <2>1 DEF HandleResult
    <3>2. QED
      BY <1>1, <2>1, <3>1, ConnectNextEffect
  <2>2. CASE ~(CountAfter < MaxSession /\ enabled)
    BY <1>1, <2>2 DEF HandleResult
  <2>3. QED
    BY <2>1, <2>2
<1>4. tries' \in Seq(Connecter)
  <2>1. pos' = 0 \/ pos' > 0
    BY <1>1, <1>3
  <2>2. <<>> \in Seq(Connecter) /\ \A c \in Connecter : <<c>> \in Seq(Connecter)
    OBVIOUS
  <2>3. QED
    BY <1>3, <2>1, <2>2
<1>5. TypeOK'
  BY <1>1, <1>2, <1>3, <1>4, ResultSession DEF TypeOK
<1>6. OneAttempt'
  BY <1>2, <1>3 DEF OneAttempt
<1>7. pos' > 0 => Count' <= IF Listener THEN MaxSession + 1 ELSE MaxSession - 1
  BY <1>3, ResultSession, SessionsFinite
<1>8. QED
  BY <1>2, <1>3, <1>5, <1>6, <1>7, ResultSession

-----------------------------------------------------------------------------
(* Setting out on a new round.                                             *)

LEMMA ConnectEffect ==
  ASSUME FactoryIInv, NEW b \in BOOLEAN, Connect(b),
         UNCHANGED <<thread, channel, peer, posted, refused, listening>>, enabled' \in BOOLEAN
  PROVE  FactoryIInv'
<1> USE DEF FactoryIInv
<1>1. order \in Seq(Connecter) /\ Len(order) = Cardinality(Connecter) /\ Len(order) \in Nat
  BY Attempt DEF TypeOK
<1>2. /\ UNCHANGED <<trying, answered, made, channel, peer, posted, refused, listening>>
      /\ Count' = Count
  BY DEF thread, Count, Sessions
<1>3. CASE MayConnect(b)
  <2>1. PICK q \in Rotations(order) : ConnectNext(q, 0, channel, FALSE)
    BY <1>3 DEF Connect
  <2>2. q \in Seq(Connecter) /\ Len(q) = Len(order)
    BY <1>1, <2>1, RotationsOf
  <2>3. pos = 0 /\ tries = <<>> /\ trying = NoOne /\ ~answered /\ made = NoOne /\ Count < MaxSession
    BY <1>3, Attempt DEF MayConnect, Room
  <2>4. /\ order' = q /\ pos' \in 0 .. Len(q) /\ timer' \in BOOLEAN
        /\ pos' = 0 => tries' = <<>>
        /\ pos' > 0 => /\ tries' = <<q[pos']>> /\ q[pos'] \in Connecter
                       /\ channel[q[pos']] = NoOne
    BY <2>1, <2>2, <2>3, ConnectNextEffect
  <2>5. tries' \in Seq(Connecter)
    <3>1. pos' = 0 \/ pos' > 0
      BY <1>1, <2>2, <2>4
    <3>2. <<>> \in Seq(Connecter) /\ \A c \in Connecter : <<c>> \in Seq(Connecter)
      OBVIOUS
    <3>3. QED
      BY <2>4, <3>1, <3>2
  <2>6. TypeOK'
    BY <1>1, <1>2, <2>2, <2>4, <2>5 DEF TypeOK
  <2>7. OneAttempt'
    BY <1>2, <2>3, <2>4 DEF OneAttempt
  <2>8. ChannelMatches'
    BY <1>2 DEF ChannelMatches
  <2>9. pos' > 0 => Count' <= IF Listener THEN MaxSession + 1 ELSE MaxSession - 1
    BY <1>2, <2>3, SessionsFinite
  <2>10. QED
    BY <1>2, <2>3, <2>4, <2>6, <2>7, <2>8, <2>9
<1>4. CASE ~MayConnect(b)
  <2>1. timer' = FALSE /\ UNCHANGED connecting
    BY <1>4 DEF Connect
  <2>2. TypeOK'
    BY <1>2, <2>1 DEF TypeOK, connecting
  <2>3. QED
    BY <2>1, <2>2, Unattempted
<1>5. QED
  BY <1>3, <1>4

-----------------------------------------------------------------------------
(* Sessions that come and go.                                              *)

LEMMA AcceptInv ==
  ASSUME FactoryIInv, Accept
  PROVE  FactoryIInv'
<1> USE DEF FactoryIInv
<1>1. Fresh \in Channel /\ peer[Fresh] = NoOne /\ Fresh # made
  BY DEF Accept, Fresh, Free, Sessions
<1>2. /\ peer \in [Channel -> Connecter \union {Inbound, NoOne}]
      /\ peer' = [peer EXCEPT ![Fresh] = Inbound]
      /\ Listener /\ Count <= MaxSession
      /\ UNCHANGED <<order, pos, tries, trying, answered, made, channel, enabled, listening, timer, posted, refused>>
  BY DEF Accept, LetIn, connecting, thread, TypeOK
<1> HIDE DEF Fresh
<1>3. Count' = Count + 1 /\ Count \in Nat
  BY <1>1, <1>2, SessionAdded, SessionsFinite
<1>4. TypeOK'
  BY <1>1, <1>2 DEF TypeOK
<1>5. OneAttempt'
  BY <1>2 DEF OneAttempt
<1>6. ChannelMatches'
  BY <1>1, <1>2 DEF ChannelMatches, TypeOK
<1>7. made' # NoOne => peer'[made'] = NoOne
  BY <1>1, <1>2 DEF TypeOK
<1>8. /\ Count' <= MaxSession + IF Listener THEN 2 ELSE 0
      /\ pos' > 0 => Count' <= IF Listener THEN MaxSession + 1 ELSE MaxSession - 1
  BY <1>2, <1>3
<1>9. QED
  BY <1>2, <1>4, <1>5, <1>6, <1>7, <1>8

LEMMA PostType ==
  ASSUME TypeOK, NEW e \in {"loop", "other"}, Post(e)
  PROVE  posted' \in Seq({"loop", "other"}) /\ Len(posted') <= MaxPosted /\ refused' \in BOOLEAN
<1>1. posted \in Seq({"loop", "other"}) /\ Len(posted) <= MaxPosted /\ Len(posted) \in Nat
  BY LenProperties DEF TypeOK
<1>2. refused' \in BOOLEAN
  BY DEF Post
<1>3. CASE Len(posted) < MaxPosted
  <2>1. posted' = Append(posted, e)
    BY <1>3 DEF Post
  <2>2. Append(posted, e) \in Seq({"loop", "other"}) /\ Len(Append(posted, e)) = Len(posted) + 1
    BY <1>1, AppendProperties
  <2>3. QED
    BY <1>1, <1>2, <1>3, <2>1, <2>2
<1>4. CASE ~(Len(posted) < MaxPosted)
  BY <1>1, <1>2, <1>4 DEF Post
<1>5. QED
  BY <1>3, <1>4

LEMMA SessionLostInv ==
  ASSUME FactoryIInv, NEW s \in Channel, SessionLost(s)
  PROVE  FactoryIInv'
<1> USE DEF FactoryIInv
<1>1. /\ peer \in [Channel -> Connecter \union {Inbound, NoOne}]
      /\ channel \in [Connecter -> Channel \union {NoOne}]
      /\ peer[s] # NoOne /\ peer' = [peer EXCEPT ![s] = NoOne]
      /\ channel' = [c \in Connecter |-> IF channel[c] = s THEN NoOne ELSE channel[c]]
      /\ UNCHANGED <<order, pos, tries, trying, answered, made, enabled, listening, timer>>
  BY DEF SessionLost, Sessions, CheckChannel, TypeOK, connecting, thread
<1>2. Count' = Count - 1 /\ Count \in Nat
  BY <1>1, SessionRemoved, SessionsFinite
<1>3. posted' \in Seq({"loop", "other"}) /\ Len(posted') <= MaxPosted /\ refused' \in BOOLEAN
  BY PostType DEF SessionLost
<1>4. TypeOK'
  BY <1>1, <1>3 DEF TypeOK
<1>5. OneAttempt'
  BY <1>1 DEF OneAttempt
<1>6. ChannelMatches'
  <2>1. ASSUME NEW c \in Connecter, channel'[c] # NoOne PROVE peer'[channel'[c]] = c
    BY <1>1, <2>1 DEF ChannelMatches
  <2>2. ASSUME NEW t \in Channel, peer'[t] \in Connecter PROVE channel'[peer'[t]] = t
    BY <1>1, <2>2 DEF ChannelMatches
  <2>3. QED
    BY <2>1, <2>2 DEF ChannelMatches
<1>7. made' # NoOne => answered' /\ peer'[made'] = NoOne
  BY <1>1 DEF TypeOK
<1>8. pos' > 0 => channel'[order'[pos']] = NoOne
  BY <1>1, Attempt
<1>9. /\ Count' <= MaxSession + IF Listener THEN 2 ELSE 0
      /\ pos' > 0 => Count' <= IF Listener THEN MaxSession + 1 ELSE MaxSession - 1
  BY <1>1, <1>2
<1>10. QED
  BY <1>1, <1>4, <1>5, <1>6, <1>7, <1>8, <1>9

-----------------------------------------------------------------------------

LEMMA FactoryNext == FactoryIInv /\ [Next]_factory => FactoryIInv'
<1> SUFFICES ASSUME FactoryIInv, [Next]_factory PROVE FactoryIInv'
  OBVIOUS
<1>0. TypeOK
  BY DEF FactoryIInv
<1>1. CASE TryConnect
  BY <1>1, TryConnectInv
<1>2. ASSUME NEW b \in BOOLEAN, ConnectEnds(b) PROVE FactoryIInv'
  BY <1>2, ConnectEndsInv
<1>3. ASSUME NEW b \in BOOLEAN, EnableConnecter(b) PROVE FactoryIInv'
  <2>1. Connect(b) /\ enabled' \in BOOLEAN
    BY <1>3 DEF EnableConnecter
  <2>2. UNCHANGED <<thread, channel, peer, posted, refused, listening>>
    BY <1>3 DEF EnableConnecter
  <2>3. QED
    BY <2>1, <2>2, ConnectEffect
<1>4. ASSUME NEW b \in BOOLEAN, EnableListener(b) PROVE FactoryIInv'
  <2>1. TypeOK'
    BY <1>0, <1>4 DEF EnableListener, TypeOK, connecting, thread
  <2>2. QED
    BY <1>4, <2>1, Unattempted DEF EnableListener
<1>5. CASE HandleResult
  BY <1>5, HandleResultInv
<1>6. CASE HandlePosted
  <2>1. posted' \in Seq({"loop", "other"}) /\ Len(posted') <= MaxPosted
    <3>1. posted \in Seq({"loop", "other"}) /\ posted # <<>> /\ Len(posted) <= MaxPosted
      BY <1>0, <1>6 DEF HandlePosted, TypeOK
    <3>2. Tail(posted) \in Seq({"loop", "other"}) /\ Len(Tail(posted)) = Len(posted) - 1
      BY <3>1, HeadTailProperties
    <3>3. Len(posted) \in Nat
      BY <3>1, LenProperties
    <3>4. QED
      BY <1>6, <3>1, <3>2, <3>3 DEF HandlePosted
  <2>2. timer' \in BOOLEAN
    BY <1>6 DEF HandlePosted
  <2>3. TypeOK'
    BY <1>0, <1>6, <2>1, <2>2 DEF HandlePosted, TypeOK, connecting, thread
  <2>4. QED
    BY <1>6, <2>3, Unattempted DEF HandlePosted
<1>7. CASE OnTimer
  <2>1. Connect(enabled) /\ enabled \in BOOLEAN /\ enabled' = enabled
    BY <1>0, <1>7 DEF OnTimer, TypeOK
  <2>2. UNCHANGED <<thread, channel, peer, posted, refused, listening>>
    BY <1>7 DEF OnTimer
  <2>3. QED
    BY <2>1, <2>2, ConnectEffect
<1>8. CASE Accept
  BY <1>8, AcceptInv
<1>9. CASE PostOther
  <2>1. posted' \in Seq({"loop", "other"}) /\ Len(posted') <= MaxPosted /\ refused' \in BOOLEAN
    BY <1>0, <1>9, PostType DEF PostOther
  <2>2. TypeOK'
    BY <1>0, <1>9, <2>1 DEF PostOther, TypeOK, connecting, thread
  <2>3. QED
    BY <1>9, <2>2, Unattempted DEF PostOther
<1>10. ASSUME NEW s \in Channel, SessionLost(s) PROVE FactoryIInv'
  BY <1>10, SessionLostInv
<1>11. CASE UNCHANGED factory
  <2>1. TypeOK'
    BY <1>0, <1>11 DEF factory, TypeOK, connecting, thread
  <2>2. QED
    BY <1>11, <2>1, Unattempted DEF factory
<1>12. QED
  BY <1>1, <1>2, <1>3, <1>4, <1>5, <1>6, <1>7, <1>8, <1>9, <1>10, <1>11 DEF Next

LEMMA FactoryImplied == FactoryIInv => FactoryInv
<1> SUFFICES ASSUME FactoryIInv PROVE FactoryInv
  OBVIOUS
<1>1. SessionsBounded
  BY Attempt, SessionsFinite DEF FactoryIInv, SessionsBounded
<1>2. QED
  BY <1>1 DEF FactoryIInv, FactoryInv

\* For any connecters, channels and limits: one attempt at a time, whose result
\* meets the connecter that made it; connecters and sessions match; and the limit of
\* sessions is passed by two at most, not at all without a listener
\* (SessionFactory.cpp:312-356).
THEOREM FactoryInvariance == Spec => []FactoryInv
<1>1. Spec => []FactoryIInv
  BY FactoryInit, FactoryNext, PTL DEF Spec
<1>2. QED
  BY <1>1, FactoryImplied, PTL

-----------------------------------------------------------------------------
(* The loop.                                                               *)

\* An event that is posted is in the ring, or the ring has refused it.
LEMMA PostKeeps ==
  ASSUME posted \in Seq({"loop", "other"}), NEW e \in {"loop", "other"}, Post(e)
  PROVE  /\ (\E i \in DOMAIN posted : posted[i] = "loop") => \E i \in DOMAIN posted' : posted'[i] = "loop"
         /\ e = "loop" => refused' \/ \E i \in DOMAIN posted' : posted'[i] = "loop"
         /\ refused => refused'
<1>1. Len(posted) \in Nat /\ DOMAIN posted = 1 .. Len(posted)
  BY LenProperties
<1>2. refused => refused'
  BY DEF Post
<1>3. CASE Len(posted) < MaxPosted
  <2>1. posted' = Append(posted, e)
    BY <1>3 DEF Post
  <2>2. /\ DOMAIN posted' = 1 .. Len(posted) + 1
        /\ \A i \in 1 .. Len(posted) : posted'[i] = posted[i]
        /\ posted'[Len(posted) + 1] = e
    BY <1>1, <2>1
  <2>3. QED
    BY <1>1, <1>2, <2>2
<1>4. CASE ~(Len(posted) < MaxPosted)
  <2>0. Len(posted) >= MaxPosted
    BY <1>1, <1>4
  <2>1. refused'
    BY <2>0, Zenon DEF Post
  <2>2. posted' = posted
    BY <1>4 DEF Post
  <2>3. QED
    BY <2>1, <2>2
<1>5. QED
  BY <1>3, <1>4

LEMMA LoopConnect ==
  ASSUME FactoryIInv, LoopAlive, NEW b \in BOOLEAN, Connect(b), enabled' = b,
         UNCHANGED <<channel, peer, posted, refused>>
  PROVE  LoopAlive'
<1>1. Room' = Room
  BY DEF Room, Count, Sessions
<1>2. CASE MayConnect(b)
  <2>1. PICK q \in Rotations(order) : ConnectNext(q, 0, channel, FALSE)
    BY <1>2 DEF Connect
  <2>2. q \in Seq(Connecter)
    BY <2>1, RotationsOf DEF FactoryIInv, TypeOK
  <2>3. tries = <<>>
    BY <1>2 DEF MayConnect, FactoryIInv, OneAttempt
  <2>4. pos' = 0 => timer' = TRUE
    BY <2>1, <2>2, <2>3, ConnectNextEffect
  <2>5. QED
    BY <2>4 DEF LoopAlive
<1>3. CASE ~MayConnect(b)
  <2>1. pos' = pos
    BY <1>3 DEF Connect, connecting
  <2>2. QED
    BY <1>1, <1>3, <2>1 DEF LoopAlive, MayConnect
<1>4. QED
  BY <1>2, <1>3

LEMMA LoopNext == FactoryIInv /\ LoopAlive /\ [Next]_factory => LoopAlive'
<1> SUFFICES ASSUME FactoryIInv, LoopAlive, [Next]_factory PROVE LoopAlive'
  OBVIOUS
<1>0. TypeOK
  BY DEF FactoryIInv
<1>1. peer' = peer => Room' = Room
  BY DEF Room, Count, Sessions
<1>2. CASE TryConnect
  BY <1>2, <1>1 DEF TryConnect, LoopAlive
<1>3. ASSUME NEW b \in BOOLEAN, ConnectEnds(b) PROVE LoopAlive'
  BY <1>3, <1>1 DEF ConnectEnds, LoopAlive, connecting
<1>4. ASSUME NEW b \in BOOLEAN, EnableConnecter(b) PROVE LoopAlive'
  BY <1>4, LoopConnect DEF EnableConnecter
<1>5. ASSUME NEW b \in BOOLEAN, EnableListener(b) PROVE LoopAlive'
  BY <1>5, <1>1 DEF EnableListener, LoopAlive, connecting
<1>6. CASE HandleResult
  <2>1. CASE CountAfter < MaxSession /\ enabled
    <3>1. answered /\ channel' = ChannelAfter /\ ConnectNext(order, pos, ChannelAfter, timer)
      BY <1>6, <2>1 DEF HandleResult
    <3>2. tries = <<>>
      BY <3>1, Attempt DEF FactoryIInv, OneAttempt
    <3>3. ConnectNext(order, pos, channel', timer) /\ tries = <<>>
      BY <3>1, <3>2
    <3>4. order \in Seq(Connecter) /\ pos \in Nat /\ timer \in BOOLEAN
      BY <1>0, LenProperties DEF TypeOK
    <3>5. pos' = 0 => timer' = TRUE
      BY <3>3, <3>4, ConnectNextEffect
    <3>6. QED
      BY <3>5 DEF LoopAlive
  <2>2. CASE ~(CountAfter < MaxSession /\ enabled)
    <3>1. enabled' = enabled /\ Count' = CountAfter
      BY <1>6, ResultSession DEF HandleResult
    <3>2. QED
      BY <2>2, <3>1 DEF LoopAlive, Room
  <2>3. QED
    BY <2>1, <2>2
<1>7. CASE HandlePosted
  <2>1. /\ posted \in Seq({"loop", "other"}) /\ posted # <<>>
        /\ posted' = Tail(posted) /\ timer' = (timer \/ Head(posted) = "loop")
        /\ UNCHANGED <<order, pos, tries, peer, enabled, refused>>
    BY <1>0, <1>7 DEF HandlePosted, TypeOK, connecting
  <2>2. (\E i \in DOMAIN posted : posted[i] = "loop")
          => Head(posted) = "loop" \/ \E i \in DOMAIN posted' : posted'[i] = "loop"
    <3>1. SUFFICES ASSUME NEW i \in DOMAIN posted, posted[i] = "loop", Head(posted) # "loop"
                   PROVE  \E j \in DOMAIN posted' : posted'[j] = "loop"
      OBVIOUS
    <3>2. Len(posted) \in Nat /\ DOMAIN posted = 1 .. Len(posted) /\ Head(posted) = posted[1]
      BY <2>1, LenProperties
    <3>3. i - 1 \in 1 .. Len(posted) - 1 /\ i \in 2 .. Len(posted)
      BY <3>1, <3>2
    <3>4. DOMAIN posted' = 1 .. Len(posted) - 1 /\ posted'[i - 1] = posted[i]
      BY <2>1, <3>2, <3>3
    <3>5. QED
      BY <3>1, <3>3, <3>4
  <2>3. QED
    BY <1>1, <2>1, <2>2 DEF LoopAlive
<1>8. CASE OnTimer
  <2>1. enabled \in BOOLEAN /\ Connect(enabled) /\ enabled' = enabled
        /\ UNCHANGED <<channel, peer, posted, refused>>
    BY <1>0, <1>8 DEF OnTimer, TypeOK
  <2>2. QED
    BY <2>1, LoopConnect
<1>9. CASE Accept
  <2>1. PICK s \in Channel : peer[s] = NoOne /\ peer' = [peer EXCEPT ![s] = Inbound]
    BY <1>9 DEF Accept, Fresh, Free, Sessions
  <2>2. Count' = Count + 1
    BY <1>0, <2>1, SessionAdded DEF TypeOK
  <2>3. Room' => Room
    BY <2>2, SessionsFinite DEF Room
  <2>4. QED
    BY <1>9, <2>3 DEF Accept, LoopAlive, connecting
<1>10. CASE PostOther
  <2>1. posted \in Seq({"loop", "other"}) /\ Post("other")
        /\ UNCHANGED <<order, pos, tries, peer, enabled, timer>>
    BY <1>0, <1>10 DEF PostOther, TypeOK, connecting
  <2>2. QED
    BY <1>1, <2>1, PostKeeps DEF LoopAlive
<1>11. ASSUME NEW s \in Channel, SessionLost(s) PROVE LoopAlive'
  <2>1. posted \in Seq({"loop", "other"}) /\ Post("loop")
    BY <1>0, <1>11 DEF SessionLost, TypeOK
  <2>2. QED
    BY <2>1, PostKeeps DEF LoopAlive
<1>12. CASE UNCHANGED factory
  BY <1>12, <1>1 DEF factory, connecting, LoopAlive
<1>13. QED
  BY <1>2, <1>3, <1>4, <1>5, <1>6, <1>7, <1>8, <1>9, <1>10, <1>11, <1>12 DEF Next

\* With any connecters, limits and any ring, the connect loop is never left standing
\* while it is wanted, except by an event the ring has refused (SessionFactory.cpp:94-100,
\* 134-148, 299-333; EventQueue.cpp:28-50).
THEOREM LoopNeverStands == Spec => []LoopAlive
<1>1. Init => LoopAlive
  <2>1. Init => (pos = 0 => timer)
    <3>1. Init => (pos = 0 => Connecter = {}) /\ timer = (Connecter = {})
      BY DEF Init
    <3>2. QED
      BY <3>1
  <2>2. QED
    BY <2>1 DEF LoopAlive
<1>2. Spec => [](FactoryIInv /\ LoopAlive)
  BY <1>1, FactoryInit, FactoryNext, LoopNext, PTL DEF Spec
<1>3. QED
  BY <1>2, PTL
=============================================================================
