----------------------------- MODULE TcpLinkProofs -----------------------------
(***************************************************************************)
(* Proofs about a link over TCP, for any connecters and channels, any      *)
(* window of the published flow and any number of messages, requests and   *)
(* broken connections.                                                     *)
(***************************************************************************)
EXTENDS TcpLink, SessionFactoryProofs

-----------------------------------------------------------------------------
(* The inductive invariant.                                                *)

\* A login that has not arrived is ahead of the requests.
Ahead == IF up # <<>> /\ up[1] = 0 THEN 1 ELSE 0

\* The requests on their way and those that wait continue those the server has taken.
Asked ==
  /\ \A i \in 1 .. Len(handled) : handled[i] = i
  /\ \A i \in 1 + Ahead .. Len(up) : up[i] = Len(handled) + i - Ahead
  /\ \A i \in 1 .. Len(dialog) : dialog[i] = Len(handled) + Len(up) - Ahead + i
  /\ dialogFlow => requests = Len(handled) + Len(up) - Ahead + Len(dialog)
  /\ ~dialogFlow => dialog = <<>>
  /\ requesting => requests < MaxRequests

\* One session at a time; and before the first nothing is sent.
Single ==
  /\ connected => Count > 0
  /\ dialogFlow /\ ~connected => up = <<>>

Counted ==
  connected /\ serial # <<>> /\ serial[Len(serial)] > 0 => subCount = serial[Len(serial)]

\* The messages up to n have been received, are among the first k on their way, or
\* are no longer there to be sent.
Covered(n, k) ==
  \A m \in sequenceNo + 1 .. n :
    m <= first \/ m \in Received \/ \E j \in 1 .. k : down[j] = m

NoneSkipped ==
  sequenceNo >= 0 =>
    /\ \A i \in 1 .. Len(down) : Covered(down[i] - 1, i - 1)
    /\ connected => Covered(reader, Len(down))

TcpInv ==
  /\ FactoryIInv /\ LinkTypeOK /\ Single
  /\ Asked
  /\ ConsecutiveInConnection /\ Counted
  /\ NoneSkipped /\ NothingMissed

-----------------------------------------------------------------------------
(* Sequences.                                                              *)

LEMMA Elements ==
  ASSUME NEW S, NEW s \in Seq(S)
  PROVE  Len(s) \in Nat /\ DOMAIN s = 1 .. Len(s) /\ \A i \in 1 .. Len(s) : s[i] \in S
BY LenProperties, ElementOfSeq

LEMMA Inner ==
  ASSUME NEW n \in Nat, NEW i \in 1 .. n, i # n
  PROVE  i \in 1 .. n - 1 /\ i + 1 \in 1 .. n
OBVIOUS

LEMMA TailOf ==
  ASSUME NEW S, NEW s \in Seq(S), s # <<>>
  PROVE  /\ Len(s) \in Nat /\ Len(s) >= 1 /\ Head(s) = s[1] /\ Head(s) \in S
         /\ Tail(s) \in Seq(S) /\ Len(Tail(s)) = Len(s) - 1
         /\ \A i \in 1 .. Len(s) - 1 : Tail(s)[i] = s[i + 1]
<1>1. Len(s) \in Nat /\ Len(s) >= 1
  BY LenProperties, EmptySeq
<1>2. QED
  BY <1>1, HeadTailProperties, ElementOfSeq

LEMMA AppendOf ==
  ASSUME NEW S, NEW s \in Seq(S), NEW e \in S
  PROVE  /\ Len(s) \in Nat /\ Append(s, e) \in Seq(S) /\ Len(Append(s, e)) = Len(s) + 1
         /\ Append(s, e) # <<>> /\ Append(s, e)[Len(s) + 1] = e
         /\ \A i \in 1 .. Len(s) : Append(s, e)[i] = s[i]
BY AppendProperties, LenProperties

-----------------------------------------------------------------------------
(* The factory.                                                            *)

LEMMA DisconnectedIs ==
  ASSUME Disconnected
  PROVE  /\ \E s \in Channel : SessionLost(s)
         /\ connected' = FALSE /\ dialogFlow' = FALSE /\ dialog' = <<>> /\ down' = <<>>
         /\ up' = up \/ up' = <<>>
         /\ UNCHANGED <<published, first, reader, sequenceNo, subCount, serial, requesting,
                        requests, handled>>
BY DEF Disconnected, server

\* Every step of the link is one of the factory, or leaves the factory alone.
LEMMA FactoryStep ==
  ASSUME [LinkNext]_link
  PROVE  [Next]_factory
<1>1. CASE Result
  BY <1>1 DEF Result, Next
<1>2. CASE Connecting
  BY <1>2 DEF Connecting, Next
<1>3. CASE ConnectionLost \/ Gap
  BY <1>3, DisconnectedIs DEF ConnectionLost, Gap, Next
<1>4. CASE UNCHANGED factory
  BY <1>4
<1>5. QED
  BY <1>1, <1>2, <1>3, <1>4 DEF LinkNext, link, Receive, BeginRequest, EndRequest,
     SendRequest, Publish, Login, TakeRequest, PublishSend

\* CConnecter's attempt ends with a channel only while there is no session: the
\* client's factory allows one.
LEMMA ResultIsFirst ==
  ASSUME FactoryIInv, HandleResult, made # NoOne
  PROVE  Count = 0 /\ Count' > 0
<1>1. pos > 0
  BY Attempt DEF HandleResult
<1>2. Count <= MaxSession - 1 /\ MaxSession = 1
  BY <1>1, LinkBounds DEF FactoryIInv
<1>3. Count' = Count + 1
  BY ResultSession DEF CountAfter
<1>4. Count \in Nat
  BY SessionsFinite
<1>5. QED
  BY <1>2, <1>3, <1>4

LEMMA SingleNext ==
  ASSUME FactoryIInv, Single, LinkTypeOK, [LinkNext]_link
  PROVE  Single'
<1>0. peer' = peer => Count' = Count
  BY DEF Count, Sessions
<1>1. CASE Result
  <2>1. CASE made # NoOne
    <3>1. connected' = TRUE /\ Count' > 0
      BY <1>1, <2>1, ResultIsFirst DEF Result
    <3>2. QED
      BY <3>1 DEF Single
  <2>2. CASE made = NoOne
    <3>1. peer' = peer /\ UNCHANGED <<connected, dialogFlow, up>>
      BY <1>1, <2>2 DEF Result, HandleResult, PeerAfter, net, client, asking
    <3>2. QED
      BY <3>1, <1>0 DEF Single
  <2>3. QED
    BY <2>1, <2>2
<1>2. CASE Connecting
  <2>1. peer' = peer
    BY <1>2 DEF Connecting, TryConnect, HandlePosted, OnTimer, ConnectEnds
  <2>2. QED
    BY <1>0, <1>2, <2>1 DEF Connecting, Single, net, client, asking
<1>3. CASE ConnectionLost \/ Gap
  BY <1>3, DisconnectedIs DEF ConnectionLost, Gap, Single
<1>4. CASE Login \/ TakeRequest
  BY <1>4, <1>0 DEF Login, TakeRequest, Single, factory, client, asking
<1>5. CASE SendRequest
  BY <1>5, <1>0 DEF SendRequest, Single, factory, client
<1>6. CASE Receive \/ BeginRequest \/ EndRequest \/ Publish \/ PublishSend \/ UNCHANGED link
  BY <1>6, <1>0 DEF Receive, BeginRequest, EndRequest, Publish, PublishSend, link, Single,
     factory, client, asking, net
<1>7. QED
  BY <1>1, <1>2, <1>3, <1>4, <1>5, <1>6 DEF LinkNext

-----------------------------------------------------------------------------
(* Types.                                                                  *)

LEMMA Bounds ==
  /\ Window \in Nat /\ MaxPublished \in Nat /\ MaxRequests \in Nat /\ MaxDialog \in Nat
  /\ MaxBreaks \in Nat
  /\ \A n \in SequenceNos : n \in Int
BY LinkBounds

LEMMA LinkWords ==
  ASSUME LinkTypeOK
  PROVE  /\ published \in Nat /\ published <= MaxPublished
         /\ first \in Nat /\ first <= published
         /\ reader \in Int /\ reader >= -1 /\ reader <= published
         /\ up \in Seq(0 .. MaxRequests) /\ down \in Seq((1 .. MaxPublished) \union {-1})
         /\ sequenceNo \in Int /\ subCount \in Int
         /\ serial \in Seq(-1 .. MaxPublished)
         /\ dialog \in Seq(1 .. MaxRequests) /\ Len(dialog) <= MaxDialog
         /\ requests \in Nat /\ requests <= MaxRequests /\ handled \in Seq(1 .. MaxRequests)
<1>1. /\ published \in 0 .. MaxPublished /\ first \in 0 .. published /\ reader \in -1 .. published
      /\ sequenceNo \in SequenceNos /\ subCount \in (1 .. MaxPublished) \union {-1}
      /\ requests \in 0 .. MaxRequests
  BY DEF LinkTypeOK
<1>2. /\ up \in Seq(0 .. MaxRequests) /\ down \in Seq((1 .. MaxPublished) \union {-1})
      /\ serial \in Seq(-1 .. MaxPublished)
      /\ dialog \in Seq(1 .. MaxRequests) /\ Len(dialog) <= MaxDialog
      /\ handled \in Seq(1 .. MaxRequests)
  BY DEF LinkTypeOK
<1>3. QED
  BY <1>1, <1>2, Bounds

\* Where a subscription begins is inside of what the flow has got.
LEMMA BeginNoIn ==
  ASSUME LinkTypeOK
  PROVE  BeginNo \in Nat /\ first <= BeginNo /\ BeginNo <= published
<1>1. published \in Nat /\ first \in Nat /\ first <= published /\ sequenceNo \in Int
  BY LinkWords
<1> DEFINE n == IF sequenceNo < 0 THEN published + sequenceNo ELSE sequenceNo
           m == IF n > published THEN published ELSE n
<1>2. n \in Int
  BY <1>1
<1>3. m \in Int /\ m <= published
  BY <1>1, <1>2
<1> HIDE DEF n, m
<1>4. BeginNo = IF m < first THEN first ELSE m
  BY DEF BeginNo, m, n
<1>5. QED
  BY <1>1, <1>3, <1>4

LEMMA LinkTypeNext ==
  ASSUME LinkTypeOK, Asked, [LinkNext]_link
  PROVE  LinkTypeOK'
<1>1. /\ published \in Nat /\ published <= MaxPublished
      /\ first \in Nat /\ first <= published
      /\ reader \in Int /\ reader >= -1 /\ reader <= published
      /\ requests \in Nat /\ requests <= MaxRequests
  BY LinkWords
<1>2. /\ up \in Seq(0 .. MaxRequests) /\ down \in Seq((1 .. MaxPublished) \union {-1})
      /\ serial \in Seq(-1 .. MaxPublished) /\ dialog \in Seq(1 .. MaxRequests)
      /\ handled \in Seq(1 .. MaxRequests) /\ Len(dialog) <= MaxDialog
  BY LinkWords
<1>3. {connected', dialogFlow', requesting'} \subseteq BOOLEAN
  BY DisconnectedIs DEF LinkTypeOK, LinkNext, Result, Connecting, ConnectionLost, Receive, Gap,
     BeginRequest, EndRequest, SendRequest, Publish, Login, TakeRequest, PublishSend, link,
     client, asking
<1>4. published' \in 0 .. MaxPublished /\ first' \in 0 .. published'
  <2>1. CASE Publish
    BY <2>1, <1>1, Bounds DEF Publish
  <2>2. CASE published' = published /\ first' = first
    BY <2>2, <1>1, Bounds
  <2>3. QED
    BY <2>1, <2>2, DisconnectedIs DEF LinkNext, Result, Connecting, ConnectionLost, Receive,
       Gap, BeginRequest, EndRequest, SendRequest, Login, TakeRequest, PublishSend, link, server
<1>5. reader' \in -1 .. published'
  <2>1. published <= published' /\ published' \in Nat
    <3>1. CASE Publish
      BY <3>1, <1>1 DEF Publish
    <3>2. CASE published' = published
      BY <3>2, <1>1
    <3>3. QED
      BY <3>1, <3>2, DisconnectedIs DEF LinkNext, Result, Connecting, ConnectionLost, Receive,
         Gap, BeginRequest, EndRequest, SendRequest, Login, TakeRequest, PublishSend, link,
         server
  <2>2. CASE Login
    BY <2>1, <2>2, <1>1, BeginNoIn DEF Login
  <2>3. CASE PublishSend
    BY <2>1, <2>3, <1>1 DEF PublishSend
  <2>4. CASE reader' = -1
    BY <2>1, <2>4
  <2>5. CASE reader' = reader
    BY <2>1, <2>5, <1>1
  <2>6. QED
    BY <2>2, <2>3, <2>4, <2>5, DisconnectedIs DEF LinkNext, Result, Connecting, ConnectionLost,
       Receive, Gap, BeginRequest, EndRequest, SendRequest, Publish, TakeRequest, link, server
<1>6. sequenceNo' \in SequenceNos
  BY DisconnectedIs DEF LinkTypeOK, LinkNext, Result, Connecting, ConnectionLost, Receive, Gap,
     BeginRequest, EndRequest, SendRequest, Publish, Login, TakeRequest, PublishSend, link,
     client
<1>7. subCount' \in (1 .. MaxPublished) \union {-1}
  <2>1. CASE Receive
    <3>1. Head(down) \in (1 .. MaxPublished) \union {-1}
      BY <2>1, <1>2, TailOf DEF Receive
    <3>2. QED
      BY <2>1, <3>1 DEF Receive
  <2>2. CASE subCount' = -1 \/ subCount' = subCount
    BY <2>2 DEF LinkTypeOK
  <2>3. QED
    BY <2>1, <2>2, DisconnectedIs DEF LinkNext, Result, InterLogin, Connecting, ConnectionLost,
       Gap, BeginRequest, EndRequest, SendRequest, Publish, Login, TakeRequest, PublishSend,
       link, client
<1>8. breaks' \in 0 .. MaxBreaks
  <2>1. breaks \in 0 .. MaxBreaks
    BY DEF LinkTypeOK
  <2>2. CASE ConnectionLost
    BY <2>1, <2>2, Bounds DEF ConnectionLost
  <2>3. CASE breaks' = breaks
    BY <2>1, <2>3
  <2>4. QED
    BY <2>2, <2>3 DEF LinkNext, Result, Connecting, Receive, Gap, BeginRequest, EndRequest,
       SendRequest, Publish, Login, TakeRequest, PublishSend, link, client
<1>9. serial' \in Seq(-1 .. MaxPublished)
  <2>1. CASE Receive
    <3>1. Head(down) \in (1 .. MaxPublished) \union {-1}
      BY <2>1, <1>2, TailOf DEF Receive
    <3>2. Head(down) \in -1 .. MaxPublished
      BY <3>1, Bounds
    <3>3. QED
      BY <2>1, <3>2, <1>2, AppendOf DEF Receive
  <2>2. CASE serial' = Append(serial, 0)
    <3>1. 0 \in -1 .. MaxPublished
      BY Bounds
    <3>2. QED
      BY <2>2, <3>1, <1>2, AppendOf
  <2>3. CASE serial' = serial
    BY <2>3, <1>2
  <2>4. QED
    BY <2>1, <2>2, <2>3, DisconnectedIs DEF LinkNext, Result, Connecting, ConnectionLost, Gap,
       BeginRequest, EndRequest, SendRequest, Publish, Login, TakeRequest, PublishSend, link,
       client
<1>10. down' \in Seq((1 .. MaxPublished) \union {-1})
  <2>1. CASE Receive
    BY <2>1, <1>2, TailOf DEF Receive
  <2>2. CASE PublishSend
    <3>1. reader \in 0 .. published - 1
      BY <2>2 DEF PublishSend
    <3>2. reader + 1 \in 1 .. MaxPublished
      BY <3>1, <1>1, Bounds
    <3>3. reader + 1 \in (1 .. MaxPublished) \union {-1}
      BY <3>2
    <3>4. QED
      BY <2>2, <3>3, <1>2, AppendOf DEF PublishSend
  <2>3. CASE Login
    <3>1. -1 \in (1 .. MaxPublished) \union {-1}
      OBVIOUS
    <3>2. down' = down \/ down' = Append(down, -1)
      BY <2>3 DEF Login
    <3>3. ASSUME NEW e \in (1 .. MaxPublished) \union {-1}, down' = Append(down, e)
          PROVE  down' \in Seq((1 .. MaxPublished) \union {-1})
      BY <3>3, <1>2, AppendOf
    <3>4. QED
      BY <3>1, <3>2, <3>3, <1>2
  <2>4. CASE down' = <<>> \/ down' = down
    BY <2>4, <1>2, EmptySeq
  <2>5. QED
    BY <2>1, <2>2, <2>3, <2>4, DisconnectedIs DEF LinkNext, Result, Connecting, ConnectionLost,
       Gap, BeginRequest, EndRequest, SendRequest, Publish, TakeRequest, link, net
<1>11. up' \in Seq(0 .. MaxRequests)
  <2>1. CASE SendRequest
    <3>1. Head(dialog) \in 1 .. MaxRequests
      BY <2>1, <1>2, TailOf DEF SendRequest
    <3>2. Head(dialog) \in 0 .. MaxRequests
      BY <3>1, Bounds
    <3>3. QED
      BY <2>1, <3>2, <1>2, AppendOf DEF SendRequest
  <2>2. CASE Login \/ TakeRequest
    BY <2>2, <1>2, TailOf DEF Login, TakeRequest
  <2>3. CASE up' = <<0>>
    <3>1. 0 \in 0 .. MaxRequests
      BY Bounds
    <3>2. QED
      BY <2>3, <3>1
  <2>4. CASE up' = up \/ up' = <<>>
    BY <2>4, <1>2, EmptySeq
  <2>5. QED
    BY <2>1, <2>2, <2>3, <2>4, DisconnectedIs DEF LinkNext, Result, InterLogin, Connecting,
       ConnectionLost, Gap, Receive, BeginRequest, EndRequest, Publish, PublishSend, link, net
<1>12. dialog' \in Seq(1 .. MaxRequests) /\ Len(dialog') <= MaxDialog /\ requests' \in 0 .. MaxRequests
  <2>0. Len(dialog) \in Nat /\ requests \in 0 .. MaxRequests
    BY <1>1, <1>2, Elements, Bounds
  <2>1. CASE SendRequest
    <3>1. dialog' \in Seq(1 .. MaxRequests) /\ Len(dialog') = Len(dialog) - 1
      BY <2>1, <1>2, TailOf DEF SendRequest, Taken
    <3>2. QED
      BY <2>0, <2>1, <3>1, <1>2, Bounds DEF SendRequest
  <2>2. CASE EndRequest
    <3>1. CASE dialogFlow /\ Len(dialog) < MaxDialog
      <4>1. requests < MaxRequests
        BY <2>2 DEF EndRequest, Asked
      <4>2. requests + 1 \in 1 .. MaxRequests
        BY <4>1, <1>1, Bounds
      <4>3. dialog' = Append(dialog, requests + 1) /\ requests' = requests + 1
        BY <2>2, <3>1 DEF EndRequest
      <4>4. dialog' \in Seq(1 .. MaxRequests) /\ Len(dialog') = Len(dialog) + 1
        BY <4>2, <4>3, <1>2, AppendOf
      <4>5. Len(dialog') <= MaxDialog
        BY <3>1, <4>4, <2>0, Bounds
      <4>6. QED
        BY <4>2, <4>3, <4>4, <4>5
    <3>2. CASE ~(dialogFlow /\ Len(dialog) < MaxDialog)
      BY <2>2, <3>2, <2>0, <1>2 DEF EndRequest
    <3>3. QED
      BY <3>1, <3>2
  <2>3. CASE dialog' = <<>> /\ requests' = requests
    BY <2>3, <2>0, EmptySeq, Bounds
  <2>4. CASE dialog' = dialog /\ requests' = requests
    BY <2>4, <2>0, <1>2
  <2>5. QED
    BY <2>1, <2>2, <2>3, <2>4, DisconnectedIs DEF LinkNext, Result, Connecting,
       ConnectionLost, Gap, Receive, BeginRequest, Publish, Login, TakeRequest, PublishSend,
       link, asking
<1>13. handled' \in Seq(1 .. MaxRequests)
  <2>1. CASE TakeRequest
    <3>1. Head(up) \in 0 .. MaxRequests /\ Head(up) # 0
      BY <2>1, <1>2, TailOf DEF TakeRequest
    <3>2. Head(up) \in 1 .. MaxRequests
      BY <3>1, Bounds
    <3>3. QED
      BY <2>1, <3>2, <1>2, AppendOf DEF TakeRequest
  <2>2. CASE handled' = handled
    BY <2>2, <1>2
  <2>3. QED
    BY <2>1, <2>2, DisconnectedIs DEF LinkNext, Result, Connecting, ConnectionLost, Gap, Receive,
       BeginRequest, EndRequest, SendRequest, Publish, Login, PublishSend, link
<1>14. QED
  BY <1>3, <1>4, <1>5, <1>6, <1>7, <1>8, <1>9, <1>10, <1>11, <1>12, <1>13 DEF LinkTypeOK

-----------------------------------------------------------------------------
(* The requests.                                                           *)

LEMMA AheadIs ==
  ASSUME LinkTypeOK
  PROVE  /\ Ahead \in {0, 1} /\ Len(up) \in Nat /\ Len(dialog) \in Nat /\ Len(handled) \in Nat
         /\ Ahead <= Len(up)
         /\ up # <<>> => Len(up) >= 1 /\ Head(up) = up[1] /\ (Ahead = 1 <=> up[1] = 0)
         /\ up = <<>> => Len(up) = 0 /\ Ahead = 0
         /\ dialog = <<>> => Len(dialog) = 0
<1>1. up \in Seq(0 .. MaxRequests) /\ dialog \in Seq(1 .. MaxRequests)
      /\ handled \in Seq(1 .. MaxRequests)
  BY LinkWords
<1>2. Len(up) \in Nat /\ Len(dialog) \in Nat /\ Len(handled) \in Nat
  BY <1>1, Elements
<1>3. up # <<>> => Len(up) >= 1 /\ Head(up) = up[1]
  BY <1>1, TailOf
<1>4. Len(<<>>) = 0
  BY EmptySeq
<1>5. QED
  BY <1>2, <1>3, <1>4 DEF Ahead

LEMMA AskedNext ==
  ASSUME FactoryIInv, LinkTypeOK, Single, Asked, [LinkNext]_link
  PROVE  Asked'
<1>1. /\ up \in Seq(0 .. MaxRequests) /\ dialog \in Seq(1 .. MaxRequests)
      /\ handled \in Seq(1 .. MaxRequests) /\ requests \in Nat
  BY LinkWords
<1>2. /\ Ahead \in {0, 1} /\ Len(up) \in Nat /\ Len(dialog) \in Nat /\ Len(handled) \in Nat
      /\ Ahead <= Len(up)
      /\ up # <<>> => Len(up) >= 1 /\ Head(up) = up[1] /\ (Ahead = 1 <=> up[1] = 0)
      /\ up = <<>> => Len(up) = 0 /\ Ahead = 0
      /\ dialog = <<>> => Len(dialog) = 0
  BY AheadIs
<1>3. CASE Result
  <2>1. CASE made # NoOne
    <3>1. ~connected
      BY <1>3, <2>1, ResultIsFirst DEF Result, Single
    <3>2. dialogFlow => Len(up) = 0 /\ Ahead = 0
      BY <3>1, <1>2 DEF Single
    <3>3. /\ up' = <<0>>
          /\ UNCHANGED <<dialogFlow, dialog, requesting, requests, handled>>
      BY <1>3, <2>1 DEF Result, InterLogin, asking
    <3>4. Len(up') = 1 /\ Ahead' = 1
      BY <3>3 DEF Ahead
    <3>5. ~dialogFlow => Len(dialog) = 0
      BY <1>2 DEF Asked
    <3>6. CASE dialogFlow
      <4>1. \A i \in 1 .. Len(dialog) : dialog[i] = Len(handled) + i
        BY <3>2, <3>6, <1>2 DEF Asked
      <4>2. requests = Len(handled) + Len(dialog)
        BY <3>2, <3>6, <1>2 DEF Asked
      <4>3. QED
        BY <1>2, <3>3, <3>4, <3>6, <4>1, <4>2 DEF Asked
    <3>7. CASE ~dialogFlow
      BY <1>2, <3>3, <3>4, <3>5, <3>7 DEF Asked
    <3>8. QED
      BY <3>6, <3>7
  <2>2. CASE made = NoOne
    BY <1>3, <2>2 DEF Result, net, asking, Asked, Ahead
  <2>3. QED
    BY <2>1, <2>2
<1>4. CASE ConnectionLost \/ Gap
  <2>1. /\ dialogFlow' = FALSE /\ dialog' = <<>> /\ (up' = up \/ up' = <<>>)
        /\ UNCHANGED <<requesting, requests, handled>>
    BY <1>4, DisconnectedIs DEF ConnectionLost, Gap
  <2>2. Len(dialog') = 0
    BY <2>1
  <2>3. CASE up' = up
    <3>1. Ahead' = Ahead
      BY <2>3 DEF Ahead
    <3>2. QED
      BY <1>2, <2>1, <2>2, <2>3, <3>1 DEF Asked
  <2>4. CASE up' = <<>>
    <3>1. Ahead' = 0 /\ Len(up') = 0
      BY <2>4 DEF Ahead
    <3>2. QED
      BY <1>2, <2>1, <2>2, <2>4, <3>1 DEF Asked
  <2>5. QED
    BY <2>1, <2>3, <2>4
<1>5. CASE Login
  <2>1. up # <<>> /\ up[1] = 0 /\ Ahead = 1 /\ up' = Tail(up)
    BY <1>5, <1>2 DEF Login
  <2>2. /\ Len(up') = Len(up) - 1 /\ \A i \in 1 .. Len(up) - 1 : up'[i] = up[i + 1]
    BY <2>1, <1>1, TailOf
  <2>3. \A i \in 1 .. Len(up) - 1 : up'[i] = Len(handled) + i
    BY <2>1, <2>2, <1>2 DEF Asked
  <2>4. up' # <<>> => Len(up) - 1 >= 1
    BY <2>1, <2>2, <1>1, TailOf, EmptySeq
  <2>5. Ahead' = 0
    BY <2>3, <2>4, <1>2 DEF Ahead
  <2>6. UNCHANGED <<dialogFlow, dialog, requesting, requests, handled>>
    BY <1>5 DEF Login, asking
  <2>7. QED
    BY <1>2, <2>1, <2>2, <2>3, <2>5, <2>6 DEF Asked
<1>6. CASE TakeRequest
  <2>1. up # <<>> /\ up[1] # 0 /\ Ahead = 0 /\ up' = Tail(up)
    BY <1>6, <1>2 DEF TakeRequest
  <2>2. /\ Len(up') = Len(up) - 1 /\ \A i \in 1 .. Len(up) - 1 : up'[i] = up[i + 1]
    BY <2>1, <1>1, TailOf
  <2>3. up[1] = Len(handled) + 1 /\ \A i \in 1 .. Len(up) - 1 : up'[i] = Len(handled) + 1 + i
    BY <2>1, <2>2, <1>2 DEF Asked
  <2>4. up' # <<>> => Len(up) - 1 >= 1
    BY <2>1, <2>2, <1>1, TailOf, EmptySeq
  <2>5. Ahead' = 0
    BY <2>3, <2>4, <1>2 DEF Ahead
  <2>6. UNCHANGED <<dialogFlow, dialog, requesting, requests>>
    BY <1>6 DEF TakeRequest, asking
  <2>7. handled' = Append(handled, up[1]) /\ up[1] \in 1 .. MaxRequests
    <3>1. up[1] \in 0 .. MaxRequests
      BY <1>1, <2>1, TailOf
    <3>2. QED
      BY <1>2, <1>6, <2>1, <3>1, Bounds DEF TakeRequest
  <2>8. /\ Len(handled') = Len(handled) + 1 /\ handled'[Len(handled) + 1] = up[1]
        /\ \A i \in 1 .. Len(handled) : handled'[i] = handled[i]
    BY <2>7, <1>1, AppendOf
  <2>9. \A i \in 1 .. Len(handled') : handled'[i] = i
    BY <2>3, <2>8, <1>2 DEF Asked
  <2>10. QED
    BY <1>2, <2>1, <2>2, <2>3, <2>5, <2>6, <2>8, <2>9 DEF Asked
<1>7. CASE SendRequest
  <2>1. dialog # <<>> /\ up' = Append(up, Head(dialog)) /\ dialog' = Tail(dialog)
        /\ UNCHANGED <<dialogFlow, requesting, requests, handled>>
    BY <1>7 DEF SendRequest, Taken
  <2>2. /\ Len(dialog) >= 1 /\ Len(dialog') = Len(dialog) - 1 /\ Head(dialog) = dialog[1]
        /\ \A i \in 1 .. Len(dialog) - 1 : dialog'[i] = dialog[i + 1]
        /\ dialog[1] \in 1 .. MaxRequests
    BY <2>1, <1>1, TailOf
  <2>3. dialog[1] = Len(handled) + Len(up) - Ahead + 1
    BY <2>2, <1>2 DEF Asked
  <2>4. dialog[1] \in 0 .. MaxRequests
    BY <2>2, Bounds
  <2>5. /\ Len(up') = Len(up) + 1 /\ up' # <<>> /\ up'[Len(up) + 1] = dialog[1]
        /\ \A i \in 1 .. Len(up) : up'[i] = up[i]
    BY <2>1, <2>2, <2>4, <1>1, AppendOf
  <2>6. Ahead' = Ahead
    <3>1. CASE up = <<>>
      <4>1. up'[1] = dialog[1] /\ Ahead = 0
        BY <3>1, <2>5, <1>2
      <4>2. dialog[1] # 0
        BY <2>2, Bounds
      <4>3. QED
        BY <2>5, <4>1, <4>2 DEF Ahead
    <3>2. CASE up # <<>>
      <4>1. up'[1] = up[1]
        BY <3>2, <2>5, <1>2
      <4>2. QED
        BY <2>5, <3>2, <4>1 DEF Ahead
    <3>3. QED
      BY <3>1, <3>2
  <2>7. \A i \in 1 + Ahead .. Len(up) + 1 : up'[i] = Len(handled) + i - Ahead
    <3> SUFFICES ASSUME NEW i \in 1 + Ahead .. Len(up) + 1
                 PROVE  up'[i] = Len(handled) + i - Ahead
      OBVIOUS
    <3>1. i \in Int /\ i >= 1 /\ i <= Len(up) + 1
      BY <1>2
    <3>2. CASE i = Len(up) + 1
      BY <1>2, <2>3, <2>5, <3>2
    <3>3. CASE i # Len(up) + 1
      <4>1. i \in 1 .. Len(up) /\ i \in 1 + Ahead .. Len(up)
        BY <1>2, <3>1, <3>3
      <4>2. QED
        BY <2>5, <4>1 DEF Asked
    <3>4. QED
      BY <3>2, <3>3
  <2>8. ~dialogFlow' => dialog' = <<>>
    BY <2>1 DEF Asked
  <2>9. \A i \in 1 .. Len(dialog) - 1 : dialog'[i] = Len(handled) + Len(up) - Ahead + (i + 1)
    BY <1>2, <2>2 DEF Asked
  <2>10. QED
    BY <1>2, <2>1, <2>2, <2>5, <2>6, <2>7, <2>8, <2>9 DEF Asked
<1>8. CASE EndRequest
  <2>1. requesting' = FALSE /\ UNCHANGED <<dialogFlow, handled, up>>
    BY <1>8 DEF EndRequest, net
  <2>2. Ahead' = Ahead
    BY <2>1 DEF Ahead
  <2>3. CASE dialogFlow /\ Len(dialog) < MaxDialog
    <3>1. dialog' = Append(dialog, requests + 1) /\ requests' = requests + 1
      BY <1>8, <2>3 DEF EndRequest
    <3>2. requests + 1 \in 1 .. MaxRequests
      BY <1>1, <1>8, Bounds DEF EndRequest, Asked
    <3>3. /\ Len(dialog') = Len(dialog) + 1 /\ dialog'[Len(dialog) + 1] = requests + 1
          /\ \A i \in 1 .. Len(dialog) : dialog'[i] = dialog[i]
      BY <3>1, <3>2, <1>1, AppendOf
    <3>4. \A i \in 1 .. Len(dialog) + 1 : dialog'[i] = Len(handled) + Len(up) - Ahead + i
      <4> SUFFICES ASSUME NEW i \in 1 .. Len(dialog) + 1
                   PROVE  dialog'[i] = Len(handled) + Len(up) - Ahead + i
        OBVIOUS
      <4>1. CASE i = Len(dialog) + 1
        <5>1. requests = Len(handled) + Len(up) - Ahead + Len(dialog)
          BY <2>3 DEF Asked
        <5>2. QED
          BY <1>1, <1>2, <3>3, <4>1, <5>1
      <4>2. CASE i # Len(dialog) + 1
        <5>1. i \in 1 .. Len(dialog)
          BY <1>2, <4>2
        <5>2. QED
          BY <3>3, <5>1 DEF Asked
      <4>3. QED
        BY <4>1, <4>2
    <3>5. QED
      BY <1>1, <1>2, <2>1, <2>2, <2>3, <3>1, <3>3, <3>4 DEF Asked
  <2>4. CASE ~(dialogFlow /\ Len(dialog) < MaxDialog)
    BY <1>8, <2>1, <2>2, <2>4 DEF EndRequest, Asked
  <2>5. QED
    BY <2>3, <2>4
<1>9. CASE BeginRequest
  BY <1>9 DEF BeginRequest, Asked, Ahead, net
<1>10. CASE Connecting \/ Receive \/ Publish \/ PublishSend \/ UNCHANGED link
  <2>1. UNCHANGED <<handled, up, asking>>
    BY <1>10 DEF Connecting, Receive, Publish, PublishSend, link, net
  <2>2. Ahead' = Ahead
    BY <2>1 DEF Ahead
  <2>3. QED
    BY <2>1, <2>2 DEF Asked, asking
<1>11. QED
  BY <1>3, <1>4, <1>5, <1>6, <1>7, <1>8, <1>9, <1>10 DEF LinkNext

-----------------------------------------------------------------------------
(* The messages.                                                           *)

\* One more in the series flow.
LEMMA SerialExtended ==
  ASSUME LinkTypeOK, ConsecutiveInConnection, NEW e \in -1 .. MaxPublished,
         serial' = Append(serial, e),
         serial # <<>> /\ serial[Len(serial)] > 0 => e = 0 \/ e = serial[Len(serial)] + 1
  PROVE  /\ ConsecutiveInConnection'
         /\ Len(serial') = Len(serial) + 1 /\ serial'[Len(serial')] = e
         /\ Received \subseteq Received' /\ (e > 0 => e \in Received')
         /\ Received' \subseteq Received \union {e}
<1>1. serial \in Seq(-1 .. MaxPublished)
  BY LinkWords
<1>2. Len(serial) \in Nat /\ DOMAIN serial = 1 .. Len(serial)
  BY <1>1, Elements
<1>3. /\ serial' \in Seq(-1 .. MaxPublished) /\ Len(serial') = Len(serial) + 1
      /\ serial'[Len(serial) + 1] = e /\ \A i \in 1 .. Len(serial) : serial'[i] = serial[i]
  BY <1>1, AppendOf
<1>4. ConsecutiveInConnection'
  <2> SUFFICES ASSUME NEW i \in 1 .. Len(serial') - 1, serial'[i] > 0, serial'[i + 1] # 0
               PROVE  serial'[i + 1] = serial'[i] + 1
    BY DEF ConsecutiveInConnection
  <2>1. i \in 1 .. Len(serial)
    BY <1>2, <1>3
  <2>2. CASE i = Len(serial)
    <3>1. serial # <<>>
      BY <1>1, <2>1, <2>2, EmptySeq
    <3>2. QED
      BY <1>2, <1>3, <2>1, <2>2, <3>1
  <2>3. CASE i # Len(serial)
    <3>1. i \in 1 .. Len(serial) - 1 /\ i + 1 \in 1 .. Len(serial)
      BY <1>2, <2>1, <2>3, Inner
    <3>2. QED
      BY <1>3, <2>1, <3>1 DEF ConsecutiveInConnection
  <2>4. QED
    BY <2>2, <2>3
<1>5. DOMAIN serial' = 1 .. Len(serial) + 1
  BY <1>3, Elements
<1>6. Received \subseteq Received'
  BY <1>2, <1>3, <1>5 DEF Received
<1>7. e > 0 => e \in Received'
  <2>1. Len(serial) + 1 \in DOMAIN serial'
    BY <1>2, <1>5
  <2>2. e > 0 => e \notin {0, -1}
    OBVIOUS
  <2>3. QED
    BY <1>3, <2>1, <2>2 DEF Received
<1>8. Received' \subseteq Received \union {e}
  <2>1. \A i \in 1 .. Len(serial) + 1 : i = Len(serial) + 1 \/ i \in 1 .. Len(serial)
    BY <1>2
  <2>2. QED
    BY <1>2, <1>3, <1>5, <2>1 DEF Received
<1>9. QED
  BY <1>3, <1>4, <1>6, <1>7, <1>8

LEMMA ReceiveExtends ==
  ASSUME LinkTypeOK, ConsecutiveInConnection, Counted, Receive
  PROVE  /\ ConsecutiveInConnection' /\ Counted'
         /\ Received \subseteq Received' /\ (Head(down) > 0 => Head(down) \in Received')
         /\ Received' \subseteq Received \union {Head(down)}
<1>1. down \in Seq((1 .. MaxPublished) \union {-1}) /\ subCount \in Int
      /\ serial \in Seq(-1 .. MaxPublished)
  BY LinkWords
<1>2. Head(down) \in -1 .. MaxPublished
  <2>1. Head(down) \in (1 .. MaxPublished) \union {-1}
    BY <1>1, TailOf DEF Receive
  <2>2. QED
    BY <2>1, Bounds
<1>3. /\ connected /\ connected' /\ serial' = Append(serial, Head(down))
      /\ subCount' = Head(down) /\ (subCount = -1 \/ Head(down) = subCount + 1)
  BY DEF Receive, Follows
<1>4. serial # <<>> /\ serial[Len(serial)] > 0 =>
        Head(down) = 0 \/ Head(down) = serial[Len(serial)] + 1
  BY <1>3, <1>1 DEF Counted
<1>5. /\ ConsecutiveInConnection'
      /\ Len(serial') = Len(serial) + 1 /\ serial'[Len(serial')] = Head(down)
      /\ Received \subseteq Received' /\ (Head(down) > 0 => Head(down) \in Received')
      /\ Received' \subseteq Received \union {Head(down)}
  BY <1>2, <1>3, <1>4, SerialExtended
<1>6. Counted'
  BY <1>3, <1>5 DEF Counted
<1>7. QED
  BY <1>5, <1>6

\* The series flow after a session has been made.
LEMMA ResultExtends ==
  ASSUME LinkTypeOK, ConsecutiveInConnection, Result, made # NoOne
  PROVE  ConsecutiveInConnection' /\ Counted' /\ Received' = Received
<1>1. serial \in Seq(-1 .. MaxPublished)
  BY LinkWords
<1>2. serial' = IF serial # <<>> /\ serial[Len(serial)] # 0 THEN Append(serial, 0) ELSE serial
  BY DEF Result
<1>3. CASE serial # <<>> /\ serial[Len(serial)] # 0
  <2>1. serial' = Append(serial, 0) /\ 0 \in -1 .. MaxPublished
    BY <1>2, <1>3, Bounds
  <2>2. /\ ConsecutiveInConnection'
        /\ Len(serial') = Len(serial) + 1 /\ serial'[Len(serial')] = 0
        /\ Received \subseteq Received' /\ Received' \subseteq Received \union {0}
    BY <2>1, SerialExtended
  <2>3. Received' = Received
    BY <2>2 DEF Received
  <2>4. QED
    BY <2>2, <2>3 DEF Counted
<1>4. CASE ~(serial # <<>> /\ serial[Len(serial)] # 0)
  BY <1>2, <1>4 DEF ConsecutiveInConnection, Counted, Received
<1>5. QED
  BY <1>3, <1>4

LEMMA SerialNext ==
  ASSUME LinkTypeOK, ConsecutiveInConnection, Counted, [LinkNext]_link
  PROVE  ConsecutiveInConnection' /\ Counted'
<1>1. CASE Result
  <2>1. CASE made # NoOne
    BY <1>1, <2>1, ResultExtends
  <2>2. CASE made = NoOne
    BY <1>1, <2>2 DEF Result, client, ConsecutiveInConnection, Counted
  <2>3. QED
    BY <2>1, <2>2
<1>2. CASE Receive
  BY <1>2, ReceiveExtends
<1>3. CASE ConnectionLost \/ Gap
  BY <1>3, DisconnectedIs DEF ConnectionLost, Gap, ConsecutiveInConnection, Counted
<1>4. CASE UNCHANGED <<serial, subCount, connected>>
  BY <1>4 DEF ConsecutiveInConnection, Counted
<1>5. QED
  BY <1>1, <1>2, <1>3, <1>4 DEF LinkNext, Connecting, BeginRequest, EndRequest, SendRequest,
     Publish, Login, TakeRequest, PublishSend, link, client

LEMMA SequenceNoStays ==
  ASSUME [LinkNext]_link
  PROVE  sequenceNo' = sequenceNo
BY DisconnectedIs DEF LinkNext, Result, Connecting, ConnectionLost, Receive, Gap, BeginRequest,
   EndRequest, SendRequest, Publish, Login, TakeRequest, PublishSend, link, client

\* A subscription that does not count from the end passes over nothing but what
\* the flow has let go of.
LEMMA BeginNoCovered ==
  ASSUME LinkTypeOK, sequenceNo >= 0
  PROVE  \A m \in sequenceNo + 1 .. BeginNo : m <= first
<1>1. published \in Nat /\ first \in Nat /\ first <= published /\ sequenceNo \in Int
  BY LinkWords
<1>2. BeginNo = first \/ BeginNo <= sequenceNo
  BY <1>1 DEF BeginNo
<1>3. BeginNo \in Nat
  BY BeginNoIn
<1>4. QED
  BY <1>1, <1>2, <1>3

\* What has been received has nothing missing before it.
LEMMA NothingMissedIs ==
  ASSUME LinkTypeOK, sequenceNo >= 0
  PROVE  NothingMissed <=>
           \A n \in Received : \A m \in sequenceNo + 1 .. n : m <= first \/ m \in Received
<1>1. first \in Nat /\ sequenceNo \in Int
  BY LinkWords
<1>2. serial \in Seq(-1 .. MaxPublished)
  BY LinkWords
<1>3. \A n \in Received : n \in Int
  BY <1>2, Elements, Bounds DEF Received
<1>4. \A n \in Received : \A m \in sequenceNo + 1 .. n : m <= first <=> m \in 1 .. first
  BY <1>1, <1>3
<1>5. QED
  BY <1>4 DEF NothingMissed

\* The network and the published flow move on, nothing is taken out.
LEMMA MissedQuiet ==
  ASSUME LinkTypeOK, LinkTypeOK', NoneSkipped, NothingMissed,
         UNCHANGED <<sequenceNo, serial, down, reader>>, first <= first',
         connected' => connected
  PROVE  NoneSkipped' /\ NothingMissed'
<1>1. /\ first \in Nat /\ first' \in Nat /\ sequenceNo \in Int
      /\ down \in Seq((1 .. MaxPublished) \union {-1}) /\ reader \in Int
  BY LinkWords DEF LinkTypeOK
<1>2. Received' = Received
  BY DEF Received
<1>3. ASSUME NEW n \in Int, NEW k, Covered(n, k)
      PROVE  \A m \in sequenceNo + 1 .. n :
               m <= first' \/ m \in Received' \/ \E j \in 1 .. k : down'[j] = m
  BY <1>1, <1>2, <1>3 DEF Covered
<1>4. \A i \in 1 .. Len(down) : down[i] - 1 \in Int
  BY <1>1, Elements
<1>5. NoneSkipped'
  <2>1. ASSUME sequenceNo >= 0, NEW i \in 1 .. Len(down),
               NEW m \in sequenceNo + 1 .. down[i] - 1
        PROVE  m <= first' \/ m \in Received' \/ \E j \in 1 .. i - 1 : down'[j] = m
    <3>1. Covered(down[i] - 1, i - 1)
      BY <2>1 DEF NoneSkipped
    <3>2. QED
      BY <1>3, <1>4, <2>1, <3>1
  <2>2. ASSUME sequenceNo >= 0, connected, NEW m \in sequenceNo + 1 .. reader
        PROVE  m <= first' \/ m \in Received' \/ \E j \in 1 .. Len(down) : down'[j] = m
    <3>1. Covered(reader, Len(down))
      BY <2>2 DEF NoneSkipped
    <3>2. QED
      BY <1>1, <1>3, <2>2, <3>1
  <2>3. QED
    BY <2>1, <2>2 DEF NoneSkipped, Covered
<1>6. NothingMissed'
  BY <1>1, <1>2 DEF NothingMissed
<1>7. QED
  BY <1>5, <1>6

\* A connection ends or begins.
LEMMA MissedEmptied ==
  ASSUME LinkTypeOK, NothingMissed, Received' = Received,
         UNCHANGED <<sequenceNo, first>>, down' = <<>>, connected' => reader' = -1
  PROVE  NoneSkipped' /\ NothingMissed'
<1>1. Len(down') = 0 /\ sequenceNo \in Int
  BY EmptySeq, LinkWords
<1>2. sequenceNo >= 0 => \A m \in sequenceNo + 1 .. -1 : FALSE
  BY <1>1
<1>3. NoneSkipped'
  BY <1>1, <1>2 DEF NoneSkipped, Covered
<1>4. NothingMissed'
  BY DEF NothingMissed
<1>5. QED
  BY <1>3, <1>4

LEMMA MissedLogin ==
  ASSUME LinkTypeOK, NoneSkipped, NothingMissed, Login
  PROVE  NoneSkipped' /\ NothingMissed'
<1>1. /\ UNCHANGED <<sequenceNo, serial, first, connected>> /\ reader' = BeginNo
      /\ sequenceNo >= 0 => down' = down
  BY DEF Login, client
<1>2. Received' = Received
  BY <1>1 DEF Received
<1>3. sequenceNo >= 0 => \A m \in sequenceNo + 1 .. reader' : m <= first
  BY <1>1, BeginNoCovered
<1>4. NoneSkipped'
  BY <1>1, <1>2, <1>3 DEF NoneSkipped, Covered
<1>5. NothingMissed'
  BY <1>1, <1>2 DEF NothingMissed
<1>6. QED
  BY <1>4, <1>5

LEMMA MissedSend ==
  ASSUME LinkTypeOK, NoneSkipped, NothingMissed, PublishSend
  PROVE  NoneSkipped' /\ NothingMissed'
<1>1. /\ UNCHANGED <<sequenceNo, serial, first, connected>> /\ reader' = reader + 1
      /\ connected /\ reader \in Int /\ reader + 1 \in 1 .. MaxPublished
      /\ down' = IF reader >= first THEN Append(down, reader + 1) ELSE down
  BY LinkWords, Bounds DEF PublishSend, client
<1>2. /\ first \in Nat /\ sequenceNo \in Int
      /\ down \in Seq((1 .. MaxPublished) \union {-1})
  BY LinkWords
<1>3. Len(down) \in Nat /\ \A i \in 1 .. Len(down) : down[i] \in Int
  BY <1>2, Elements
<1>4. Received' = Received
  BY <1>1 DEF Received
<1>5. NothingMissed'
  BY <1>1, <1>4 DEF NothingMissed
<1>6. ASSUME sequenceNo >= 0
      PROVE  NoneSkipped'
  <2>1. /\ \A i \in 1 .. Len(down) : Covered(down[i] - 1, i - 1)
        /\ Covered(reader, Len(down))
    BY <1>1, <1>6 DEF NoneSkipped
  <2>2. CASE reader >= first
    <3>1. down' = Append(down, reader + 1) /\ reader + 1 \in (1 .. MaxPublished) \union {-1}
      BY <1>1, <2>2
    <3>2. /\ Len(down') = Len(down) + 1 /\ down'[Len(down) + 1] = reader + 1
          /\ \A i \in 1 .. Len(down) : down'[i] = down[i]
      BY <1>2, <3>1, AppendOf
    <3>3. ASSUME NEW i \in 1 .. Len(down) + 1, NEW m \in sequenceNo + 1 .. down'[i] - 1
          PROVE  m <= first \/ m \in Received \/ \E j \in 1 .. i - 1 : down'[j] = m
      <4>1. CASE i = Len(down) + 1
        <5>1. m \in sequenceNo + 1 .. reader
          BY <1>1, <3>2, <3>3, <4>1
        <5>2. m <= first \/ m \in Received \/ \E j \in 1 .. Len(down) : down[j] = m
          BY <2>1, <5>1 DEF Covered
        <5>3. i - 1 = Len(down)
          BY <1>3, <4>1
        <5>4. QED
          BY <3>2, <5>2, <5>3
      <4>2. CASE i # Len(down) + 1
        <5>1. i \in 1 .. Len(down) /\ \A j \in 1 .. i - 1 : j \in 1 .. Len(down)
          BY <1>3, <4>2
        <5>2. m \in sequenceNo + 1 .. down[i] - 1
          BY <3>2, <3>3, <5>1
        <5>3. m <= first \/ m \in Received \/ \E j \in 1 .. i - 1 : down[j] = m
          BY <2>1, <5>1, <5>2 DEF Covered
        <5>4. QED
          BY <3>2, <5>1, <5>3
      <4>3. QED
        BY <4>1, <4>2
    <3>4. ASSUME NEW m \in sequenceNo + 1 .. reader + 1
          PROVE  m <= first \/ m \in Received \/ \E j \in 1 .. Len(down) + 1 : down'[j] = m
      <4>1. CASE m = reader + 1
        <5>1. Len(down) + 1 \in 1 .. Len(down) + 1
          BY <1>3
        <5>2. QED
          BY <3>2, <4>1, <5>1
      <4>2. CASE m # reader + 1
        <5>1. m \in sequenceNo + 1 .. reader
          BY <1>1, <1>2, <4>2
        <5>2. m <= first \/ m \in Received \/ \E j \in 1 .. Len(down) : down[j] = m
          BY <2>1, <5>1 DEF Covered
        <5>3. \A j \in 1 .. Len(down) : j \in 1 .. Len(down) + 1
          BY <1>3
        <5>4. QED
          BY <3>2, <5>2, <5>3
      <4>3. QED
        BY <4>1, <4>2
    <3>5. QED
      BY <1>1, <1>4, <3>2, <3>3, <3>4 DEF NoneSkipped, Covered
  <2>3. CASE ~(reader >= first)
    <3>1. down' = down /\ reader + 1 <= first
      BY <1>1, <1>2, <2>3
    <3>2. ASSUME NEW m \in sequenceNo + 1 .. reader + 1
          PROVE  m <= first
      BY <1>1, <1>2, <3>1
    <3>3. QED
      BY <1>1, <1>4, <2>1, <3>1, <3>2 DEF NoneSkipped, Covered
  <2>4. QED
    BY <2>2, <2>3
<1>7. NoneSkipped'
  BY <1>1, <1>6 DEF NoneSkipped
<1>8. QED
  BY <1>5, <1>7

LEMMA MissedReceive ==
  ASSUME LinkTypeOK, ConsecutiveInConnection, Counted, NoneSkipped, NothingMissed, Receive
  PROVE  NoneSkipped' /\ NothingMissed'
<1>1. /\ UNCHANGED <<sequenceNo, reader, first, connected>> /\ down # <<>> /\ down' = Tail(down)
      /\ connected
  BY DEF Receive, server
<1>2. /\ first \in Nat /\ sequenceNo \in Int /\ reader \in Int
      /\ down \in Seq((1 .. MaxPublished) \union {-1})
  BY LinkWords
<1>3. /\ Len(down) \in Nat /\ Len(down) >= 1 /\ Head(down) = down[1]
      /\ Len(down') = Len(down) - 1 /\ \A i \in 1 .. Len(down) - 1 : down'[i] = down[i + 1]
      /\ \A i \in 1 .. Len(down) : down[i] \in (1 .. MaxPublished) \union {-1}
  BY <1>1, <1>2, TailOf, Elements
<1>4. /\ Received \subseteq Received' /\ (down[1] > 0 => down[1] \in Received')
      /\ Received' \subseteq Received \union {down[1]}
  BY <1>3, ReceiveExtends
<1>5. ASSUME sequenceNo >= 0
      PROVE  NoneSkipped' /\ NothingMissed'
  <2>1. /\ \A i \in 1 .. Len(down) : Covered(down[i] - 1, i - 1)
        /\ Covered(reader, Len(down))
    BY <1>1, <1>5 DEF NoneSkipped
  \* What was covered still is, one place further to the front.
  <2>2. ASSUME NEW m \in Int, m >= 1, NEW k \in 1 .. Len(down),
               m <= first \/ m \in Received \/ \E j \in 1 .. k : down[j] = m
        PROVE  m <= first \/ m \in Received' \/ \E j \in 1 .. k - 1 : down'[j] = m
    <3>1. ASSUME NEW j \in 1 .. k, down[j] = m
          PROVE  m \in Received' \/ \E l \in 1 .. k - 1 : down'[l] = m
      <4>1. CASE j = 1
        BY <1>4, <2>2, <3>1, <4>1
      <4>2. CASE j # 1
        <5>1. j - 1 \in 1 .. k - 1 /\ j - 1 \in 1 .. Len(down) - 1 /\ (j - 1) + 1 = j
          BY <1>3, <4>2
        <5>2. down'[j - 1] = m
          BY <1>3, <3>1, <5>1
        <5>3. QED
          BY <5>1, <5>2
      <4>3. QED
        BY <4>1, <4>2
    <3>2. QED
      BY <1>4, <2>2, <3>1
  <2>3. ASSUME NEW i \in 1 .. Len(down) - 1, NEW m \in sequenceNo + 1 .. down'[i] - 1
        PROVE  m <= first \/ m \in Received' \/ \E j \in 1 .. i - 1 : down'[j] = m
    <3>1. i + 1 \in 1 .. Len(down) /\ i \in 1 .. Len(down) /\ (i + 1) - 1 = i
      BY <1>3
    <3>2. down'[i] = down[i + 1] /\ down[i + 1] \in Int
      BY <1>3, <3>1, Bounds
    <3>3. m \in sequenceNo + 1 .. down[i + 1] - 1 /\ m \in Int /\ m >= 1
      BY <1>2, <1>5, <3>2
    <3>4. m <= first \/ m \in Received \/ \E j \in 1 .. i : down[j] = m
      BY <2>1, <3>1, <3>3 DEF Covered
    <3>5. QED
      BY <2>2, <3>1, <3>3, <3>4
  <2>4. ASSUME NEW m \in sequenceNo + 1 .. reader
        PROVE  m <= first \/ m \in Received' \/ \E j \in 1 .. Len(down) - 1 : down'[j] = m
    <3>1. m \in Int /\ m >= 1 /\ Len(down) \in 1 .. Len(down)
      BY <1>2, <1>3, <1>5
    <3>2. m <= first \/ m \in Received \/ \E j \in 1 .. Len(down) : down[j] = m
      BY <2>1 DEF Covered
    <3>3. QED
      BY <2>2, <3>1, <3>2
  <2>5. NoneSkipped'
    <3>1. \A i \in 1 .. Len(down') : \A m \in sequenceNo' + 1 .. down'[i] - 1 :
            m <= first' \/ m \in Received' \/ \E j \in 1 .. i - 1 : down'[j] = m
      BY <1>1, <1>3, <2>3
    <3>2. \A m \in sequenceNo' + 1 .. reader' :
            m <= first' \/ m \in Received' \/ \E j \in 1 .. Len(down') : down'[j] = m
      BY <1>1, <1>3, <2>4
    <3>3. QED
      BY <3>1, <3>2 DEF NoneSkipped, Covered
  <2>6. ASSUME NEW n \in Received', NEW m \in sequenceNo + 1 .. n
        PROVE  m <= first \/ m \in Received'
    <3>1. CASE n \in Received
      BY <1>4, <1>5, <2>6, <3>1, NothingMissedIs
    <3>2. CASE n = down[1]
      <4>1. 1 \in 1 .. Len(down) /\ down[1] \in Int
        BY <1>3, Bounds
      <4>2. CASE m = down[1]
        BY <2>6, <3>2, <4>2
      <4>3. CASE m # down[1]
        <5>1. m \in sequenceNo + 1 .. down[1] - 1
          BY <1>2, <2>6, <3>2, <4>1, <4>3
        <5>2. m <= first \/ m \in Received \/ \E j \in 1 .. 1 - 1 : down[j] = m
          BY <2>1, <4>1, <5>1 DEF Covered
        <5>3. QED
          BY <1>4, <5>2
      <4>4. QED
        BY <4>2, <4>3
    <3>3. QED
      BY <1>4, <3>1, <3>2
  <2>7. \A n \in Received' : n \in Int
    <3>1. \A n \in Received : n \in Int
      BY LinkWords, Elements, Bounds DEF Received
    <3>2. down[1] \in Int
      BY <1>3, Bounds
    <3>3. QED
      BY <1>4, <3>1, <3>2
  <2>8. \A n \in Received' : (sequenceNo + 1 .. n) \ Received' \subseteq 1 .. first
    BY <1>2, <1>5, <2>6, <2>7
  <2>9. NothingMissed'
    BY <1>1, <2>8 DEF NothingMissed
  <2>10. QED
    BY <2>5, <2>9
<1>6. QED
  BY <1>1, <1>5 DEF NoneSkipped, NothingMissed

LEMMA MissedNext ==
  ASSUME LinkTypeOK, LinkTypeOK', ConsecutiveInConnection, Counted, NoneSkipped, NothingMissed,
         [LinkNext]_link
  PROVE  NoneSkipped' /\ NothingMissed'
<1>1. first \in Nat
  BY LinkWords
<1>2. CASE Result /\ made # NoOne
  <2>1. Received' = Received
    BY <1>2, ResultExtends
  <2>2. QED
    BY <1>2, <2>1, MissedEmptied DEF Result
<1>3. CASE ConnectionLost \/ Gap
  <2>1. /\ UNCHANGED <<sequenceNo, first, serial>> /\ down' = <<>> /\ ~connected'
    BY <1>3, DisconnectedIs DEF ConnectionLost, Gap
  <2>2. Received' = Received
    BY <2>1 DEF Received
  <2>3. QED
    BY <2>1, <2>2, MissedEmptied
<1>4. CASE Receive
  BY <1>4, MissedReceive
<1>5. CASE Login
  BY <1>5, MissedLogin
<1>6. CASE PublishSend
  BY <1>6, MissedSend
<1>7. CASE Publish
  <2>1. UNCHANGED <<sequenceNo, serial, down, reader, connected>> /\ first <= first'
    BY <1>1, <1>7 DEF Publish, net, client
  <2>2. QED
    BY <2>1, MissedQuiet
<1>8. CASE UNCHANGED <<sequenceNo, serial, down, reader, first, connected>>
  BY <1>1, <1>8, MissedQuiet
<1>9. QED
  BY <1>2, <1>3, <1>4, <1>5, <1>6, <1>7, <1>8 DEF LinkNext, Result, Connecting, BeginRequest,
     EndRequest, SendRequest, TakeRequest, link, server, net, client

-----------------------------------------------------------------------------
(* The theorems.                                                           *)

LEMMA TcpInit ==
  ASSUME LinkInit
  PROVE  TcpInv
<1>1. FactoryIInv
  BY FactoryInit DEF LinkInit
<1>2. <<>> \in Seq(0 .. MaxRequests) /\ <<>> \in Seq((1 .. MaxPublished) \union {-1})
      /\ <<>> \in Seq(-1 .. MaxPublished) /\ <<>> \in Seq(1 .. MaxRequests) /\ Len(<<>>) = 0
  BY EmptySeq
<1>3. {connected, dialogFlow, requesting} \subseteq BOOLEAN
  BY DEF LinkInit
<1>4. /\ published \in 0 .. MaxPublished /\ first \in 0 .. published /\ reader \in -1 .. published
      /\ breaks \in 0 .. MaxBreaks /\ requests \in 0 .. MaxRequests
  BY Bounds DEF LinkInit
<1>5. subCount \in (1 .. MaxPublished) \union {-1} /\ sequenceNo \in SequenceNos
  BY DEF LinkInit
<1>6. LinkTypeOK
  BY <1>2, <1>3, <1>4, <1>5, Bounds DEF LinkTypeOK, LinkInit
<1>7. Single
  BY DEF Single, LinkInit
<1>8. Asked
  BY <1>2 DEF Asked, Ahead, LinkInit
<1>9. ConsecutiveInConnection /\ Counted
  BY <1>2 DEF ConsecutiveInConnection, Counted, LinkInit
<1>10. NoneSkipped
  BY <1>2 DEF NoneSkipped, LinkInit
<1>11. Received = {}
  BY <1>2 DEF Received, LinkInit
<1>12. NothingMissed
  BY <1>11 DEF NothingMissed
<1>13. QED
  BY <1>1, <1>6, <1>7, <1>8, <1>9, <1>10, <1>12 DEF TcpInv

LEMMA TcpNext ==
  ASSUME TcpInv, [LinkNext]_link
  PROVE  TcpInv'
<1>1. FactoryIInv'
  BY FactoryStep, FactoryNext DEF TcpInv
<1>2. LinkTypeOK' /\ Single' /\ Asked'
  BY LinkTypeNext, SingleNext, AskedNext DEF TcpInv
<1>3. ConsecutiveInConnection' /\ Counted'
  BY SerialNext DEF TcpInv
<1>4. NoneSkipped' /\ NothingMissed'
  BY <1>2, MissedNext DEF TcpInv
<1>5. QED
  BY <1>1, <1>2, <1>3, <1>4 DEF TcpInv

\* The inductive invariant of the link.
THEOREM LinkHolds == LinkSpec => []TcpInv
<1>1. LinkInit => TcpInv
  BY TcpInit
<1>2. TcpInv /\ [LinkNext]_link => TcpInv'
  BY TcpNext
<1>3. QED
  BY <1>1, <1>2, PTL DEF LinkSpec

\* In both directions of the link, however often it breaks: what one connection
\* adds to the series flow (CXtpClientStub::HandlePackage) is consecutive, and the
\* server takes the requests of the dialog flow in order and each once.
THEOREM BothDirections == LinkSpec => []LinkInv
<1>1. ASSUME TcpInv
      PROVE  LinkInv
  <2>1. handled = [i \in 1 .. Len(handled) |-> i]
    <3>1. handled \in Seq(1 .. MaxRequests)
      BY <1>1, LinkWords DEF TcpInv
    <3>2. handled = [i \in 1 .. Len(handled) |-> handled[i]]
      BY <3>1
    <3>3. \A i \in 1 .. Len(handled) : handled[i] = i
      BY <1>1 DEF TcpInv, Asked
    <3>4. QED
      BY <3>2, <3>3
  <2>2. QED
    BY <1>1, <2>1 DEF TcpInv, LinkInv, RequestsInOrder
<1>2. QED
  BY <1>1, LinkHolds, PTL

\* A link that subscribes from a number on has received everything from there up
\* to its last message, over all reconnections, but for what the published flow
\* has let go of.
THEOREM LinkMissesNothing == LinkSpec => []NothingMissed
<1>1. TcpInv => NothingMissed
  BY DEF TcpInv
<1>2. QED
  BY <1>1, LinkHolds, PTL

\* The link uses its session factory as SessionFactory describes it: what is
\* proved of the factory holds on the link.
THEOREM LinkUsesFactory == LinkSpec => Spec /\ []FactoryInv /\ []LoopAlive
<1>1. LinkInit => Init
  BY DEF LinkInit
<1>2. LinkSpec => Spec
  BY <1>1, FactoryStep, PTL DEF LinkSpec, Spec
<1>3. QED
  BY <1>2, FactoryInvariance, LoopNeverStands, PTL
=============================================================================
