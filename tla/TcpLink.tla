------------------------------- MODULE TcpLink -------------------------------
(***************************************************************************)
(* A link to another kernel over TCP: the client (CXtpClientStub, in       *)
(* COfferLink), a session factory with one session, subscribes a flow of   *)
(* the server (CXtpServerStub, in CGateWayFront), appends what it receives *)
(* to the series flow of the link, and sends the requests that the         *)
(* matching thread leaves in a dialog flow.                                *)
(***************************************************************************)
EXTENDS SessionFactory

CONSTANTS
  SequenceNos,   (* values of m_nSequenceNo, from the configuration        *)
  Window,        (* messages the published flow keeps                      *)
  MaxPublished,  (* bound: messages published                              *)
  MaxRequests,   (* bound: requests made                                   *)
  MaxDialog,     (* room in the dialog flow (10000)                        *)
  MaxBreaks      (* bound: connections that are lost                       *)

ASSUME LinkBounds ==
  /\ MaxSession = 1 /\ ~Listener /\ SequenceNos \subseteq Int
  /\ {Window, MaxPublished, MaxRequests, MaxDialog, MaxBreaks} \subseteq Nat

VARIABLES
  published,    (* messages of the published flow                          *)
  first,        (* the id of the oldest one it has still got               *)
  reader,       (* m_flowReader of the server's session; -1: no flow       *)
  up,           (* to the server: 0 is a login, n > 0 is request n         *)
  down,         (* to the client: numbers of messages                      *)
  sequenceNo,   (* m_nSequenceNo                                           *)
  subCount,     (* m_nSubCount                                             *)
  serial,       (* m_pSerialFlow: the numbers; history: 0 between those of *)
                (* two connections                                         *)
  breaks,       (* bound: connections lost so far                          *)
  connected,    (* m_bConnected                                            *)
  dialogFlow,   (* m_pDialogReqFlow is not NULL                            *)
  dialog,       (* the requests in it                                      *)
  requesting,   (* the matching thread is past the test for NULL           *)
  requests,     (* requests that RequestToDialogFlow has accepted          *)
  handled       (* requests the server has taken                           *)

server == <<published, first, reader>>
net == <<up, down>>
client == <<sequenceNo, subCount, serial, breaks, connected>>
asking == <<dialogFlow, dialog, requesting, requests>>
link == <<factory, server, net, client, asking, handled>>

LinkInit ==
  /\ Init
  /\ published = 0 /\ first = 0 /\ reader = -1
  /\ up = <<>> /\ down = <<>>
  /\ sequenceNo \in SequenceNos
  /\ subCount = -1 /\ serial = <<>> /\ breaks = 0 /\ connected = FALSE
  /\ dialogFlow = TRUE /\ dialog = <<>> /\ requesting = FALSE
  /\ requests = 0 /\ handled = <<>>

-----------------------------------------------------------------------------
(* The client.                                                             *)

\* Mutant: what came before the disconnection still counts.
InterLoginKeeps == up' = <<0>> /\ UNCHANGED subCount
InterLogin == up' = <<0>> /\ subCount' = -1

\* UM_CONNECT_RESULT; with a channel, CreateSession and OnSessionConnected.
Result ==
  /\ HandleResult
  /\ \/ made = NoOne /\ UNCHANGED <<net, server, client>>
     \/ /\ made # NoOne
        /\ InterLogin
        /\ serial' = IF serial # <<>> /\ serial[Len(serial)] # 0 THEN Append(serial, 0) ELSE serial
        /\ connected' = TRUE
        /\ down' = <<>> /\ reader' = -1
        /\ UNCHANGED <<published, first, sequenceNo, breaks>>
  /\ UNCHANGED <<asking, handled>>

\* The rest of the factory: the attempts, its timer and its events.
Connecting ==
  /\ TryConnect \/ HandlePosted \/ OnTimer \/ ConnectEnds(FALSE) \/ ConnectEnds(TRUE)
  /\ UNCHANGED <<server, net, client, asking, handled>>

\* OnSessionDisconnected, for whatever reason; what is on its way to the server
\* may still arrive.
Disconnected ==
  /\ \E s \in Channel : SessionLost(s)
  /\ connected' = FALSE
  /\ dialogFlow' = FALSE /\ dialog' = <<>>
  /\ down' = <<>> /\ up' \in {up, <<>>}
  /\ UNCHANGED <<server, sequenceNo, subCount, serial, requesting, requests, handled>>

ConnectionLost == breaks < MaxBreaks /\ breaks' = breaks + 1 /\ Disconnected

\* Mutant: gaps are not noticed.
FollowsAny(n) == TRUE
Follows(n) == subCount = -1 \/ n = subCount + 1

\* HandlePackage; after a gap it disconnects, to begin again.
Receive ==
  /\ connected /\ down # <<>> /\ Follows(Head(down))
  /\ subCount' = Head(down)
  /\ serial' = Append(serial, Head(down))
  /\ down' = Tail(down)
  /\ UNCHANGED <<factory, server, up, sequenceNo, breaks, connected, asking, handled>>

Gap ==
  /\ connected /\ down # <<>> /\ ~Follows(Head(down))
  /\ Disconnected /\ UNCHANGED breaks

\* The matching thread: RequestToDialogFlow finds the flow ...
BeginRequest ==
  /\ ~requesting /\ dialogFlow /\ requests < MaxRequests
  /\ requesting' = TRUE
  /\ UNCHANGED <<factory, server, net, client, dialogFlow, dialog, requests, handled>>

\* ... and appends, unless it is full or has been deleted meanwhile: what the
\* call does then is undefined, the request is gone.
EndRequest ==
  /\ requesting
  /\ requesting' = FALSE
  /\ IF dialogFlow /\ Len(dialog) < MaxDialog
     THEN dialog' = Append(dialog, requests + 1) /\ requests' = requests + 1
     ELSE UNCHANGED <<dialog, requests>>
  /\ UNCHANGED <<factory, server, net, client, dialogFlow, handled>>

\* Mutant: all that wait are taken for sent.
TakenAll == <<>>
Taken == Tail(dialog)

\* PublishSend of the client's session.
SendRequest ==
  /\ connected /\ dialog # <<>>
  /\ up' = Append(up, Head(dialog))
  /\ dialog' = Taken
  /\ UNCHANGED <<factory, server, down, client, dialogFlow, requesting, requests, handled>>

-----------------------------------------------------------------------------
(* The server.                                                             *)

Publish ==
  /\ published < MaxPublished
  /\ published' = published + 1
  /\ first' = IF published + 1 - first > Window THEN first + 1 ELSE first
  /\ UNCHANGED <<factory, reader, net, client, asking, handled>>

\* Mutant: a subscription begins with what comes next.
BeginNoFromEnd == published
\* Where a subscription begins: at its number, counted from the end if it is
\* negative, but not outside of what the flow has got.
BeginNo ==
  LET n == IF sequenceNo < 0 THEN published + sequenceNo ELSE sequenceNo
      m == IF n > published THEN published ELSE n
  IN  IF m < first THEN first ELSE m

\* OnReqClientLogin; to a client that asks for -1 accounts are sent as well,
\* as messages with the number -1.
Login ==
  /\ up # <<>> /\ Head(up) = 0
  /\ up' = Tail(up)
  /\ reader' = BeginNo
  /\ down' \in {down, IF sequenceNo = -1 /\ connected THEN Append(down, -1) ELSE down}
  /\ UNCHANGED <<factory, published, first, client, asking, handled>>

\* HandlePackage of the server takes a request.
TakeRequest ==
  /\ up # <<>> /\ Head(up) # 0
  /\ up' = Tail(up)
  /\ handled' = Append(handled, Head(up))
  /\ UNCHANGED <<factory, server, down, client, asking>>

\* PublishSend of the server's session: the reader goes on, whether the flow
\* has still got the message or not; the number sent is the reader's next.
PublishSend ==
  /\ connected /\ reader \in 0 .. published - 1
  /\ reader' = reader + 1
  /\ down' = IF reader >= first THEN Append(down, reader + 1) ELSE down
  /\ UNCHANGED <<factory, published, first, up, client, asking, handled>>

LinkNext ==
  \/ Result \/ Connecting \/ ConnectionLost \/ Receive \/ Gap
  \/ BeginRequest \/ EndRequest \/ SendRequest
  \/ Publish \/ Login \/ TakeRequest \/ PublishSend

LinkSpec == LinkInit /\ [][LinkNext]_link

\* The threads of both sides run, the server can be reached again and again.
FairLink ==
  /\ LinkSpec
  /\ WF_link(Result) /\ WF_link(Connecting)
  /\ SF_link(ConnectEnds(TRUE) /\ Connecting)
  /\ WF_link(Receive) /\ WF_link(Gap) /\ WF_link(EndRequest) /\ WF_link(SendRequest)
  /\ WF_link(Login) /\ WF_link(TakeRequest) /\ WF_link(PublishSend)

-----------------------------------------------------------------------------
(* Properties.                                                             *)

Received == {serial[i] : i \in DOMAIN serial} \ {0, -1}

LinkTypeOK ==
  /\ published \in 0 .. MaxPublished /\ first \in 0 .. published
  /\ reader \in -1 .. published
  /\ up \in Seq(0 .. MaxRequests) /\ down \in Seq((1 .. MaxPublished) \union {-1})
  /\ sequenceNo \in SequenceNos /\ subCount \in (1 .. MaxPublished) \union {-1}
  /\ serial \in Seq(-1 .. MaxPublished) /\ breaks \in 0 .. MaxBreaks
  /\ {connected, dialogFlow, requesting} \subseteq BOOLEAN
  /\ dialog \in Seq(1 .. MaxRequests) /\ Len(dialog) <= MaxDialog
  /\ requests \in 0 .. MaxRequests /\ handled \in Seq(1 .. MaxRequests)

\* What one connection adds to the series flow are consecutive messages, each
\* once, although the reader may have passed over some that the flow has lost.
ConsecutiveInConnection ==
  \A i \in 1 .. Len(serial) - 1 :
    serial[i] > 0 /\ serial[i + 1] # 0 => serial[i + 1] = serial[i] + 1

\* From the subscribed number on the link has received every message up to the
\* last, over all reconnections (with repeats, since every login asks for the
\* same number), but for those that the flow has let go of; not if the number
\* counts from the end.
NothingMissed ==
  sequenceNo >= 0 => \A n \in Received : (sequenceNo + 1 .. n) \ Received \subseteq 1 .. first

\* Every message from there on arrives in the end, unless the flow has let go of
\* it, however often the link breaks before.
SubscribedArrives ==
  \A n \in 1 .. MaxPublished :
    (published >= n /\ sequenceNo \in 0 .. n - 1) ~> (n \in Received \/ first >= n)

\* The server takes the requests in order and each once.
RequestsInOrder == handled = [i \in 1 .. Len(handled) |-> i]

\* What holds in both directions of the link, whenever it breaks and is made again.
LinkInv ==
  /\ LinkTypeOK
  /\ ConsecutiveInConnection
  /\ RequestsInOrder

\* A request that has been accepted is taken, unless the first disconnection
\* deletes the flow with it.
RequestTaken ==
  \A n \in 1 .. MaxRequests :
    (requests >= n) ~> (Len(handled) >= n \/ ~dialogFlow)
=============================================================================
