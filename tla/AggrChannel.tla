---------------------------- MODULE AggrChannel ----------------------------
(***************************************************************************)
(* The aggregated session of src_protocol/protocol_sequence: two processes *)
(* talk over several channels at once.  Every package gets the next number *)
(* of its aggregation and goes out on every channel; the receiver hands up *)
(* the next number it expects, from whichever channel brings it first, and *)
(* drops everything else.                                                  *)
(*                                                                         *)
(* The connecting side opens channels and logs each of them in; the        *)
(* listening side learns of a channel from its login.  A side's            *)
(* aggregation exists as long as it has a channel: the first channel       *)
(* creates it with new counters, the loss of the last one deletes it.  The *)
(* two sides notice a break each on its own.                               *)
(*                                                                         *)
(* A reactor runs one handler at a time, so a handler is an action.        *)
(***************************************************************************)
EXTENDS Integers, Sequences, FiniteSets

CONSTANTS
  Channels,     (* the connections made in a behaviour, each used once     *)
  MaxSession,   (* CSessionFactory::m_nMaxSession of the connecting side   *)
  MaxSend       (* bound: packages sent by one aggregation                 *)

ASSUME AggrBounds == MaxSession \in Nat /\ MaxSend \in Nat

VARIABLES
  wire,         (* packages on their way TO a side on a channel            *)
  broken,       (* channels over which nothing more will travel            *)
  lowers,       (* m_mapSession, and m_lowers of m_pAggrProtocol           *)
  sendNo,       (* m_dwSendSeqNo of the side's aggregation                 *)
  recvNo,       (* m_dwRecvSeqno of the side's aggregation                 *)
  epoch,        (* history: aggregations the side has created              *)
  mark,         (* history: the aggregation a channel has joined, or 0     *)
  handed        (* history: packages handed up by the side's aggregation   *)

counters == <<sendNo, recvNo, handed>>
vars == <<wire, broken, lowers, counters, epoch, mark>>

Side == {"connecter", "listener"}
Peer(s) == IF s = "connecter" THEN "listener" ELSE "connecter"

(* CAggrPackage; the upper package carried is the no-th of aggregation from *)
Package == [type : {"login", "carry"}, from : Nat, no : Nat]
Login == [type |-> "login", from |-> 0, no |-> 0]
Carry(s, n) == [type |-> "carry", from |-> epoch[s], no |-> n]

Init ==
  /\ wire = [s \in Side |-> [c \in Channels |-> <<>>]]
  /\ broken = {}
  /\ lowers = [s \in Side |-> {}]
  /\ sendNo = [s \in Side |-> 0]
  /\ recvNo = [s \in Side |-> 0]
  /\ epoch = [s \in Side |-> 0]
  /\ mark = [s \in Side |-> [c \in Channels |-> 0]]
  /\ handed = [s \in Side |-> <<>>]

-----------------------------------------------------------------------------

(* GetSessionAggregation and AddSession: the first channel creates the      *)
(* aggregation (whose counters were cleared when the last one went).        *)
AddSession(s, c) ==
  LET current == epoch[s] + (IF lowers[s] = {} THEN 1 ELSE 0)
  IN /\ epoch' = [epoch EXCEPT ![s] = current]
     /\ mark' = [mark EXCEPT ![s][c] = current]
     /\ lowers' = [lowers EXCEPT ![s] = @ \cup {c}]

(* A connection of the connecting side is up: CreateSession joins the       *)
(* default aggregation and logs in.                                         *)
CreateSession(c) ==
  /\ mark["connecter"][c] = 0
  /\ Cardinality(lowers["connecter"]) < MaxSession
  /\ AddSession("connecter", c)
  /\ wire' = [wire EXCEPT !["listener"][c] = <<Login>>]
  /\ UNCHANGED <<broken, counters>>

(* The listening side reads the login.                                      *)
HandleLogin(c) ==
  /\ wire["listener"][c] # <<>>
  /\ Head(wire["listener"][c]).type = "login"
  /\ AddSession("listener", c)
  /\ wire' = [wire EXCEPT !["listener"][c] = Tail(@)]
  /\ UNCHANGED <<broken, counters>>

(* The upper protocol sends: one number, on every channel of the            *)
(* aggregation; what goes to a broken channel is lost.                      *)
MakePackage(s) ==
  /\ sendNo[s] < MaxSend
  /\ sendNo' = [sendNo EXCEPT ![s] = @ + 1]

(* MUTANT: a channel with something still to be written is passed over      *)
SendIdle(s) ==
  /\ lowers[s] # {}
  /\ MakePackage(s)
  /\ wire' = [wire EXCEPT ![Peer(s)] =
       [c \in Channels |-> IF c \in lowers[s] \ broken /\ @[c] = <<>>
                           THEN Append(@[c], Carry(s, sendNo'[s])) ELSE @[c]]]
  /\ UNCHANGED <<broken, lowers, recvNo, handed, epoch, mark>>

Send(s) ==
  /\ lowers[s] # {}
  /\ MakePackage(s)
  /\ wire' = [wire EXCEPT ![Peer(s)] =
       [c \in Channels |-> IF c \in lowers[s] \ broken
                           THEN Append(@[c], Carry(s, sendNo'[s])) ELSE @[c]]]
  /\ UNCHANGED <<broken, lowers, recvNo, handed, epoch, mark>>

(* MUTANTS: a number is accepted twice; the last number is expected again   *)
UpdRecvSeqNoTwice(s, n) == n \in {recvNo[s], recvNo[s] + 1}
UpdRecvSeqNoLast(s, n) == n = recvNo[s]

(* CSequenceNoCounter::UpdRecvSeqNo accepts the next number only.           *)
UpdRecvSeqNo(s, n) == n = recvNo[s] + 1

(* CAggrProtocol::Pop of a carried package.                                 *)
Pop(s, c) ==
  /\ c \in lowers[s]
  /\ wire[s][c] # <<>>
  /\ Head(wire[s][c]).type = "carry"
  /\ wire' = [wire EXCEPT ![s][c] = Tail(@)]
  /\ LET pkg == Head(wire[s][c])
     IN IF UpdRecvSeqNo(s, pkg.no)
        THEN /\ recvNo' = [recvNo EXCEPT ![s] = pkg.no]
             /\ handed' = [handed EXCEPT ![s] =
                             Append(@, [from |-> pkg.from, no |-> pkg.no])]
        ELSE UNCHANGED <<recvNo, handed>>
  /\ UNCHANGED <<broken, lowers, sendNo, epoch, mark>>

-----------------------------------------------------------------------------

(* A channel breaks (a line, a process, a heartbeat timeout of either       *)
(* side): some of what was in transit will still arrive, the rest will not. *)
Break(c) ==
  /\ mark["connecter"][c] # 0
  /\ c \notin broken
  /\ broken' = broken \cup {c}
  /\ \E j \in 0 .. Len(wire["connecter"][c]), k \in 0 .. Len(wire["listener"][c]) :
       wire' = [wire EXCEPT !["connecter"][c] = SubSeq(@, 1, j),
                            !["listener"][c] = SubSeq(@, 1, k)]
  /\ UNCHANGED <<lowers, counters, epoch, mark>>

(* MUTANT: the counters outlive the aggregation                             *)
RemoveSessionStale(s, c) ==
  /\ c \in broken
  /\ c \in lowers[s] \/ wire[s][c] # <<>>
  /\ wire' = [wire EXCEPT ![s][c] = <<>>]
  /\ lowers' = [lowers EXCEPT ![s] = @ \ {c}]
  /\ UNCHANGED <<broken, counters, epoch, mark>>

(* CAggrSessionFactory::OnSessionDisconnected, RemoveSession and, when no   *)
(* channel is left, Disconnect: the aggregation is deleted.                 *)
RemoveSession(s, c) ==
  /\ c \in broken
  /\ c \in lowers[s] \/ wire[s][c] # <<>>
  /\ wire' = [wire EXCEPT ![s][c] = <<>>]
  /\ lowers' = [lowers EXCEPT ![s] = @ \ {c}]
  /\ IF lowers'[s] = {}
     THEN /\ sendNo' = [sendNo EXCEPT ![s] = 0]
          /\ recvNo' = [recvNo EXCEPT ![s] = 0]
          /\ handed' = [handed EXCEPT ![s] = <<>>]
     ELSE UNCHANGED counters
  /\ UNCHANGED <<broken, epoch, mark>>

Next ==
  \/ \E c \in Channels : CreateSession(c) \/ HandleLogin(c) \/ Break(c)
  \/ \E s \in Side : Send(s)
  \/ \E s \in Side, c \in Channels : Pop(s, c) \/ RemoveSession(s, c)

Spec == Init /\ [][Next]_vars

(* A readable channel is read; nothing else must happen.                    *)
FairSpec ==
  /\ Spec
  /\ \A c \in Channels : WF_vars(HandleLogin(c))
  /\ \A s \in Side, c \in Channels : WF_vars(Pop(s, c))

-----------------------------------------------------------------------------

TypeOK ==
  /\ wire \in [Side -> [Channels -> Seq(Package)]]
  /\ broken \subseteq Channels
  /\ lowers \in [Side -> SUBSET Channels]
  /\ sendNo \in [Side -> Nat]
  /\ recvNo \in [Side -> Nat]
  /\ epoch \in [Side -> Nat]
  /\ mark \in [Side -> [Channels -> Nat]]
  /\ handed \in [Side -> Seq([from : Nat, no : Nat])]
  /\ \A s \in Side : lowers[s] = {} =>   (* no aggregation, no counters       *)
       sendNo[s] = 0 /\ recvNo[s] = 0 /\ handed[s] = <<>>

(* The channels that have ever been part of the side's aggregation, and the *)
(* aggregations of the other side it has been connected to by them.         *)
Joined(s) == {c \in Channels : mark[s][c] = epoch[s]}
Met(s) == {mark[Peer(s)][c] : c \in Joined(s)} \ {0}

(* Several channels carry the same packages and each of them may lag or     *)
(* break: the i-th package an aggregation hands up (CAggrProtocol::Pop) is  *)
(* the i-th package of an aggregation it has been connected to, so with     *)
(* one such aggregation the upper protocol sees exactly a prefix of what    *)
(* was sent, in order and without repetition.                               *)
InOrder ==
  \A s \in Side :
    /\ Len(handed[s]) = recvNo[s]
    /\ \A i \in 1 .. recvNo[s] : /\ handed[s][i].no = i
                                 /\ handed[s][i].from \in Met(s)

(* Channel c alone brings the side every number it still misses.            *)
Numbers(s, c) == {wire[s][c][i].no : i \in 1 .. Len(wire[s][c])}
Covers(s, c) ==
  /\ c \in lowers[s] \cap lowers[Peer(s)]
  /\ c \notin broken
  /\ (recvNo[s] + 1) .. sendNo[Peer(s)] \subseteq Numbers(s, c)

(* Once a channel covers the session, whatever the other channels bring,    *)
(* lose or overtake, it covers the session until it breaks itself: sending  *)
(* on every channel (CProtocol::Send) is what makes the break of one        *)
(* channel invisible.                                                       *)
KeepsCovering ==
  [][\A s \in Side, c \in Channels :
       Covers(s, c) /\ c \notin broken' => Covers(s, c)']_vars

(* A channel that opens the aggregation on both sides covers both           *)
(* directions from its login on: neither counter remembers an earlier       *)
(* aggregation, and nothing was sent before it was there to carry it.       *)
FreshPairCovers ==
  [][\A c \in Channels :
       /\ lowers["listener"] = {} /\ lowers'["listener"] = {c}
       /\ Joined("connecter") = {c}
       /\ c \notin broken
       => \A s \in Side : Covers(s, c)']_vars

(* What is sent while some channel covers the session arrives, unless that  *)
(* channel breaks.                                                          *)
CoveredIsDelivered ==
  \A s \in Side, c \in Channels, n \in 1 .. MaxSend :
    Covers(s, c) /\ sendNo[Peer(s)] >= n ~> recvNo[s] >= n \/ c \in broken

-----------------------------------------------------------------------------

(* The parts of the inductive invariant from which the proofs argue.        *)

(* A channel belongs to the aggregation it joined until it breaks.          *)
Members ==
  /\ \A s \in Side, c \in Channels :
       /\ mark[s][c] <= epoch[s]
       /\ c \in lowers[s] => mark[s][c] = epoch[s] /\ epoch[s] > 0
       /\ mark[s][c] > 0 => mark["connecter"][c] > 0
       /\ mark[s][c] > 0 /\ c \notin broken => c \in lowers[s]
  /\ broken \subseteq {c \in Channels : mark["connecter"][c] > 0}

(* A channel's only login is the first package the listening side sees.     *)
Logins ==
  \A s \in Side, c \in Channels : \A i \in 1 .. Len(wire[s][c]) :
    wire[s][c][i].type = "login" =>
      s = "listener" /\ i = 1 /\ mark["listener"][c] = 0 /\ wire[s][c][i].no = 0

(* What is on a channel was numbered by the aggregation at its other end,   *)
(* in increasing order.                                                     *)
Numbered ==
  \A s \in Side, c \in Channels : \A i \in 1 .. Len(wire[s][c]) :
    /\ wire[s][c][i].type = "carry" => /\ wire[s][c][i].no > 0
                                      /\ wire[s][c][i].from = mark[Peer(s)][c]
    /\ mark[Peer(s)][c] > 0
    /\ c \in lowers[Peer(s)] => wire[s][c][i].no <= sendNo[Peer(s)]
    /\ \A j \in 1 .. Len(wire[s][c]) :
         i < j => wire[s][c][i].no < wire[s][c][j].no

(* Before its login is read, the channel that opened the connecting side's  *)
(* aggregation still carries everything that aggregation has sent.          *)
Opened ==
  \A c \in Channels :
    /\ Joined("connecter") = {c}
    /\ c \in lowers["connecter"] \ broken
    /\ mark["listener"][c] = 0
    => 1 .. sendNo["connecter"] \subseteq Numbers("listener", c)

AggrInv ==
  TypeOK /\ Members /\ Logins /\ Numbered /\ Opened /\ InOrder
=============================================================================
