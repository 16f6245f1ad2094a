------------------------- MODULE AggrChannelProofs -------------------------
(***************************************************************************)
(* Proofs about AggrChannel, for any set of connections and any number of  *)
(* packages.  The argument: on a channel numbers only increase and come    *)
(* from one aggregation (Numbered), and a channel stays in the aggregation *)
(* it joined until it breaks (Members).  So a number that is dropped is    *)
(* never one that the receiver still needs from a covering channel.        *)
(***************************************************************************)
EXTENDS AggrChannel, TLAPS

USE AggrBounds

LEMMA Sides ==
  /\ \A s \in Side : Peer(s) \in Side /\ Peer(s) # s /\ Peer(Peer(s)) = s
  /\ "connecter" \in Side /\ "listener" \in Side
  /\ Peer("connecter") = "listener" /\ Peer("listener") = "connecter"
BY DEF Side, Peer

LEMMA AggrInit == Init => AggrInv
<1> SUFFICES ASSUME Init PROVE AggrInv
  OBVIOUS
<1> USE DEF Init
<1>1. TypeOK
  BY DEF TypeOK
<1>2. Members /\ Logins /\ Numbered /\ Opened
  BY Sides DEF Members, Logins, Numbered, Opened
<1>3. InOrder
  BY DEF InOrder
<1>4. QED
  BY <1>1, <1>2, <1>3 DEF AggrInv

-----------------------------------------------------------------------------
(* Both ways of joining leave the counters alone and give the channel the   *)
(* mark of the aggregation, a new one exactly when there was none.          *)

LEMMA AddSessionEffect ==
  ASSUME TypeOK, Members, NEW s \in Side, NEW c \in Channels,
         AddSession(s, c), mark[s][c] = 0
  PROVE  /\ epoch' \in [Side -> Nat]
         /\ mark' \in [Side -> [Channels -> Nat]]
         /\ lowers' \in [Side -> SUBSET Channels]
         /\ epoch[s]' > 0 /\ mark[s][c]' = epoch[s]'
         /\ epoch[s]' = IF lowers[s] = {} THEN epoch[s] + 1 ELSE epoch[s]
         /\ lowers[s]' = lowers[s] \cup {c}
         /\ \A t \in Side : t # s => /\ epoch[t]' = epoch[t]
                                     /\ lowers[t]' = lowers[t]
         /\ \A t \in Side, d \in Channels :
              t # s \/ d # c => mark[t][d]' = mark[t][d]
BY DEF TypeOK, Members, AddSession

(* Joining leaves the order invariant of both sides standing: what has been *)
(* handed up came from aggregations the side still counts as met.           *)
LEMMA AddSessionInOrder ==
  ASSUME TypeOK, Members, InOrder, NEW s \in Side, NEW c \in Channels,
         AddSession(s, c), mark[s][c] = 0, UNCHANGED counters
  PROVE  InOrder'
<1> USE Sides
<1>0. /\ epoch[s]' = IF lowers[s] = {} THEN epoch[s] + 1 ELSE epoch[s]
      /\ \A t \in Side : t # s => epoch[t]' = epoch[t]
      /\ \A t \in Side, d \in Channels :
           t # s \/ d # c => mark[t][d]' = mark[t][d]
  BY AddSessionEffect
<1>1. handed' = handed /\ recvNo' = recvNo
  BY DEF counters
<1>2. ASSUME NEW t \in Side, lowers[t] # {} PROVE Met(t) \subseteq Met(t)'
  <2> SUFFICES ASSUME NEW d \in Channels, mark[t][d] = epoch[t], mark[Peer(t)][d] # 0
               PROVE  mark[t][d]' = epoch[t]' /\ mark[Peer(t)][d]' = mark[Peer(t)][d]
    BY DEF Met, Joined
  <2>1. mark[Peer(t)][d]' = mark[Peer(t)][d]
    BY <1>0
  <2>2. epoch[t]' = epoch[t]
    BY <1>0, <1>2
  <2>3. epoch[t] > 0
    <3>1. PICK e \in Channels : e \in lowers[t]
      BY <1>2 DEF TypeOK
    <3>2. QED
      BY <3>1 DEF Members
  <2>4. mark[t][d]' = mark[t][d]
    BY <1>0, <2>3
  <2>5. QED
    BY <2>1, <2>2, <2>4
<1>3. ASSUME NEW t \in Side, lowers[t] = {} PROVE handed[t] = <<>> /\ recvNo[t] = 0
  BY <1>3 DEF TypeOK
<1>4. SUFFICES ASSUME NEW t \in Side
               PROVE  /\ Len(handed[t]) = recvNo[t]
                      /\ \A i \in 1 .. recvNo[t] : /\ handed[t][i].no = i
                                                   /\ handed[t][i].from \in Met(t)'
  BY <1>1 DEF InOrder
<1>5. CASE lowers[t] = {}
  BY <1>3, <1>5
<1>6. CASE lowers[t] # {}
  BY <1>2, <1>6 DEF InOrder
<1>7. QED
  BY <1>5, <1>6

LEMMA CreateSessionInv ==
  ASSUME AggrInv, NEW c \in Channels, CreateSession(c) PROVE AggrInv'
<1> USE Sides
<1> DEFINE s == "connecter"
           p == "listener"
<1>0. TypeOK /\ Members /\ Logins /\ Numbered /\ Opened /\ InOrder
  BY DEF AggrInv
<1>1. /\ AddSession(s, c) /\ mark[s][c] = 0
      /\ UNCHANGED <<broken, counters>>
      /\ wire' = [wire EXCEPT ![p][c] = <<Login>>]
  BY DEF CreateSession
<1>2. UNCHANGED <<broken, sendNo, recvNo, handed>>
  BY <1>1 DEF counters
<1>3. /\ epoch' \in [Side -> Nat]
      /\ mark' \in [Side -> [Channels -> Nat]]
      /\ lowers' \in [Side -> SUBSET Channels]
      /\ epoch[s]' > 0 /\ mark[s][c]' = epoch[s]'
      /\ epoch[s]' = IF lowers[s] = {} THEN epoch[s] + 1 ELSE epoch[s]
      /\ lowers[s]' = lowers[s] \cup {c}
      /\ \A t \in Side : t # s => epoch[t]' = epoch[t] /\ lowers[t]' = lowers[t]
      /\ \A t \in Side, d \in Channels :
           t # s \/ d # c => mark[t][d]' = mark[t][d]
  BY <1>0, <1>1, AddSessionEffect
<1>4. /\ wire' \in [Side -> [Channels -> Seq(Package)]]
      /\ wire[p][c]' = <<Login>>
      /\ \A t \in Side, d \in Channels :
           t # p \/ d # c => wire[t][d]' = wire[t][d]
  <2>1. Login \in Package
    BY DEF Login, Package
  <2>2. QED
    BY <2>1, <1>0, <1>1 DEF TypeOK
<1>5. mark[p][c]' = 0
  <2>1. p \in Side /\ p # s
    BY DEF Side
  <2>2. mark[p][c] \in Nat /\ mark[s][c] \in Nat
    BY <1>0 DEF TypeOK, Side
  <2>3. mark[p][c] > 0 => mark[s][c] > 0
    BY <1>0, <2>1 DEF Members
  <2>4. mark[p][c] = 0
    BY <1>1, <2>2, <2>3
  <2>5. QED
    BY <1>3, <2>1, <2>4
<1>6. TypeOK'
  BY <1>0, <1>2, <1>3, <1>4 DEF TypeOK
<1>7. Members'
  <2>1. ASSUME NEW t \in Side, NEW d \in Channels
        PROVE  /\ mark[t][d]' <= epoch[t]'
               /\ d \in lowers[t]' => mark[t][d]' = epoch[t]' /\ epoch[t]' > 0
               /\ mark[t][d]' > 0 => mark[s][d]' > 0
               /\ mark[t][d]' > 0 /\ d \notin broken' => d \in lowers[t]'
    <3>1. /\ mark[t][d] \in Nat /\ epoch[t] \in Nat
          /\ mark[t][d] <= epoch[t]
          /\ d \in lowers[t] => mark[t][d] = epoch[t] /\ epoch[t] > 0
          /\ mark[t][d] > 0 => mark[s][d] > 0
          /\ mark[t][d] > 0 /\ d \notin broken => d \in lowers[t]
      BY <1>0 DEF Members, TypeOK
    <3>2. CASE t = s
      BY <1>2, <1>3, <3>1, <3>2
    <3>3. CASE t # s
      BY <1>2, <1>3, <3>1, <3>3
    <3>4. QED
      BY <3>2, <3>3
  <2>2. (broken \subseteq {d \in Channels : mark[s][d] > 0})'
    BY <1>0, <1>2, <1>3 DEF Members
  <2>3. QED
    BY <2>1, <2>2 DEF Members
<1>8. Logins'
  <2>1. Len(<<Login>>) = 1 /\ <<Login>>[1].no = 0
    BY DEF Login
  <2>2. ASSUME NEW t \in Side, NEW d \in Channels, t # p \/ d # c
        PROVE  wire[t][d]' = wire[t][d] /\ (t = p => mark[p][d]' = mark[p][d])
    BY <1>3, <1>4, <2>2
  <2>3. wire[p][c]' = <<Login>> /\ mark[p][c]' = 0
    BY <1>4, <1>5
  <2>4. SUFFICES ASSUME NEW t \in Side, NEW d \in Channels,
                        NEW i \in 1 .. Len(wire[t][d]'),
                        wire[t][d]'[i].type = "login"
                 PROVE  t = p /\ i = 1 /\ mark[p][d]' = 0 /\ wire[t][d]'[i].no = 0
    BY DEF Logins
  <2>5. CASE t = p /\ d = c
    <3>1. wire[t][d]' = <<Login>>
      BY <2>3, <2>5
    <3>2. Len(wire[t][d]') = 1
      BY <3>1
    <3>3. i = 1
      BY <2>4, <3>2
    <3>4. wire[t][d]'[i] = Login
      BY <3>1, <3>3
    <3>5. QED
      BY <2>1, <2>3, <2>5, <3>3, <3>4
  <2>6. CASE t # p \/ d # c
    <3>1. wire[t][d]' = wire[t][d] /\ (t = p => mark[p][d]' = mark[p][d])
      BY <2>2, <2>6
    <3>2. t = p /\ i = 1 /\ mark[p][d] = 0 /\ wire[t][d][i].no = 0
      BY <1>0, <2>4, <3>1 DEF Logins
    <3>3. QED
      BY <3>1, <3>2
  <2>7. QED
    BY <2>5, <2>6
<1>9. Numbered'
  <2> SUFFICES ASSUME NEW t \in Side, NEW d \in Channels,
                      NEW i \in (1 .. Len(wire[t][d]))'
               PROVE  /\ wire[t][d][i].type' = "carry" => wire[t][d][i].no' > 0 /\ wire[t][d][i].from' = mark[Peer(t)][d]'
                      /\ mark[Peer(t)][d]' > 0
                      /\ d \in lowers[Peer(t)]' => wire[t][d][i].no' <= sendNo[Peer(t)]'
                      /\ \A j \in (1 .. Len(wire[t][d]))' : i < j => wire[t][d][i].no' < wire[t][d][j].no'
    BY DEF Numbered
  <2>1. CASE t = p /\ d = c
    <3>1. Len(<<Login>>) = 1 /\ <<Login>>[1].no = 0 /\ <<Login>>[1].type = "login"
      BY DEF Login
    <3>2. i = 1
      <4>1. wire[t][d]' = <<Login>>
        BY <1>4, <2>1
      <4>2. Len(wire[t][d]') = 1
        BY <4>1
      <4>3. QED
        BY <4>2
    <3>3. sendNo[s] \in Nat
      BY <1>0 DEF TypeOK
    <3>4. QED
      BY <1>2, <1>3, <1>4, <2>1, <3>1, <3>2, <3>3
  <2>2. CASE t # p \/ d # c
    <3>1. wire[t][d]' = wire[t][d] /\ mark[Peer(t)][d]' = mark[Peer(t)][d]
      BY <1>3, <1>4, <2>2
    <3>2. d \in lowers[Peer(t)]' => d \in lowers[Peer(t)]
      BY <1>3, <2>2
    <3>3. QED
      BY <1>0, <1>2, <3>1, <3>2 DEF Numbered
  <2>3. QED
    BY <2>1, <2>2
<1>10. Opened'
  <2> SUFFICES ASSUME NEW d \in Channels, Joined(s)' = {d}
               PROVE  (1 .. sendNo[s] \subseteq Numbers(p, d))'
    BY DEF Opened
  <2>1. lowers[s] = {}
    <3> SUFFICES ASSUME NEW e \in Channels, e \in lowers[s] PROVE FALSE
      BY <1>0 DEF TypeOK
    <3>1. mark[s][e] = epoch[s] /\ epoch[s] > 0 /\ epoch[s]' = epoch[s]
      BY <1>0, <1>3 DEF Members
    <3>2. e # c
      BY <3>1, <1>1
    <3>3. e \in Joined(s)' /\ c \in Joined(s)'
      BY <1>3, <3>1, <3>2 DEF Joined
    <3>4. QED
      BY <3>2, <3>3
  <2>2. sendNo[s]' = 0
    BY <1>0, <1>2, <2>1 DEF TypeOK
  <2>3. QED
    BY <2>2
<1>11. InOrder'
  BY <1>0, <1>1, AddSessionInOrder
<1>12. QED
  BY <1>6, <1>7, <1>8, <1>9, <1>10, <1>11 DEF AggrInv

-----------------------------------------------------------------------------
(* Reading, breaking and closing leave on a channel a segment of what was   *)
(* there: its first k packages are gone, and perhaps some of the last.      *)

Segment(t, d, k) ==
  /\ Len(wire[t][d]') + k <= Len(wire[t][d])
  /\ \A i \in 1 .. Len(wire[t][d]') : wire[t][d]'[i] = wire[t][d][i + k]

(* A step that only shortens, and forgets nothing of a channel in use; a    *)
(* channel whose first login may remain has not been joined by it.          *)
Shortens ==
  \A t \in Side, d \in Channels : \E k \in Nat :
    /\ Segment(t, d, k)
    /\ t = "listener" /\ k = 0 => mark["listener"][d]' = mark["listener"][d]

Remembers ==
  \A t \in Side, d \in Channels :
    mark[t][d] > 0 =>
      /\ mark[t][d]' = mark[t][d]
      /\ d \in lowers[t]' => d \in lowers[t] /\ sendNo[t]' = sendNo[t]

LEMMA SegmentKeepsOrder ==
  ASSUME TypeOK, Logins, Numbered, wire' \in [Side -> [Channels -> Seq(Package)]],
         NEW t \in Side, NEW d \in Channels, NEW k \in Nat, Segment(t, d, k),
         NEW i \in 1 .. Len(wire[t][d]')
  PROVE  /\ i + k \in 1 .. Len(wire[t][d])
         /\ wire[t][d]'[i] = wire[t][d][i + k]
         /\ wire[t][d]'[i].type = "login" =>
              t = "listener" /\ i = 1 /\ k = 0 /\ mark["listener"][d] = 0 /\ wire[t][d]'[i].no = 0
         /\ wire[t][d]'[i].type = "carry" =>
              wire[t][d]'[i].no > 0 /\ wire[t][d]'[i].from = mark[Peer(t)][d]
         /\ mark[Peer(t)][d] > 0
         /\ d \in lowers[Peer(t)] => wire[t][d]'[i].no <= sendNo[Peer(t)]
         /\ \A j \in 1 .. Len(wire[t][d]') : i < j => wire[t][d]'[i].no < wire[t][d]'[j].no
<1>1. Len(wire[t][d]') \in Nat /\ Len(wire[t][d]) \in Nat
  BY DEF TypeOK
<1>2. \A j \in 1 .. Len(wire[t][d]') :
        j + k \in 1 .. Len(wire[t][d]) /\ wire[t][d]'[j] = wire[t][d][j + k]
  BY <1>1 DEF Segment
<1> DEFINE n == i + k
<1>3. n \in 1 .. Len(wire[t][d]) /\ wire[t][d]'[i] = wire[t][d][n]
  BY <1>2
<1>4. wire[t][d][n].type = "login" =>
        t = "listener" /\ n = 1 /\ mark["listener"][d] = 0 /\ wire[t][d][n].no = 0
  BY <1>3 DEF Logins
<1>5. /\ wire[t][d][n].type = "carry" =>
           wire[t][d][n].no > 0 /\ wire[t][d][n].from = mark[Peer(t)][d]
      /\ mark[Peer(t)][d] > 0
      /\ d \in lowers[Peer(t)] => wire[t][d][n].no <= sendNo[Peer(t)]
  BY <1>3 DEF Numbered
<1>6. ASSUME NEW j \in 1 .. Len(wire[t][d]'), i < j
      PROVE  wire[t][d]'[i].no < wire[t][d]'[j].no
  <2>1. j + k \in 1 .. Len(wire[t][d]) /\ wire[t][d]'[j] = wire[t][d][j + k]
    BY <1>2
  <2>2. n < j + k
    BY <1>6
  <2>3. wire[t][d][n].no < wire[t][d][j + k].no
    BY <1>3, <2>1, <2>2 DEF Numbered
  <2>4. QED
    BY <1>3, <2>1, <2>3
<1>7. n = 1 => i = 1 /\ k = 0
  BY <1>1
<1>8. QED
  BY <1>3, <1>4, <1>5, <1>6, <1>7

LEMMA SegmentsInv ==
  ASSUME TypeOK, Logins, Numbered, wire' \in [Side -> [Channels -> Seq(Package)]],
         Shortens, Remembers
  PROVE  Logins' /\ Numbered'
<1> USE Sides
<1>1. ASSUME NEW t \in Side, NEW d \in Channels, NEW i \in 1 .. Len(wire[t][d]')
      PROVE  /\ wire[t][d]'[i].type = "login" =>
                   t = "listener" /\ i = 1 /\ mark["listener"][d]' = 0 /\ wire[t][d]'[i].no = 0
             /\ wire[t][d]'[i].type = "carry" =>
                   wire[t][d]'[i].no > 0 /\ wire[t][d]'[i].from = mark[Peer(t)][d]'
             /\ mark[Peer(t)][d]' > 0
             /\ d \in lowers[Peer(t)]' => wire[t][d]'[i].no <= sendNo[Peer(t)]'
             /\ \A j \in 1 .. Len(wire[t][d]') : i < j => wire[t][d]'[i].no < wire[t][d]'[j].no
  <2>1. PICK k \in Nat :
          /\ Segment(t, d, k)
          /\ t = "listener" /\ k = 0 => mark["listener"][d]' = mark["listener"][d]
    BY DEF Shortens
  <2>2. /\ wire[t][d]'[i].type = "login" =>
              t = "listener" /\ i = 1 /\ k = 0 /\ mark["listener"][d] = 0 /\ wire[t][d]'[i].no = 0
        /\ wire[t][d]'[i].type = "carry" =>
              wire[t][d]'[i].no > 0 /\ wire[t][d]'[i].from = mark[Peer(t)][d]
        /\ mark[Peer(t)][d] > 0
        /\ d \in lowers[Peer(t)] => wire[t][d]'[i].no <= sendNo[Peer(t)]
        /\ \A j \in 1 .. Len(wire[t][d]') : i < j => wire[t][d]'[i].no < wire[t][d]'[j].no
    BY <2>1, SegmentKeepsOrder
  <2>3. mark[Peer(t)][d]' = mark[Peer(t)][d]
    BY <2>2 DEF Remembers
  <2>4. d \in lowers[Peer(t)]' => d \in lowers[Peer(t)] /\ sendNo[Peer(t)]' = sendNo[Peer(t)]
    BY <2>2 DEF Remembers
  <2>5. QED
    BY <2>1, <2>2, <2>3, <2>4
<1>2. Logins'
  BY <1>1 DEF Logins
<1>3. Numbered'
  BY <1>1 DEF Numbered
<1>4. QED
  BY <1>2, <1>3

LEMMA HandleLoginInv ==
  ASSUME AggrInv, NEW c \in Channels, HandleLogin(c) PROVE AggrInv'
<1> USE Sides
<1> DEFINE s == "connecter"
           p == "listener"
<1>0. TypeOK /\ Members /\ Logins /\ Numbered /\ Opened /\ InOrder
  BY DEF AggrInv
<1>1. /\ wire[p][c] # <<>> /\ Head(wire[p][c]).type = "login"
      /\ AddSession(p, c)
      /\ wire' = [wire EXCEPT ![p][c] = Tail(@)]
      /\ UNCHANGED <<broken, counters>>
  BY DEF HandleLogin
<1>2. UNCHANGED <<broken, sendNo, recvNo, handed>>
  BY <1>1 DEF counters
<1>3. mark[p][c] = 0 /\ mark[s][c] > 0
  <2>1. wire[p][c] \in Seq(Package)
    BY <1>0 DEF TypeOK
  <2>2. 1 \in 1 .. Len(wire[p][c]) /\ Head(wire[p][c]) = wire[p][c][1]
    BY <1>1, <2>1
  <2>3. wire[p][c][1].type = "login"
    BY <1>1, <2>2
  <2>4. p \in Side /\ Peer(p) = s
    OBVIOUS
  <2>5. mark[p][c] = 0
    BY <1>0, <2>2, <2>3, <2>4 DEF Logins
  <2>6. mark[Peer(p)][c] > 0
    BY <1>0, <2>2, <2>4 DEF Numbered
  <2>7. QED
    BY <2>4, <2>5, <2>6
<1>4. /\ epoch' \in [Side -> Nat]
      /\ mark' \in [Side -> [Channels -> Nat]]
      /\ lowers' \in [Side -> SUBSET Channels]
      /\ epoch[p]' > 0 /\ mark[p][c]' = epoch[p]'
      /\ epoch[p]' = IF lowers[p] = {} THEN epoch[p] + 1 ELSE epoch[p]
      /\ lowers[p]' = lowers[p] \cup {c}
      /\ \A t \in Side : t # p => epoch[t]' = epoch[t] /\ lowers[t]' = lowers[t]
      /\ \A t \in Side, d \in Channels :
           t # p \/ d # c => mark[t][d]' = mark[t][d]
  BY <1>0, <1>1, <1>3, AddSessionEffect
<1>5. /\ wire' \in [Side -> [Channels -> Seq(Package)]]
      /\ wire[p][c]' = Tail(wire[p][c])
      /\ \A t \in Side, d \in Channels :
           t # p \/ d # c => wire[t][d]' = wire[t][d]
  <2>1. wire[p][c] \in Seq(Package) /\ Tail(wire[p][c]) \in Seq(Package)
    BY <1>0, <1>1 DEF TypeOK
  <2>2. QED
    BY <2>1, <1>0, <1>1 DEF TypeOK
<1>6. TypeOK'
  BY <1>0, <1>2, <1>4, <1>5 DEF TypeOK
<1>7. Members'
  <2>1. ASSUME NEW t \in Side, NEW d \in Channels
        PROVE  /\ mark[t][d]' <= epoch[t]'
               /\ d \in lowers[t]' => mark[t][d]' = epoch[t]' /\ epoch[t]' > 0
               /\ mark[t][d]' > 0 => mark[s][d]' > 0
               /\ mark[t][d]' > 0 /\ d \notin broken' => d \in lowers[t]'
    <3>1. /\ mark[t][d] \in Nat /\ epoch[t] \in Nat
          /\ mark[t][d] <= epoch[t]
          /\ d \in lowers[t] => mark[t][d] = epoch[t] /\ epoch[t] > 0
          /\ mark[t][d] > 0 => mark[s][d] > 0
          /\ mark[t][d] > 0 /\ d \notin broken => d \in lowers[t]
      BY <1>0 DEF Members, TypeOK
    <3>2. mark[s][d]' = mark[s][d] /\ mark[s][c] > 0
      BY <1>3, <1>4
    <3>3. CASE t = p
      BY <1>2, <1>4, <3>1, <3>2, <3>3
    <3>4. CASE t # p
      BY <1>2, <1>4, <3>1, <3>2, <3>4
    <3>5. QED
      BY <3>3, <3>4
  <2>2. (broken \subseteq {d \in Channels : mark[s][d] > 0})'
    BY <1>0, <1>2, <1>4 DEF Members
  <2>3. QED
    BY <2>1, <2>2 DEF Members
<1>8. Logins' /\ Numbered'
  <2>1. Segment(p, c, 1)
    BY <1>0, <1>1, <1>5 DEF Segment, TypeOK
  <2>2. ASSUME NEW t \in Side, NEW d \in Channels
        PROVE  \E k \in Nat :
                 /\ Segment(t, d, k)
                 /\ t = "listener" /\ k = 0 => mark["listener"][d]' = mark["listener"][d]
    <3>1. CASE t = p /\ d = c
      BY <2>1, <3>1
    <3>2. CASE t # p /\ d = c
      <4>1. mark[Peer(t)][d] = 0
        BY <1>3, <3>2 DEF Peer, Side
      <4>2. wire[t][d] = <<>> /\ wire[t][d]' = <<>>
        <5>1. wire[t][d] \in Seq(Package)
          BY <1>0 DEF TypeOK
        <5>2. Len(wire[t][d]) = 0
          <6>1. SUFFICES ASSUME 1 \in 1 .. Len(wire[t][d]) PROVE FALSE
            BY <5>1
          <6>2. mark[Peer(t)][d] > 0
            BY <1>0, <6>1 DEF Numbered
          <6>3. QED
            BY <4>1, <6>2
        <5>3. QED
          BY <1>5, <3>2, <5>1, <5>2
      <4>3. QED
        <5>1. Segment(t, d, 0)
          BY <4>2 DEF Segment
        <5>2. QED
          BY <3>2, <5>1
    <3>3. CASE d # c
      <4>1. wire[t][d]' = wire[t][d] /\ mark[p][d]' = mark[p][d]
        BY <1>4, <1>5, <3>3
      <4>2. wire[t][d] \in Seq(Package)
        BY <1>0 DEF TypeOK
      <4>3. Segment(t, d, 0)
        BY <4>1, <4>2 DEF Segment
      <4>4. QED
        BY <4>1, <4>3
    <3>4. QED
      BY <3>1, <3>2, <3>3
  <2>3. Shortens
    BY <2>2 DEF Shortens
  <2>4. Remembers
    BY <1>2, <1>3, <1>4 DEF Remembers
  <2>5. QED
    BY <1>0, <1>5, <2>3, <2>4, SegmentsInv
<1>9. Opened'
  <2> SUFFICES ASSUME NEW d \in Channels, (Joined(s) = {d})',
                      (d \in lowers[s] \ broken)', mark[p][d]' = 0
               PROVE  (1 .. sendNo[s] \subseteq Numbers(p, d))'
    BY DEF Opened
  <2>1. d # c
    BY <1>4
  <2>2. wire[p][d]' = wire[p][d] /\ mark[p][d] = 0
    BY <1>4, <1>5, <2>1
  <2>3. Joined(s)' = Joined(s)
    BY <1>4 DEF Joined
  <2>4. 1 .. sendNo[s] \subseteq Numbers(p, d)
    BY <1>0, <1>2, <1>4, <2>2, <2>3 DEF Opened
  <2>5. QED
    BY <1>2, <2>2, <2>4 DEF Numbers
<1>10. InOrder'
  BY <1>0, <1>1, <1>3, AddSessionInOrder
<1>11. QED
  BY <1>6, <1>7, <1>8, <1>9, <1>10 DEF AggrInv

-----------------------------------------------------------------------------

LEMMA SendEffect ==
  ASSUME TypeOK, NEW s \in Side, Send(s)
  PROVE  /\ UNCHANGED <<broken, lowers, recvNo, handed, epoch, mark>>
         /\ sendNo' \in [Side -> Nat] /\ sendNo[s]' = sendNo[s] + 1
         /\ \A t \in Side : t # s => sendNo[t]' = sendNo[t]
         /\ wire' \in [Side -> [Channels -> Seq(Package)]]
         /\ \A t \in Side, d \in Channels :
              wire[t][d]' = IF t = Peer(s) /\ d \in lowers[s] \ broken
                            THEN Append(wire[t][d], Carry(s, sendNo[s]'))
                            ELSE wire[t][d]
         /\ Carry(s, sendNo[s]').no = sendNo[s] + 1
         /\ Carry(s, sendNo[s]').type = "carry"
         /\ Carry(s, sendNo[s]').from = epoch[s]
         /\ lowers[s] # {}
<1> USE Sides
<1>1. /\ UNCHANGED <<broken, lowers, recvNo, handed, epoch, mark>>
      /\ lowers[s] # {}
  BY DEF Send
<1>2. /\ sendNo' \in [Side -> Nat] /\ sendNo[s]' = sendNo[s] + 1
      /\ \A t \in Side : t # s => sendNo[t]' = sendNo[t]
  <2>1. sendNo' = [sendNo EXCEPT ![s] = @ + 1] /\ sendNo \in [Side -> Nat]
    BY DEF Send, MakePackage, TypeOK
  <2>2. QED
    BY <2>1
<1>3. /\ Carry(s, sendNo[s]').no = sendNo[s] + 1
      /\ Carry(s, sendNo[s]').type = "carry"
      /\ Carry(s, sendNo[s]').from = epoch[s]
      /\ Carry(s, sendNo[s]') \in Package
  BY <1>2 DEF Carry, Package, TypeOK
<1>4. wire' = [wire EXCEPT ![Peer(s)] =
        [c \in Channels |-> IF c \in lowers[s] \ broken
                            THEN Append(@[c], Carry(s, sendNo[s]')) ELSE @[c]]]
  BY DEF Send
<1>5. \A d \in Channels : Append(wire[Peer(s)][d], Carry(s, sendNo[s]')) \in Seq(Package)
  BY <1>3 DEF TypeOK
<1>6. /\ wire' \in [Side -> [Channels -> Seq(Package)]]
      /\ \A t \in Side, d \in Channels :
           wire[t][d]' = IF t = Peer(s) /\ d \in lowers[s] \ broken
                         THEN Append(wire[t][d], Carry(s, sendNo[s]'))
                         ELSE wire[t][d]
  BY <1>4, <1>5 DEF TypeOK
<1>7. QED
  BY <1>1, <1>2, <1>3, <1>6

LEMMA SendInv ==
  ASSUME AggrInv, NEW s \in Side, Send(s) PROVE AggrInv'
<1> USE Sides
<1>0. TypeOK /\ Members /\ Logins /\ Numbered /\ Opened /\ InOrder
  BY DEF AggrInv
<1> DEFINE pkg == Carry(s, sendNo[s]')
<1>1. /\ UNCHANGED <<broken, lowers, recvNo, handed, epoch, mark>>
      /\ sendNo' \in [Side -> Nat] /\ sendNo[s]' = sendNo[s] + 1
      /\ \A t \in Side : t # s => sendNo[t]' = sendNo[t]
      /\ wire' \in [Side -> [Channels -> Seq(Package)]]
      /\ \A t \in Side, d \in Channels :
           wire[t][d]' = IF t = Peer(s) /\ d \in lowers[s] \ broken
                         THEN Append(wire[t][d], pkg) ELSE wire[t][d]
      /\ pkg.no = sendNo[s] + 1 /\ pkg.type = "carry" /\ pkg.from = epoch[s]
      /\ lowers[s] # {}
  BY <1>0, SendEffect
<1> HIDE DEF pkg
<1>2. sendNo[s] \in Nat /\ sendNo[Peer(s)] \in Nat
  BY <1>0 DEF TypeOK
<1>3. TypeOK'
  BY <1>0, <1>1 DEF TypeOK
<1>4. Members'
  BY <1>0, <1>1 DEF Members
<1>5. ASSUME NEW t \in Side, NEW d \in Channels, t = Peer(s), d \in lowers[s] \ broken
      PROVE  /\ Len(wire[t][d]') = Len(wire[t][d]) + 1 /\ Len(wire[t][d]) \in Nat
             /\ wire[t][d]'[Len(wire[t][d]) + 1] = pkg
             /\ \A i \in 1 .. Len(wire[t][d]) : wire[t][d]'[i] = wire[t][d][i]
  <2>1. wire[t][d] \in Seq(Package)
    BY <1>0 DEF TypeOK
  <2>2. wire[t][d]' = Append(wire[t][d], pkg)
    BY <1>1, <1>5
  <2>3. QED
    BY <2>1, <2>2
<1>6. ASSUME NEW t \in Side, NEW d \in Channels, ~ (t = Peer(s) /\ d \in lowers[s] \ broken)
      PROVE  wire[t][d]' = wire[t][d]
  BY <1>1, <1>6
<1>7. Logins'
  <2> SUFFICES ASSUME NEW t \in Side, NEW d \in Channels,
                      NEW i \in 1 .. Len(wire[t][d]'), wire[t][d]'[i].type = "login"
               PROVE  t = "listener" /\ i = 1 /\ mark["listener"][d]' = 0 /\ wire[t][d]'[i].no = 0
    BY DEF Logins
  <2>1. CASE t = Peer(s) /\ d \in lowers[s] \ broken
    <3>1. i = Len(wire[t][d]) + 1 => wire[t][d]'[i] = pkg
      BY <1>5, <2>1
    <3>2. i \in 1 .. Len(wire[t][d]) /\ wire[t][d]'[i] = wire[t][d][i]
      BY <1>1, <1>5, <2>1, <3>1
    <3>3. QED
      BY <1>0, <1>1, <3>2 DEF Logins
  <2>2. CASE ~ (t = Peer(s) /\ d \in lowers[s] \ broken)
    <3>1. wire[t][d]' = wire[t][d]
      BY <1>6, <2>2
    <3>2. QED
      BY <1>0, <1>1, <3>1 DEF Logins
  <2>3. QED
    BY <2>1, <2>2
<1>8. Numbered'
  <2> SUFFICES ASSUME NEW t \in Side, NEW d \in Channels,
                      NEW i \in 1 .. Len(wire[t][d]')
               PROVE  /\ wire[t][d]'[i].type = "carry" =>
                           wire[t][d]'[i].no > 0 /\ wire[t][d]'[i].from = mark[Peer(t)][d]'
                      /\ mark[Peer(t)][d]' > 0
                      /\ d \in lowers[Peer(t)]' => wire[t][d]'[i].no <= sendNo[Peer(t)]'
                      /\ \A j \in 1 .. Len(wire[t][d]') : i < j => wire[t][d]'[i].no < wire[t][d]'[j].no
    BY DEF Numbered
  <2>1. ASSUME NEW k \in 1 .. Len(wire[t][d])
        PROVE  /\ wire[t][d][k].type = "carry" =>
                    wire[t][d][k].no > 0 /\ wire[t][d][k].from = mark[Peer(t)][d]
               /\ mark[Peer(t)][d] > 0
               /\ d \in lowers[Peer(t)] => wire[t][d][k].no <= sendNo[Peer(t)]
               /\ wire[t][d][k].no \in Nat
               /\ \A j \in 1 .. Len(wire[t][d]) : k < j => wire[t][d][k].no < wire[t][d][j].no
    <3>1. wire[t][d][k] \in Package
      <4>1. wire[t][d] \in Seq(Package)
        BY <1>0 DEF TypeOK
      <4>2. QED
        BY <4>1
    <3>2. QED
      BY <1>0, <3>1 DEF Numbered, Package
  <2>2. CASE t = Peer(s) /\ d \in lowers[s] \ broken
    <3>1. Peer(t) = s /\ d \in lowers[Peer(t)]
      BY <2>2
    <3>2. mark[s][d] = epoch[s] /\ epoch[s] > 0
      BY <1>0, <2>2 DEF Members
    <3>3. CASE i = Len(wire[t][d]) + 1
      <4>1. wire[t][d]'[i] = pkg /\ \A j \in 1 .. Len(wire[t][d]') : ~ i < j
        BY <1>5, <2>2, <3>3
      <4>2. QED
        BY <1>1, <1>2, <3>1, <3>2, <4>1
    <3>4. CASE i \in 1 .. Len(wire[t][d])
      <4>1. wire[t][d]'[i] = wire[t][d][i]
        BY <1>5, <2>2, <3>4
      <4>2. /\ wire[t][d][i].no <= sendNo[s] /\ wire[t][d][i].no \in Nat
            /\ mark[Peer(t)][d] > 0
            /\ wire[t][d][i].type = "carry" =>
                 wire[t][d][i].no > 0 /\ wire[t][d][i].from = mark[Peer(t)][d]
        BY <2>1, <3>1, <3>4
      <4>3. ASSUME NEW j \in 1 .. Len(wire[t][d]'), i < j
            PROVE  wire[t][d]'[i].no < wire[t][d]'[j].no
        <5>1. CASE j = Len(wire[t][d]) + 1
          <6>1. wire[t][d]'[j] = pkg
            BY <1>5, <2>2, <5>1
          <6>2. QED
            BY <1>1, <1>2, <4>1, <4>2, <6>1
        <5>2. CASE j \in 1 .. Len(wire[t][d])
          BY <1>5, <2>1, <2>2, <3>4, <4>1, <4>3, <5>2
        <5>3. QED
          BY <1>5, <2>2, <5>1, <5>2
      <4>4. QED
        BY <1>1, <1>2, <3>1, <4>1, <4>2, <4>3
    <3>5. QED
      BY <1>5, <2>2, <3>3, <3>4
  <2>3. CASE ~ (t = Peer(s) /\ d \in lowers[s] \ broken)
    <3>1. wire[t][d]' = wire[t][d]
      BY <1>6, <2>3
    <3>2. sendNo[Peer(t)] <= sendNo[Peer(t)]' /\ sendNo[Peer(t)] \in Nat /\ sendNo[Peer(t)]' \in Nat
      <4>1. sendNo[Peer(t)] \in Nat /\ sendNo[Peer(t)]' \in Nat
        BY <1>0, <1>1 DEF TypeOK
      <4>2. sendNo[Peer(t)]' = sendNo[Peer(t)] \/ sendNo[Peer(t)]' = sendNo[Peer(t)] + 1
        BY <1>1
      <4>3. QED
        BY <4>1, <4>2
    <3>3. QED
      BY <1>1, <2>1, <3>1, <3>2
  <2>4. QED
    BY <2>2, <2>3
<1>9. Opened'
  <2> SUFFICES ASSUME NEW d \in Channels, Joined("connecter") = {d},
                      d \in lowers["connecter"] \ broken, mark["listener"][d] = 0
               PROVE  (1 .. sendNo["connecter"] \subseteq Numbers("listener", d))'
    BY <1>1 DEF Opened, Joined
  <2>1. 1 .. sendNo["connecter"] \subseteq Numbers("listener", d)
    BY <1>0 DEF Opened
  <2>2. CASE s = "connecter"
    <3>1. \A i \in 1 .. Len(wire["listener"][d]) :
            i \in 1 .. Len(wire["listener"][d]') /\ wire["listener"][d]'[i] = wire["listener"][d][i]
      BY <1>5, <2>2
    <3>2. sendNo[s] + 1 \in Numbers("listener", d)'
      <4>1. /\ Len(wire["listener"][d]') = Len(wire["listener"][d]) + 1
            /\ Len(wire["listener"][d]) \in Nat
            /\ wire["listener"][d]'[Len(wire["listener"][d]) + 1] = pkg
        BY <1>5, <2>2
      <4>2. PICK n \in 1 .. Len(wire["listener"][d]') : wire["listener"][d]'[n] = pkg
        BY <4>1
      <4>3. wire["listener"][d]'[n].no = sendNo[s] + 1
        BY <1>1, <4>2
      <4>4. QED
        BY <4>3 DEF Numbers
    <3>3. Numbers("listener", d) \subseteq Numbers("listener", d)'
      BY <3>1 DEF Numbers
    <3>4. QED
      BY <1>1, <1>2, <2>1, <2>2, <3>2, <3>3
  <2>3. CASE s # "connecter"
    <3>1. wire["listener"][d]' = wire["listener"][d]
      BY <1>6, <2>3
    <3>2. sendNo["connecter"]' = sendNo["connecter"]
      BY <1>1, <2>3
    <3>3. Numbers("listener", d)' = Numbers("listener", d)
      BY <3>1 DEF Numbers
    <3>4. QED
      BY <2>1, <3>2, <3>3
  <2>4. QED
    BY <2>2, <2>3
<1>10. InOrder'
  BY <1>0, <1>1 DEF InOrder, Met, Joined
<1>11. QED
  BY <1>3, <1>4, <1>7, <1>8, <1>9, <1>10 DEF AggrInv

-----------------------------------------------------------------------------

LEMMA PopEffect ==
  ASSUME TypeOK, NEW s \in Side, NEW c \in Channels, Pop(s, c)
  PROVE  /\ UNCHANGED <<broken, lowers, sendNo, epoch, mark>>
         /\ c \in lowers[s] /\ 1 \in 1 .. Len(wire[s][c])
         /\ wire[s][c][1] \in Package /\ wire[s][c][1].type = "carry"
         /\ wire' \in [Side -> [Channels -> Seq(Package)]]
         /\ wire[s][c]' = Tail(wire[s][c])
         /\ \A t \in Side, d \in Channels :
              t # s \/ d # c => wire[t][d]' = wire[t][d]
         /\ Segment(s, c, 1)
         /\ recvNo' \in [Side -> Nat]
         /\ handed' \in [Side -> Seq([from : Nat, no : Nat])]
         /\ \A t \in Side : t # s => recvNo[t]' = recvNo[t] /\ handed[t]' = handed[t]
         /\ \/ /\ wire[s][c][1].no = recvNo[s] + 1
               /\ recvNo[s]' = recvNo[s] + 1
               /\ handed[s]' = Append(handed[s], [from |-> wire[s][c][1].from,
                                                 no |-> wire[s][c][1].no])
            \/ /\ wire[s][c][1].no # recvNo[s] + 1
               /\ recvNo[s]' = recvNo[s] /\ handed[s]' = handed[s]
<1>1. /\ UNCHANGED <<broken, lowers, sendNo, epoch, mark>>
      /\ c \in lowers[s] /\ wire[s][c] # <<>>
      /\ Head(wire[s][c]).type = "carry"
      /\ wire' = [wire EXCEPT ![s][c] = Tail(@)]
  BY DEF Pop
<1>2. /\ wire[s][c] \in Seq(Package) /\ Tail(wire[s][c]) \in Seq(Package)
      /\ 1 \in 1 .. Len(wire[s][c]) /\ Head(wire[s][c]) = wire[s][c][1]
      /\ wire[s][c][1] \in Package
  <2>1. wire[s][c] \in Seq(Package)
    BY DEF TypeOK
  <2>2. QED
    BY <1>1, <2>1
<1>3. /\ wire' \in [Side -> [Channels -> Seq(Package)]]
      /\ wire[s][c]' = Tail(wire[s][c])
      /\ \A t \in Side, d \in Channels :
           t # s \/ d # c => wire[t][d]' = wire[t][d]
  BY <1>1, <1>2 DEF TypeOK
<1>4. Segment(s, c, 1)
  BY <1>2, <1>3 DEF Segment
<1> DEFINE pkg == wire[s][c][1]
           item == [from |-> pkg.from, no |-> pkg.no]
<1>5. \/ /\ pkg.no = recvNo[s] + 1
         /\ recvNo' = [recvNo EXCEPT ![s] = pkg.no]
         /\ handed' = [handed EXCEPT ![s] = Append(@, item)]
      \/ /\ pkg.no # recvNo[s] + 1
         /\ UNCHANGED <<recvNo, handed>>
  BY <1>2 DEF Pop, UpdRecvSeqNo
<1>6. pkg.no \in Nat /\ item \in [from : Nat, no : Nat]
  BY <1>2 DEF Package
<1>7. Append(handed[s], item) \in Seq([from : Nat, no : Nat])
  BY <1>6 DEF TypeOK
<1> HIDE DEF pkg, item
<1>8. /\ recvNo' \in [Side -> Nat]
      /\ handed' \in [Side -> Seq([from : Nat, no : Nat])]
      /\ \A t \in Side : t # s => recvNo[t]' = recvNo[t] /\ handed[t]' = handed[t]
      /\ \/ /\ pkg.no = recvNo[s] + 1
            /\ recvNo[s]' = recvNo[s] + 1
            /\ handed[s]' = Append(handed[s], item)
         \/ /\ pkg.no # recvNo[s] + 1
            /\ recvNo[s]' = recvNo[s] /\ handed[s]' = handed[s]
  BY <1>5, <1>6, <1>7 DEF TypeOK
<1>9. QED
  BY <1>1, <1>2, <1>3, <1>4, <1>8 DEF pkg, item

LEMMA PopInv ==
  ASSUME AggrInv, NEW s \in Side, NEW c \in Channels, Pop(s, c) PROVE AggrInv'
<1> USE Sides
<1>0. TypeOK /\ Members /\ Logins /\ Numbered /\ Opened /\ InOrder
  BY DEF AggrInv
<1>1. /\ UNCHANGED <<broken, lowers, sendNo, epoch, mark>>
      /\ c \in lowers[s] /\ 1 \in 1 .. Len(wire[s][c])
      /\ wire[s][c][1] \in Package /\ wire[s][c][1].type = "carry"
      /\ wire' \in [Side -> [Channels -> Seq(Package)]]
      /\ \A t \in Side, d \in Channels :
           t # s \/ d # c => wire[t][d]' = wire[t][d]
      /\ Segment(s, c, 1)
      /\ recvNo' \in [Side -> Nat]
      /\ handed' \in [Side -> Seq([from : Nat, no : Nat])]
      /\ \A t \in Side : t # s => recvNo[t]' = recvNo[t] /\ handed[t]' = handed[t]
      /\ \/ /\ wire[s][c][1].no = recvNo[s] + 1
            /\ recvNo[s]' = recvNo[s] + 1
            /\ handed[s]' = Append(handed[s], [from |-> wire[s][c][1].from,
                                              no |-> wire[s][c][1].no])
         \/ /\ wire[s][c][1].no # recvNo[s] + 1
            /\ recvNo[s]' = recvNo[s] /\ handed[s]' = handed[s]
  BY <1>0, PopEffect
<1>2. mark[s][c] = epoch[s] /\ epoch[s] > 0 /\ mark[Peer(s)][c] > 0
      /\ wire[s][c][1].from = mark[Peer(s)][c]
  <2>1. mark[s][c] = epoch[s] /\ epoch[s] > 0
    BY <1>0, <1>1 DEF Members
  <2>2. mark[Peer(s)][c] > 0 /\ wire[s][c][1].from = mark[Peer(s)][c]
    BY <1>0, <1>1 DEF Numbered
  <2>3. QED
    BY <2>1, <2>2
<1>3. TypeOK'
  <2>1. \A t \in Side : lowers[t] = {} => t # s
    BY <1>1
  <2>2. QED
    BY <1>0, <1>1, <2>1 DEF TypeOK
<1>4. Members'
  BY <1>0, <1>1 DEF Members
<1>5. Logins' /\ Numbered'
  <2>1. ASSUME NEW t \in Side, NEW d \in Channels, t # s \/ d # c
        PROVE  Segment(t, d, 0)
    <3>1. wire[t][d]' = wire[t][d] /\ wire[t][d] \in Seq(Package)
      BY <1>0, <1>1, <2>1 DEF TypeOK
    <3>2. QED
      BY <3>1 DEF Segment
  <2>2. Shortens
    BY <1>1, <2>1 DEF Shortens
  <2>3. Remembers
    BY <1>1 DEF Remembers
  <2>4. QED
    BY <1>0, <1>1, <2>2, <2>3, SegmentsInv
<1>6. Opened'
  <2> SUFFICES ASSUME NEW d \in Channels, Joined("connecter") = {d},
                      d \in lowers["connecter"] \ broken, mark["listener"][d] = 0
               PROVE  (1 .. sendNo["connecter"] \subseteq Numbers("listener", d))'
    BY <1>1 DEF Opened, Joined
  <2>1. "listener" # s \/ d # c
    BY <1>2
  <2>2. wire["listener"][d]' = wire["listener"][d]
    BY <1>1, <2>1
  <2>3. 1 .. sendNo["connecter"] \subseteq Numbers("listener", d)
    BY <1>0 DEF Opened
  <2>4. QED
    BY <1>1, <2>2, <2>3 DEF Numbers
<1>7. InOrder'
  <2>1. \A t \in Side : Met(t)' = Met(t)
    BY <1>1 DEF Met, Joined
  <2>2. wire[s][c][1].from \in Met(s)
    BY <1>2 DEF Met, Joined
  <2>3. SUFFICES ASSUME NEW t \in Side
                 PROVE  /\ Len(handed[t]') = recvNo[t]'
                        /\ \A i \in 1 .. recvNo[t]' : /\ handed[t]'[i].no = i
                                                      /\ handed[t]'[i].from \in Met(t)
    BY <2>1 DEF InOrder
  <2>4. /\ Len(handed[t]) = recvNo[t]
        /\ \A i \in 1 .. recvNo[t] : /\ handed[t][i].no = i
                                     /\ handed[t][i].from \in Met(t)
    BY <1>0 DEF InOrder
  <2>5. CASE recvNo[t]' = recvNo[t] /\ handed[t]' = handed[t]
    BY <2>4, <2>5
  <2>6. CASE t = s /\ wire[s][c][1].no = recvNo[s] + 1 /\ recvNo[s]' = recvNo[s] + 1
             /\ handed[s]' = Append(handed[s], [from |-> wire[s][c][1].from,
                                               no |-> wire[s][c][1].no])
    <3> DEFINE item == [from |-> wire[s][c][1].from, no |-> wire[s][c][1].no]
    <3>1. item.no = recvNo[s] + 1 /\ item.from \in Met(s)
      BY <2>2, <2>6
    <3>2. handed[s] \in Seq([from : Nat, no : Nat]) /\ recvNo[s] \in Nat
      BY <1>0 DEF TypeOK
    <3>3. handed[s]' = Append(handed[s], item)
      BY <2>6
    <3> HIDE DEF item
    <3>4. /\ Len(handed[s]') = recvNo[s] + 1
          /\ handed[s]'[recvNo[s] + 1] = item
          /\ \A i \in 1 .. recvNo[s] : handed[s]'[i] = handed[s][i]
      BY <2>4, <2>6, <3>2, <3>3
    <3>5. QED
      BY <2>4, <2>6, <3>1, <3>2, <3>4
  <2>7. QED
    BY <1>1, <2>5, <2>6
<1>8. QED
  BY <1>3, <1>4, <1>5, <1>6, <1>7 DEF AggrInv

-----------------------------------------------------------------------------

LEMMA BreakEffect ==
  ASSUME TypeOK, NEW c \in Channels, Break(c)
  PROVE  /\ UNCHANGED <<lowers, sendNo, recvNo, handed, epoch, mark>>
         /\ mark["connecter"][c] > 0 /\ broken' = broken \cup {c}
         /\ wire' \in [Side -> [Channels -> Seq(Package)]]
         /\ \A t \in Side, d \in Channels : Segment(t, d, 0)
         /\ \A t \in Side, d \in Channels : d # c => wire[t][d]' = wire[t][d]
<1> USE Sides
<1> DEFINE s == "connecter"
           p == "listener"
<1>1. /\ UNCHANGED <<lowers, sendNo, recvNo, handed, epoch, mark>>
      /\ mark[s][c] > 0 /\ broken' = broken \cup {c}
  BY DEF Break, counters, TypeOK
<1>2. PICK j \in 0 .. Len(wire[s][c]), k \in 0 .. Len(wire[p][c]) :
        wire' = [wire EXCEPT ![s][c] = SubSeq(@, 1, j), ![p][c] = SubSeq(@, 1, k)]
  BY DEF Break
<1>3. ASSUME NEW q \in Seq(Package), NEW n \in 0 .. Len(q)
      PROVE  /\ SubSeq(q, 1, n) \in Seq(Package)
             /\ Len(SubSeq(q, 1, n)) + 0 <= Len(q)
             /\ \A i \in 1 .. Len(SubSeq(q, 1, n)) : SubSeq(q, 1, n)[i] = q[i + 0]
  OBVIOUS
<1>4. wire[s][c] \in Seq(Package) /\ wire[p][c] \in Seq(Package)
  BY DEF TypeOK
<1>5. /\ wire' \in [Side -> [Channels -> Seq(Package)]]
      /\ wire[s][c]' = SubSeq(wire[s][c], 1, j)
      /\ wire[p][c]' = SubSeq(wire[p][c], 1, k)
      /\ \A t \in Side, d \in Channels : d # c => wire[t][d]' = wire[t][d]
  BY <1>2, <1>3, <1>4 DEF TypeOK
<1>6. ASSUME NEW t \in Side, NEW d \in Channels PROVE Segment(t, d, 0)
  <2>1. CASE d # c
    <3>1. wire[t][d]' = wire[t][d] /\ wire[t][d] \in Seq(Package)
      BY <1>5, <2>1 DEF TypeOK
    <3>2. QED
      BY <3>1 DEF Segment
  <2>2. CASE d = c
    <3>1. t = s \/ t = p
      BY DEF Side
    <3>2. QED
      BY <1>3, <1>4, <1>5, <2>2, <3>1 DEF Segment
  <2>3. QED
    BY <2>1, <2>2
<1>7. QED
  BY <1>1, <1>5, <1>6

LEMMA BreakInv ==
  ASSUME AggrInv, NEW c \in Channels, Break(c) PROVE AggrInv'
<1> USE Sides
<1>0. TypeOK /\ Members /\ Logins /\ Numbered /\ Opened /\ InOrder
  BY DEF AggrInv
<1>1. /\ UNCHANGED <<lowers, sendNo, recvNo, handed, epoch, mark>>
      /\ mark["connecter"][c] > 0 /\ broken' = broken \cup {c}
      /\ wire' \in [Side -> [Channels -> Seq(Package)]]
      /\ \A t \in Side, d \in Channels : Segment(t, d, 0)
      /\ \A t \in Side, d \in Channels : d # c => wire[t][d]' = wire[t][d]
  BY <1>0, BreakEffect
<1>2. TypeOK' /\ Members' /\ InOrder'
  <2>1. TypeOK'
    BY <1>0, <1>1 DEF TypeOK
  <2>2. Members'
    <3>1. \A t \in Side, d \in Channels : d \notin broken' => d \notin broken
      BY <1>1
    <3>2. (broken \subseteq {d \in Channels : mark["connecter"][d] > 0})'
      BY <1>0, <1>1 DEF Members
    <3>3. QED
      BY <1>0, <1>1, <3>1, <3>2 DEF Members
  <2>3. \A t \in Side : Met(t)' = Met(t)
    BY <1>1 DEF Met, Joined
  <2>4. InOrder'
    BY <1>0, <1>1, <2>3 DEF InOrder
  <2>5. QED
    BY <2>1, <2>2, <2>4
<1>3. Logins' /\ Numbered'
  <2>1. Shortens /\ Remembers
    BY <1>1 DEF Shortens, Remembers
  <2>2. QED
    BY <1>0, <1>1, <2>1, SegmentsInv
<1>4. Opened'
  <2> SUFFICES ASSUME NEW d \in Channels, Joined("connecter") = {d},
                      d \in lowers["connecter"] \ broken', mark["listener"][d] = 0
               PROVE  (1 .. sendNo["connecter"] \subseteq Numbers("listener", d))'
    BY <1>1 DEF Opened, Joined
  <2>1. d # c /\ d \notin broken
    BY <1>1
  <2>2. wire["listener"][d]' = wire["listener"][d]
    BY <1>1, <2>1
  <2>3. 1 .. sendNo["connecter"] \subseteq Numbers("listener", d)
    BY <1>0, <2>1 DEF Opened
  <2>4. QED
    BY <1>1, <2>2, <2>3 DEF Numbers
<1>5. QED
  BY <1>2, <1>3, <1>4 DEF AggrInv

LEMMA RemoveSessionEffect ==
  ASSUME TypeOK, NEW s \in Side, NEW c \in Channels, RemoveSession(s, c)
  PROVE  /\ UNCHANGED <<broken, epoch, mark>>
         /\ c \in broken
         /\ wire' \in [Side -> [Channels -> Seq(Package)]]
         /\ wire[s][c]' = <<>>
         /\ \A t \in Side, d \in Channels :
              t # s \/ d # c => wire[t][d]' = wire[t][d]
         /\ lowers' \in [Side -> SUBSET Channels]
         /\ lowers[s]' = lowers[s] \ {c}
         /\ \A t \in Side : t # s => lowers[t]' = lowers[t]
         /\ \A t \in Side :
              \/ /\ sendNo[t]' = sendNo[t] /\ recvNo[t]' = recvNo[t]
                 /\ handed[t]' = handed[t]
                 /\ t # s \/ lowers[t]' # {}
              \/ /\ sendNo[t]' = 0 /\ recvNo[t]' = 0
                 /\ handed[t]' = <<>> /\ lowers[t]' = {}
         /\ sendNo' \in [Side -> Nat] /\ recvNo' \in [Side -> Nat]
         /\ handed' \in [Side -> Seq([from : Nat, no : Nat])]
<1>1. /\ UNCHANGED <<broken, epoch, mark>>
      /\ c \in broken
      /\ wire' = [wire EXCEPT ![s][c] = <<>>]
      /\ lowers' = [lowers EXCEPT ![s] = @ \ {c}]
      /\ \/ /\ lowers[s]' = {}
            /\ sendNo' = [sendNo EXCEPT ![s] = 0]
            /\ recvNo' = [recvNo EXCEPT ![s] = 0]
            /\ handed' = [handed EXCEPT ![s] = <<>>]
         \/ /\ lowers[s]' # {}
            /\ UNCHANGED <<sendNo, recvNo, handed>>
  BY DEF RemoveSession, counters
<1>2. /\ wire' \in [Side -> [Channels -> Seq(Package)]]
      /\ wire[s][c]' = <<>>
      /\ \A t \in Side, d \in Channels :
           t # s \/ d # c => wire[t][d]' = wire[t][d]
  <2>1. <<>> \in Seq(Package)
    OBVIOUS
  <2>2. QED
    BY <1>1, <2>1 DEF TypeOK
<1>3. /\ lowers' \in [Side -> SUBSET Channels]
      /\ lowers[s]' = lowers[s] \ {c}
      /\ \A t \in Side : t # s => lowers[t]' = lowers[t]
  BY <1>1 DEF TypeOK
<1>4. <<>> \in Seq([from : Nat, no : Nat])
  OBVIOUS
<1>5. /\ sendNo' \in [Side -> Nat] /\ recvNo' \in [Side -> Nat]
      /\ handed' \in [Side -> Seq([from : Nat, no : Nat])]
  <2>1. /\ sendNo \in [Side -> Nat] /\ recvNo \in [Side -> Nat]
        /\ handed \in [Side -> Seq([from : Nat, no : Nat])]
    BY DEF TypeOK
  <2>2. CASE lowers[s]' = {}
    <3>1. sendNo' = [sendNo EXCEPT ![s] = 0] /\ recvNo' = [recvNo EXCEPT ![s] = 0]
      BY <1>1, <2>2
    <3>2. handed' = [handed EXCEPT ![s] = <<>>]
      BY <1>1, <2>2
    <3>3. handed' \in [Side -> Seq([from : Nat, no : Nat])]
      BY <1>4, <2>1, <3>2
    <3>4. QED
      BY <2>1, <3>1, <3>3
  <2>3. CASE lowers[s]' # {}
    BY <1>1, <2>1, <2>3
  <2>4. QED
    BY <2>2, <2>3
<1>6. \A t \in Side :
        \/ /\ sendNo[t]' = sendNo[t] /\ recvNo[t]' = recvNo[t]
           /\ handed[t]' = handed[t]
           /\ t # s \/ lowers[t]' # {}
        \/ /\ sendNo[t]' = 0 /\ recvNo[t]' = 0
           /\ handed[t]' = <<>> /\ lowers[t]' = {}
  BY <1>1 DEF TypeOK
<1>7. QED
  BY <1>1, <1>2, <1>3, <1>5, <1>6

LEMMA RemoveSessionInv ==
  ASSUME AggrInv, NEW s \in Side, NEW c \in Channels, RemoveSession(s, c)
  PROVE  AggrInv'
<1> USE Sides
<1>0. TypeOK /\ Members /\ Logins /\ Numbered /\ Opened /\ InOrder
  BY DEF AggrInv
<1>1. /\ UNCHANGED <<broken, epoch, mark>>
      /\ c \in broken
      /\ wire' \in [Side -> [Channels -> Seq(Package)]]
      /\ wire[s][c]' = <<>>
      /\ \A t \in Side, d \in Channels :
           t # s \/ d # c => wire[t][d]' = wire[t][d]
      /\ lowers' \in [Side -> SUBSET Channels]
      /\ lowers[s]' = lowers[s] \ {c}
      /\ \A t \in Side : t # s => lowers[t]' = lowers[t]
      /\ \A t \in Side :
           \/ /\ sendNo[t]' = sendNo[t] /\ recvNo[t]' = recvNo[t]
              /\ handed[t]' = handed[t]
              /\ t # s \/ lowers[t]' # {}
           \/ /\ sendNo[t]' = 0 /\ recvNo[t]' = 0
              /\ handed[t]' = <<>> /\ lowers[t]' = {}
      /\ sendNo' \in [Side -> Nat] /\ recvNo' \in [Side -> Nat]
      /\ handed' \in [Side -> Seq([from : Nat, no : Nat])]
  BY <1>0, RemoveSessionEffect
<1>2. TypeOK'
  BY <1>0, <1>1 DEF TypeOK
<1>3. Members'
  <2>1. \A t \in Side, d \in Channels :
          /\ d \in lowers[t]' => d \in lowers[t]
          /\ d \notin broken /\ d \in lowers[t] => d \in lowers[t]'
    BY <1>1
  <2>2. QED
    BY <1>0, <1>1, <2>1 DEF Members
<1>4. Logins' /\ Numbered'
  <2>1. ASSUME NEW t \in Side, NEW d \in Channels PROVE Segment(t, d, 0)
    <3>1. wire[t][d] \in Seq(Package)
      BY <1>0 DEF TypeOK
    <3>2. CASE t = s /\ d = c
      BY <1>1, <3>1, <3>2 DEF Segment
    <3>3. CASE t # s \/ d # c
      <4>1. wire[t][d]' = wire[t][d]
        BY <1>1, <3>3
      <4>2. QED
        BY <3>1, <4>1 DEF Segment
    <3>4. QED
      BY <3>2, <3>3
  <2>2. Shortens
    BY <1>1, <2>1 DEF Shortens
  <2>3. Remembers
    BY <1>1 DEF Remembers
  <2>4. QED
    BY <1>0, <1>1, <2>2, <2>3, SegmentsInv
<1>5. Opened'
  <2> SUFFICES ASSUME NEW d \in Channels, Joined("connecter") = {d},
                      d \in lowers["connecter"]', d \notin broken, mark["listener"][d] = 0
               PROVE  (1 .. sendNo["connecter"] \subseteq Numbers("listener", d))'
    BY <1>1 DEF Opened, Joined
  <2>1. d # c /\ d \in lowers["connecter"]
    BY <1>1
  <2>2. wire["listener"][d]' = wire["listener"][d]
    BY <1>1, <2>1
  <2>3. sendNo["connecter"]' = sendNo["connecter"]
    BY <1>1
  <2>4. 1 .. sendNo["connecter"] \subseteq Numbers("listener", d)
    BY <1>0, <2>1 DEF Opened
  <2>5. QED
    BY <2>2, <2>3, <2>4 DEF Numbers
<1>6. InOrder'
  <2>1. \A t \in Side : Met(t)' = Met(t)
    BY <1>1 DEF Met, Joined
  <2>2. SUFFICES ASSUME NEW t \in Side
                 PROVE  /\ Len(handed[t]') = recvNo[t]'
                        /\ \A i \in 1 .. recvNo[t]' : /\ handed[t]'[i].no = i
                                                      /\ handed[t]'[i].from \in Met(t)
    BY <2>1 DEF InOrder
  <2>3. CASE recvNo[t]' = recvNo[t] /\ handed[t]' = handed[t]
    BY <1>0, <2>3 DEF InOrder
  <2>4. CASE recvNo[t]' = 0 /\ handed[t]' = <<>>
    BY <2>4
  <2>5. QED
    BY <1>1, <2>3, <2>4
<1>7. QED
  BY <1>2, <1>3, <1>4, <1>5, <1>6 DEF AggrInv

-----------------------------------------------------------------------------

LEMMA AggrNext == AggrInv /\ [Next]_vars => AggrInv'
<1> SUFFICES ASSUME AggrInv, [Next]_vars PROVE AggrInv'
  OBVIOUS
<1>1. ASSUME NEW c \in Channels, CreateSession(c) PROVE AggrInv'
  BY <1>1, CreateSessionInv
<1>2. ASSUME NEW c \in Channels, HandleLogin(c) PROVE AggrInv'
  BY <1>2, HandleLoginInv
<1>3. ASSUME NEW c \in Channels, Break(c) PROVE AggrInv'
  BY <1>3, BreakInv
<1>4. ASSUME NEW s \in Side, Send(s) PROVE AggrInv'
  BY <1>4, SendInv
<1>5. ASSUME NEW s \in Side, NEW c \in Channels, Pop(s, c) PROVE AggrInv'
  BY <1>5, PopInv
<1>6. ASSUME NEW s \in Side, NEW c \in Channels, RemoveSession(s, c) PROVE AggrInv'
  BY <1>6, RemoveSessionInv
<1>7. CASE UNCHANGED vars
  <2>1. UNCHANGED <<wire, broken, lowers, sendNo, recvNo, handed, epoch, mark>>
    BY <1>7 DEF vars, counters
  <2>2. TypeOK'
    BY <2>1 DEF AggrInv, TypeOK
  <2>3. Members'
    BY <2>1 DEF AggrInv, Members
  <2>4. Logins' /\ Numbered'
    BY <2>1 DEF AggrInv, Logins, Numbered
  <2>5. Opened'
    BY <2>1 DEF AggrInv, Opened, Numbers, Joined
  <2>6. InOrder'
    BY <2>1 DEF AggrInv, InOrder, Met, Joined
  <2>7. QED
    BY <2>2, <2>3, <2>4, <2>5, <2>6 DEF AggrInv
<1>8. QED
  BY <1>1, <1>2, <1>3, <1>4, <1>5, <1>6, <1>7 DEF Next

(* The inductive invariant, for every number of connections and packages.   *)
THEOREM AggrInvariance == Spec => []AggrInv
<1>1. Init => AggrInv
  BY AggrInit
<1>2. AggrInv /\ [Next]_vars => AggrInv'
  BY AggrNext
<1>3. QED
  BY <1>1, <1>2, PTL DEF Spec

(* Every word keeps its type, and a side without channels keeps no counters  *)
(* of the aggregation it has lost (CSessionAggregation::Disconnect).         *)
THEOREM AggrTypeCorrect == Spec => []TypeOK
<1>1. AggrInv => TypeOK
  BY DEF AggrInv
<1>2. QED
  BY <1>1, AggrInvariance, PTL

(* What an aggregation hands up is the numbered stream of an aggregation it  *)
(* was connected to, in order, without gaps and without repetition, however  *)
(* its channels lag, overtake each other and break.                          *)
THEOREM DeliveredInOrder == Spec => []InOrder
<1>1. AggrInv => InOrder
  BY DEF AggrInv
<1>2. QED
  BY <1>1, AggrInvariance, PTL

-----------------------------------------------------------------------------
(* A covering channel keeps covering.  Nothing is taken from it but by its  *)
(* own Pop, and then what it loses is either the number accepted or, since  *)
(* its numbers increase, one below the next number expected.                *)

LEMMA SameCovering ==
  ASSUME NEW s \in Side, NEW c \in Channels, Covers(s, c), c \notin broken',
         c \in lowers[s]', c \in lowers[Peer(s)]',
         wire[s][c]' = wire[s][c],
         (recvNo[s]' + 1) .. sendNo[Peer(s)]' \subseteq (recvNo[s] + 1) .. sendNo[Peer(s)]
  PROVE  Covers(s, c)'
BY DEF Covers, Numbers

LEMMA JoinKeepsCovering ==
  ASSUME AggrInv, NEW d \in Channels, CreateSession(d) \/ HandleLogin(d),
         NEW s \in Side, NEW c \in Channels, Covers(s, c)
  PROVE  Covers(s, c)'
<1> USE Sides
<1>0. TypeOK /\ Members /\ Logins
  BY DEF AggrInv
<1>1. c \in lowers[s] /\ c \in lowers[Peer(s)] /\ c \notin broken
  BY DEF Covers
<1>2. \A t \in Side : mark[t][c] > 0
  <2>1. mark[s][c] = epoch[s] /\ epoch[s] > 0
    BY <1>0, <1>1 DEF Members
  <2>2. mark[Peer(s)][c] = epoch[Peer(s)] /\ epoch[Peer(s)] > 0
    BY <1>0, <1>1 DEF Members
  <2>3. \A t \in Side : t = s \/ t = Peer(s)
    BY DEF Side, Peer
  <2>4. QED
    BY <2>1, <2>2, <2>3
<1>3. PICK t \in Side : AddSession(t, d)
  BY DEF CreateSession, HandleLogin
<1>4. UNCHANGED <<broken, sendNo, recvNo>>
  BY DEF CreateSession, HandleLogin, counters
<1>5. d # c /\ wire[s][c]' = wire[s][c]
  <2>1. CASE CreateSession(d)
    <3>1. mark["connecter"][d] = 0 /\ wire' = [wire EXCEPT !["listener"][d] = <<Login>>]
      BY <2>1 DEF CreateSession
    <3>2. mark["connecter"][c] > 0
      BY <1>2
    <3>3. d # c
      BY <3>1, <3>2
    <3>4. QED
      BY <3>1, <3>3, <1>0 DEF TypeOK
  <2>2. CASE HandleLogin(d)
    <3>1. /\ wire["listener"][d] # <<>>
          /\ Head(wire["listener"][d]).type = "login"
          /\ wire' = [wire EXCEPT !["listener"][d] = Tail(@)]
      BY <2>2 DEF HandleLogin
    <3>2. /\ 1 \in 1 .. Len(wire["listener"][d])
          /\ Head(wire["listener"][d]) = wire["listener"][d][1]
      BY <3>1, <1>0 DEF TypeOK
    <3>3. mark["listener"][d] = 0
      BY <3>1, <3>2, <1>0 DEF Logins
    <3>4. d # c
      BY <3>3, <1>2
    <3>5. QED
      BY <3>1, <3>4, <1>0 DEF TypeOK
  <2>3. QED
    BY <2>1, <2>2
<1>6. c \in lowers[s]' /\ c \in lowers[Peer(s)]'
  BY <1>0, <1>1, <1>3 DEF AddSession, TypeOK
<1>7. QED
  BY <1>1, <1>4, <1>5, <1>6, SameCovering

LEMMA SendKeepsCovering ==
  ASSUME AggrInv, NEW t \in Side, Send(t),
         NEW s \in Side, NEW c \in Channels, Covers(s, c)
  PROVE  Covers(s, c)'
<1> USE Sides
<1>0. TypeOK
  BY DEF AggrInv
<1>1. /\ UNCHANGED <<broken, lowers, recvNo>>
      /\ sendNo[t]' = sendNo[t] + 1
      /\ \A u \in Side : u # t => sendNo[u]' = sendNo[u]
      /\ wire[s][c]' = IF s = Peer(t) /\ c \in lowers[t] \ broken
                       THEN Append(wire[s][c], Carry(t, sendNo[t]'))
                       ELSE wire[s][c]
      /\ Carry(t, sendNo[t]').no = sendNo[t] + 1
      /\ Carry(t, sendNo[t]') \in Package
  <2>1. Carry(t, sendNo[t]') \in Package
    <3>1. sendNo[t]' \in Nat /\ epoch[t] \in Nat
      BY <1>0, SendEffect DEF TypeOK
    <3>2. QED
      BY <3>1 DEF Carry, Package
  <2>2. QED
    BY <1>0, <2>1, SendEffect
<1>2. /\ c \in lowers[s] /\ c \in lowers[Peer(s)] /\ c \notin broken
      /\ (recvNo[s] + 1) .. sendNo[Peer(s)] \subseteq Numbers(s, c)
  BY DEF Covers
<1>3. CASE t = s
  <2>1. Peer(s) # t /\ s # Peer(t)
    BY <1>3
  <2>2. wire[s][c]' = wire[s][c] /\ sendNo[Peer(s)]' = sendNo[Peer(s)]
    BY <1>1, <2>1
  <2>3. QED
    BY <1>1, <1>2, <2>2, SameCovering
<1>4. CASE t = Peer(s)
  <2>1. Peer(t) = s
    BY <1>4
  <2> DEFINE q == wire[s][c]
             pkg == Carry(t, sendNo[t]')
  <2>2. wire[s][c]' = Append(q, pkg)
    BY <1>1, <1>2, <1>4, <2>1
  <2>3. q \in Seq(Package)
    BY <1>0 DEF TypeOK
  <2>4. /\ Len(Append(q, pkg)) = Len(q) + 1
        /\ Append(q, pkg)[Len(q) + 1] = pkg
        /\ \A i \in 1 .. Len(q) : Append(q, pkg)[i] = q[i]
        /\ Len(q) \in Nat
    BY <2>3, <1>1
  <2>5. Numbers(s, c)' = {Append(q, pkg)[i].no : i \in 1 .. (Len(q) + 1)}
    BY <2>2, <2>4 DEF Numbers
  <2>6. Numbers(s, c) \subseteq Numbers(s, c)'
    <3>1. SUFFICES ASSUME NEW i \in 1 .. Len(q) PROVE q[i].no \in Numbers(s, c)'
      BY DEF Numbers
    <3>2. i \in 1 .. (Len(q) + 1) /\ Append(q, pkg)[i] = q[i]
      BY <2>4
    <3>3. QED
      BY <3>2, <2>5
  <2>7. sendNo[t] + 1 \in Numbers(s, c)'
    <3>1. Len(q) + 1 \in 1 .. (Len(q) + 1)
      BY <2>4
    <3>2. QED
      BY <3>1, <2>4, <2>5, <1>1
  <2>8. sendNo[Peer(s)]' = sendNo[t] + 1 /\ sendNo[t] \in Nat /\ recvNo[s] \in Nat
    BY <1>0, <1>1, <1>4 DEF TypeOK
  <2>9. (recvNo[s]' + 1) .. sendNo[Peer(s)]' \subseteq Numbers(s, c)'
    <3>1. SUFFICES ASSUME NEW n \in (recvNo[s] + 1) .. (sendNo[t] + 1)
                   PROVE  n \in Numbers(s, c)'
      BY <1>1, <2>8
    <3>2. n = sendNo[t] + 1 \/ n \in (recvNo[s] + 1) .. sendNo[t]
      BY <2>8
    <3>3. QED
      BY <3>2, <1>2, <1>4, <2>6, <2>7
  <2>10. QED
    BY <1>1, <1>2, <2>9 DEF Covers
<1>5. QED
  BY <1>3, <1>4 DEF Side, Peer

LEMMA PopKeepsCovering ==
  ASSUME AggrInv, NEW t \in Side, NEW d \in Channels, Pop(t, d),
         NEW s \in Side, NEW c \in Channels, Covers(s, c)
  PROVE  Covers(s, c)'
<1> USE Sides
<1>0. TypeOK /\ Numbered
  BY DEF AggrInv
<1>1. /\ UNCHANGED <<broken, lowers, sendNo>>
      /\ \A u \in Side, e \in Channels :
           u # t \/ e # d => wire[u][e]' = wire[u][e]
      /\ \A u \in Side : u # t => recvNo[u]' = recvNo[u]
      /\ wire[t][d]' = Tail(wire[t][d]) /\ 1 \in 1 .. Len(wire[t][d])
      /\ \/ wire[t][d][1].no = recvNo[t] + 1 /\ recvNo[t]' = recvNo[t] + 1
         \/ wire[t][d][1].no # recvNo[t] + 1 /\ recvNo[t]' = recvNo[t]
  BY <1>0, PopEffect
<1>2. /\ c \in lowers[s] /\ c \in lowers[Peer(s)] /\ c \notin broken
      /\ (recvNo[s] + 1) .. sendNo[Peer(s)] \subseteq Numbers(s, c)
      /\ recvNo[s] \in Nat /\ sendNo[Peer(s)] \in Nat
  BY <1>0 DEF Covers, TypeOK
<1>3. CASE t # s \/ d # c
  <2>1. wire[s][c]' = wire[s][c]
    BY <1>1, <1>3
  <2>2. recvNo[s]' = recvNo[s] \/ recvNo[s]' = recvNo[s] + 1
    BY <1>1
  <2>3. (recvNo[s]' + 1) .. sendNo[Peer(s)]' \subseteq (recvNo[s] + 1) .. sendNo[Peer(s)]
    BY <1>1, <1>2, <2>2
  <2>4. QED
    BY <1>1, <1>2, <2>1, <2>3, SameCovering
<1>4. CASE t = s /\ d = c
  <2> DEFINE q == wire[s][c]
  <2>1. q \in Seq(Package) /\ wire[s][c]' = Tail(q) /\ 1 \in 1 .. Len(q)
    BY <1>0, <1>1, <1>4 DEF TypeOK
  <2>2. /\ Len(Tail(q)) = Len(q) - 1 /\ Len(q) \in Nat
        /\ \A i \in 1 .. (Len(q) - 1) : Tail(q)[i] = q[i + 1]
    BY <2>1
  <2>3. ASSUME NEW n \in (recvNo[s]' + 1) .. sendNo[Peer(s)]' PROVE n \in Numbers(s, c)'
    <3>1. n \in (recvNo[s] + 1) .. sendNo[Peer(s)]
      BY <1>1, <1>2, <1>4
    <3>2. PICK i \in 1 .. Len(q) : n = q[i].no
      BY <3>1, <1>2 DEF Numbers
    <3>3. i # 1
      <4>1. SUFFICES ASSUME q[1].no = n PROVE FALSE
        BY <3>2
      <4>2. recvNo[s] + 1 = n \/ recvNo[s] + 1 < n
        BY <3>1, <1>2
      <4>3. CASE recvNo[s] + 1 = n
        BY <4>1, <4>3, <1>1, <1>2, <1>4
      <4>4. CASE recvNo[s] + 1 < n
        <5>1. recvNo[s] + 1 \in (recvNo[s] + 1) .. sendNo[Peer(s)]
          BY <4>4, <3>1, <1>2
        <5>2. PICK j \in 1 .. Len(q) : q[j].no = recvNo[s] + 1
          BY <5>1, <1>2 DEF Numbers
        <5>3. j # 1
          BY <5>2, <4>1, <4>4, <1>2
        <5>4. 1 < j
          BY <5>3, <2>2
        <5>5. q[1].no < q[j].no
          BY <5>4, <2>1, <1>0 DEF Numbered
        <5>6. QED
          BY <5>2, <5>5, <4>1, <4>4, <1>2
      <4>5. QED
        BY <4>2, <4>3, <4>4
    <3>4. i - 1 \in 1 .. (Len(q) - 1) /\ (i - 1) + 1 = i
      BY <3>3, <2>2
    <3>5. Tail(q)[i - 1].no = n
      BY <3>4, <3>2, <2>2
    <3>6. QED
      BY <3>4, <3>5, <2>1, <2>2 DEF Numbers
  <2>4. QED
    BY <1>1, <1>2, <2>3 DEF Covers
<1>5. QED
  BY <1>3, <1>4

LEMMA LossKeepsCovering ==
  ASSUME AggrInv, NEW t \in Side, NEW d \in Channels, Break(d) \/ RemoveSession(t, d),
         NEW s \in Side, NEW c \in Channels, Covers(s, c), c \notin broken'
  PROVE  Covers(s, c)'
<1> USE Sides
<1>0. TypeOK
  BY DEF AggrInv
<1>1. c \in lowers[s] /\ c \in lowers[Peer(s)] /\ c \notin broken
  BY DEF Covers
<1>2. CASE Break(d)
  <2>1. /\ UNCHANGED <<lowers, sendNo, recvNo>>
        /\ broken' = broken \cup {d}
        /\ \A u \in Side, e \in Channels : e # d => wire[u][e]' = wire[u][e]
    BY <1>0, <1>2, BreakEffect
  <2>2. d # c
    BY <2>1
  <2>3. QED
    BY <1>1, <2>1, <2>2, SameCovering
<1>3. CASE RemoveSession(t, d)
  <2>1. /\ UNCHANGED broken /\ d \in broken
        /\ \A u \in Side, e \in Channels :
             u # t \/ e # d => wire[u][e]' = wire[u][e]
        /\ lowers[t]' = lowers[t] \ {d}
        /\ \A u \in Side : u # t => lowers[u]' = lowers[u]
        /\ \A u \in Side :
             \/ sendNo[u]' = sendNo[u] /\ recvNo[u]' = recvNo[u]
             \/ lowers[u]' = {}
    BY <1>0, <1>3, RemoveSessionEffect
  <2>2. d # c /\ wire[s][c]' = wire[s][c]
    BY <1>1, <2>1
  <2>3. c \in lowers[s]' /\ c \in lowers[Peer(s)]'
    BY <1>1, <2>1, <2>2
  <2>4. recvNo[s]' = recvNo[s] /\ sendNo[Peer(s)]' = sendNo[Peer(s)]
    BY <2>1, <2>3
  <2>5. QED
    BY <2>2, <2>3, <2>4, SameCovering
<1>4. QED
  BY <1>2, <1>3

LEMMA StepKeepsCovering ==
  ASSUME AggrInv, [Next]_vars, NEW s \in Side, NEW c \in Channels, Covers(s, c), c \notin broken'
  PROVE  Covers(s, c)'
<1> USE Sides
<1>1. CASE UNCHANGED vars
  <2>1. UNCHANGED <<wire, broken, lowers, sendNo, recvNo>>
    BY <1>1 DEF vars, counters
  <2>2. QED
    BY <2>1 DEF Covers, Numbers
<1>2. ASSUME NEW d \in Channels, CreateSession(d) \/ HandleLogin(d) PROVE Covers(s, c)'
  BY <1>2, JoinKeepsCovering
<1>3. ASSUME NEW d \in Channels, Break(d) PROVE Covers(s, c)'
  BY <1>3, LossKeepsCovering
<1>4. ASSUME NEW t \in Side, Send(t) PROVE Covers(s, c)'
  BY <1>4, SendKeepsCovering
<1>5. ASSUME NEW t \in Side, NEW d \in Channels, Pop(t, d) PROVE Covers(s, c)'
  BY <1>5, PopKeepsCovering
<1>6. ASSUME NEW t \in Side, NEW d \in Channels, RemoveSession(t, d) PROVE Covers(s, c)'
  BY <1>6, LossKeepsCovering
<1>7. QED
  BY <1>1, <1>2, <1>3, <1>4, <1>5, <1>6 DEF Next

(* A channel that covers the session goes on covering it until it breaks     *)
(* itself, whatever the others bring, lose or overtake.                      *)
THEOREM CoveringKept == Spec => KeepsCovering
<1>1. AggrInv /\ [Next]_vars =>
        [\A s \in Side, c \in Channels :
           Covers(s, c) /\ c \notin broken' => Covers(s, c)']_vars
  BY StepKeepsCovering
<1>2. QED
  BY <1>1, AggrInvariance, PTL DEF Spec, KeepsCovering

-----------------------------------------------------------------------------
(* The listening side's aggregation comes into being with a login only, and *)
(* then both sides' counters agree with what is on the channel.             *)

LEMMA OnlyLoginOpens ==
  ASSUME AggrInv, [Next]_vars, NEW c \in Channels,
         lowers["listener"] = {}, lowers["listener"]' = {c}
  PROVE  HandleLogin(c)
<1> USE Sides
<1> DEFINE p == "listener"
<1>0. TypeOK /\ p # "connecter"
  BY DEF AggrInv
<1>1. lowers[p]' # lowers[p]
  OBVIOUS
<1>2. ~ UNCHANGED vars
  BY <1>1 DEF vars
<1>3. ASSUME NEW d \in Channels PROVE ~ CreateSession(d) /\ ~ Break(d)
  <2>1. CreateSession(d) => lowers[p]' = lowers[p]
    BY <1>0 DEF CreateSession, AddSession, TypeOK
  <2>2. Break(d) => lowers[p]' = lowers[p]
    BY DEF Break
  <2>3. QED
    BY <1>1, <2>1, <2>2
<1>4. ASSUME NEW t \in Side PROVE ~ Send(t)
  BY <1>1 DEF Send
<1>5. ASSUME NEW t \in Side, NEW d \in Channels PROVE ~ Pop(t, d) /\ ~ RemoveSession(t, d)
  <2>1. Pop(t, d) => lowers[p]' = lowers[p]
    BY DEF Pop
  <2>2. RemoveSession(t, d) => lowers[p]' \subseteq lowers[p]
    BY <1>0 DEF RemoveSession, TypeOK
  <2>3. c \notin lowers[p] /\ c \in lowers[p]'
    OBVIOUS
  <2>4. QED
    BY <1>1, <2>1, <2>2, <2>3
<1>6. PICK d \in Channels : HandleLogin(d)
  BY <1>2, <1>3, <1>4, <1>5 DEF Next
<1>7. lowers[p]' = {d}
  BY <1>0, <1>6 DEF HandleLogin, AddSession, TypeOK
<1>8. QED
  BY <1>6, <1>7

LEMMA FreshChannelCovers ==
  ASSUME AggrInv, [Next]_vars, NEW c \in Channels,
         lowers["listener"] = {}, lowers["listener"]' = {c},
         Joined("connecter") = {c}, c \notin broken, NEW s \in Side
  PROVE  Covers(s, c)'
<1> USE Sides
<1> DEFINE p == "listener"
           q == wire[p][c]
<1>0. TypeOK /\ Members /\ Logins /\ Numbered /\ Opened
  BY DEF AggrInv
<1>1. HandleLogin(c)
  BY OnlyLoginOpens
<1>2. /\ UNCHANGED <<broken, sendNo, recvNo>>
      /\ q # <<>> /\ Head(q).type = "login"
      /\ wire' = [wire EXCEPT ![p][c] = Tail(@)]
      /\ lowers["connecter"]' = lowers["connecter"]
  BY <1>0, <1>1 DEF HandleLogin, AddSession, counters, TypeOK
<1>3. /\ q \in Seq(Package) /\ 1 \in 1 .. Len(q) /\ Head(q) = q[1]
      /\ Len(Tail(q)) = Len(q) - 1 /\ Len(q) \in Nat
      /\ \A i \in 1 .. (Len(q) - 1) : Tail(q)[i] = q[i + 1]
  BY <1>0, <1>2 DEF TypeOK
<1>4. wire[p][c]' = Tail(q)
  BY <1>0, <1>2 DEF TypeOK
<1>5. q[1].no = 0 /\ mark[p][c] = 0
  BY <1>0, <1>2, <1>3 DEF Logins
<1>6. mark["connecter"][c] > 0
  BY <1>0, <1>3 DEF Numbered
<1>7. c \in lowers["connecter"] /\ c \notin broken
  BY <1>0, <1>2, <1>6 DEF Members
<1>8. recvNo[p] = 0 /\ sendNo[p] = 0 /\ recvNo["connecter"] \in Nat /\ sendNo["connecter"] \in Nat
  BY <1>0 DEF TypeOK
<1>9. c \in lowers[s]' /\ c \in lowers[Peer(s)]' /\ c \notin broken'
  <2>1. c \in lowers[p]' /\ c \in lowers["connecter"]'
    BY <1>2, <1>7
  <2>2. QED
    BY <2>1, <1>2, <1>7 DEF Side, Peer
<1>10. CASE s = "connecter"
  <2>1. sendNo[Peer(s)]' = 0 /\ recvNo[s]' \in Nat
    BY <1>2, <1>8, <1>10
  <2>2. (recvNo[s]' + 1) .. sendNo[Peer(s)]' = {}
    BY <2>1
  <2>3. QED
    BY <1>9, <2>2 DEF Covers
<1>11. CASE s = p
  <2>1. recvNo[s]' + 1 = 1 /\ sendNo[Peer(s)]' = sendNo["connecter"]
    BY <1>2, <1>8, <1>11
  <2>2. 1 .. sendNo["connecter"] \subseteq Numbers(p, c)
    BY <1>0, <1>5, <1>7 DEF Opened
  <2>3. ASSUME NEW n \in 1 .. sendNo["connecter"] PROVE n \in Numbers(p, c)'
    <3>1. PICK i \in 1 .. Len(q) : n = q[i].no
      BY <2>2 DEF Numbers
    <3>2. i # 1
      BY <3>1, <1>5
    <3>3. i - 1 \in 1 .. (Len(q) - 1) /\ (i - 1) + 1 = i
      BY <3>2, <1>3
    <3>4. Tail(q)[i - 1].no = n
      BY <3>1, <3>3, <1>3
    <3>5. QED
      BY <3>3, <3>4, <1>3, <1>4 DEF Numbers
  <2>4. QED
    BY <1>9, <1>11, <2>1, <2>3 DEF Covers
<1>12. QED
  BY <1>10, <1>11 DEF Side

(* The channel that opens the aggregation on both sides covers both          *)
(* directions: with CoveringKept, a single channel that lives is enough.     *)
THEOREM FreshPairCovered == Spec => FreshPairCovers
<1>1. AggrInv /\ [Next]_vars =>
        [\A c \in Channels :
           /\ lowers["listener"] = {} /\ lowers'["listener"] = {c}
           /\ Joined("connecter") = {c}
           /\ c \notin broken
           => \A s \in Side : Covers(s, c)']_vars
  BY FreshChannelCovers
<1>2. QED
  BY <1>1, AggrInvariance, PTL DEF Spec, FreshPairCovers
=============================================================================
