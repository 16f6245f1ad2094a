-------------------------- MODULE HotStandbyProofs --------------------------
(***************************************************************************)
(* Proofs about the hot-standby pair, for any number of messages, exits    *)
(* and broken links.                                                       *)
(***************************************************************************)
EXTENDS HotStandby, SequenceTheorems, FiniteSetTheorems, TLAPS

-----------------------------------------------------------------------------
(* The inductive invariant.                                                *)

Active == {"single", "primary"}
Standby == {"prepare", "secondary"}
Text == 1 .. MaxMessages
Package == [tid : {"loginReq", "confirmRsp"}, no : Nat]
             \union [tid : {"loginError", "lost"}]
             \union [tid : {"confirmReq"}, no : Nat, msg : Text]

Shape ==
  /\ alive \in [Node -> BOOLEAN] /\ comp \in [Node -> CompState]
  /\ pre \in [Node -> Seq(Text)] /\ handled \in [Node -> Seq(Text)]
  /\ under \in [Node -> Nat] /\ solo \in [Node -> Nat]
  /\ ack \in [Node -> Nat] /\ published \in [Node -> Nat]
  /\ noAckSeries \in [Node -> Int] /\ noAckResult \in [Node -> Int]
  /\ kpc \in [Node -> {"run", "redo", "confirm", "register"}]
  /\ hotline \in [Node -> BOOLEAN] /\ attached \in [Node -> Int]
  /\ wire \in [Node -> Seq(Package)]
  /\ arb \in [Node -> BOOLEAN] /\ timer \in [Node -> BOOLEAN] /\ reset \in [Node -> BOOLEAN]
  /\ prepareFlag \in [Node -> BOOLEAN] /\ cmd \in [Node -> Command \union {"none"}]
  /\ guard \in [leader : Node \union {NoNode}, paired : BOOLEAN, failed : BOOLEAN, ok : BOOLEAN]
  /\ fresh \in 0 .. MaxMessages /\ lossy \in BOOLEAN

\* The entry in CPubFlow has both its words or none.
Lengths ==
  \A n \in Node :
    /\ solo[n] <= under[n] /\ under[n] <= Count(n)
    /\ ack[n] <= Count(n) /\ attached[n] \in -1 .. Count(n)
    /\ Len(handled[n]) <= Count(n) /\ published[n] <= Len(handled[n])
    /\ noAckSeries[n] \in -1 .. Count(n) /\ noAckResult[n] \in -1 .. Len(handled[n])
    /\ noAckSeries[n] = -1 <=> noAckResult[n] = -1

\* Which states and commands the two nodes and the guard can be in together.
Roles ==
  \A n \in Node : LET p == Peer(n) IN
    /\ comp[n] \in Standby => comp[p] \in Active \union {"init"}
    /\ comp[n] \in Active => comp[p] # comp[n]
    /\ comp[n] = "single" => guard.leader = n
    /\ comp[n] = "prepare" => guard.leader = p
    /\ comp[n] = "primary" /\ guard.paired => guard.leader = n
    /\ cmd[n] = "single" =>
         /\ guard.leader = n
         /\ \/ comp[n] = "init" /\ comp[p] = "init" /\ cmd[p] = "none"
            \/ /\ comp[n] \in {"primary", "secondary"} /\ comp[p] # "single"
               /\ ~guard.paired /\ cmd[p] \in {"none", "down"}
    /\ cmd[n] = "prepare" =>
         /\ comp[n] = "init" /\ comp[p] \in {"single", "init"} /\ cmd[p] = "none"
         /\ guard.leader = p
    /\ cmd[n] = "primary" => comp[n] = "single" /\ comp[p] # "primary"
    /\ cmd[n] = "secondary" => comp[n] = "prepare"
    /\ cmd[n] = "down" => comp[n] \in {"prepare", "primary", "secondary"}
    /\ ~alive[n] => comp[n] = "init" /\ cmd[n] = "none"

\* Who confirms nothing has persisted everything, a SINGLE node what it has
\* confirmed alone.
Persisting ==
  \A n \in Node :
    /\ (comp[n] \in Standby \/ (comp[n] = "init" /\ alive[n])) => under[n] = Count(n)
    /\ comp[n] = "single" => under[n] = solo[n]

\* Nothing follows the end of a session, nothing is left of it when the node has
\* seen it, and a standby is sent nothing but messages.
Sessions ==
  \A n \in Node :
    /\ ~hotline[n] => wire[n] = <<>> /\ attached[n] = -1
    /\ comp[n] = "init" => ~hotline[n]
    /\ comp[n] \in Standby => attached[n] = -1
    /\ \A i \in 1 .. Len(wire[n]) :
         /\ wire[n][i].tid = "lost" => i = Len(wire[n])
         /\ comp[n] \in Standby => wire[n][i].tid \in {"confirmReq", "loginError", "lost"}

\* What is on its way to a standby goes on where its series ends.
Numbered(n) ==
  \A i \in 1 .. Len(wire[n]) : wire[n][i].tid = "confirmReq" =>
    /\ wire[n][i].no = Count(n) + i
    /\ \A j \in 1 .. i : wire[n][j].tid = "confirmReq"

Genuine(n, p) ==
  \A i \in 1 .. Len(wire[n]) : wire[n][i].tid = "confirmReq" =>
    /\ wire[n][i].no <= Count(p)
    /\ ~lossy => wire[n][i].msg = pre[p][wire[n][i].no]

\* ... as long as the session is up: that of the flow attached, or of the login.
Attachment(n, p) ==
  /\ attached[p] # -1 =>
       /\ \A i \in 1 .. Len(wire[n]) : wire[n][i].tid = "confirmReq"
       /\ attached[p] = Count(n) + Len(wire[n])
  /\ \A i \in 1 .. Len(wire[p]) : wire[p][i].tid = "loginReq" =>
       /\ Len(wire[p]) = 1 /\ wire[p][i].no = Count(n)
       /\ wire[n] = <<>> /\ attached[p] = -1

Feeding ==
  \A n \in Node : comp[n] \in Standby =>
    /\ Numbered(n)
    /\ comp[Peer(n)] \in Active => Genuine(n, Peer(n))
    /\ LinkUp => Attachment(n, Peer(n))

\* The first k messages of two series are the same.
Common(s, t, k) == k <= Len(s) /\ k <= Len(t) /\ \A i \in 1 .. k : s[i] = t[i]
Agree(n, k) == Common(pre[n], pre[Peer(n)], k)

\* What a standby has answered for is persisted there.
Answered ==
  \A n \in Node : \A i \in 1 .. Len(wire[n]) : wire[n][i].tid = "confirmRsp" =>
    /\ wire[n][i].no > 0 /\ wire[n][i].no <= Count(n) /\ wire[n][i].no <= under[Peer(n)]
    /\ ~lossy => Agree(n, wire[n][i].no)

\* Whoever is active, and whom the guard takes for it, has what the other node
\* will come back with.
Ahead ==
  ~lossy => \A n \in Node : LET p == Peer(n) IN
    /\ comp[n] \in Standby /\ comp[p] \in Active => Agree(n, Count(n))
    /\ comp[n] \in Active /\ comp[p] = "init" /\ guard.leader = n => Agree(n, under[p])
    /\ comp[n] = "single" /\ comp[p] = "primary" => Agree(n, under[p])

\* What n has persisted since it confirmed alone, its peer has persisted, even
\* when n is gone.
Covered ==
  \A n \in Node : LET p == Peer(n) IN
    (comp[n] = "primary" \/ comp[p] \in Standby \/ cmd[p] = "prepare") /\ under[n] > solo[n] =>
      /\ under[n] <= under[p]
      /\ ~lossy => Agree(n, under[n])

PairInv ==
  /\ Shape /\ Lengths /\ Roles /\ Persisting
  /\ Sessions /\ Feeding /\ Answered /\ Ahead /\ Covered

-----------------------------------------------------------------------------
(* Two nodes, packages, and common beginnings.                             *)

LEMMA Peers ==
  \A n \in Node : /\ Peer(n) \in Node /\ Peer(n) # n /\ Peer(Peer(n)) = n
                  /\ \A m \in Node : m = n \/ m = Peer(n)
<1> SUFFICES ASSUME NEW n \in Node
             PROVE  /\ Peer(n) \in Node /\ Peer(n) # n /\ Peer(Peer(n)) = n
                    /\ \A m \in Node : m = n \/ m = Peer(n)
  OBVIOUS
<1>1. IsFiniteSet(Node \ {n}) /\ Cardinality(Node \ {n}) = 1
  BY TwoNodes, FS_RemoveElement
<1>2. PICK p : Node \ {n} = {p}
  BY <1>1, FS_Singleton
<1>3. Node = {n, p} /\ n # p
  BY <1>2
<1>4. Peer(n) = p /\ Peer(p) = n
  BY <1>3 DEF Peer
<1>5. QED
  BY <1>3, <1>4

LEMMA Packages ==
  /\ \A x \in Package : /\ x.tid \in {"loginReq", "loginError", "confirmReq", "confirmRsp", "lost"}
                        /\ x.tid \in {"loginReq", "confirmReq", "confirmRsp"} => x.no \in Nat
                        /\ x.tid = "confirmReq" => x.msg \in Text
  /\ \A k \in Nat : LoginReq(k) \in Package /\ LoginReq(k).tid = "loginReq" /\ LoginReq(k).no = k
  /\ \A k \in Nat : ConfirmRsp(k) \in Package /\ ConfirmRsp(k).tid = "confirmRsp"
                    /\ ConfirmRsp(k).no = k
  /\ \A k \in Nat, m \in Text :
       /\ ConfirmReq(k, m) \in Package /\ ConfirmReq(k, m).tid = "confirmReq"
       /\ ConfirmReq(k, m).no = k /\ ConfirmReq(k, m).msg = m
  /\ LoginError \in Package /\ LoginError.tid = "loginError"
  /\ Lost \in Package /\ Lost.tid = "lost"
BY DEF Package, LoginReq, ConfirmRsp, ConfirmReq, LoginError, Lost

LEMMA CommonLess ==
  ASSUME NEW s, NEW t, NEW k \in Nat, NEW j \in Nat, j <= k, Len(s) \in Nat, Len(t) \in Nat,
         Common(s, t, k)
  PROVE  Common(s, t, j)
BY DEF Common

LEMMA CommonSwap ==
  ASSUME NEW s, NEW t, NEW k, Common(s, t, k)
  PROVE  Common(t, s, k)
BY DEF Common

LEMMA CommonSelf ==
  ASSUME NEW s, NEW k, k <= Len(s)
  PROVE  Common(s, s, k)
BY DEF Common

LEMMA CommonVia ==
  ASSUME NEW s, NEW t, NEW u, NEW k, Common(s, t, k), Common(t, u, k)
  PROVE  Common(s, u, k)
BY DEF Common

LEMMA CommonAppend ==
  ASSUME NEW S, NEW s \in Seq(S), NEW x \in S
  PROVE  Common(s, Append(s, x), Len(s))
BY AppendProperties, LenProperties DEF Common

LEMMA CommonSubSeq ==
  ASSUME NEW S, NEW s \in Seq(S), NEW k \in 0 .. Len(s)
  PROVE  /\ SubSeq(s, 1, k) \in Seq(S) /\ Len(SubSeq(s, 1, k)) = k
         /\ Common(s, SubSeq(s, 1, k), k)
<1>1. Len(s) \in Nat /\ k \in Nat /\ \A i \in 1 .. k : s[i] \in S
  BY LenProperties, ElementOfSeq
<1>2. /\ SubSeq(s, 1, k) \in Seq(S)
      /\ Len(SubSeq(s, 1, k)) = IF 1 <= k THEN k - 1 + 1 ELSE 0
      /\ \A i \in 1 .. k - 1 + 1 : SubSeq(s, 1, k)[i] = s[1 + i - 1]
  BY <1>1, SubSeqProperties
<1>3. Len(SubSeq(s, 1, k)) = k
  BY <1>1, <1>2
<1>4. \A i \in 1 .. k : SubSeq(s, 1, k)[i] = s[i]
  BY <1>1, <1>2
<1>5. QED
  BY <1>1, <1>2, <1>3, <1>4 DEF Common

LEMMA PrefixIsCommon ==
  ASSUME NEW S, NEW s \in Seq(S), NEW t \in Seq(S)
  PROVE  IsPrefix(s, t) <=> Common(s, t, Len(s))
<1>1. Len(s) \in Nat /\ Len(t) \in Nat
  BY LenProperties
<1>2. ASSUME Len(s) <= Len(t)
      PROVE  SubSeq(s, 1, Len(s)) = SubSeq(t, 1, Len(s)) <=> \A i \in 1 .. Len(s) : s[i] = t[i]
  <2> DEFINE a == SubSeq(s, 1, Len(s))
             b == SubSeq(t, 1, Len(s))
  <2>1. a \in Seq(S) /\ Len(a) = Len(s) /\ \A i \in 1 .. Len(s) : a[i] = s[i]
    BY <1>1, CommonSubSeq DEF Common
  <2>2. b \in Seq(S) /\ Len(b) = Len(s) /\ \A i \in 1 .. Len(s) : b[i] = t[i]
    BY <1>1, <1>2, CommonSubSeq DEF Common
  <2>3. a = b <=> \A i \in 1 .. Len(s) : a[i] = b[i]
    BY <2>1, <2>2, SeqEqual
  <2> HIDE DEF a, b
  <2>4. a = b <=> \A i \in 1 .. Len(s) : s[i] = t[i]
    BY <2>1, <2>2, <2>3
  <2>5. QED
    BY <2>4 DEF a, b
<1>3. QED
  BY <1>1, <1>2 DEF IsPrefix, Common

-----------------------------------------------------------------------------
(* What the parts of the handlers do.                                      *)

LEMMA LostOnly == \A x \in Package : x.tid = "lost" => x = Lost
BY DEF Package, Lost

LEMMA NoneLost ==
  ASSUME Shape, LinkUp, NEW n \in Node
  PROVE  hotline[n] /\ \A i \in 1 .. Len(wire[n]) : wire[n][i].tid # "lost"
<1>1. hotline[n] /\ Lost \notin ToSet(wire[n])
  BY DEF LinkUp
<1>2. wire[n] \in Seq(Package)
  BY DEF Shape
<1>3. \A i \in 1 .. Len(wire[n]) : wire[n][i] \in Package /\ wire[n][i] # Lost
  BY <1>1, <1>2, ElementOfSeq, LenProperties DEF ToSet
<1>4. QED
  BY <1>1, <1>3, LostOnly

LEMMA TakeFacts ==
  ASSUME Shape, NEW n \in Node, wire[n] # <<>>
  PROVE  /\ Take(n) \in [Node -> Seq(Package)]
         /\ Len(wire[n]) \in Nat /\ Len(wire[n]) > 0
         /\ Len(Take(n)[n]) = Len(wire[n]) - 1
         /\ \A i \in 1 .. Len(wire[n]) - 1 : Take(n)[n][i] = wire[n][i + 1]
         /\ Take(n)[Peer(n)] = wire[Peer(n)]
         /\ Head(wire[n]) = wire[n][1] /\ Head(wire[n]) \in Package
<1>1. wire[n] \in Seq(Package) /\ wire \in [Node -> Seq(Package)]
  BY DEF Shape
<1>2. /\ Head(wire[n]) \in Package /\ Tail(wire[n]) \in Seq(Package)
      /\ Len(Tail(wire[n])) = Len(wire[n]) - 1
      /\ \A i \in 1 .. Len(Tail(wire[n])) : Tail(wire[n])[i] = wire[n][i + 1]
  BY <1>1, HeadTailProperties
<1>3. Len(wire[n]) \in Nat /\ Len(wire[n]) > 0 /\ Head(wire[n]) = wire[n][1]
  BY <1>1, EmptySeq, LenProperties
<1>4. Take(n)[n] = Tail(wire[n]) /\ Take(n)[Peer(n)] = wire[Peer(n)]
  BY <1>1, Peers DEF Take
<1>5. Take(n) \in [Node -> Seq(Package)]
  BY <1>1, <1>2 DEF Take
<1>6. QED
  BY <1>2, <1>3, <1>4, <1>5

LEMMA SentFacts ==
  ASSUME NEW s \in Seq(Package), NEW x \in Package
  PROVE  /\ Append(s, x) \in Seq(Package) /\ Len(Append(s, x)) = Len(s) + 1
         /\ \A i \in 1 .. Len(s) : Append(s, x)[i] = s[i]
         /\ Append(s, x)[Len(s) + 1] = x
BY AppendProperties

\* The answer is sent only while the session is up.
LEMMA AnswerFacts ==
  ASSUME Shape, NEW n \in Node, wire[n] # <<>>, NEW x \in Package, Answer(n, x)
  PROVE  /\ wire' \in [Node -> Seq(Package)]
         /\ wire'[n] = Take(n)[n]
         /\ wire'[Peer(n)] = IF LinkUp THEN Append(wire[Peer(n)], x) ELSE wire[Peer(n)]
<1>1. /\ Take(n) \in [Node -> Seq(Package)] /\ Take(n)[Peer(n)] = wire[Peer(n)]
      /\ Peer(n) \in Node /\ Peer(n) # n /\ wire[Peer(n)] \in Seq(Package)
  BY TakeFacts, Peers DEF Shape
<1>2. Append(wire[Peer(n)], x) \in Seq(Package)
  BY <1>1, SentFacts
<1>3. wire' = IF LinkUp THEN [Take(n) EXCEPT ![Peer(n)] = Append(wire[Peer(n)], x)] ELSE Take(n)
  BY <1>1 DEF Answer
<1>4. CASE LinkUp
  BY <1>1, <1>2, <1>3, <1>4
<1>5. CASE ~LinkUp
  BY <1>1, <1>3, <1>5
<1>6. QED
  BY <1>4, <1>5

\* A sequence cut short, with the end of the session behind it.
Cut(s, t) ==
  /\ t \in Seq(Package)
  /\ \E k \in 0 .. Len(s) :
       Len(t) = k + 1 /\ t[k + 1] = Lost /\ \A i \in 1 .. k : t[i] = s[i]

LEMMA CutFacts ==
  ASSUME NEW s \in Seq(Package), NEW k \in 0 .. Len(s)
  PROVE  Cut(s, Append(SubSeq(s, 1, k), Lost))
<1>1. /\ SubSeq(s, 1, k) \in Seq(Package) /\ Len(SubSeq(s, 1, k)) = k
      /\ \A i \in 1 .. k : SubSeq(s, 1, k)[i] = s[i]
  BY CommonSubSeq DEF Common
<1>2. Lost \in Package
  BY Packages
<1> DEFINE u == SubSeq(s, 1, k)
<1> HIDE DEF u
<1>3. Append(u, Lost) \in Seq(Package) /\ Len(Append(u, Lost)) = k + 1
      /\ Append(u, Lost)[k + 1] = Lost /\ \A i \in 1 .. k : Append(u, Lost)[i] = s[i]
  BY <1>1, <1>2, AppendProperties DEF u
<1>4. QED
  BY <1>3 DEF Cut, u

LEMMA ExitFacts ==
  ASSUME Shape, NEW n \in Node, Exit(n)
  PROVE  /\ wire' \in [Node -> Seq(Package)]
         /\ wire'[n] = <<>>
         /\ \/ wire'[Peer(n)] = wire[Peer(n)]
            \/ hotline[Peer(n)] /\ Lost \notin ToSet(wire[Peer(n)])
               /\ Cut(wire[Peer(n)], wire'[Peer(n)])
         /\ \A i \in 1 .. Len(wire'[n]) : FALSE
<1> DEFINE m == Peer(n)
<1>1. m \in Node /\ m # n /\ wire \in [Node -> Seq(Package)] /\ <<>> \in Seq(Package)
  BY Peers, EmptySeq DEF Shape
<1>2. CASE hotline[m] /\ Lost \notin ToSet(wire[m])
  <2>1. PICK kept \in 0 .. Len(wire[m]) :
          wire' = [wire EXCEPT ![n] = <<>>, ![m] = Append(SubSeq(@, 1, kept), Lost)]
    BY <1>2 DEF Exit
  <2>2. Cut(wire[m], Append(SubSeq(wire[m], 1, kept), Lost))
    BY <1>1, CutFacts
  <2>3. wire'[n] = <<>> /\ wire'[m] = Append(SubSeq(wire[m], 1, kept), Lost)
    BY <1>1, <2>1
  <2>4. Append(SubSeq(wire[m], 1, kept), Lost) \in Seq(Package)
    BY <2>2 DEF Cut
  <2>5. wire' \in [Node -> Seq(Package)]
    BY <1>1, <2>1, <2>4
  <2>6. QED
    BY <1>2, <2>2, <2>3, <2>5
<1>3. CASE ~(hotline[m] /\ Lost \notin ToSet(wire[m]))
  <2>1. wire' = [wire EXCEPT ![n] = <<>>]
    BY <1>3 DEF Exit
  <2>2. QED
    BY <1>1, <2>1
<1>4. QED
  BY <1>2, <1>3

\* CPubFlow releases its entry or leaves it, and knows k confirmed or what it
\* knew before.
Confirmed(n, k) ==
  /\ ack' \in [Node -> Nat] /\ published' \in [Node -> Nat]
  /\ noAckSeries' \in [Node -> Int] /\ noAckResult' \in [Node -> Int]
  /\ UNCHANGED <<ack[Peer(n)], published[Peer(n)], noAckSeries[Peer(n)], noAckResult[Peer(n)]>>
  /\ ack'[n] \in {ack[n], k}
  /\ published'[n] <= Len(handled[n])
  /\ \/ UNCHANGED <<noAckSeries[n], noAckResult[n]>>
     \/ noAckSeries'[n] = -1 /\ noAckResult'[n] = -1

LEMMA NothingConfirmed ==
  ASSUME Shape, Lengths, NEW n \in Node, NEW k, UNCHANGED pubflow
  PROVE  Confirmed(n, k)
BY DEF Shape, Lengths, Confirmed, pubflow

LEMMA EntryFacts ==
  ASSUME Shape, Lengths, NEW n \in Node, NEW k \in Nat, PubFlowConfirm(n, k)
  PROVE  Confirmed(n, k)
<1>1. /\ handled[n] \in Seq(Text) /\ Len(handled[n]) \in Nat
      /\ published \in [Node -> Nat] /\ published[n] <= Len(handled[n])
      /\ noAckSeries \in [Node -> Int] /\ noAckResult \in [Node -> Int]
      /\ Peer(n) \in Node /\ Peer(n) # n
      /\ ack' = [ack EXCEPT ![n] = k] /\ ack \in [Node -> Nat]
  BY Peers, LenProperties DEF Shape, Lengths, PubFlowConfirm
<1>2. CASE noAckSeries[n] >= 0 /\ noAckSeries[n] <= k
  <2>1. noAckResult[n] \in 0 .. Len(handled[n])
    BY <1>1, <1>2 DEF Lengths
  <2>2. Len(SubSeq(handled[n], 1, noAckResult[n])) = noAckResult[n]
    BY <1>1, <2>1, CommonSubSeq
  <2>3. /\ published' = [published EXCEPT ![n] = noAckResult[n]]
        /\ noAckResult' = [noAckResult EXCEPT ![n] = -1]
        /\ noAckSeries' = [noAckSeries EXCEPT ![n] = -1]
    BY <1>2, <2>2 DEF PubFlowConfirm, Publish
  <2>4. QED
    BY <1>1, <2>1, <2>3 DEF Confirmed
<1>3. CASE ~(noAckSeries[n] >= 0 /\ noAckSeries[n] <= k)
  BY <1>1, <1>3 DEF PubFlowConfirm, Confirmed
<1>4. QED
  BY <1>2, <1>3

LEMMA ConfirmKeyFacts ==
  ASSUME Shape, Lengths, NEW n \in Node, NEW k \in Int, k >= -1, ConfirmKey(n, k)
  PROVE  /\ under' \in [Node -> Nat] /\ under'[Peer(n)] = under[Peer(n)]
         /\ under'[n] = IF under[n] = k THEN k + 1 ELSE under[n]
         /\ Confirmed(n, k)
<1>1. under \in [Node -> Nat] /\ under[n] \in Nat /\ Peer(n) \in Node /\ Peer(n) # n
  BY Peers DEF Shape
<1>2. CASE k < under[n]
  BY <1>1, <1>2, NothingConfirmed DEF ConfirmKey
<1>3. CASE ~(k < under[n])
  <2>1. PubFlowConfirm(n, k) /\ under' = [under EXCEPT ![n] = IF @ = k THEN k + 1 ELSE @]
    BY <1>3 DEF ConfirmKey
  <2>2. k \in Nat
    BY <1>1, <1>3
  <2>3. Confirmed(n, k)
    BY <2>1, <2>2, EntryFacts
  <2>4. CASE under[n] = k
    BY <1>1, <2>1, <2>2, <2>3, <2>4
  <2>5. CASE under[n] # k
    BY <1>1, <2>1, <2>3, <2>5
  <2>6. QED
    BY <2>4, <2>5
<1>4. QED
  BY <1>2, <1>3

LEMMA ConfirmAllFacts ==
  ASSUME Shape, Lengths, NEW n \in Node, ConfirmAll(n)
  PROVE  /\ under' \in [Node -> Nat] /\ under'[Peer(n)] = under[Peer(n)]
         /\ under'[n] = Count(n)
         /\ Confirmed(n, Count(n) - 1)
<1>1. /\ under \in [Node -> Nat] /\ under[n] \in Nat /\ Peer(n) \in Node /\ Peer(n) # n
      /\ Count(n) \in Nat /\ under[n] <= Count(n)
  BY Peers, LenProperties DEF Shape, Lengths, Count
<1>2. CASE under[n] = Count(n)
  BY <1>1, <1>2, NothingConfirmed DEF ConfirmAll
<1>3. CASE under[n] # Count(n)
  <2> DEFINE k == Count(n) - 1
  <2>1. k \in Nat
    BY <1>1, <1>3
  <2>2. PubFlowConfirm(n, k) /\ under' = [under EXCEPT ![n] = Count(n)]
    BY <1>3 DEF ConfirmAll
  <2> HIDE DEF k
  <2>3. Confirmed(n, k)
    BY <2>1, <2>2, EntryFacts
  <2>4. QED
    BY <1>1, <2>2, <2>3 DEF k
<1>4. QED
  BY <1>2, <1>3

-----------------------------------------------------------------------------
(* Shape is kept.                                                          *)

LEMMA KernelShape ==
  ASSUME Shape, Lengths, NEW n \in Node, MatchingThread(n)
  PROVE  Shape'
<1> USE DEF flows, pubflow, links, control, bounds, history
<1>1. /\ alive' = alive /\ comp' = comp /\ UNCHANGED <<links, control>> /\ guard' = guard
      /\ lossy' = lossy
      /\ kpc' \in [Node -> {"run", "redo", "confirm", "register"}]
  BY DEF MatchingThread, EnterRedo, RedoNext, RedoReturn, RealDo, SelfConfirm, Register, Kernel, Shape
<1>2. /\ pre[n] \in Seq(Text) /\ handled[n] \in Seq(Text) /\ Len(pre[n]) \in Nat
      /\ Len(handled[n]) \in Nat /\ Len(handled[n]) <= Len(pre[n])
      /\ MaxMessages \in Nat /\ fresh \in Int
  BY LenProperties, StandbyBounds DEF Shape, Lengths, Count
<1>3. CASE EnterRedo(n) \/ RedoReturn(n)
  BY <1>1, <1>3 DEF EnterRedo, RedoReturn, Shape
<1>4. CASE RedoNext(n)
  <2>1. pre[n][Len(handled[n]) + 1] \in Text
    BY <1>2, <1>4, ElementOfSeq DEF RedoNext, Count
  <2>2. handled' \in [Node -> Seq(Text)]
    BY <1>2, <1>4, <2>1, AppendProperties DEF RedoNext, Shape
  <2>3. QED
    BY <1>1, <1>4, <2>2 DEF RedoNext, Shape
<1>5. CASE RealDo(n)
  <2>1. fresh' \in Text /\ fresh' \in 0 .. MaxMessages
    BY <1>2, <1>5 DEF RealDo, Shape, Text
  <2>2. handled' \in [Node -> Seq(Text)] /\ pre' \in [Node -> Seq(Text)]
    BY <1>2, <1>5, <2>1, AppendProperties DEF RealDo, Shape
  <2>3. QED
    BY <1>1, <1>5, <2>1, <2>2 DEF RealDo, Shape
<1>6. CASE SelfConfirm(n)
  <2>1. UNCHANGED <<pre, handled, fresh>>
    BY <1>6 DEF SelfConfirm
  <2>2. CASE UNCHANGED <<under, pubflow, solo>>
    BY <1>1, <2>1, <2>2 DEF Shape
  <2>4. CASE ConfirmAll(n) /\ solo' = [solo EXCEPT ![n] = Count(n)]
    <3>1. /\ under' \in [Node -> Nat] /\ ack' \in [Node -> Nat] /\ published' \in [Node -> Nat]
          /\ noAckSeries' \in [Node -> Int] /\ noAckResult' \in [Node -> Int]
      BY <2>4, ConfirmAllFacts DEF Confirmed
    <3>2. solo' \in [Node -> Nat]
      BY <1>2, <2>4 DEF Shape, Count
    <3>3. QED
      BY <1>1, <2>1, <3>1, <3>2 DEF Shape
  <2>5. QED
    BY <1>6, <2>2, <2>4 DEF SelfConfirm
<1>7. CASE Register(n)
  <2>1. UNCHANGED <<pre, under, handled, ack, fresh, solo>>
    BY <1>7 DEF Register
  <2>2. /\ published' \in [Node -> Nat]
        /\ noAckSeries' \in [Node -> Int] /\ noAckResult' \in [Node -> Int]
    <3>1. CASE Count(n) <= ack[n]
      <4>1. published' = [published EXCEPT ![n] = Len(handled[n])]
            /\ UNCHANGED <<noAckSeries, noAckResult>>
        BY <1>7, <3>1 DEF Register, Publish
      <4>2. QED
        BY <1>2, <4>1 DEF Shape
    <3>2. CASE ~(Count(n) <= ack[n])
      <4>1. /\ noAckSeries' = [noAckSeries EXCEPT ![n] = Len(pre[n])]
            /\ noAckResult' = [noAckResult EXCEPT ![n] = Len(handled[n])]
            /\ published' = published
        BY <1>7, <3>2 DEF Register, Count
      <4>2. QED
        BY <1>2, <4>1 DEF Shape
    <3>3. QED
      BY <3>1, <3>2
  <2>3. QED
    BY <1>1, <2>1, <2>2 DEF Shape
<1>8. QED
  BY <1>3, <1>4, <1>5, <1>6, <1>7 DEF MatchingThread

LEMMA ExitShape ==
  ASSUME Shape, NEW n \in Node, Exit(n)
  PROVE  Shape'
<1> USE DEF flows, pubflow, links, control, bounds, history
<1>1. wire' \in [Node -> Seq(Package)]
  BY ExitFacts
<1>2. alive' \in [Node -> BOOLEAN] /\ comp' \in [Node -> CompState]
      /\ cmd' \in [Node -> Command \union {"none"}]
  BY DEF Exit, Shape, CompState
<1>3. /\ hotline' \in [Node -> BOOLEAN] /\ arb' \in [Node -> BOOLEAN]
      /\ timer' \in [Node -> BOOLEAN] /\ reset' \in [Node -> BOOLEAN]
      /\ prepareFlag' \in [Node -> BOOLEAN]
  BY DEF Exit, Shape
<1>4. attached' \in [Node -> Int]
  BY DEF Exit, Shape
<1>5. UNCHANGED <<pre, handled, under, solo, ack, published, noAckSeries, noAckResult, kpc,
                  guard, fresh, lossy>>
  BY DEF Exit
<1>6. QED
  BY <1>1, <1>2, <1>3, <1>4, <1>5 DEF Shape

LEMMA TakeShape ==
  ASSUME Shape, NEW n \in Node, wire' = Take(n), wire[n] # <<>>
  PROVE  wire' \in [Node -> Seq(Package)]
BY TakeFacts

LEMMA GuardShape ==
  ASSUME Shape, NEW n \in Node,
         Notify(n, "hotlineFail") \/ Notify(n, "hotlineOk") \/ Notify(n, "prepareOk")
  PROVE  /\ guard' \in [leader : Node \union {NoNode}, paired : BOOLEAN, failed : BOOLEAN, ok : BOOLEAN]
         /\ guard'.leader = guard.leader /\ guard'.paired = guard.paired
BY DEF Shape, Notify

LEMMA SequencerShape ==
  ASSUME Shape, Lengths, NEW n \in Node, SequencerThread(n)
  PROVE  Shape'
<1> USE DEF flows, pubflow, links, control, bounds, history
<1>1. CASE PublishSend(n)
  <2>1. Len(pre[n]) \in Nat /\ attached[n] \in 0 .. Len(pre[n]) - 1 /\ attached \in [Node -> Int]
        /\ attached' = [attached EXCEPT ![n] = @ + 1]
    BY <1>1, LenProperties DEF PublishSend, Shape, Count
  <2>2. pre[n][attached[n] + 1] \in Text /\ attached[n] + 1 \in Nat
    <3>1. attached[n] + 1 \in 1 .. Len(pre[n])
      BY <2>1
    <3>2. pre[n] \in Seq(Text)
      BY DEF Shape
    <3>3. pre[n][attached[n] + 1] \in Text
      BY <3>1, <3>2, ElementOfSeq
    <3>4. QED
      BY <2>1, <3>3
  <2>3. ConfirmReq(attached[n] + 1, pre[n][attached[n] + 1]) \in Package
    BY <2>2, Packages
  <2>4. Append(wire[Peer(n)], ConfirmReq(attached[n] + 1, pre[n][attached[n] + 1])) \in Seq(Package)
    BY <2>3, Peers, SentFacts DEF Shape
  <2>5. wire' \in [Node -> Seq(Package)]
    BY <1>1, <2>4, Peers DEF PublishSend, Shape
  <2>6. attached' \in [Node -> Int]
    BY <2>1
  <2>7. QED
    BY <1>1, <2>5, <2>6 DEF PublishSend, Shape
<1>2. CASE ReceiveLoginReq(n)
  <2>1. wire[n] # <<>> /\ Head(wire[n]).tid = "loginReq"
    BY <1>2 DEF ReceiveLoginReq, Receive
  <2>2. Head(wire[n]).no \in Nat
    BY <2>1, TakeFacts, Packages
  <2>3. CASE attached' = [attached EXCEPT ![n] = Head(wire[n]).no] /\ wire' = Take(n)
    <3>1. attached' \in [Node -> Int]
      BY <2>2, <2>3 DEF Shape
    <3>2. wire' \in [Node -> Seq(Package)]
      BY <2>1, <2>3, TakeShape
    <3>3. QED
      BY <1>2, <3>1, <3>2 DEF ReceiveLoginReq, Shape
  <2>4. CASE Answer(n, LoginError) /\ attached' = attached
    <3>1. wire' \in [Node -> Seq(Package)]
      BY <2>1, <2>4, AnswerFacts, Packages
    <3>2. QED
      BY <1>2, <2>4, <3>1 DEF ReceiveLoginReq, Shape
  <2>5. QED
    BY <1>2, <2>3, <2>4 DEF ReceiveLoginReq
<1>3. CASE ReceiveLoginError(n) \/ Reset(n)
  BY <1>3, ExitShape DEF ReceiveLoginError, Reset
<1>4. CASE ReceiveConfirmReq(n)
  <2>1. wire[n] # <<>> /\ Head(wire[n]).tid = "confirmReq"
    BY <1>4 DEF ReceiveConfirmReq, Receive
  <2>2. Head(wire[n]).no \in Nat /\ Head(wire[n]).msg \in Text
    BY <2>1, TakeFacts, Packages
  <2>3. pre' \in [Node -> Seq(Text)]
    <3>1. Append(pre[n], Head(wire[n]).msg) \in Seq(Text)
      BY <2>2, AppendProperties DEF Shape
    <3>2. QED
      BY <1>4, <3>1 DEF ReceiveConfirmReq, Shape
  <2>4. /\ under' \in [Node -> Nat] /\ ack' \in [Node -> Nat] /\ published' \in [Node -> Nat]
        /\ noAckSeries' \in [Node -> Int] /\ noAckResult' \in [Node -> Int]
    <3>1. Count(n) \in Int /\ Count(n) >= -1 /\ ConfirmKey(n, Count(n))
      BY <1>4, LenProperties DEF ReceiveConfirmReq, Count, Shape
    <3>2. QED
      BY <3>1, ConfirmKeyFacts DEF Confirmed
  <2>5. wire' \in [Node -> Seq(Package)]
    <3>1. Answer(n, ConfirmRsp(Head(wire[n]).no)) /\ ConfirmRsp(Head(wire[n]).no) \in Package
      BY <1>4, <2>2, Packages DEF ReceiveConfirmReq
    <3>2. QED
      BY <2>1, <3>1, AnswerFacts
  <2>6. QED
    BY <1>4, <2>3, <2>4, <2>5 DEF ReceiveConfirmReq, Shape
<1>5. CASE ReceiveConfirmRsp(n)
  <2>1. wire[n] # <<>> /\ Head(wire[n]).tid = "confirmRsp" /\ wire' = Take(n)
        /\ ConfirmKey(n, Head(wire[n]).no - 1)
    BY <1>5 DEF ReceiveConfirmRsp, Receive
  <2>2. wire' \in [Node -> Seq(Package)]
    BY <2>1, TakeShape
  <2>3. /\ under' \in [Node -> Nat] /\ ack' \in [Node -> Nat] /\ published' \in [Node -> Nat]
        /\ noAckSeries' \in [Node -> Int] /\ noAckResult' \in [Node -> Int]
    <3>1. Head(wire[n]).no - 1 \in Int /\ Head(wire[n]).no - 1 >= -1
      BY <2>1, TakeFacts, Packages
    <3>2. QED
      BY <2>1, <3>1, ConfirmKeyFacts DEF Confirmed
  <2>4. QED
    BY <1>5, <2>2, <2>3 DEF ReceiveConfirmRsp, Shape
<1>6. CASE ReceivePrepareRsp(n)
  <2>1. wire' \in [Node -> Seq(Package)]
    BY <1>6, TakeShape DEF ReceivePrepareRsp, Receive
  <2>2. /\ guard' \in [leader : Node \union {NoNode}, paired : BOOLEAN, failed : BOOLEAN, ok : BOOLEAN]
        /\ prepareFlag' \in [Node -> BOOLEAN]
    <3>1. CASE Notify(n, "prepareOk") /\ prepareFlag' = [prepareFlag EXCEPT ![n] = TRUE]
      BY <3>1, GuardShape DEF Shape
    <3>2. CASE UNCHANGED <<guard, prepareFlag>>
      BY <3>2 DEF Shape
    <3>3. QED
      BY <1>6, <3>1, <3>2 DEF ReceivePrepareRsp
  <2>3. QED
    BY <1>6, <2>1, <2>2 DEF ReceivePrepareRsp, Shape
<1>7. CASE ReceiveIgnored(n)
  <2>1. wire' \in [Node -> Seq(Package)]
    BY <1>7, TakeShape DEF ReceiveIgnored, Receive
  <2>2. QED
    BY <1>7, <2>1 DEF ReceiveIgnored, Shape
<1>8. CASE ReceiveLost(n)
  <2>1. wire' \in [Node -> Seq(Package)]
    BY <1>8, TakeShape DEF ReceiveLost, Receive
  <2>2. guard' \in [leader : Node \union {NoNode}, paired : BOOLEAN, failed : BOOLEAN, ok : BOOLEAN]
    <3>1. CASE comp[n] = "prepare"
      BY <1>8, <3>1 DEF ReceiveLost, Shape
    <3>2. CASE comp[n] # "prepare"
      BY <1>8, <3>2, GuardShape DEF ReceiveLost
    <3>3. QED
      BY <3>1, <3>2
  <2>3. hotline' \in [Node -> BOOLEAN] /\ attached' \in [Node -> Int]
    <3>1. hotline' \in [Node -> BOOLEAN]
      BY <1>8 DEF ReceiveLost, Shape
    <3>2. attached' = [attached EXCEPT ![n] = -1] /\ attached \in [Node -> Int]
      BY <1>8 DEF ReceiveLost, Shape
    <3>3. attached' \in [Node -> Int]
      BY <3>2
    <3>4. QED
      BY <3>1, <3>3
  <2>4. /\ reset' \in [Node -> BOOLEAN] /\ timer' \in [Node -> BOOLEAN]
        /\ prepareFlag' \in [Node -> BOOLEAN]
    BY <1>8 DEF ReceiveLost, Shape
  <2>5. UNCHANGED <<alive, comp, flows, arb, cmd, solo, lossy>>
    BY <1>8 DEF ReceiveLost
  <2>6. QED
    BY <2>1, <2>2, <2>3, <2>4, <2>5 DEF Shape
<1>9. CASE HotlineTimer(n)
  <2>1. guard' \in [leader : Node \union {NoNode}, paired : BOOLEAN, failed : BOOLEAN, ok : BOOLEAN]
    BY <1>9, GuardShape DEF HotlineTimer
  <2>2. QED
    BY <1>9, <2>1 DEF HotlineTimer, Shape
<1>10. CASE EnterSingle(n)
  <2>1. /\ comp' \in [Node -> CompState] /\ prepareFlag' \in [Node -> BOOLEAN]
        /\ timer' \in [Node -> BOOLEAN] /\ cmd' \in [Node -> Command \union {"none"}]
    BY <1>10 DEF EnterSingle, Shape, CompState
  <2>2. Count(n) \in Nat /\ solo' = [solo EXCEPT ![n] = Count(n)] /\ ConfirmAll(n)
    BY <1>10, LenProperties DEF EnterSingle, Shape, Count
  <2>3. solo' \in [Node -> Nat] /\ lossy' \in BOOLEAN
    BY <1>10, <2>2 DEF EnterSingle, Shape
  <2>4. /\ under' \in [Node -> Nat] /\ ack' \in [Node -> Nat] /\ published' \in [Node -> Nat]
        /\ noAckSeries' \in [Node -> Int] /\ noAckResult' \in [Node -> Int]
    BY <2>2, ConfirmAllFacts DEF Confirmed
  <2>5. UNCHANGED <<alive, pre, handled, kpc, fresh, hotline, attached, wire, arb, reset, guard>>
    BY <1>10 DEF EnterSingle
  <2>6. QED
    BY <2>1, <2>3, <2>4, <2>5 DEF Shape
<1>11. CASE EnterPrepare(n) \/ EnterMaster(n) \/ EnterSlaver(n)
  BY <1>11 DEF EnterPrepare, EnterMaster, EnterSlaver, ChangeState, Shape, CompState
<1>12. CASE ForcedExit(n)
  BY <1>12 DEF ForcedExit, Shape
<1>13. CASE GuardLost(n)
  BY <1>13 DEF GuardLost, Shape
<1>14. CASE GuardConnected(n)
  BY <1>14 DEF GuardConnected, Shape
<1>15. QED
  BY <1>1, <1>2, <1>3, <1>4, <1>5, <1>6, <1>7, <1>8, <1>9, <1>10, <1>11, <1>12, <1>13, <1>14
     DEF SequencerThread

LEMMA RestartShape ==
  ASSUME Shape, Lengths, NEW n \in Node, Restart(n)
  PROVE  /\ Shape'
         /\ under' = under /\ pre'[Peer(n)] = pre[Peer(n)]
         /\ pre'[n] \in Seq(Text) /\ Len(pre'[n]) = under[n] /\ Common(pre[n], pre'[n], under[n])
         /\ ack'[n] = under[n] /\ ack'[Peer(n)] = ack[Peer(n)]
         /\ handled'[n] = pre'[n] /\ handled'[Peer(n)] = handled[Peer(n)]
         /\ published'[n] = under[n] /\ published'[Peer(n)] = published[Peer(n)]
         /\ noAckSeries'[n] = -1 /\ noAckResult'[n] = -1
         /\ noAckSeries'[Peer(n)] = noAckSeries[Peer(n)]
         /\ noAckResult'[Peer(n)] = noAckResult[Peer(n)]
<1> USE DEF flows, pubflow, links, control, bounds, history
<1>1. /\ pre \in [Node -> Seq(Text)] /\ handled \in [Node -> Seq(Text)] /\ under \in [Node -> Nat]
      /\ ack \in [Node -> Nat] /\ published \in [Node -> Nat]
      /\ noAckSeries \in [Node -> Int] /\ noAckResult \in [Node -> Int]
      /\ Peer(n) \in Node /\ Peer(n) # n
  BY Peers DEF Shape
<1>a. Len(pre[n]) \in Nat /\ under[n] \in 0 .. Len(pre[n])
  <2>1. Len(pre[n]) \in Nat /\ under[n] \in Nat
    BY <1>1, LenProperties
  <2>2. under[n] <= Len(pre[n])
    BY DEF Lengths, Count
  <2>3. QED
    BY <2>1, <2>2
<1> DEFINE kept == SubSeq(pre[n], 1, under[n])
<1>2. kept \in Seq(Text) /\ Len(kept) = under[n] /\ Common(pre[n], kept, under[n])
  BY <1>1, <1>a, CommonSubSeq
<1>3. /\ pre' = [pre EXCEPT ![n] = kept] /\ handled' = [handled EXCEPT ![n] = kept]
      /\ published' = [published EXCEPT ![n] = Len(kept)] /\ ack' = [ack EXCEPT ![n] = under[n]]
      /\ noAckSeries' = [noAckSeries EXCEPT ![n] = -1]
      /\ noAckResult' = [noAckResult EXCEPT ![n] = -1]
      /\ under' = under
  BY DEF Restart, Persisted, Publish
<1> HIDE DEF kept
<1>4. /\ alive' \in [Node -> BOOLEAN] /\ arb' \in [Node -> BOOLEAN]
      /\ kpc' \in [Node -> {"run", "redo", "confirm", "register"}]
  BY DEF Restart, Shape
<1>5. /\ pre' \in [Node -> Seq(Text)] /\ handled' \in [Node -> Seq(Text)]
      /\ published' \in [Node -> Nat] /\ ack' \in [Node -> Nat]
  BY <1>1, <1>2, <1>3
<1>6. noAckSeries' \in [Node -> Int] /\ noAckResult' \in [Node -> Int]
  BY <1>1, <1>3
<1>7. UNCHANGED <<under, solo, lossy, fresh, comp, links, timer, reset, prepareFlag, cmd, guard>>
  BY DEF Restart
<1>8. Shape'
  BY <1>4, <1>5, <1>6, <1>7 DEF Shape
<1>9. QED
  BY <1>1, <1>2, <1>3, <1>8

LEMMA ConnectShape ==
  ASSUME Shape, NEW n \in Node, HotlineConnect(n)
  PROVE  /\ Shape'
         /\ wire'[Peer(n)] \in {<<>>, <<LoginReq(Count(n))>>}
         /\ wire'[n] = wire[n]
<1> USE DEF flows, pubflow, links, control, bounds, history
<1>1. LoginReq(Count(n)) \in Package
  BY Packages, LenProperties DEF Shape, Count
<1>2. <<LoginReq(Count(n))>> \in Seq(Package) /\ <<>> \in Seq(Package)
  BY <1>1, EmptySeq
<1> DEFINE sent == IF comp[n] = "prepare" THEN <<LoginReq(Count(n))>> ELSE <<>>
<1>3. sent \in Seq(Package) /\ sent \in {<<>>, <<LoginReq(Count(n))>>}
  BY <1>2
<1>4. wire' = [wire EXCEPT ![Peer(n)] = sent] /\ wire \in [Node -> Seq(Package)]
  BY DEF HotlineConnect, Shape
<1> HIDE DEF sent
<1>5. wire' \in [Node -> Seq(Package)] /\ wire'[Peer(n)] = sent /\ wire'[n] = wire[n]
  BY <1>3, <1>4, Peers
<1>6. /\ guard' \in [leader : Node \union {NoNode}, paired : BOOLEAN, failed : BOOLEAN, ok : BOOLEAN]
      /\ hotline' \in [Node -> BOOLEAN] /\ timer' \in [Node -> BOOLEAN]
  BY DEF HotlineConnect, Shape
<1>7. UNCHANGED <<alive, comp, flows, attached, arb, reset, prepareFlag, cmd, solo, lossy>>
  BY DEF HotlineConnect
<1>8. QED
  BY <1>3, <1>5, <1>6, <1>7 DEF Shape

LEMMA BreakFacts ==
  ASSUME Shape, HotlineBreak
  PROVE  /\ Shape'
         /\ \A n \in Node : Cut(wire[n], wire'[n])
<1> USE DEF flows, pubflow, links, control, bounds, history
<1>1. PICK kept \in [Node -> 0 .. MaxMessages + 1] :
        /\ \A n \in Node : kept[n] <= Len(wire[n])
        /\ wire' = [n \in Node |-> Append(SubSeq(wire[n], 1, kept[n]), Lost)]
  BY DEF HotlineBreak
<1>2. \A n \in Node : Cut(wire[n], wire'[n])
  <2> TAKE n \in Node
  <2>1. wire[n] \in Seq(Package) /\ Len(wire[n]) \in Nat
    BY LenProperties DEF Shape
  <2>2. kept[n] \in 0 .. Len(wire[n])
    BY <1>1, <2>1, StandbyBounds
  <2>3. Cut(wire[n], Append(SubSeq(wire[n], 1, kept[n]), Lost))
    BY <2>1, <2>2, CutFacts
  <2>4. QED
    BY <1>1, <2>3
<1>3. wire' \in [Node -> Seq(Package)]
  <2>1. \A n \in Node : wire'[n] \in Seq(Package)
    BY <1>2 DEF Cut
  <2>2. wire' = [n \in Node |-> wire'[n]]
    BY <1>1
  <2>3. QED
    BY <2>1, <2>2
<1>4. QED
  BY <1>2, <1>3 DEF HotlineBreak, Shape

LEMMA CommandShape ==
  ASSUME Shape, NEW n \in Node, Guard(n)
  PROVE  Shape'
<1>1. NoNode \notin Node /\ Peer(n) \in Node
  BY TwoNodes, Peers
<1>2. cmd' \in [Node -> Command \union {"none"}]
  BY <1>1 DEF Guard, GuardStart, GuardPrepare, GuardPair, GuardPromote, Commands, Shape, Command
<1>3. guard' \in [leader : Node \union {NoNode}, paired : BOOLEAN, failed : BOOLEAN, ok : BOOLEAN]
  <2>1. CASE GuardStart(n)
    BY <1>1, <2>1 DEF GuardStart, Commands
  <2>2. CASE GuardPrepare(n)
    BY <2>2 DEF GuardPrepare, Commands, Shape
  <2>3. CASE GuardPair(n)
    BY <2>3 DEF GuardPair, Commands, Shape
  <2>4. CASE GuardPromote(n)
    BY <1>1, <2>4 DEF GuardPromote, Commands
  <2>5. QED
    BY <2>1, <2>2, <2>3, <2>4 DEF Guard
<1>4. UNCHANGED <<alive, comp, flows, links, arb, timer, reset, prepareFlag, solo, lossy>>
  BY DEF Guard, GuardStart, GuardPrepare, GuardPair, GuardPromote, Commands, history
<1>5. QED
  BY <1>2, <1>3, <1>4 DEF Shape, flows, pubflow, links

LEMMA ShapeNext ==
  ASSUME Shape, Lengths, [Next]_vars
  PROVE  Shape'
<1>1. CASE UNCHANGED vars
  BY <1>1 DEF Shape, vars, flows, pubflow, links, control, bounds, history
<1>2. ASSUME NEW n \in Node,
             MatchingThread(n) \/ SequencerThread(n) \/ Guard(n)
               \/ HotlineConnect(n) \/ Crash(n) \/ Restart(n)
      PROVE  Shape'
  BY <1>2, KernelShape, SequencerShape, CommandShape, ConnectShape, ExitShape, RestartShape DEF Crash
<1>3. CASE HotlineBreak
  BY <1>3, BreakFacts
<1>4. CASE GuardDissolve
  BY <1>4 DEF GuardDissolve, Shape, flows, pubflow, links, control, bounds, history
<1>5. QED
  BY <1>1, <1>2, <1>3, <1>4 DEF Next

-----------------------------------------------------------------------------
(* Which actions change what.                                              *)

LEMMA FrameSeries ==
  ASSUME [Next]_vars
  PROVE  \/ UNCHANGED <<pre, under, solo, lossy>>
         \/ \E n \in Node : \/ RealDo(n) \/ SelfConfirm(n) \/ ReceiveConfirmReq(n)
                            \/ ReceiveConfirmRsp(n) \/ EnterSingle(n) \/ Restart(n)
<1> USE DEF flows, pubflow, links, control, bounds, history
<1>1. CASE UNCHANGED vars
  BY <1>1 DEF vars
<1>2. ASSUME NEW n \in Node, MatchingThread(n), ~RealDo(n), ~SelfConfirm(n)
      PROVE  UNCHANGED <<pre, under, solo, lossy>>
  BY <1>2 DEF MatchingThread, EnterRedo, RedoNext, RedoReturn, Register, Kernel
<1>3. ASSUME NEW n \in Node, SequencerThread(n), ~ReceiveConfirmReq(n), ~ReceiveConfirmRsp(n),
             ~EnterSingle(n)
      PROVE  UNCHANGED <<pre, under, solo, lossy>>
  BY <1>3 DEF SequencerThread, PublishSend, ReceiveLoginReq, ReceiveLoginError, ReceivePrepareRsp,
              ReceiveIgnored, ReceiveLost, HotlineTimer, EnterPrepare, EnterMaster, EnterSlaver,
              ChangeState, ForcedExit, GuardLost, GuardConnected, Reset, Exit
<1>4. ASSUME NEW n \in Node, Guard(n) \/ HotlineConnect(n) \/ Crash(n)
      PROVE  UNCHANGED <<pre, under, solo, lossy>>
  BY <1>4 DEF Guard, GuardStart, GuardPrepare, GuardPair, GuardPromote, Commands, HotlineConnect,
              Crash, Exit
<1>5. CASE HotlineBreak \/ GuardDissolve
  BY <1>5 DEF HotlineBreak, GuardDissolve
<1>6. QED
  BY <1>1, <1>2, <1>3, <1>4, <1>5 DEF Next

LEMMA FrameRoles ==
  ASSUME [Next]_vars, Shape
  PROVE  \/ UNCHANGED <<alive, comp, cmd, guard.leader, guard.paired>>
         \/ \E n \in Node : \/ Exit(n) \/ EnterSingle(n) \/ EnterPrepare(n) \/ EnterMaster(n)
                            \/ EnterSlaver(n) \/ ForcedExit(n) \/ GuardLost(n) \/ Restart(n)
                            \/ Guard(n)
         \/ GuardDissolve
<1> USE DEF flows, pubflow, links, control, bounds, history
<1>1. CASE UNCHANGED vars
  BY <1>1 DEF vars
<1>2. ASSUME NEW n \in Node, MatchingThread(n)
      PROVE  UNCHANGED <<alive, comp, cmd, guard>>
  BY <1>2 DEF MatchingThread, EnterRedo, RedoNext, RedoReturn, RealDo, SelfConfirm, Register, Kernel
<1>3. ASSUME NEW n \in Node,
             \/ PublishSend(n) \/ ReceiveLoginReq(n) \/ ReceiveConfirmReq(n) \/ ReceiveConfirmRsp(n)
             \/ ReceiveIgnored(n) \/ GuardConnected(n)
      PROVE  UNCHANGED <<alive, comp, cmd, guard>>
  BY <1>3 DEF PublishSend, ReceiveLoginReq, ReceiveConfirmReq, ReceiveConfirmRsp,
              ReceiveIgnored, GuardConnected
<1>4. ASSUME NEW n \in Node, ReceivePrepareRsp(n) \/ ReceiveLost(n) \/ HotlineTimer(n)
      PROVE  UNCHANGED <<alive, comp, cmd, guard.leader, guard.paired>>
  <2>1. UNCHANGED <<alive, comp, cmd>>
    BY <1>4 DEF ReceivePrepareRsp, ReceiveLost, HotlineTimer
  <2>2. guard' = guard \/ Notify(n, "hotlineFail") \/ Notify(n, "prepareOk")
    BY <1>4 DEF ReceivePrepareRsp, ReceiveLost, HotlineTimer
  <2>3. QED
    BY <2>1, <2>2, GuardShape
<1>5. ASSUME NEW n \in Node, HotlineConnect(n)
      PROVE  UNCHANGED <<alive, comp, cmd, guard.leader, guard.paired>>
  BY <1>5 DEF HotlineConnect, Shape
<1>6. ASSUME NEW n \in Node, Crash(n) \/ Reset(n) \/ ReceiveLoginError(n)
      PROVE  Exit(n)
  BY <1>6 DEF Crash, Reset, ReceiveLoginError
<1>7. CASE HotlineBreak
  BY <1>7 DEF HotlineBreak
<1>8. QED
  BY <1>1, <1>2, <1>3, <1>4, <1>5, <1>6, <1>7 DEF Next, SequencerThread

LEMMA FrameLinks ==
  ASSUME [Next]_vars
  PROVE  \/ UNCHANGED <<hotline, attached, wire>>
         \/ \E n \in Node : \/ PublishSend(n) \/ ReceiveLoginReq(n) \/ ReceiveConfirmReq(n)
                            \/ ReceiveConfirmRsp(n) \/ ReceivePrepareRsp(n) \/ ReceiveIgnored(n)
                            \/ ReceiveLost(n) \/ Exit(n) \/ HotlineConnect(n)
         \/ HotlineBreak
<1> USE DEF flows, pubflow, links, control, bounds, history
<1>1. CASE UNCHANGED vars
  BY <1>1 DEF vars
<1>2. ASSUME NEW n \in Node, MatchingThread(n)
      PROVE  UNCHANGED links
  BY <1>2 DEF MatchingThread, EnterRedo, RedoNext, RedoReturn, RealDo, SelfConfirm, Register, Kernel
<1>3. ASSUME NEW n \in Node,
             \/ HotlineTimer(n) \/ EnterSingle(n) \/ EnterPrepare(n) \/ EnterMaster(n)
             \/ EnterSlaver(n) \/ ForcedExit(n) \/ GuardLost(n) \/ GuardConnected(n)
      PROVE  UNCHANGED links
  BY <1>3 DEF HotlineTimer, EnterSingle, EnterPrepare, EnterMaster, EnterSlaver, ChangeState,
              ForcedExit, GuardLost, GuardConnected
<1>4. ASSUME NEW n \in Node, Guard(n) \/ Restart(n)
      PROVE  UNCHANGED links
  BY <1>4 DEF Guard, GuardStart, GuardPrepare, GuardPair, GuardPromote, Commands, Restart
<1>5. ASSUME NEW n \in Node, Crash(n) \/ Reset(n) \/ ReceiveLoginError(n)
      PROVE  Exit(n)
  BY <1>5 DEF Crash, Reset, ReceiveLoginError
<1>6. CASE GuardDissolve
  BY <1>6 DEF GuardDissolve
<1>7. QED
  BY <1>1, <1>2, <1>3, <1>4, <1>5, <1>6 DEF Next, SequencerThread, links

LEMMA FrameEntries ==
  ASSUME [Next]_vars
  PROVE  \/ UNCHANGED <<handled, pubflow>>
         \/ \E n \in Node : \/ RedoNext(n) \/ RealDo(n) \/ SelfConfirm(n) \/ Register(n)
                            \/ ReceiveConfirmReq(n) \/ ReceiveConfirmRsp(n) \/ EnterSingle(n)
                            \/ Restart(n)
<1> USE DEF flows, pubflow, links, control, bounds, history
<1>1. CASE UNCHANGED vars
  BY <1>1 DEF vars
<1>2. ASSUME NEW n \in Node, EnterRedo(n) \/ RedoReturn(n)
      PROVE  UNCHANGED <<handled, pubflow>>
  BY <1>2 DEF EnterRedo, RedoReturn, Kernel
<1>3. ASSUME NEW n \in Node, SequencerThread(n), ~ReceiveConfirmReq(n), ~ReceiveConfirmRsp(n),
             ~EnterSingle(n)
      PROVE  UNCHANGED <<handled, pubflow>>
  BY <1>3 DEF SequencerThread, PublishSend, ReceiveLoginReq, ReceiveLoginError, ReceivePrepareRsp,
              ReceiveIgnored, ReceiveLost, HotlineTimer, EnterPrepare, EnterMaster, EnterSlaver,
              ChangeState, ForcedExit, GuardLost, GuardConnected, Reset, Exit
<1>4. ASSUME NEW n \in Node, Guard(n) \/ HotlineConnect(n) \/ Crash(n)
      PROVE  UNCHANGED <<handled, pubflow>>
  BY <1>4 DEF Guard, GuardStart, GuardPrepare, GuardPair, GuardPromote, Commands, HotlineConnect,
              Crash, Exit
<1>5. CASE HotlineBreak \/ GuardDissolve
  BY <1>5 DEF HotlineBreak, GuardDissolve
<1>6. QED
  BY <1>1, <1>2, <1>3, <1>4, <1>5 DEF Next, MatchingThread

-----------------------------------------------------------------------------
(* What those that change the series do to them.                           *)

LEMMA RealDoFacts ==
  ASSUME Shape, Lengths, NEW n \in Node, RealDo(n)
  PROVE  /\ alive[n] /\ comp[n] \in Active /\ UNCHANGED <<alive, comp, under, solo, lossy, pubflow>>
         /\ UNCHANGED <<wire, hotline, attached>>
         /\ Len(pre'[n]) = Count(n) + 1 /\ Common(pre[n], pre'[n], Count(n))
         /\ pre'[Peer(n)] = pre[Peer(n)]
         /\ Len(handled'[n]) = Len(handled[n]) + 1 /\ handled'[Peer(n)] = handled[Peer(n)]
<1>1. /\ pre \in [Node -> Seq(Text)] /\ handled \in [Node -> Seq(Text)] /\ Peer(n) \in Node
      /\ Peer(n) # n
  BY Peers DEF Shape
<1>2. fresh' \in Text
  BY StandbyBounds DEF RealDo, Shape, Text
<1>3. pre' = [pre EXCEPT ![n] = Append(@, fresh')] /\ handled' = [handled EXCEPT ![n] = Append(@, fresh')]
  BY DEF RealDo
<1> DEFINE x == fresh'
<1> HIDE DEF x
<1>4. /\ Len(Append(pre[n], x)) = Len(pre[n]) + 1 /\ Common(pre[n], Append(pre[n], x), Len(pre[n]))
      /\ Len(Append(handled[n], x)) = Len(handled[n]) + 1
  BY <1>1, <1>2, AppendProperties, CommonAppend DEF x
<1>5. /\ pre'[n] = Append(pre[n], x) /\ handled'[n] = Append(handled[n], x)
      /\ pre'[Peer(n)] = pre[Peer(n)] /\ handled'[Peer(n)] = handled[Peer(n)]
  BY <1>1, <1>3 DEF x
<1>6. alive[n] /\ comp[n] \in Active /\ UNCHANGED <<alive, comp, under, solo, lossy, pubflow, links>>
  BY DEF RealDo, Kernel, Active
<1>7. QED
  BY <1>4, <1>5, <1>6 DEF Count, links

LEMMA SelfConfirmFacts ==
  ASSUME Shape, Lengths, NEW n \in Node, SelfConfirm(n)
  PROVE  /\ UNCHANGED <<alive, comp, pre, handled, lossy, wire, hotline, attached>>
         /\ under'[Peer(n)] = under[Peer(n)] /\ solo'[Peer(n)] = solo[Peer(n)]
         /\ \/ comp[n] = "single" /\ under'[n] = Count(n) /\ solo'[n] = Count(n)
            \/ comp[n] # "single" /\ under'[n] = under[n] /\ solo'[n] = solo[n]
         /\ Confirmed(n, Count(n) - 1)
<1>1. UNCHANGED <<alive, comp, pre, handled, lossy, links>>
  BY DEF SelfConfirm, Kernel
<1>2. solo \in [Node -> Nat] /\ Peer(n) \in Node /\ Peer(n) # n
  BY Peers DEF Shape
<1>3. CASE comp[n] = "single"
  <2>1. ConfirmAll(n) /\ solo' = [solo EXCEPT ![n] = Count(n)]
    BY <1>3 DEF SelfConfirm
  <2>2. solo'[Peer(n)] = solo[Peer(n)] /\ solo'[n] = Count(n)
    BY <1>2, <2>1
  <2>3. QED
    BY <1>1, <1>3, <2>1, <2>2, ConfirmAllFacts DEF links
<1>4. CASE comp[n] # "single"
  BY <1>1, <1>4, NothingConfirmed DEF SelfConfirm, links
<1>5. QED
  BY <1>3, <1>4

LEMMA ConfirmReqFacts ==
  ASSUME Shape, Lengths, Persisting, NEW n \in Node, ReceiveConfirmReq(n)
  PROVE  LET x == Head(wire[n]) IN
         /\ alive[n] /\ comp[n] \in Standby /\ wire[n] # <<>> /\ x.tid = "confirmReq"
         /\ UNCHANGED <<alive, comp, handled, solo, lossy, hotline, attached>>
         /\ under[n] = Count(n) /\ under'[n] = Count(n) + 1 /\ under'[Peer(n)] = under[Peer(n)]
         /\ Len(pre'[n]) = Count(n) + 1 /\ Common(pre[n], pre'[n], Count(n))
         /\ pre'[n][Count(n) + 1] = x.msg /\ pre'[Peer(n)] = pre[Peer(n)]
         /\ Confirmed(n, Count(n))
         /\ Answer(n, ConfirmRsp(x.no)) /\ x \in Package /\ x.no \in Nat
<1> DEFINE x == Head(wire[n])
<1>1. /\ alive[n] /\ comp[n] \in Standby /\ wire[n] # <<>> /\ x.tid = "confirmReq"
      /\ UNCHANGED <<alive, comp, handled, solo, lossy, hotline, attached>>
      /\ ConfirmKey(n, Count(n)) /\ pre' = [pre EXCEPT ![n] = Append(@, x.msg)]
      /\ Answer(n, ConfirmRsp(x.no))
  BY DEF ReceiveConfirmReq, Receive, Standby, history
<1>2. x \in Package /\ x.msg \in Text /\ x.no \in Nat
  BY <1>1, TakeFacts, Packages
<1>3. pre \in [Node -> Seq(Text)] /\ pre[n] \in Seq(Text) /\ Peer(n) \in Node /\ Peer(n) # n
  BY Peers DEF Shape
<1>4. Len(pre[n]) \in Nat /\ under[n] = Len(pre[n])
  BY <1>1, <1>3, LenProperties DEF Persisting, Count
<1> DEFINE m == x.msg
<1>5. m \in Text /\ pre' = [pre EXCEPT ![n] = Append(@, m)]
  BY <1>1, <1>2
<1> HIDE DEF m
<1>6. /\ Len(Append(pre[n], m)) = Len(pre[n]) + 1 /\ Common(pre[n], Append(pre[n], m), Len(pre[n]))
      /\ Append(pre[n], m)[Len(pre[n]) + 1] = m
  BY <1>3, <1>5, AppendProperties, CommonAppend
<1>7. pre'[n] = Append(pre[n], m) /\ pre'[Peer(n)] = pre[Peer(n)]
  BY <1>3, <1>5
<1>8. /\ under'[Peer(n)] = under[Peer(n)] /\ under'[n] = Len(pre[n]) + 1
      /\ Confirmed(n, Count(n))
  <2>1. Len(pre[n]) \in Int /\ Len(pre[n]) >= -1 /\ ConfirmKey(n, Len(pre[n]))
    BY <1>1, <1>4 DEF Count
  <2>2. QED
    BY <1>4, <2>1, ConfirmKeyFacts DEF Count
<1>9. QED
  BY <1>1, <1>2, <1>4, <1>6, <1>7, <1>8 DEF Count, m

LEMMA ConfirmRspFacts ==
  ASSUME Shape, Lengths, Answered, NEW n \in Node, ReceiveConfirmRsp(n)
  PROVE  LET k == Head(wire[n]).no IN
         /\ alive[n] /\ comp[n] = "primary" /\ wire[n] # <<>> /\ wire' = Take(n)
         /\ UNCHANGED <<alive, comp, pre, handled, solo, lossy, hotline, attached>>
         /\ k \in 1 .. Count(n) /\ k <= under[Peer(n)] /\ (~lossy => Agree(n, k))
         /\ under'[Peer(n)] = under[Peer(n)]
         /\ under'[n] = IF under[n] = k - 1 THEN k ELSE under[n]
         /\ Confirmed(n, k - 1)
<1> DEFINE k == Head(wire[n]).no
<1>1. /\ alive[n] /\ comp[n] = "primary" /\ wire[n] # <<>> /\ wire' = Take(n)
      /\ UNCHANGED <<alive, comp, pre, handled, solo, lossy, hotline, attached>>
      /\ ConfirmKey(n, k - 1) /\ Head(wire[n]).tid = "confirmRsp"
  BY DEF ReceiveConfirmRsp, Receive, history
<1>2. k \in Nat /\ Head(wire[n]) = wire[n][1] /\ 1 \in 1 .. Len(wire[n])
  BY <1>1, TakeFacts, Packages
<1>3. Count(n) \in Nat
  BY LenProperties DEF Shape, Count
<1>4. k > 0 /\ k <= Count(n) /\ k <= under[Peer(n)] /\ (~lossy => Agree(n, k))
  BY <1>1, <1>2 DEF Answered
<1> HIDE DEF k
<1>5. k \in 1 .. Count(n) /\ k - 1 \in Int /\ k - 1 >= -1 /\ k - 1 + 1 = k
  BY <1>2, <1>3, <1>4 DEF k
<1>6. /\ under'[Peer(n)] = under[Peer(n)]
      /\ under'[n] = IF under[n] = k - 1 THEN k - 1 + 1 ELSE under[n]
      /\ Confirmed(n, k - 1)
  BY <1>1, <1>5, ConfirmKeyFacts
<1>7. QED
  BY <1>1, <1>4, <1>5, <1>6 DEF k

LEMMA EnterSingleFacts ==
  ASSUME Shape, Lengths, NEW n \in Node, EnterSingle(n)
  PROVE  /\ alive[n] /\ comp[n] \in {"init", "primary", "secondary"} /\ cmd[n] = "single"
         /\ comp'[n] = "single" /\ comp'[Peer(n)] = comp[Peer(n)]
         /\ cmd'[n] = "none" /\ cmd'[Peer(n)] = cmd[Peer(n)]
         /\ UNCHANGED <<alive, pre, handled, guard, wire, hotline, attached>>
         /\ under'[n] = Count(n) /\ solo'[n] = Count(n)
         /\ under'[Peer(n)] = under[Peer(n)] /\ solo'[Peer(n)] = solo[Peer(n)]
         /\ lossy => lossy'
         /\ ~lossy' => Agree(n, IF comp[n] = "init" THEN under[Peer(n)] ELSE solo[Peer(n)])
         /\ Confirmed(n, Count(n) - 1)
<1> DEFINE p == Peer(n)
           kept == IF comp[n] = "init" THEN under[p] ELSE solo[p]
<1>1. /\ alive[n] /\ comp[n] \in {"init", "primary", "secondary"} /\ cmd[n] = "single"
      /\ UNCHANGED <<alive, pre, handled, guard, wire, hotline, attached>>
      /\ comp' = [comp EXCEPT ![n] = "single"] /\ cmd' = [cmd EXCEPT ![n] = "none"]
      /\ solo' = [solo EXCEPT ![n] = Count(n)] /\ ConfirmAll(n)
      /\ lossy' = (lossy \/ ~IsPrefix(SubSeq(pre[p], 1, kept), pre[n]))
  BY DEF EnterSingle, Obey, links
<1>2. /\ p \in Node /\ p # n /\ comp \in [Node -> CompState] /\ solo \in [Node -> Nat]
      /\ cmd \in [Node -> Command \union {"none"}]
      /\ pre[p] \in Seq(Text) /\ pre[n] \in Seq(Text)
  BY Peers DEF Shape
<1>3. /\ comp'[n] = "single" /\ comp'[p] = comp[p] /\ cmd'[n] = "none" /\ cmd'[p] = cmd[p]
      /\ solo'[n] = Count(n) /\ solo'[p] = solo[p]
  BY <1>1, <1>2
<1>4. kept \in Nat /\ kept <= Len(pre[p]) /\ Len(pre[p]) \in Nat /\ Len(pre[n]) \in Nat
  <2>1. /\ under[p] \in Nat /\ solo[p] \in Nat /\ Len(pre[p]) \in Nat /\ Len(pre[n]) \in Nat
        /\ under[p] <= Len(pre[p]) /\ solo[p] <= under[p]
    BY <1>2, LenProperties DEF Shape, Lengths, Count
  <2>2. QED
    BY <2>1
<1> HIDE DEF kept
<1>5. ASSUME ~lossy'
      PROVE  Agree(n, kept)
  <2> DEFINE s == SubSeq(pre[p], 1, kept)
  <2>1. IsPrefix(s, pre[n])
    BY <1>1, <1>5
  <2>2. kept \in 0 .. Len(pre[p])
    BY <1>4
  <2>3. s \in Seq(Text) /\ Len(s) = kept /\ Common(pre[p], s, kept)
    BY <1>2, <2>2, CommonSubSeq
  <2>4. Common(s, pre[n], kept)
    BY <1>2, <2>1, <2>3, PrefixIsCommon
  <2>5. QED
    BY <2>3, <2>4, CommonVia, CommonSwap DEF Agree
<1>6. lossy => lossy'
  BY <1>1
<1>7. QED
  BY <1>1, <1>3, <1>5, <1>6, ConfirmAllFacts DEF kept

\* A series only grows while the process runs, and keeps what is persisted.
LEMMA StoreStep ==
  ASSUME PairInv, [Next]_vars, NEW n \in Node
  PROVE  /\ Count(n) \in Nat /\ Count(n)' \in Nat /\ under[n] \in Nat /\ under'[n] \in Nat
         /\ under[n] <= under'[n]
         /\ Common(pre[n], pre'[n], under[n])
         /\ alive[n] => Common(pre[n], pre'[n], Count(n)) /\ Count(n) <= Count(n)'
         /\ lossy => lossy'
<1>1. /\ Shape /\ Shape' /\ Lengths /\ Persisting /\ Answered
  BY ShapeNext DEF PairInv
<1>2. /\ Count(n) \in Nat /\ Count(n)' \in Nat /\ under[n] \in Nat /\ under'[n] \in Nat
      /\ under[n] <= Count(n)
  BY <1>1, LenProperties DEF Shape, Lengths, Count
<1>3. Common(pre[n], pre[n], Count(n)) /\ Common(pre[n], pre[n], under[n])
  BY <1>2, CommonSelf DEF Count
<1> DEFINE Goal == /\ under[n] <= under'[n] /\ Common(pre[n], pre'[n], under[n])
                   /\ alive[n] => Common(pre[n], pre'[n], Count(n))
                   /\ lossy => lossy'
<1>4. ASSUME UNCHANGED <<pre, under, solo, lossy>>
      PROVE  Goal
  <2>1. pre'[n] = pre[n] /\ under'[n] = under[n] /\ lossy' = lossy
    BY <1>4
  <2>2. under[n] <= under'[n]
    BY <1>2, <2>1
  <2>3. lossy => lossy'
    BY <2>1
  <2>4. Common(pre[n], pre'[n], Count(n)) /\ Common(pre[n], pre'[n], under[n])
    BY <1>3, <2>1
  <2>5. QED
    BY <2>2, <2>3, <2>4
<1>5. ASSUME NEW m \in Node,
             \/ RealDo(m) \/ SelfConfirm(m) \/ ReceiveConfirmReq(m)
             \/ ReceiveConfirmRsp(m) \/ EnterSingle(m) \/ Restart(m)
      PROVE  Goal
  <2>1. n = m \/ n = Peer(m)
    BY Peers
  <2>2. CASE RealDo(m)
    BY <1>1, <1>2, <1>3, <2>1, <2>2, RealDoFacts DEF Common, Count
  <2>3. CASE SelfConfirm(m)
    BY <1>1, <1>2, <1>3, <2>1, <2>3, SelfConfirmFacts
  <2>4. CASE ReceiveConfirmReq(m)
    BY <1>1, <1>2, <1>3, <2>1, <2>4, ConfirmReqFacts DEF Common, Count
  <2>5. CASE ReceiveConfirmRsp(m)
    BY <1>1, <1>2, <1>3, <2>1, <2>5, ConfirmRspFacts
  <2>6. CASE EnterSingle(m)
    BY <1>1, <1>2, <1>3, <2>1, <2>6, EnterSingleFacts
  <2>7. CASE Restart(m)
    <3>1. ~alive[m] /\ lossy' = lossy
      BY <2>7 DEF Restart, history
    <3>2. QED
      BY <1>1, <1>2, <1>3, <2>1, <2>7, <3>1, RestartShape
  <2>8. QED
    BY <1>5, <2>2, <2>3, <2>4, <2>5, <2>6, <2>7
<1>6. Goal
  BY <1>4, <1>5, FrameSeries
<1>7. QED
  BY <1>2, <1>6 DEF Common, Count

-----------------------------------------------------------------------------
(* Lengths.                                                                *)

\* Lengths of one node, whose flows are now these.
LengthsOf(n) ==
  /\ solo[n] <= under[n] /\ under[n] <= Count(n)
  /\ ack[n] <= Count(n)
  /\ Len(handled[n]) <= Count(n) /\ published[n] <= Len(handled[n])
  /\ noAckSeries[n] \in -1 .. Count(n) /\ noAckResult[n] \in -1 .. Len(handled[n])
  /\ noAckSeries[n] = -1 <=> noAckResult[n] = -1

LEMMA ConfirmedLengths ==
  ASSUME Shape, Shape', Lengths, NEW n \in Node, NEW k \in Int, Confirmed(n, k),
         k >= 0 => k <= Count(n)',
         UNCHANGED handled, Count(n) <= Count(n)',
         solo'[n] <= under'[n], under'[n] <= Count(n)'
  PROVE  LengthsOf(n)'
<1>1. LengthsOf(n)
  BY DEF Lengths, LengthsOf
<1>2. Count(n) \in Nat /\ Count(n)' \in Nat /\ ack[n] \in Nat /\ ack'[n] \in Nat
  BY LenProperties DEF Shape, Count
<1>3. ack'[n] <= Count(n)'
  BY <1>1, <1>2 DEF Confirmed, LengthsOf
<1>4. Len(handled'[n]) = Len(handled[n]) /\ Len(handled[n]) \in Nat
  BY LenProperties DEF Shape
<1>5. published'[n] <= Len(handled'[n])
  BY <1>4 DEF Confirmed
<1>6. /\ noAckSeries'[n] \in -1 .. Count(n)' /\ noAckResult'[n] \in -1 .. Len(handled'[n])
      /\ noAckSeries'[n] = -1 <=> noAckResult'[n] = -1
  <2>1. CASE noAckSeries'[n] = noAckSeries[n] /\ noAckResult'[n] = noAckResult[n]
    BY <1>1, <1>2, <1>4, <2>1 DEF LengthsOf
  <2>2. CASE noAckSeries'[n] = -1 /\ noAckResult'[n] = -1
    BY <1>2, <1>4, <2>2
  <2>3. QED
    BY <2>1, <2>2 DEF Confirmed
<1>7. Len(handled'[n]) <= Count(n)'
  BY <1>1, <1>2, <1>4 DEF LengthsOf
<1>8. QED
  BY <1>3, <1>5, <1>6, <1>7 DEF LengthsOf

LEMMA SameLengths ==
  ASSUME Lengths, NEW n \in Node,
         UNCHANGED <<solo[n], under[n], pre[n], ack[n], handled[n], published[n], noAckSeries[n],
                     noAckResult[n]>>
  PROVE  LengthsOf(n)'
BY DEF Lengths, LengthsOf, Count

LEMMA FlowLengths ==
  ASSUME PairInv, [Next]_vars
  PROVE  \A n \in Node : LengthsOf(n)'
<1> USE DEF flows, pubflow, links, control, bounds, history
<1>1. /\ Shape /\ Shape' /\ Lengths /\ Persisting /\ Answered
  BY ShapeNext DEF PairInv
<1>2. \A n \in Node : /\ Count(n) \in Nat /\ Count(n)' \in Nat /\ under[n] \in Nat /\ under'[n] \in Nat
                      /\ solo[n] \in Nat /\ Len(handled[n]) \in Nat /\ Len(handled'[n]) \in Nat
                      /\ solo[n] <= under[n] /\ under[n] <= Count(n)
                      /\ Len(handled[n]) <= Count(n)
  BY <1>1, LenProperties DEF Shape, Lengths, Count
<1>3. CASE UNCHANGED <<pre, under, solo>> /\ UNCHANGED <<handled, pubflow>>
  BY <1>1, <1>3, SameLengths
<1>4. ASSUME NEW m \in Node,
             \/ RedoNext(m) \/ RealDo(m) \/ SelfConfirm(m) \/ Register(m)
             \/ ReceiveConfirmReq(m) \/ ReceiveConfirmRsp(m) \/ EnterSingle(m) \/ Restart(m)
      PROVE  LengthsOf(m)' /\ LengthsOf(Peer(m))'
  <2>1. Peer(m) \in Node /\ Peer(m) # m
    BY Peers
  <2>2. CASE RedoNext(m)
    <3>1. UNCHANGED <<pre, under, solo, pubflow>> /\ Len(handled[m]) < Count(m)
          /\ handled' = [handled EXCEPT ![m] = Append(@, pre[m][Len(@) + 1])]
      BY <2>2 DEF RedoNext
    <3>2. handled \in [Node -> Seq(Text)] /\ handled' \in [Node -> Seq(Text)]
      BY <1>1 DEF Shape
    <3>3. handled'[Peer(m)] = handled[Peer(m)]
          /\ handled'[m] = Append(handled[m], pre[m][Len(handled[m]) + 1])
      BY <2>1, <3>1, <3>2
    <3>4. pre[m][Len(handled[m]) + 1] \in Text
      BY <1>1, <1>2, <3>1, ElementOfSeq DEF Shape, Count
    <3>5. Len(handled'[m]) = Len(handled[m]) + 1
      BY <3>2, <3>3, <3>4, AppendProperties
    <3>6. LengthsOf(Peer(m))'
      BY <1>1, <2>1, <3>1, <3>3, SameLengths
    <3>7. /\ solo'[m] = solo[m] /\ under'[m] = under[m] /\ Count(m)' = Count(m) /\ ack'[m] = ack[m]
          /\ published'[m] = published[m] /\ noAckSeries'[m] = noAckSeries[m]
          /\ noAckResult'[m] = noAckResult[m]
      BY <3>1 DEF Count
    <3>8. ack[m] \in Nat /\ published[m] \in Nat /\ noAckSeries[m] \in Int /\ noAckResult[m] \in Int
          /\ ack[m] <= Count(m) /\ published[m] <= Len(handled[m])
          /\ noAckSeries[m] \in -1 .. Count(m) /\ noAckResult[m] \in -1 .. Len(handled[m])
          /\ (noAckSeries[m] = -1 <=> noAckResult[m] = -1)
      BY <1>1 DEF Shape, Lengths
    <3>9. LengthsOf(m)'
      BY <1>2, <3>1, <3>5, <3>7, <3>8 DEF LengthsOf
    <3>10. QED
      BY <3>6, <3>9
  <2>3. CASE RealDo(m)
    <3>1. /\ UNCHANGED <<under, solo, pubflow>> /\ Count(m)' = Count(m) + 1
          /\ Len(handled'[m]) = Len(handled[m]) + 1
          /\ pre'[Peer(m)] = pre[Peer(m)] /\ handled'[Peer(m)] = handled[Peer(m)]
      BY <1>1, <2>3, RealDoFacts DEF Count
    <3>2. LengthsOf(Peer(m))'
      BY <1>1, <2>1, <3>1, SameLengths
    <3>3. ack[m] \in Nat /\ published[m] \in Nat /\ noAckSeries[m] \in Int /\ noAckResult[m] \in Int
          /\ ack[m] <= Count(m) /\ published[m] <= Len(handled[m])
          /\ noAckSeries[m] \in -1 .. Count(m) /\ noAckResult[m] \in -1 .. Len(handled[m])
          /\ (noAckSeries[m] = -1 <=> noAckResult[m] = -1)
      BY <1>1 DEF Shape, Lengths
    <3>4. /\ solo'[m] = solo[m] /\ under'[m] = under[m] /\ ack'[m] = ack[m]
          /\ published'[m] = published[m] /\ noAckSeries'[m] = noAckSeries[m]
          /\ noAckResult'[m] = noAckResult[m]
      BY <3>1
    <3>5. LengthsOf(m)'
      BY <1>2, <3>1, <3>3, <3>4 DEF LengthsOf
    <3>6. QED
      BY <3>2, <3>5
  <2>4. CASE SelfConfirm(m)
    <3>1. /\ UNCHANGED <<pre, handled>> /\ Confirmed(m, Count(m) - 1)
          /\ solo'[m] <= under'[m] /\ under'[m] <= Count(m)
          /\ solo'[Peer(m)] = solo[Peer(m)] /\ under'[Peer(m)] = under[Peer(m)]
      BY <1>1, <1>2, <2>4, SelfConfirmFacts
    <3>2. LengthsOf(m)'
      BY <1>1, <1>2, <3>1, ConfirmedLengths DEF Count
    <3>3. LengthsOf(Peer(m))'
      BY <1>1, <2>1, <3>1, SameLengths DEF Confirmed
    <3>4. QED
      BY <3>2, <3>3
  <2>5. CASE Register(m)
    <3>1. UNCHANGED <<pre, under, solo, ack, handled>> /\ noAckSeries[m] = -1
      BY <2>5 DEF Register
    <3>2. published \in [Node -> Nat] /\ noAckSeries \in [Node -> Int] /\ noAckResult \in [Node -> Int]
      BY <1>1 DEF Shape
    <3>3. ack[m] \in Nat /\ ack[m] <= Count(m) /\ noAckResult[m] = -1 /\ published[m] <= Len(handled[m])
      BY <1>1, <3>1 DEF Shape, Lengths
    <3>4. CASE Count(m) <= ack[m]
      <4>1. published' = [published EXCEPT ![m] = Len(handled[m])]
            /\ UNCHANGED <<noAckSeries, noAckResult>>
        BY <2>5, <3>4 DEF Register, Publish
      <4>2. LengthsOf(Peer(m))'
        BY <1>1, <2>1, <3>1, <3>2, <4>1, SameLengths
      <4>3. published'[m] = Len(handled[m]) /\ noAckSeries'[m] = -1 /\ noAckResult'[m] = -1
        BY <3>1, <3>2, <3>3, <4>1
      <4>4. LengthsOf(m)'
        BY <1>2, <3>1, <3>3, <4>3 DEF LengthsOf, Count
      <4>5. QED
        BY <4>2, <4>4
    <3>5. CASE ~(Count(m) <= ack[m])
      <4>1. /\ noAckSeries' = [noAckSeries EXCEPT ![m] = Count(m)]
            /\ noAckResult' = [noAckResult EXCEPT ![m] = Len(handled[m])]
            /\ published' = published
        BY <2>5, <3>5 DEF Register
      <4>2. LengthsOf(Peer(m))'
        BY <1>1, <2>1, <3>1, <3>2, <4>1, SameLengths
      <4>3. published'[m] = published[m] /\ noAckSeries'[m] = Count(m) /\ noAckResult'[m] = Len(handled[m])
        BY <3>2, <4>1
      <4>4. LengthsOf(m)'
        BY <1>2, <3>1, <3>3, <4>3 DEF LengthsOf, Count
      <4>5. QED
        BY <4>2, <4>4
    <3>6. QED
      BY <3>4, <3>5
  <2>6. CASE ReceiveConfirmReq(m)
    <3>1. /\ handled' = handled /\ solo' = solo /\ Confirmed(m, Count(m))
          /\ under'[m] = Count(m) + 1 /\ Count(m)' = Count(m) + 1 /\ under[m] = Count(m)
          /\ under'[Peer(m)] = under[Peer(m)] /\ pre'[Peer(m)] = pre[Peer(m)]
      BY <1>1, <2>6, ConfirmReqFacts DEF Count
    <3>2. LengthsOf(m)'
      BY <1>1, <1>2, <3>1, ConfirmedLengths
    <3>3. LengthsOf(Peer(m))'
      BY <1>1, <2>1, <3>1, SameLengths DEF Confirmed
    <3>4. QED
      BY <3>2, <3>3
  <2>7. CASE ReceiveConfirmRsp(m)
    <3> DEFINE k == Head(wire[m]).no
    <3>1. /\ UNCHANGED <<pre, handled, solo>> /\ Confirmed(m, k - 1) /\ k \in 1 .. Count(m)
          /\ under'[m] = (IF under[m] = k - 1 THEN k ELSE under[m])
          /\ under'[Peer(m)] = under[Peer(m)]
      BY <1>1, <2>7, ConfirmRspFacts
    <3> HIDE DEF k
    <3>2. LengthsOf(m)'
      <4>1. Count(m)' = Count(m)
        BY <3>1 DEF Count
      <4>2. solo'[m] <= under'[m] /\ under'[m] <= Count(m)' /\ k - 1 \in Int /\ k - 1 <= Count(m)'
        BY <1>2, <3>1, <4>1
      <4>3. QED
        BY <1>1, <1>2, <3>1, <4>1, <4>2, ConfirmedLengths
    <3>3. LengthsOf(Peer(m))'
      BY <1>1, <2>1, <3>1, SameLengths DEF Confirmed
    <3>4. QED
      BY <3>2, <3>3
  <2>8. CASE EnterSingle(m)
    <3>1. /\ UNCHANGED <<pre, handled>> /\ Confirmed(m, Count(m) - 1)
          /\ solo'[m] <= under'[m] /\ under'[m] <= Count(m)
          /\ solo'[Peer(m)] = solo[Peer(m)] /\ under'[Peer(m)] = under[Peer(m)]
      BY <1>1, <1>2, <2>8, EnterSingleFacts
    <3>2. LengthsOf(m)'
      BY <1>1, <1>2, <3>1, ConfirmedLengths DEF Count
    <3>3. LengthsOf(Peer(m))'
      BY <1>1, <2>1, <3>1, SameLengths DEF Confirmed
    <3>4. QED
      BY <3>2, <3>3
  <2>9. CASE Restart(m)
    <3>1. solo' = solo
      BY <2>9 DEF Restart
    <3>2. LengthsOf(Peer(m))'
      BY <1>1, <2>1, <2>9, <3>1, RestartShape, SameLengths
    <3>3. /\ under' = under /\ Len(pre'[m]) = under[m] /\ handled'[m] = pre'[m]
          /\ published'[m] = under[m] /\ ack'[m] = under[m]
          /\ noAckSeries'[m] = -1 /\ noAckResult'[m] = -1
      BY <1>1, <2>9, RestartShape
    <3>4. LengthsOf(m)'
      BY <1>2, <3>1, <3>3 DEF LengthsOf, Count
    <3>5. QED
      BY <3>2, <3>4
  <2>10. QED
    BY <1>4, <2>2, <2>3, <2>4, <2>5, <2>6, <2>7, <2>8, <2>9
<1>5. (UNCHANGED <<pre, under, solo>> /\ UNCHANGED <<handled, pubflow>>)
      \/ \E m \in Node : \/ RedoNext(m) \/ RealDo(m) \/ SelfConfirm(m) \/ Register(m)
                         \/ ReceiveConfirmReq(m) \/ ReceiveConfirmRsp(m) \/ EnterSingle(m) \/ Restart(m)
  BY FrameSeries, FrameEntries
<1>6. QED
  BY <1>3, <1>4, <1>5, Peers

LEMMA AttachedLengths ==
  ASSUME PairInv, [Next]_vars
  PROVE  \A n \in Node : attached'[n] \in -1 .. Count(n)'
<1> USE DEF flows, pubflow, links, control, bounds, history
<1>1. Shape /\ Shape' /\ Lengths /\ Roles /\ Sessions
  BY ShapeNext DEF PairInv
<1>2. /\ attached \in [Node -> Int]
      /\ \A n \in Node : /\ Count(n) \in Nat /\ Count(n)' \in Nat /\ attached[n] \in -1 .. Count(n)
                         /\ alive[n] => Count(n) <= Count(n)'
                         /\ ~alive[n] => attached[n] = -1
  <2>1. \A n \in Node : /\ Count(n) \in Nat /\ Count(n)' \in Nat /\ attached[n] \in -1 .. Count(n)
    BY <1>1, StoreStep DEF Lengths
  <2>2. \A n \in Node : alive[n] => Count(n) <= Count(n)'
    BY StoreStep
  <2>3. \A n \in Node : ~alive[n] => attached[n] = -1
    BY <1>1 DEF Roles, Sessions
  <2>4. QED
    BY <1>1, <2>1, <2>2, <2>3 DEF Shape
<1>3. ASSUME NEW n \in Node, attached'[n] = attached[n] \/ attached'[n] = -1
      PROVE  attached'[n] \in -1 .. Count(n)'
  <2>1. CASE alive[n]
    <3>1. Count(n) <= Count(n)' /\ Count(n) \in Nat /\ Count(n)' \in Nat /\ attached[n] \in -1 .. Count(n)
      BY <1>2, <2>1
    <3>2. QED
      BY <1>3, <3>1
  <2>2. CASE ~alive[n]
    <3>1. attached[n] = -1 /\ Count(n)' \in Nat
      BY <1>2, <2>2
    <3>2. QED
      BY <1>3, <3>1
  <2>3. QED
    BY <2>1, <2>2
<1>4. ASSUME NEW m \in Node, PublishSend(m)
      PROVE  \A n \in Node : attached'[n] \in -1 .. Count(n)'
  <2>1. /\ attached[m] \in 0 .. Count(m) - 1 /\ attached' = [attached EXCEPT ![m] = @ + 1]
        /\ pre' = pre
    BY <1>4 DEF PublishSend
  <2>2. Count(m)' = Count(m)
    BY <2>1 DEF Count
  <2>3. attached'[m] \in -1 .. Count(m)'
    BY <1>2, <2>1, <2>2
  <2>4. \A n \in Node : n # m => attached'[n] = attached[n]
    BY <1>2, <2>1
  <2>5. QED
    BY <1>3, <2>3, <2>4
<1>5. ASSUME NEW m \in Node, ReceiveLoginReq(m)
      PROVE  \A n \in Node : attached'[n] \in -1 .. Count(n)'
  <2> DEFINE start == Head(wire[m]).no
  <2>1. wire[m] # <<>> /\ Head(wire[m]).tid = "loginReq" /\ pre' = pre
        /\ \/ attached' = attached
           \/ start <= Count(m) /\ attached' = [attached EXCEPT ![m] = start]
    <3>1. CASE start <= Count(m)
      BY <1>5, <3>1 DEF ReceiveLoginReq, Receive
    <3>2. CASE ~(start <= Count(m))
      BY <1>5, <3>2 DEF ReceiveLoginReq, Receive
    <3>3. QED
      BY <3>1, <3>2
  <2>2. start \in Nat
    BY <1>1, <2>1, TakeFacts, Packages
  <2>3. Count(m)' = Count(m)
    BY <2>1 DEF Count
  <2> HIDE DEF start
  <2>4. CASE attached' = attached
    BY <1>3, <2>4
  <2>5. CASE start <= Count(m) /\ attached' = [attached EXCEPT ![m] = start]
    <3>1. attached'[m] \in -1 .. Count(m)'
      BY <1>2, <2>2, <2>3, <2>5
    <3>2. \A n \in Node : n # m => attached'[n] = attached[n]
      BY <1>2, <2>5
    <3>3. QED
      BY <1>3, <3>1, <3>2
  <2>6. QED
    BY <2>1, <2>4, <2>5
<1>6. ASSUME NEW m \in Node, ReceiveLost(m) \/ Exit(m)
      PROVE  \A n \in Node : attached'[n] \in -1 .. Count(n)'
  <2>1. attached' = [attached EXCEPT ![m] = -1]
    BY <1>6 DEF ReceiveLost, Exit
  <2>2. QED
    BY <1>2, <1>3, <2>1
<1>7. ASSUME NEW m \in Node, \/ ReceiveConfirmReq(m) \/ ReceiveConfirmRsp(m) \/ ReceivePrepareRsp(m)
                             \/ ReceiveIgnored(m) \/ HotlineConnect(m)
      PROVE  attached' = attached
  BY <1>7 DEF ReceiveConfirmReq, ReceiveConfirmRsp, ReceivePrepareRsp, ReceiveIgnored, HotlineConnect
<1>8. CASE HotlineBreak
  BY <1>3, <1>8 DEF HotlineBreak
<1>9. QED
  BY <1>3, <1>4, <1>5, <1>6, <1>7, <1>8, FrameLinks

LEMMA LengthsNext ==
  ASSUME PairInv, [Next]_vars
  PROVE  Lengths'
BY FlowLengths, AttachedLengths DEF Lengths, LengthsOf

-----------------------------------------------------------------------------
(* Roles.                                                                  *)

RolesOf(n, p) ==
    /\ comp[n] \in Standby => comp[p] \in Active \union {"init"}
    /\ comp[n] \in Active => comp[p] # comp[n]
    /\ comp[n] = "single" => guard.leader = n
    /\ comp[n] = "prepare" => guard.leader = p
    /\ comp[n] = "primary" /\ guard.paired => guard.leader = n
    /\ cmd[n] = "single" =>
         /\ guard.leader = n
         /\ \/ comp[n] = "init" /\ comp[p] = "init" /\ cmd[p] = "none"
            \/ /\ comp[n] \in {"primary", "secondary"} /\ comp[p] # "single"
               /\ ~guard.paired /\ cmd[p] \in {"none", "down"}
    /\ cmd[n] = "prepare" =>
         /\ comp[n] = "init" /\ comp[p] \in {"single", "init"} /\ cmd[p] = "none"
         /\ guard.leader = p
    /\ cmd[n] = "primary" => comp[n] = "single" /\ comp[p] # "primary"
    /\ cmd[n] = "secondary" => comp[n] = "prepare"
    /\ cmd[n] = "down" => comp[n] \in {"prepare", "primary", "secondary"}
    /\ ~alive[n] => comp[n] = "init" /\ cmd[n] = "none"

LEMMA RolesNext ==
  ASSUME Shape, Roles, [Next]_vars
  PROVE  Roles'
<1> USE DEF flows, pubflow, links, control, bounds, history
<1>1. \A n \in Node : RolesOf(n, Peer(n)) /\ RolesOf(Peer(n), n)
  BY Peers DEF Roles, RolesOf
<1>2. ASSUME \A n \in Node : RolesOf(n, Peer(n))'
      PROVE  Roles'
  BY <1>2 DEF Roles, RolesOf, Peer
<1>3. CASE UNCHANGED <<alive, comp, cmd, guard.leader, guard.paired>>
  BY <1>1, <1>2, <1>3 DEF RolesOf
<1>4. ASSUME NEW n \in Node,
             \/ Exit(n) \/ EnterSingle(n) \/ EnterPrepare(n) \/ EnterMaster(n)
             \/ EnterSlaver(n) \/ ForcedExit(n) \/ GuardLost(n) \/ Restart(n) \/ Guard(n)
      PROVE  RolesOf(n, Peer(n))' /\ RolesOf(Peer(n), n)'
  <2> DEFINE p == Peer(n)
  <2>1. /\ p \in Node /\ p # n /\ RolesOf(n, p) /\ RolesOf(p, n) /\ n # NoNode /\ p # NoNode
        /\ Peer(p) = n
    BY <1>1, Peers, TwoNodes
  <2>2. comp \in [Node -> CompState] /\ cmd \in [Node -> Command \union {"none"}]
        /\ guard \in [leader : Node \union {NoNode}, paired : BOOLEAN, failed : BOOLEAN, ok : BOOLEAN]
        /\ alive \in [Node -> BOOLEAN]
    BY DEF Shape
  <2>3. CASE Exit(n)
    BY <2>1, <2>2, <2>3 DEF Exit, RolesOf, Active, Standby
  <2>4. CASE EnterSingle(n)
    BY <2>1, <2>2, <2>4 DEF EnterSingle, Obey, RolesOf, Active, Standby
  <2>5. CASE EnterPrepare(n)
    BY <2>1, <2>2, <2>5 DEF EnterPrepare, ChangeState, Obey, RolesOf, Active, Standby
  <2>6. CASE EnterMaster(n)
    BY <2>1, <2>2, <2>6 DEF EnterMaster, ChangeState, Obey, RolesOf, Active, Standby
  <2>7. CASE EnterSlaver(n)
    BY <2>1, <2>2, <2>7 DEF EnterSlaver, ChangeState, Obey, RolesOf, Active, Standby
  <2>8. CASE ForcedExit(n)
    BY <2>1, <2>2, <2>8 DEF ForcedExit, Obey, RolesOf, Active, Standby
  <2>9. CASE GuardLost(n)
    BY <2>1, <2>2, <2>9 DEF GuardLost, RolesOf, Active, Standby
  <2>10. CASE Restart(n)
    BY <2>1, <2>2, <2>10 DEF Restart, RolesOf, Active, Standby
  <2>11. CASE GuardStart(n)
    BY <2>1, <2>2, <2>11 DEF GuardStart, Commands, CanCommand, RolesOf, Active, Standby
  <2>12. CASE GuardPrepare(n)
    BY <2>1, <2>2, <2>12 DEF GuardPrepare, Commands, CanCommand, RolesOf, Active, Standby
  <2>13. CASE GuardPair(n)
    BY <2>1, <2>2, <2>13 DEF GuardPair, Commands, CanCommand, RolesOf, Active, Standby
  <2>14. CASE GuardPromote(n)
    BY <2>1, <2>2, <2>14 DEF GuardPromote, Commands, CanCommand, RolesOf, Active, Standby, CompState
  <2>15. QED
    BY <1>4, <2>3, <2>4, <2>5, <2>6, <2>7, <2>8, <2>9, <2>10, <2>11, <2>12, <2>13, <2>14 DEF Guard
<1>5. CASE GuardDissolve
  BY <1>1, <1>2, <1>5 DEF GuardDissolve, RolesOf, Active, Standby, Shape
<1>6. QED
  <2>1. \A n \in Node : \A m \in Node : n = m \/ n = Peer(m)
    BY Peers
  <2>2. \A n \in Node : Peer(Peer(n)) = n
    BY Peers
  <2>3. CASE \E m \in Node : RolesOf(m, Peer(m))' /\ RolesOf(Peer(m), m)'
    <3>1. PICK m \in Node : RolesOf(m, Peer(m))' /\ RolesOf(Peer(m), m)'
      BY <2>3
    <3>2. ASSUME NEW n \in Node
          PROVE  RolesOf(n, Peer(n))'
      <4>1. CASE n = m
        BY <3>1, <4>1
      <4>2. CASE n = Peer(m)
        <5>1. Peer(n) = m
          BY <2>2, <4>2
        <5>2. QED
          BY <3>1, <4>2, <5>1
      <4>3. QED
        BY <2>1, <4>1, <4>2
    <3>3. QED
      BY <1>2, <3>2
  <2>4. QED
    BY <1>3, <1>4, <1>5, <2>3, FrameRoles

-----------------------------------------------------------------------------
(* What a step does to the state of one node.                              *)

LEMMA CompStep ==
  ASSUME Shape, [Next]_vars, NEW n \in Node
  PROVE  \/ UNCHANGED <<alive[n], comp[n]>>
         \/ Exit(n) /\ comp'[n] = "init" /\ ~alive'[n]
         \/ EnterSingle(n) /\ comp'[n] = "single" /\ cmd[n] = "single" /\ alive'[n] = alive[n]
         \/ /\ EnterPrepare(n) /\ comp[n] = "init" /\ comp'[n] = "prepare" /\ cmd[n] = "prepare"
            /\ alive[n] /\ UNCHANGED <<alive, links, pre, under, solo, lossy>>
         \/ /\ EnterMaster(n) /\ comp[n] = "single" /\ comp'[n] = "primary" /\ cmd[n] = "primary"
            /\ alive[n] /\ UNCHANGED <<alive, links, pre, under, solo, lossy>>
         \/ /\ EnterSlaver(n) /\ comp[n] = "prepare" /\ comp'[n] = "secondary"
            /\ alive[n] /\ UNCHANGED <<alive, links, pre, under, solo, lossy>>
         \/ Restart(n) /\ comp'[n] = comp[n] /\ alive'[n] /\ ~alive[n]
<1> USE DEF flows, pubflow, links, control, bounds, history
<1>1. comp \in [Node -> CompState] /\ alive \in [Node -> BOOLEAN]
  BY DEF Shape
<1>2. CASE UNCHANGED <<alive, comp, cmd, guard.leader, guard.paired>>
  BY <1>2
<1>3. ASSUME NEW m \in Node, ForcedExit(m) \/ GuardLost(m) \/ Guard(m)
      PROVE  UNCHANGED <<alive, comp>>
  BY <1>3 DEF ForcedExit, GuardLost, Guard, GuardStart, GuardPrepare, GuardPair, GuardPromote, Commands
<1>4. CASE GuardDissolve
  BY <1>4 DEF GuardDissolve
<1>5. ASSUME NEW m \in Node, m # n,
             \/ Exit(m) \/ EnterSingle(m) \/ EnterPrepare(m) \/ EnterMaster(m)
             \/ EnterSlaver(m) \/ Restart(m)
      PROVE  UNCHANGED <<alive[n], comp[n]>>
  BY <1>1, <1>5 DEF Exit, EnterSingle, EnterPrepare, EnterMaster, EnterSlaver, ChangeState, Restart
<1>6. CASE Exit(n)
  BY <1>1, <1>6 DEF Exit
<1>7. CASE EnterSingle(n)
  BY <1>1, <1>7 DEF EnterSingle, Obey
<1>8. CASE EnterPrepare(n)
  BY <1>1, <1>8 DEF EnterPrepare, ChangeState, Obey
<1>9. CASE EnterMaster(n)
  BY <1>1, <1>9 DEF EnterMaster, ChangeState, Obey
<1>10. CASE EnterSlaver(n)
  BY <1>1, <1>10 DEF EnterSlaver, ChangeState, Obey
<1>11. CASE Restart(n)
  BY <1>1, <1>11 DEF Restart
<1>12. QED
  BY <1>2, <1>3, <1>4, <1>5, <1>6, <1>7, <1>8, <1>9, <1>10, <1>11, FrameRoles

PersistingOf(n) ==
  /\ (comp[n] \in Standby \/ (comp[n] = "init" /\ alive[n])) => under[n] = Count(n)
  /\ comp[n] = "single" => under[n] = solo[n]

\* What a step does to the series of one node.
LEMMA SeriesStep ==
  ASSUME PairInv, [Next]_vars, NEW n \in Node
  PROVE  \/ UNCHANGED <<pre[n], under[n], solo[n]>>
         \/ RealDo(n) /\ comp[n] \in Active /\ comp'[n] = comp[n] /\ UNCHANGED <<under, solo>>
         \/ /\ SelfConfirm(n) /\ comp[n] = "single" /\ comp'[n] = "single" /\ pre' = pre
            /\ under'[n] = Count(n)' /\ solo'[n] = Count(n)'
         \/ /\ ReceiveConfirmReq(n) /\ comp[n] \in Standby /\ comp'[n] = comp[n]
            /\ under'[n] = Count(n)'
         \/ ReceiveConfirmRsp(n) /\ comp[n] = "primary" /\ comp'[n] = comp[n]
         \/ /\ EnterSingle(n) /\ comp'[n] = "single" /\ pre' = pre
            /\ under'[n] = Count(n)' /\ solo'[n] = Count(n)'
         \/ /\ Restart(n) /\ comp[n] = "init" /\ comp'[n] = "init"
            /\ under'[n] = Count(n)' /\ under'[n] = under[n] /\ solo'[n] = solo[n]
<1>1. /\ Shape /\ Lengths /\ Persisting /\ Answered /\ Roles
  BY DEF PairInv
<1>2. CASE UNCHANGED <<pre, under, solo, lossy>>
  BY <1>2
<1>3. ASSUME NEW m \in Node, m # n,
             \/ RealDo(m) \/ SelfConfirm(m) \/ ReceiveConfirmReq(m)
             \/ ReceiveConfirmRsp(m) \/ EnterSingle(m) \/ Restart(m)
      PROVE  UNCHANGED <<pre[n], under[n], solo[n]>>
  <2>1. n = Peer(m)
    BY <1>3, Peers
  <2>2. CASE RealDo(m)
    BY <1>1, <2>1, <2>2, RealDoFacts
  <2>3. CASE SelfConfirm(m)
    BY <1>1, <2>1, <2>3, SelfConfirmFacts
  <2>4. CASE ReceiveConfirmReq(m)
    BY <1>1, <2>1, <2>4, ConfirmReqFacts
  <2>5. CASE ReceiveConfirmRsp(m)
    BY <1>1, <2>1, <2>5, ConfirmRspFacts
  <2>6. CASE EnterSingle(m)
    BY <1>1, <2>1, <2>6, EnterSingleFacts
  <2>7. CASE Restart(m)
    BY <1>1, <2>1, <2>7, RestartShape DEF Restart, history
  <2>8. QED
    BY <1>3, <2>2, <2>3, <2>4, <2>5, <2>6, <2>7
<1>4. CASE RealDo(n)
  BY <1>1, <1>4, RealDoFacts
<1>5. CASE SelfConfirm(n)
  BY <1>1, <1>5, SelfConfirmFacts DEF Count
<1>6. CASE ReceiveConfirmReq(n)
  BY <1>1, <1>6, ConfirmReqFacts DEF Count
<1>7. CASE ReceiveConfirmRsp(n)
  BY <1>1, <1>7, ConfirmRspFacts
<1>8. CASE EnterSingle(n)
  BY <1>1, <1>8, EnterSingleFacts DEF Count
<1>9. CASE Restart(n)
  <2>1. ~alive[n] /\ comp' = comp /\ solo' = solo
    BY <1>9 DEF Restart, history
  <2>2. comp[n] = "init"
    BY <1>1, <2>1 DEF Roles
  <2>3. QED
    BY <1>1, <1>9, <2>1, <2>2, RestartShape DEF Count
<1>10. QED
  BY <1>2, <1>3, <1>4, <1>5, <1>6, <1>7, <1>8, <1>9, FrameSeries

LEMMA PersistingNext ==
  ASSUME PairInv, [Next]_vars
  PROVE  Persisting'
<1> SUFFICES ASSUME NEW n \in Node
             PROVE  PersistingOf(n)'
  BY DEF Persisting, PersistingOf
<1>1. Shape /\ PersistingOf(n) /\ Roles
  BY DEF PairInv, Persisting, PersistingOf
<1>2. CASE UNCHANGED <<pre[n], under[n], solo[n]>>
  <2>1. Count(n)' = Count(n) /\ under'[n] = under[n] /\ solo'[n] = solo[n]
    BY <1>2 DEF Count
  <2>2. CASE UNCHANGED <<alive[n], comp[n]>>
    BY <1>1, <2>1, <2>2 DEF PersistingOf
  <2>3. CASE Exit(n) /\ comp'[n] = "init" /\ ~alive'[n]
    BY <2>3 DEF PersistingOf, Standby
  <2>4. CASE EnterSingle(n)
    <3>1. comp'[n] = "single" /\ under'[n] = solo'[n]
      BY <1>1, <2>4, EnterSingleFacts DEF PairInv
    <3>2. QED
      BY <3>1 DEF PersistingOf, Standby
  <2>5. CASE comp[n] = "init" /\ comp'[n] = "prepare" /\ alive[n]
    BY <1>1, <2>1, <2>5 DEF PersistingOf, Standby
  <2>6. CASE comp[n] = "single" /\ comp'[n] = "primary"
    BY <2>6 DEF PersistingOf, Standby
  <2>7. CASE comp[n] = "prepare" /\ comp'[n] = "secondary"
    BY <1>1, <2>1, <2>7 DEF PersistingOf, Standby
  <2>8. CASE Restart(n)
    <3>1. ~alive[n] /\ comp' = comp
      BY <2>8 DEF Restart
    <3>2. comp'[n] = "init"
      BY <1>1, <3>1 DEF Roles
    <3>3. under'[n] = Count(n)'
      BY <1>1, <2>8, RestartShape DEF PairInv, Count
    <3>4. QED
      BY <3>2, <3>3 DEF PersistingOf
  <2>9. QED
    BY <1>1, <2>2, <2>3, <2>4, <2>5, <2>6, <2>7, <2>8, CompStep
<1>3. CASE comp[n] \in Active /\ comp'[n] = comp[n] /\ UNCHANGED <<under, solo>>
  BY <1>1, <1>3 DEF PersistingOf, Standby, Active
<1>4. CASE comp'[n] = "single" /\ under'[n] = Count(n)' /\ solo'[n] = Count(n)'
  BY <1>4 DEF PersistingOf, Standby
<1>5. CASE comp[n] \in Standby /\ comp'[n] = comp[n] /\ under'[n] = Count(n)'
  BY <1>5 DEF PersistingOf, Standby
<1>6. CASE comp[n] = "primary" /\ comp'[n] = comp[n]
  BY <1>6 DEF PersistingOf, Standby
<1>7. CASE comp'[n] = "init" /\ under'[n] = Count(n)'
  BY <1>7 DEF PersistingOf, Standby
<1>8. QED
  BY <1>2, <1>3, <1>4, <1>5, <1>6, <1>7, SeriesStep

-----------------------------------------------------------------------------
(* What a step does to the hotline of one node.                            *)

Receives(n) ==
  \/ ReceiveLoginReq(n) \/ ReceiveConfirmReq(n) \/ ReceiveConfirmRsp(n) \/ ReceivePrepareRsp(n)
  \/ ReceiveIgnored(n) \/ ReceiveLost(n)

\* A node that takes a package; what it sends goes to its peer.
LEMMA ReceivesFacts ==
  ASSUME Shape, NEW n \in Node, Receives(n)
  PROVE  /\ wire[n] # <<>> /\ wire'[n] = Take(n)[n] /\ alive[n] /\ comp' = comp
         /\ \/ wire'[Peer(n)] = wire[Peer(n)]
            \/ LinkUp /\ ReceiveLoginReq(n) /\ wire'[Peer(n)] = Append(wire[Peer(n)], LoginError)
            \/ /\ LinkUp /\ ReceiveConfirmReq(n)
               /\ wire'[Peer(n)] = Append(wire[Peer(n)], ConfirmRsp(Head(wire[n]).no))
<1>1. wire[n] # <<>> /\ alive[n]
  BY DEF Receives, ReceiveLoginReq, ReceiveConfirmReq, ReceiveConfirmRsp, ReceivePrepareRsp,
         ReceiveIgnored, ReceiveLost, Receive
<1>2. Head(wire[n]) \in Package /\ Take(n)[Peer(n)] = wire[Peer(n)]
  BY <1>1, TakeFacts
<1>3. comp' = comp
  BY DEF Receives, ReceiveLoginReq, ReceiveConfirmReq, ReceiveConfirmRsp, ReceivePrepareRsp,
         ReceiveIgnored, ReceiveLost
<1>4. CASE ReceiveLoginReq(n)
  <2>1. wire' = Take(n) \/ Answer(n, LoginError)
    BY <1>4 DEF ReceiveLoginReq
  <2>2. LoginError \in Package
    BY Packages
  <2>3. QED
    BY <1>1, <1>2, <1>3, <1>4, <2>1, <2>2, AnswerFacts
<1>5. CASE ReceiveConfirmReq(n)
  <2>1. Answer(n, ConfirmRsp(Head(wire[n]).no)) /\ Head(wire[n]).tid = "confirmReq"
    BY <1>5 DEF ReceiveConfirmReq, Receive
  <2>2. ConfirmRsp(Head(wire[n]).no) \in Package
    BY <1>2, <2>1, Packages
  <2>3. QED
    BY <1>1, <1>2, <1>3, <1>5, <2>1, <2>2, AnswerFacts
<1>6. CASE ReceiveConfirmRsp(n) \/ ReceivePrepareRsp(n) \/ ReceiveIgnored(n) \/ ReceiveLost(n)
  <2>1. wire' = Take(n)
    BY <1>6 DEF ReceiveConfirmRsp, ReceivePrepareRsp, ReceiveIgnored, ReceiveLost
  <2>2. QED
    BY <1>1, <1>2, <1>3, <2>1
<1>7. QED
  BY <1>4, <1>5, <1>6 DEF Receives

LEMMA SendFacts ==
  ASSUME Shape, Lengths, NEW n \in Node, PublishSend(n)
  PROVE  LET p == Peer(n)
             k == attached[n] + 1 IN
         /\ LinkUp /\ alive[n] /\ k \in 1 .. Count(n) /\ pre[n][k] \in Text /\ k \in Nat
         /\ attached'[n] = k /\ attached'[p] = attached[p]
         /\ wire'[n] = wire[n] /\ wire'[p] = Append(wire[p], ConfirmReq(k, pre[n][k]))
         /\ UNCHANGED <<alive, comp, hotline, pre, under, lossy>>
<1> DEFINE k == attached[n] + 1
           p == Peer(n)
           x == ConfirmReq(k, pre[n][k])
<1>1. /\ LinkUp /\ alive[n] /\ attached[n] \in 0 .. Count(n) - 1
      /\ attached' = [attached EXCEPT ![n] = @ + 1]
      /\ wire' = [wire EXCEPT ![p] = Append(@, x)]
      /\ UNCHANGED <<alive, comp, hotline, pre, under, lossy>>
  BY DEF PublishSend, flows, history
<1>2. /\ attached \in [Node -> Int] /\ wire \in [Node -> Seq(Package)] /\ pre[n] \in Seq(Text)
      /\ p \in Node /\ p # n /\ Len(pre[n]) \in Nat
  BY Peers, LenProperties DEF Shape
<1>3. k \in 1 .. Len(pre[n]) /\ k \in Nat
  BY <1>1, <1>2 DEF Count
<1>4. pre[n][k] \in Text
  BY <1>2, <1>3, ElementOfSeq
<1>5. attached'[n] = k /\ attached'[p] = attached[p]
  BY <1>1, <1>2
<1> HIDE DEF x
<1>6. wire'[n] = wire[n] /\ wire'[p] = Append(wire[p], x)
  BY <1>1, <1>2
<1>7. QED
  BY <1>1, <1>3, <1>4, <1>5, <1>6 DEF Count, x

LEMMA WireStep ==
  ASSUME Shape, Lengths, Sessions, [Next]_vars, NEW n \in Node
  PROVE  LET p == Peer(n)
             k == attached[p] + 1 IN
         \/ wire'[n] = wire[n]
         \/ Receives(n) /\ wire[n] # <<>> /\ wire'[n] = Take(n)[n]
         \/ LinkUp /\ PublishSend(p) /\ wire'[n] = Append(wire[n], ConfirmReq(k, pre[p][k]))
         \/ LinkUp /\ ReceiveLoginReq(p) /\ wire'[n] = Append(wire[n], LoginError)
         \/ LinkUp /\ ReceiveConfirmReq(p) /\ wire'[n] = Append(wire[n], ConfirmRsp(Head(wire[p]).no))
         \/ Cut(wire[n], wire'[n]) /\ hotline[n] /\ Lost \notin ToSet(wire[n])
            /\ (Exit(p) \/ HotlineBreak)
         \/ Exit(n) /\ wire'[n] = <<>>
         \/ HotlineConnect(p) /\ wire'[n] \in {<<>>, <<LoginReq(Count(p))>>}
<1>1. /\ Peer(n) \in Node /\ Peer(n) # n /\ Peer(Peer(n)) = n
      /\ \A m \in Node : m = n \/ m = Peer(n)
  BY Peers
<1>2. CASE UNCHANGED <<hotline, attached, wire>>
  BY <1>2
<1>3. ASSUME NEW m \in Node, Receives(m)
      PROVE  \/ wire'[n] = wire[n]
             \/ Receives(n) /\ wire[n] # <<>> /\ wire'[n] = Take(n)[n]
             \/ /\ LinkUp /\ ReceiveLoginReq(Peer(n))
                /\ wire'[n] = Append(wire[n], LoginError)
             \/ /\ LinkUp /\ ReceiveConfirmReq(Peer(n))
                /\ wire'[n] = Append(wire[n], ConfirmRsp(Head(wire[Peer(n)]).no))
  <2>1. CASE m = n
    BY <1>3, <2>1, ReceivesFacts
  <2>2. CASE m = Peer(n)
    BY <1>1, <1>3, <2>2, ReceivesFacts
  <2>3. QED
    BY <1>1, <2>1, <2>2
<1>4. CASE PublishSend(n)
  BY <1>4, SendFacts
<1>5. CASE PublishSend(Peer(n))
  BY <1>1, <1>5, SendFacts
<1>6. CASE Exit(n)
  BY <1>6, ExitFacts
<1>7. CASE Exit(Peer(n))
  BY <1>1, <1>7, ExitFacts
<1>8. CASE HotlineConnect(n)
  BY <1>8, ConnectShape
<1>9. CASE HotlineConnect(Peer(n))
  BY <1>1, <1>9, ConnectShape
<1>10. CASE HotlineBreak
  <2>1. hotline[n] /\ Lost \notin ToSet(wire[n])
    BY <1>10 DEF HotlineBreak, LinkUp
  <2>2. Cut(wire[n], wire'[n])
    BY <1>10, BreakFacts
  <2>3. QED
    BY <1>10, <2>1, <2>2
<1>11. QED
  BY <1>1, <1>2, <1>3, <1>4, <1>5, <1>6, <1>7, <1>8, <1>9, <1>10, FrameLinks DEF Receives

LEMMA HotlineStep ==
  ASSUME Shape, Lengths, Sessions, [Next]_vars, NEW n \in Node
  PROVE  \/ UNCHANGED <<hotline[n], attached[n]>>
         \/ Exit(n) /\ ~hotline'[n] /\ attached'[n] = -1
         \/ ReceiveLost(n) /\ ~hotline'[n] /\ attached'[n] = -1
         \/ PublishSend(n) /\ hotline[n] /\ hotline'[n] /\ attached[n] >= 0
         \/ ReceiveLoginReq(n) /\ comp[n] = "single" /\ hotline[n] /\ hotline'[n]
         \/ HotlineConnect(n) /\ hotline'[n] /\ attached'[n] = attached[n]
         \/ HotlineConnect(Peer(n)) /\ hotline'[n] /\ attached'[n] = attached[n]
<1>1. /\ hotline \in [Node -> BOOLEAN] /\ attached \in [Node -> Int]
      /\ Peer(n) \in Node /\ Peer(n) # n
      /\ \A m \in Node : m = n \/ m = Peer(n)
  BY Peers DEF Shape
<1>2. ASSUME NEW m \in Node, ReceiveConfirmReq(m) \/ ReceiveConfirmRsp(m) \/ ReceivePrepareRsp(m)
                             \/ ReceiveIgnored(m)
      PROVE  UNCHANGED <<hotline, attached>>
  BY <1>2 DEF ReceiveConfirmReq, ReceiveConfirmRsp, ReceivePrepareRsp, ReceiveIgnored
<1>3. ASSUME NEW m \in Node, ReceiveLost(m) \/ Exit(m)
      PROVE  \/ UNCHANGED <<hotline[n], attached[n]>>
             \/ m = n /\ ~hotline'[n] /\ attached'[n] = -1
  <2>1. hotline' = [hotline EXCEPT ![m] = FALSE] /\ attached' = [attached EXCEPT ![m] = -1]
    BY <1>3 DEF ReceiveLost, Exit
  <2>2. QED
    BY <1>1, <2>1
<1>4. ASSUME NEW m \in Node, PublishSend(m)
      PROVE  \/ UNCHANGED <<hotline[n], attached[n]>>
             \/ m = n /\ hotline[n] /\ hotline'[n] /\ attached[n] >= 0
  <2>1. hotline[m] /\ hotline' = hotline /\ attached' = [attached EXCEPT ![m] = @ + 1]
        /\ attached[m] \in 0 .. Count(m) - 1
    BY <1>4 DEF PublishSend, LinkUp
  <2>2. Count(m) \in Nat
    BY LenProperties DEF Shape, Count
  <2>3. attached[m] >= 0
    BY <2>1, <2>2
  <2>4. CASE m = n
    BY <2>1, <2>3, <2>4
  <2>5. CASE m # n
    BY <1>1, <2>1, <2>5
  <2>6. QED
    BY <2>4, <2>5
<1>5. ASSUME NEW m \in Node, ReceiveLoginReq(m)
      PROVE  \/ UNCHANGED <<hotline[n], attached[n]>>
             \/ m = n /\ comp[n] = "single" /\ hotline[n] /\ hotline'[n]
  <2>1. hotline' = hotline /\ wire[m] # <<>> /\ comp[m] = "single"
    BY <1>5 DEF ReceiveLoginReq, Receive
  <2>2. hotline[m]
    BY <2>1 DEF Sessions
  <2>3. CASE m # n
    <3>1. attached'[n] = attached[n]
      BY <1>1, <1>5, <2>3 DEF ReceiveLoginReq
    <3>2. QED
      BY <2>1, <3>1
  <2>4. CASE m = n
    BY <2>1, <2>2, <2>4
  <2>5. QED
    BY <2>3, <2>4
<1>6. ASSUME NEW m \in Node, HotlineConnect(m)
      PROVE  hotline'[n] /\ attached' = attached
  BY <1>6 DEF HotlineConnect
<1>7. CASE HotlineBreak
  BY <1>7 DEF HotlineBreak
<1>8. QED
  BY <1>1, <1>2, <1>3, <1>4, <1>5, <1>6, <1>7, FrameLinks

-----------------------------------------------------------------------------
(* Sessions.                                                               *)

Ends(n) == \A i \in 1 .. Len(wire[n]) : wire[n][i].tid = "lost" => i = Len(wire[n])
Addressed(n) ==
  comp[n] \in Standby =>
    \A i \in 1 .. Len(wire[n]) : wire[n][i].tid \in {"confirmReq", "loginError", "lost"}

LEMMA ConnectRoles ==
  ASSUME NEW n \in Node, HotlineConnect(n)
  PROVE  /\ comp[n] \in Standby /\ comp[Peer(n)] \in Active /\ comp' = comp
         /\ ~hotline[n] /\ ~hotline[Peer(n)] /\ alive[n] /\ alive[Peer(n)]
         /\ attached' = attached /\ hotline' = [m \in Node |-> TRUE]
         /\ UNCHANGED <<pre, under, lossy, alive>>
BY Peers DEF HotlineConnect, Standby, Active, flows, history

LEMMA LostEmpties ==
  ASSUME Shape, Sessions, NEW n \in Node, ReceiveLost(n)
  PROVE  wire'[n] = <<>>
<1>1. wire[n] # <<>> /\ Head(wire[n]).tid = "lost" /\ wire' = Take(n)
  BY DEF ReceiveLost, Receive
<1>2. Len(wire[n]) \in Nat /\ Len(wire[n]) > 0 /\ Head(wire[n]) = wire[n][1]
      /\ Len(Take(n)[n]) = Len(wire[n]) - 1 /\ Take(n)[n] \in Seq(Package)
  BY <1>1, TakeFacts
<1>3. Len(wire[n]) = 1
  <2>1. 1 \in 1 .. Len(wire[n]) /\ wire[n][1].tid = "lost"
    BY <1>1, <1>2
  <2>2. QED
    BY <2>1 DEF Sessions
<1>4. QED
  BY <1>1, <1>2, <1>3, EmptySeq

LEMMA WireEnds ==
  ASSUME PairInv, [Next]_vars, NEW n \in Node
  PROVE  Ends(n)'
<1>1. Shape /\ Lengths /\ Sessions /\ Ends(n)
  BY DEF PairInv, Sessions, Ends
<1>2. wire[n] \in Seq(Package) /\ Len(wire[n]) \in Nat
  BY <1>1, LenProperties DEF Shape
<1>3. CASE wire'[n] = wire[n]
  BY <1>1, <1>3 DEF Ends
<1>4. CASE wire[n] # <<>> /\ wire'[n] = Take(n)[n]
  <2>1. /\ Len(wire'[n]) = Len(wire[n]) - 1
        /\ \A i \in 1 .. Len(wire[n]) - 1 : wire'[n][i] = wire[n][i + 1]
    BY <1>1, <1>4, TakeFacts
  <2>2. SUFFICES ASSUME NEW i \in 1 .. Len(wire'[n]), wire'[n][i].tid = "lost"
                 PROVE  i = Len(wire'[n])
    BY DEF Ends
  <2>3. i + 1 \in 1 .. Len(wire[n]) /\ wire[n][i + 1].tid = "lost"
    BY <1>2, <2>1, <2>2
  <2>4. i + 1 = Len(wire[n])
    BY <1>1, <2>3 DEF Ends
  <2>5. QED
    BY <1>2, <2>1, <2>4
<1>5. ASSUME LinkUp, NEW x \in Package, x.tid # "lost", wire'[n] = Append(wire[n], x)
      PROVE  Ends(n)'
  <2>1. \A i \in 1 .. Len(wire[n]) : wire[n][i].tid # "lost"
    BY <1>1, <1>5, NoneLost
  <2>2. /\ Len(wire'[n]) = Len(wire[n]) + 1 /\ wire'[n][Len(wire[n]) + 1] = x
        /\ \A i \in 1 .. Len(wire[n]) : wire'[n][i] = wire[n][i]
    BY <1>2, <1>5, SentFacts
  <2>3. \A i \in 1 .. Len(wire'[n]) : i \in 1 .. Len(wire[n]) \/ i = Len(wire[n]) + 1
    BY <1>2, <2>2
  <2>4. QED
    BY <1>5, <2>1, <2>2, <2>3 DEF Ends
<1>6. CASE Cut(wire[n], wire'[n]) /\ Lost \notin ToSet(wire[n])
  <2>1. PICK k \in 0 .. Len(wire[n]) :
          Len(wire'[n]) = k + 1 /\ \A i \in 1 .. k : wire'[n][i] = wire[n][i]
    BY <1>6 DEF Cut
  <2>2. \A i \in 1 .. Len(wire[n]) : wire[n][i] \in Package /\ wire[n][i] # Lost
    BY <1>2, <1>6, ElementOfSeq DEF ToSet
  <2>3. \A i \in 1 .. Len(wire'[n]) : i = k + 1 \/ (i \in 1 .. k /\ i \in 1 .. Len(wire[n]))
    BY <1>2, <2>1
  <2>4. QED
    BY <2>1, <2>2, <2>3, LostOnly DEF Ends
<1>7. CASE wire'[n] \in {<<>>, <<LoginReq(Count(Peer(n)))>>}
  <2>1. \A i \in 1 .. Len(wire'[n]) : i = Len(wire'[n])
    <3>1. Len(wire'[n]) = 0 \/ Len(wire'[n]) = 1
      BY <1>7
    <3>2. CASE Len(wire'[n]) = 0
      BY <3>2
    <3>3. CASE Len(wire'[n]) = 1
      BY <3>3
    <3>4. QED
      BY <3>1, <3>2, <3>3
  <2>2. QED
    BY <2>1 DEF Ends
<1>8. ASSUME LinkUp, PublishSend(Peer(n)),
             wire'[n] = Append(wire[n], ConfirmReq(attached[Peer(n)] + 1, pre[Peer(n)][attached[Peer(n)] + 1]))
      PROVE  Ends(n)'
  <2>1. attached[Peer(n)] + 1 \in Nat /\ pre[Peer(n)][attached[Peer(n)] + 1] \in Text
    BY <1>1, <1>8, Peers, SendFacts
  <2>2. QED
    BY <1>5, <1>8, <2>1, Packages
<1>9. ASSUME LinkUp, ReceiveConfirmReq(Peer(n)),
             wire'[n] = Append(wire[n], ConfirmRsp(Head(wire[Peer(n)]).no))
      PROVE  Ends(n)'
  <2>1. Head(wire[Peer(n)]).no \in Nat
    BY <1>9, Peers, ConfirmReqFacts DEF PairInv
  <2>2. QED
    BY <1>5, <1>9, <2>1, Packages
<1>10. CASE LinkUp /\ wire'[n] = Append(wire[n], LoginError)
  BY <1>5, <1>10, Packages
<1>11. QED
  BY <1>1, <1>3, <1>4, <1>6, <1>7, <1>8, <1>9, <1>10, WireStep

LEMMA WireAddressed ==
  ASSUME PairInv, [Next]_vars, NEW n \in Node
  PROVE  Addressed(n)'
<1> DEFINE Messages == {"confirmReq", "loginError", "lost"}
<1>1. Shape /\ Lengths /\ Sessions /\ Roles
  BY DEF PairInv
<1>2. wire[n] \in Seq(Package) /\ Len(wire[n]) \in Nat
  BY <1>1, LenProperties DEF Shape
<1> SUFFICES ASSUME comp'[n] \in Standby
             PROVE  \A i \in 1 .. Len(wire'[n]) : wire'[n][i].tid \in Messages
  BY DEF Addressed
<1>3. comp[n] \in Standby \/ (comp[n] = "init" /\ EnterPrepare(n) /\ UNCHANGED wire)
  BY <1>1, CompStep DEF Standby, links
<1>4. CASE comp[n] = "init" /\ EnterPrepare(n) /\ UNCHANGED wire
  <2>1. wire'[n] = <<>>
    BY <1>1, <1>4 DEF Sessions
  <2>2. QED
    BY <2>1
<1>5. CASE comp[n] \in Standby
  <2>1. \A i \in 1 .. Len(wire[n]) : wire[n][i].tid \in Messages
    BY <1>1, <1>5 DEF Sessions
  <2>2. CASE wire'[n] = wire[n]
    BY <2>1, <2>2
  <2>3. CASE wire[n] # <<>> /\ wire'[n] = Take(n)[n]
    <3>1. /\ Len(wire'[n]) = Len(wire[n]) - 1
          /\ \A i \in 1 .. Len(wire[n]) - 1 : wire'[n][i] = wire[n][i + 1]
      BY <1>1, <2>3, TakeFacts
    <3>2. \A i \in 1 .. Len(wire'[n]) : i + 1 \in 1 .. Len(wire[n]) /\ wire'[n][i] = wire[n][i + 1]
      BY <1>2, <3>1
    <3>3. QED
      BY <2>1, <3>2
  <2>4. ASSUME NEW x \in Package, x.tid \in Messages, wire'[n] = Append(wire[n], x)
        PROVE  \A i \in 1 .. Len(wire'[n]) : wire'[n][i].tid \in Messages
    <3>1. /\ Len(wire'[n]) = Len(wire[n]) + 1 /\ wire'[n][Len(wire[n]) + 1] = x
          /\ \A i \in 1 .. Len(wire[n]) : wire'[n][i] = wire[n][i]
      BY <1>2, <2>4, SentFacts
    <3>2. \A i \in 1 .. Len(wire'[n]) : i \in 1 .. Len(wire[n]) \/ i = Len(wire[n]) + 1
      BY <1>2, <3>1
    <3>3. QED
      BY <2>1, <2>4, <3>1, <3>2
  <2>5. CASE Cut(wire[n], wire'[n])
    <3>1. PICK k \in 0 .. Len(wire[n]) :
            /\ Len(wire'[n]) = k + 1 /\ \A i \in 1 .. k : wire'[n][i] = wire[n][i]
            /\ wire'[n][k + 1] = Lost
      BY <2>5 DEF Cut
    <3>2. \A i \in 1 .. Len(wire'[n]) : i = k + 1 \/ (i \in 1 .. k /\ i \in 1 .. Len(wire[n]))
      BY <1>2, <3>1
    <3>3. QED
      BY <2>1, <3>1, <3>2, Packages
  <2>6. CASE wire'[n] = <<>>
    BY <2>6
  <2>7. ~HotlineConnect(Peer(n))
    BY <1>5, Peers, ConnectRoles DEF Standby, Active
  <2>8. ~ReceiveConfirmReq(Peer(n))
    <3>1. comp[Peer(n)] \in Active \union {"init"}
      BY <1>1, <1>5 DEF Roles
    <3>2. QED
      BY <3>1 DEF ReceiveConfirmReq, Active
  <2>9. ASSUME PublishSend(Peer(n)),
               wire'[n] = Append(wire[n], ConfirmReq(attached[Peer(n)] + 1,
                                                     pre[Peer(n)][attached[Peer(n)] + 1]))
        PROVE  \A i \in 1 .. Len(wire'[n]) : wire'[n][i].tid \in Messages
    <3>1. attached[Peer(n)] + 1 \in Nat /\ pre[Peer(n)][attached[Peer(n)] + 1] \in Text
      BY <1>1, <2>9, Peers, SendFacts
    <3>2. QED
      BY <2>4, <2>9, <3>1, Packages
  <2>10. CASE wire'[n] = Append(wire[n], LoginError)
    BY <2>4, <2>10, Packages
  <2>11. QED
    BY <1>1, <2>2, <2>3, <2>5, <2>6, <2>7, <2>8, <2>9, <2>10, WireStep
<1>6. QED
  BY <1>3, <1>4, <1>5

LEMMA SessionsNext ==
  ASSUME PairInv, [Next]_vars
  PROVE  Sessions'
<1>1. Shape /\ Lengths /\ Sessions /\ Roles
  BY DEF PairInv
<1>2. ASSUME NEW n \in Node, ~hotline'[n]
      PROVE  wire'[n] = <<>> /\ attached'[n] = -1
  <2>1. CASE UNCHANGED <<hotline[n], attached[n]>>
    <3>1. ~hotline[n] /\ wire[n] = <<>> /\ attached'[n] = -1
      BY <1>1, <1>2, <2>1 DEF Sessions
    <3>2. ~LinkUp
      BY <3>1 DEF LinkUp
    <3>3. ~HotlineConnect(Peer(n))
      BY <1>2, Peers, ConnectRoles
    <3>4. QED
      BY <1>1, <3>1, <3>2, <3>3, WireStep
  <2>2. CASE Exit(n) /\ attached'[n] = -1
    BY <1>1, <2>2, ExitFacts
  <2>3. CASE ReceiveLost(n) /\ attached'[n] = -1
    BY <1>1, <2>3, LostEmpties
  <2>4. QED
    BY <1>1, <1>2, <2>1, <2>2, <2>3, HotlineStep
<1>3. ASSUME NEW n \in Node, comp'[n] = "init"
      PROVE  ~hotline'[n]
  <2>1. CASE Exit(n)
    BY <1>1, <2>1 DEF Exit, Shape
  <2>2. CASE comp[n] = "init"
    <3>1. ~hotline[n]
      BY <1>1, <2>2 DEF Sessions
    <3>2. ~HotlineConnect(n) /\ ~HotlineConnect(Peer(n))
      BY <2>2, Peers, ConnectRoles DEF Standby, Active
    <3>3. QED
      BY <1>1, <3>1, <3>2, HotlineStep
  <2>3. QED
    BY <1>1, <1>3, <2>1, <2>2, CompStep
<1>4. ASSUME NEW n \in Node, comp'[n] \in Standby
      PROVE  attached'[n] = -1
  <2>1. comp[n] \in Standby \/ comp[n] = "init"
    BY <1>1, <1>4, CompStep DEF Standby
  <2>2. attached[n] = -1
    BY <1>1, <2>1 DEF Sessions
  <2>3. comp[n] # "single"
    BY <2>1 DEF Standby
  <2>4. QED
    BY <1>1, <2>2, <2>3, HotlineStep
<1>5. \A n \in Node : Ends(n)' /\ Addressed(n)'
  BY WireEnds, WireAddressed
<1>6. QED
  BY <1>2, <1>3, <1>4, <1>5 DEF Sessions, Ends, Addressed

-----------------------------------------------------------------------------
(* What is on its way to a standby.                                        *)

\* Every package on the wire was there before, at this place or behind it, or was
\* sent by the step.
LEMMA WireElements ==
  ASSUME PairInv, [Next]_vars, NEW n \in Node, NEW i \in 1 .. Len(wire'[n])
  PROVE  LET p == Peer(n)
             k == attached[p] + 1 IN
         \/ \E j \in 1 .. Len(wire[n]) : wire'[n][i] = wire[n][j] /\ (j = i \/ j = i + 1)
         \/ PublishSend(p) /\ LinkUp /\ wire'[n][i] = ConfirmReq(k, pre[p][k])
         \/ ReceiveConfirmReq(p) /\ LinkUp /\ wire'[n][i] = ConfirmRsp(Head(wire[p]).no)
         \/ wire'[n][i].tid \in {"loginError", "lost"}
         \/ HotlineConnect(p) /\ wire'[n][i] = LoginReq(Count(p))
<1> DEFINE p == Peer(n)
<1>1. Shape /\ Shape' /\ Lengths /\ Sessions
  BY ShapeNext DEF PairInv
<1>2. wire[n] \in Seq(Package) /\ Len(wire[n]) \in Nat /\ wire'[n] \in Seq(Package)
  BY <1>1, LenProperties DEF Shape
<1>3. CASE wire'[n] = wire[n]
  BY <1>3
<1>4. CASE wire[n] # <<>> /\ wire'[n] = Take(n)[n]
  <2>1. Len(wire'[n]) = Len(wire[n]) - 1 /\ \A j \in 1 .. Len(wire[n]) - 1 : wire'[n][j] = wire[n][j + 1]
    BY <1>1, <1>4, TakeFacts
  <2>2. i + 1 \in 1 .. Len(wire[n]) /\ wire'[n][i] = wire[n][i + 1]
    BY <1>2, <2>1
  <2>3. QED
    BY <2>2
<1>5. ASSUME NEW x \in Package, wire'[n] = Append(wire[n], x)
      PROVE  wire'[n][i] = x \/ \E j \in 1 .. Len(wire[n]) : wire'[n][i] = wire[n][j] /\ j = i
  <2>1. /\ Len(wire'[n]) = Len(wire[n]) + 1 /\ wire'[n][Len(wire[n]) + 1] = x
        /\ \A j \in 1 .. Len(wire[n]) : wire'[n][j] = wire[n][j]
    BY <1>2, <1>5, SentFacts
  <2>2. i \in 1 .. Len(wire[n]) \/ i = Len(wire[n]) + 1
    BY <1>2, <2>1
  <2>3. QED
    BY <2>1, <2>2
<1>6. CASE Cut(wire[n], wire'[n])
  <2>1. PICK k \in 0 .. Len(wire[n]) :
          /\ Len(wire'[n]) = k + 1 /\ \A j \in 1 .. k : wire'[n][j] = wire[n][j]
          /\ wire'[n][k + 1] = Lost
    BY <1>6 DEF Cut
  <2>2. i = k + 1 \/ (i \in 1 .. k /\ i \in 1 .. Len(wire[n]))
    BY <1>2, <2>1
  <2>3. QED
    BY <2>1, <2>2, Packages
<1>7. CASE wire'[n] = <<>>
  BY <1>7
<1>8. CASE HotlineConnect(p) /\ wire'[n] = <<LoginReq(Count(p))>>
  <2>1. i = 1
    BY <1>8
  <2>2. QED
    BY <1>8, <2>1
<1>9. CASE LinkUp /\ PublishSend(p) /\ wire'[n] = Append(wire[n], ConfirmReq(attached[p] + 1, pre[p][attached[p] + 1]))
  <2>1. ConfirmReq(attached[p] + 1, pre[p][attached[p] + 1]) \in Package
    BY <1>1, <1>9, Peers, SendFacts, Packages
  <2>2. QED
    BY <1>5, <1>9, <2>1
<1>10. CASE LinkUp /\ ReceiveConfirmReq(p) /\ wire'[n] = Append(wire[n], ConfirmRsp(Head(wire[p]).no))
  <2>1. ConfirmRsp(Head(wire[p]).no) \in Package
    BY <1>1, <1>10, Peers, ConfirmReqFacts, Packages DEF PairInv
  <2>2. QED
    BY <1>5, <1>10, <2>1
<1>11. CASE wire'[n] = Append(wire[n], LoginError)
  BY <1>5, <1>11, Packages
<1>12. QED
  BY <1>1, <1>3, <1>4, <1>6, <1>7, <1>8, <1>9, <1>10, <1>11, WireStep

LEMMA StandbyTakes ==
  ASSUME NEW n \in Node, comp[n] \in Standby, Receives(n), ~ReceiveConfirmReq(n)
  PROVE  Head(wire[n]).tid # "confirmReq"
BY DEF Receives, ReceiveLoginReq, ReceiveConfirmRsp, ReceivePrepareRsp, ReceiveIgnored, ReceiveLost,
       Receive, HandledIn, Standby

\* A standby was one before, or comes from INIT, where it has no session.
LEMMA BecomesStandby ==
  ASSUME PairInv, [Next]_vars, NEW n \in Node, comp'[n] \in Standby
  PROVE  \/ comp[n] \in Standby /\ (ReceiveConfirmReq(n) \/ UNCHANGED pre[n])
         \/ /\ comp[n] = "init" /\ EnterPrepare(n) /\ cmd[n] = "prepare" /\ alive[n]
            /\ wire[n] = <<>> /\ wire'[n] = <<>> /\ ~hotline[n] /\ UNCHANGED <<links, pre, under, solo, lossy>>
<1>1. Shape /\ Sessions
  BY DEF PairInv
<1>2. \/ comp[n] \in Standby
      \/ /\ comp[n] = "init" /\ EnterPrepare(n) /\ cmd[n] = "prepare" /\ alive[n]
         /\ UNCHANGED <<links, pre, under, solo, lossy>>
  BY <1>1, CompStep DEF Standby
<1>3. CASE comp[n] \in Standby
  <2>1. ReceiveConfirmReq(n) \/ UNCHANGED pre[n]
    BY <1>3, SeriesStep DEF Standby, Active
  <2>2. QED
    BY <1>3, <2>1
<1>4. CASE /\ comp[n] = "init" /\ EnterPrepare(n) /\ cmd[n] = "prepare" /\ alive[n]
           /\ UNCHANGED <<links, pre, under, solo, lossy>>
  <2>1. ~hotline[n] /\ wire[n] = <<>>
    BY <1>1, <1>4 DEF Sessions
  <2>2. wire'[n] = <<>>
    BY <1>4, <2>1 DEF links
  <2>3. QED
    BY <1>4, <2>1, <2>2
<1>5. QED
  BY <1>2, <1>3, <1>4

LEMMA NumberedNext ==
  ASSUME PairInv, [Next]_vars, NEW n \in Node, comp'[n] \in Standby
  PROVE  Numbered(n)'
<1> DEFINE p == Peer(n)
<1>1. Shape /\ Lengths /\ Sessions /\ Roles /\ Feeding /\ Persisting
  BY DEF PairInv
<1>2. /\ wire[n] \in Seq(Package) /\ Len(wire[n]) \in Nat /\ Count(n) \in Nat
      /\ \A i \in 1 .. Len(wire[n]) : wire[n][i] \in Package
  BY <1>1, LenProperties, ElementOfSeq DEF Shape, Count
<1>3. CASE wire'[n] = <<>>
  BY <1>3 DEF Numbered
<1>4. ASSUME comp[n] \in Standby
      PROVE  Numbered(n)'
  <2>1. Numbered(n)
    BY <1>1, <1>4 DEF Feeding
  <2>2. CASE ReceiveConfirmReq(n)
    <3>1. Count(n)' = Count(n) + 1 /\ wire[n] # <<>> /\ wire'[n] = Take(n)[n]
      BY <1>1, <2>2, ConfirmReqFacts, ReceivesFacts DEF Receives, Count
    <3>2. Len(wire'[n]) = Len(wire[n]) - 1
          /\ \A j \in 1 .. Len(wire[n]) - 1 : wire'[n][j] = wire[n][j + 1]
      BY <1>1, <3>1, TakeFacts
    <3>3. SUFFICES ASSUME NEW i \in 1 .. Len(wire'[n]), wire'[n][i].tid = "confirmReq"
                   PROVE  /\ wire'[n][i].no = Count(n)' + i
                          /\ \A j \in 1 .. i : wire'[n][j].tid = "confirmReq"
      BY DEF Numbered
    <3>4. i + 1 \in 1 .. Len(wire[n]) /\ wire'[n][i] = wire[n][i + 1] /\ i \in Nat
      BY <1>2, <3>2
    <3>5. wire[n][i + 1].no = Count(n) + (i + 1) /\ \A j \in 1 .. i + 1 : wire[n][j].tid = "confirmReq"
      BY <2>1, <3>3, <3>4 DEF Numbered
    <3>6. \A j \in 1 .. i : j + 1 \in 1 .. i + 1 /\ wire'[n][j] = wire[n][j + 1]
      BY <1>2, <3>2, <3>4
    <3>7. \A j \in 1 .. i : wire'[n][j].tid = "confirmReq"
      BY <3>5, <3>6
    <3>8. wire'[n][i].no = Count(n)' + i
      BY <1>2, <3>1, <3>4, <3>5
    <3>9. QED
      BY <3>7, <3>8
  <2>3. CASE ~ReceiveConfirmReq(n)
    <3>1. Count(n)' = Count(n)
      BY <1>4, <2>3, BecomesStandby DEF Standby, Count
    <3>2. CASE wire'[n] = wire[n]
      BY <2>1, <3>1, <3>2 DEF Numbered
    <3>3. CASE Receives(n)
      <4>1. Head(wire[n]).tid # "confirmReq" /\ wire[n] # <<>> /\ wire'[n] = Take(n)[n]
        BY <1>1, <1>4, <2>3, <3>3, StandbyTakes, ReceivesFacts
      <4>2. /\ wire[n][1].tid # "confirmReq" /\ Len(wire'[n]) = Len(wire[n]) - 1
            /\ \A j \in 1 .. Len(wire[n]) - 1 : wire'[n][j] = wire[n][j + 1]
        BY <1>1, <4>1, TakeFacts
      <4>3. \A i \in 1 .. Len(wire[n]) : wire[n][i].tid # "confirmReq"
        <5>1. \A i \in 1 .. Len(wire[n]) : 1 \in 1 .. i
          OBVIOUS
        <5>2. QED
          BY <2>1, <4>2, <5>1 DEF Numbered
      <4>4. \A i \in 1 .. Len(wire'[n]) : i + 1 \in 1 .. Len(wire[n]) /\ wire'[n][i] = wire[n][i + 1]
        BY <1>2, <4>2
      <4>5. QED
        BY <4>3, <4>4 DEF Numbered
    <3>4. CASE LinkUp /\ PublishSend(p)
      <4> DEFINE k == attached[p] + 1
                 x == ConfirmReq(k, pre[p][k])
      <4>1. p \in Node /\ Peer(p) = n /\ attached[p] >= 0 /\ k \in Nat /\ pre[p][k] \in Text
            /\ wire'[n] = Append(wire[n], x)
        <5>1. p \in Node /\ Peer(p) = n
          BY Peers
        <5>2. k \in Nat /\ pre[p][k] \in Text /\ wire'[n] = Append(wire[n], x)
          BY <1>1, <3>4, <5>1, SendFacts
        <5>3. attached[p] \in 0 .. Count(p) - 1 /\ Count(p) \in Nat
          BY <3>4, <5>1, StoreStep DEF PublishSend
        <5>4. attached[p] >= 0
          BY <5>3
        <5>5. QED
          BY <5>1, <5>2, <5>4
      <4>2. x \in Package /\ x.tid = "confirmReq" /\ x.no = k
        BY <4>1, Packages
      <4>3. attached[p] = Count(n) + Len(wire[n])
            /\ \A i \in 1 .. Len(wire[n]) : wire[n][i].tid = "confirmReq"
        BY <1>1, <1>4, <3>4, <4>1 DEF Feeding, Attachment
      <4> HIDE DEF x
      <4>4. /\ Len(wire'[n]) = Len(wire[n]) + 1 /\ wire'[n][Len(wire[n]) + 1] = x
            /\ \A i \in 1 .. Len(wire[n]) : wire'[n][i] = wire[n][i]
        BY <1>2, <4>1, <4>2, SentFacts
      <4>5. \A i \in 1 .. Len(wire'[n]) : wire'[n][i].tid = "confirmReq"
        <5>1. \A i \in 1 .. Len(wire'[n]) : i \in 1 .. Len(wire[n]) \/ i = Len(wire[n]) + 1
          BY <1>2, <4>4
        <5>2. QED
          BY <4>2, <4>3, <4>4, <5>1
      <4>6. \A i \in 1 .. Len(wire'[n]) : wire'[n][i].no = Count(n) + i
        <5>1. ASSUME NEW i \in 1 .. Len(wire'[n])
              PROVE  wire'[n][i].no = Count(n) + i
          <6>1. CASE i \in 1 .. Len(wire[n])
            BY <2>1, <4>3, <4>4, <6>1 DEF Numbered
          <6>2. CASE i = Len(wire[n]) + 1
            BY <1>2, <4>1, <4>2, <4>3, <4>4, <6>2
          <6>3. i \in 1 .. Len(wire[n]) \/ i = Len(wire[n]) + 1
            BY <1>2, <4>4, <5>1
          <6>4. QED
            BY <6>1, <6>2, <6>3
        <5>2. QED
          BY <5>1
      <4>7. \A i \in 1 .. Len(wire'[n]) : \A j \in 1 .. i : j \in 1 .. Len(wire'[n])
        BY <1>2, <4>4
      <4>8. QED
        BY <3>1, <4>5, <4>6, <4>7 DEF Numbered
    <3>5. ASSUME NEW x \in Package, x.tid # "confirmReq", wire'[n] = Append(wire[n], x)
          PROVE  Numbered(n)'
      <4>1. /\ Len(wire'[n]) = Len(wire[n]) + 1 /\ wire'[n][Len(wire[n]) + 1] = x
            /\ \A i \in 1 .. Len(wire[n]) : wire'[n][i] = wire[n][i]
        BY <1>2, <3>5, SentFacts
      <4>2. \A i \in 1 .. Len(wire'[n]) :
              i = Len(wire[n]) + 1 \/ (i \in 1 .. Len(wire[n]) /\ \A j \in 1 .. i : j \in 1 .. Len(wire[n]))
        BY <1>2, <4>1
      <4>3. QED
        BY <2>1, <3>1, <3>5, <4>1, <4>2 DEF Numbered
    <3>6. CASE Cut(wire[n], wire'[n])
      <4>1. PICK k \in 0 .. Len(wire[n]) :
              /\ Len(wire'[n]) = k + 1 /\ \A i \in 1 .. k : wire'[n][i] = wire[n][i]
              /\ wire'[n][k + 1] = Lost
        BY <3>6 DEF Cut
      <4>2. \A i \in 1 .. Len(wire'[n]) :
              i = k + 1 \/ (i \in 1 .. k /\ i \in 1 .. Len(wire[n]) /\ \A j \in 1 .. i : j \in 1 .. k)
        BY <1>2, <4>1
      <4>3. QED
        BY <2>1, <3>1, <4>1, <4>2, Packages DEF Numbered
    <3>7. ~HotlineConnect(p)
      BY <1>4, Peers, ConnectRoles DEF Standby, Active
    <3>8. ~ReceiveConfirmReq(p)
      <4>1. comp[p] \in Active \union {"init"}
        BY <1>1, <1>4 DEF Roles
      <4>2. QED
        BY <4>1 DEF ReceiveConfirmReq, Active
    <3>9. CASE wire'[n] = Append(wire[n], LoginError)
      BY <3>5, <3>9, Packages
    <3>10. QED
      BY <1>1, <1>3, <3>2, <3>3, <3>4, <3>6, <3>7, <3>8, <3>9, WireStep
  <2>4. QED
    BY <2>2, <2>3
<1>5. QED
  BY <1>3, <1>4, BecomesStandby

LEMMA StaysActive ==
  ASSUME PairInv, [Next]_vars, NEW n \in Node, comp[n] \in Standby, comp'[Peer(n)] \in Active
  PROVE  comp[Peer(n)] \in Active /\ alive[Peer(n)]
<1> DEFINE p == Peer(n)
<1>1. Shape /\ Roles /\ p \in Node /\ Peer(p) = n
  BY Peers DEF PairInv
<1>2. comp[p] \in Active \union {"init"}
  BY <1>1 DEF Roles
<1>3. CASE comp[p] = "init"
  <2>1. cmd[p] = "single"
    BY <1>1, <1>3, CompStep DEF Active
  <2>2. comp[n] = "init"
    BY <1>1, <1>3, <2>1 DEF Roles
  <2>3. QED
    BY <2>2 DEF Standby
<1>4. CASE comp[p] \in Active
  BY <1>1, <1>4 DEF Roles, Active
<1>5. QED
  BY <1>2, <1>3, <1>4

LEMMA GenuineNext ==
  ASSUME PairInv, [Next]_vars, NEW n \in Node, comp'[n] \in Standby, comp'[Peer(n)] \in Active
  PROVE  Genuine(n, Peer(n))'
<1> DEFINE p == Peer(n)
<1>1. Shape /\ Lengths /\ Feeding /\ p \in Node
  BY Peers DEF PairInv
<1>2. CASE wire'[n] = <<>>
  BY <1>2 DEF Genuine
<1>3. ASSUME comp[n] \in Standby
      PROVE  Genuine(n, p)'
  <2>1. comp[p] \in Active /\ alive[p]
    BY <1>3, StaysActive
  <2>2. Genuine(n, p)
    BY <1>1, <1>3, <2>1 DEF Feeding
  <2>3. /\ Count(p) \in Nat /\ Count(p)' \in Nat /\ Count(p) <= Count(p)'
        /\ Common(pre[p], pre'[p], Count(p)) /\ (lossy => lossy')
    BY <1>1, <2>1, StoreStep
  <2>4. SUFFICES ASSUME NEW i \in 1 .. Len(wire'[n]), wire'[n][i].tid = "confirmReq"
                 PROVE  /\ wire'[n][i].no <= Count(p)'
                        /\ ~lossy' => wire'[n][i].msg = pre'[p][wire'[n][i].no]
    BY DEF Genuine, Peer
  <2>5. CASE \E j \in 1 .. Len(wire[n]) : wire'[n][i] = wire[n][j]
    <3>1. PICK j \in 1 .. Len(wire[n]) : wire'[n][i] = wire[n][j]
      BY <2>5
    <3>2. wire[n][j].no <= Count(p) /\ (~lossy => wire[n][j].msg = pre[p][wire[n][j].no])
      BY <2>2, <2>4, <3>1 DEF Genuine
    <3>3. wire[n][j].no \in Nat /\ wire[n][j].no > 0
      <4>1. wire[n][j].no = Count(n) + j
        BY <1>1, <1>3, <2>4, <3>1 DEF Feeding, Numbered
      <4>2. Count(n) \in Nat /\ j \in Nat /\ j > 0
        BY StoreStep
      <4>3. QED
        BY <4>1, <4>2
    <3>4. wire'[n][i].no <= Count(p)'
      BY <2>3, <3>1, <3>2, <3>3
    <3>5. pre[p][wire[n][j].no] = pre'[p][wire[n][j].no]
      BY <2>3, <3>2, <3>3 DEF Common
    <3>6. QED
      BY <2>3, <3>1, <3>2, <3>4, <3>5
  <2>6. CASE PublishSend(p) /\ wire'[n][i] = ConfirmReq(attached[p] + 1, pre[p][attached[p] + 1])
    <3> DEFINE k == attached[p] + 1
    <3>1. k \in Nat /\ k <= Count(p) /\ pre[p][k] \in Text /\ pre' = pre
      BY <1>1, <2>3, <2>6, SendFacts
    <3> HIDE DEF k
    <3>2. wire'[n][i].no = k /\ wire'[n][i].msg = pre[p][k]
      BY <2>6, <3>1, Packages DEF k
    <3>3. QED
      BY <2>3, <3>1, <3>2
  <2>7. ASSUME ReceiveConfirmReq(p) \/ HotlineConnect(p)
        PROVE  FALSE
    BY <1>1, <1>3, <2>1, <2>7, Peers, ConnectRoles DEF ReceiveConfirmReq, Standby, Active
  <2>8. QED
    BY <2>4, <2>5, <2>6, <2>7, WireElements
<1>4. QED
  BY <1>2, <1>3, BecomesStandby

\* A session that is up was up before, unless it has just been made.
LEMMA LinkStep ==
  ASSUME PairInv, [Next]_vars, LinkUp'
  PROVE  LinkUp \/ \E m \in Node : HotlineConnect(m)
<1>1. Shape /\ Shape' /\ Lengths /\ Sessions
  BY ShapeNext DEF PairInv
<1>2. SUFFICES ASSUME NEW n \in Node, ~hotline[n] \/ Lost \in ToSet(wire[n]),
                      \A m \in Node : ~HotlineConnect(m), ~LinkUp
               PROVE  FALSE
  BY DEF LinkUp
<1>3. hotline'[n] /\ Lost \notin ToSet(wire'[n])
  BY DEF LinkUp
<1>4. hotline[n]
  BY <1>1, <1>2, <1>3, HotlineStep, Peers
<1>5. /\ wire[n] \in Seq(Package) /\ Len(wire[n]) \in Nat
      /\ wire'[n] \in Seq(Package) /\ Len(wire'[n]) \in Nat
  BY <1>1, LenProperties DEF Shape
<1>6. PICK j \in 1 .. Len(wire[n]) : wire[n][j] = Lost
  <2>1. Lost \in ToSet(wire[n]) /\ DOMAIN wire[n] = 1 .. Len(wire[n])
    BY <1>2, <1>4, <1>5, LenProperties
  <2>2. QED
    BY <2>1 DEF ToSet
<1>7. \A i \in 1 .. Len(wire'[n]) : wire'[n][i] # Lost
  BY <1>3, <1>5 DEF ToSet
<1>8. wire'[n] # wire[n]
  BY <1>6, <1>7
<1>9. Receives(n) /\ wire[n] # <<>> /\ wire'[n] = Take(n)[n]
  <2>1. ~Exit(n)
    BY <1>1, <1>3 DEF Exit, Shape
  <2>2. Lost \in ToSet(wire[n])
    BY <1>2, <1>4
  <2>3. QED
    BY <1>1, <1>2, <1>8, <2>1, <2>2, Peers, WireStep
<1>10. /\ Len(wire'[n]) = Len(wire[n]) - 1 /\ Head(wire[n]) = wire[n][1]
       /\ \A i \in 1 .. Len(wire[n]) - 1 : wire'[n][i] = wire[n][i + 1]
  BY <1>1, <1>9, TakeFacts
<1>11. j = 1
  <2>1. SUFFICES ASSUME j # 1
                 PROVE  FALSE
    OBVIOUS
  <2>2. j - 1 \in 1 .. Len(wire[n]) - 1 /\ (j - 1) + 1 = j
    BY <1>5, <2>1
  <2>3. wire'[n][j - 1] = Lost
    BY <1>6, <1>10, <2>2
  <2>4. QED
    BY <1>7, <1>10, <2>2, <2>3
<1>12. Head(wire[n]).tid = "lost"
  BY <1>6, <1>10, <1>11, Packages
<1>13. ReceiveLost(n)
  BY <1>9, <1>12 DEF Receives, ReceiveLoginReq, ReceiveConfirmReq, ReceiveConfirmRsp,
     ReceivePrepareRsp, ReceiveIgnored, Receive
<1>14. QED
  BY <1>1, <1>3, <1>13 DEF ReceiveLost, Shape

LEMMA LoginReqFacts ==
  ASSUME Shape, NEW n \in Node, ReceiveLoginReq(n)
  PROVE  LET start == Head(wire[n]).no IN
         /\ wire[n] # <<>> /\ wire[n][1].tid = "loginReq" /\ comp[n] = "single" /\ start = wire[n][1].no
         /\ 1 \in 1 .. Len(wire[n])
         /\ wire'[n] = Take(n)[n]
         /\ \/ attached'[n] = start /\ wire'[Peer(n)] = wire[Peer(n)]
            \/ /\ attached'[n] = attached[n]
               /\ wire'[Peer(n)] \in {wire[Peer(n)], Append(wire[Peer(n)], LoginError)}
<1> DEFINE start == Head(wire[n]).no
<1>1. wire[n] # <<>> /\ Head(wire[n]).tid = "loginReq" /\ comp[n] = "single"
  BY DEF ReceiveLoginReq, Receive
<1>2. Head(wire[n]) = wire[n][1] /\ Len(wire[n]) \in Nat /\ Len(wire[n]) > 0
      /\ Take(n)[Peer(n)] = wire[Peer(n)]
  BY <1>1, TakeFacts
<1>3. CASE start <= Count(n)
  <2>1. attached' = [attached EXCEPT ![n] = start] /\ wire' = Take(n)
    BY <1>3 DEF ReceiveLoginReq
  <2>2. attached'[n] = start
    BY <2>1 DEF Shape
  <2>3. QED
    BY <1>1, <1>2, <2>1, <2>2
<1>4. CASE ~(start <= Count(n))
  <2>1. Answer(n, LoginError) /\ attached' = attached
    BY <1>4 DEF ReceiveLoginReq
  <2>2. /\ wire'[n] = Take(n)[n]
        /\ wire'[Peer(n)] \in {wire[Peer(n)], Append(wire[Peer(n)], LoginError)}
    BY <1>1, <2>1, AnswerFacts, Packages
  <2>3. QED
    BY <1>1, <1>2, <2>1, <2>2
<1>5. QED
  BY <1>3, <1>4

LEMMA AttachmentNext ==
  ASSUME PairInv, [Next]_vars, NEW n \in Node, comp'[n] \in Standby, LinkUp'
  PROVE  Attachment(n, Peer(n))'
<1> DEFINE p == Peer(n)
           Login == \A i \in 1 .. Len(wire'[p]) : wire'[p][i].tid = "loginReq" =>
                      /\ Len(wire'[p]) = 1 /\ wire'[p][i].no = Count(n)'
                      /\ wire'[n] = <<>> /\ attached'[p] = -1
           Flow == attached'[p] # -1 =>
                      /\ \A i \in 1 .. Len(wire'[n]) : wire'[n][i].tid = "confirmReq"
                      /\ attached'[p] = Count(n)' + Len(wire'[n])
<1>1. /\ Shape /\ Shape' /\ Lengths /\ Sessions /\ Roles /\ Feeding
      /\ p \in Node /\ Peer(p) = n /\ p # n
  BY ShapeNext, Peers DEF PairInv
<1>2. /\ wire[n] \in Seq(Package) /\ Len(wire[n]) \in Nat
      /\ wire[p] \in Seq(Package) /\ Len(wire[p]) \in Nat
      /\ Count(n) \in Nat /\ attached \in [Node -> Int]
  BY <1>1, LenProperties DEF Shape, Count
<1>3. SUFFICES Login /\ Flow
  BY DEF Attachment, Peer
<1>4. CASE HotlineConnect(n)
  <2>1. /\ wire[n] = <<>> /\ attached[p] = -1 /\ attached' = attached /\ Count(n)' = Count(n)
    BY <1>1, <1>4, ConnectRoles DEF Sessions, Count
  <2>2. wire'[n] = <<>> /\ wire'[p] \in {<<>>, <<LoginReq(Count(n))>>}
    BY <1>1, <1>4, <2>1, ConnectShape
  <2>3. Flow
    BY <2>1
  <2>4. CASE wire'[p] = <<>>
    BY <2>3, <2>4
  <2>5. CASE wire'[p] = <<LoginReq(Count(n))>>
    <3>1. Len(wire'[p]) = 1 /\ wire'[p][1] = LoginReq(Count(n))
      BY <2>5
    <3>2. \A i \in 1 .. Len(wire'[p]) : i = 1
      BY <3>1
    <3>3. wire'[p][1].no = Count(n)'
      BY <1>2, <2>1, <3>1, Packages
    <3>4. QED
      BY <2>1, <2>2, <2>3, <3>1, <3>2, <3>3
  <2>6. QED
    BY <2>2, <2>4, <2>5
<1>5. ~HotlineConnect(p)
  <2>1. SUFFICES ASSUME HotlineConnect(p)
                 PROVE  FALSE
    OBVIOUS
  <2>2. comp[n] \in Active /\ comp' = comp
    BY <1>1, <2>1, ConnectRoles
  <2>3. QED
    BY <2>2 DEF Active, Standby
<1>6. ASSUME ~HotlineConnect(n)
      PROVE  Login /\ Flow
  <2>1. LinkUp
    BY <1>1, <1>5, <1>6, LinkStep, Peers
  <2>2. comp[n] \in Standby /\ (ReceiveConfirmReq(n) \/ UNCHANGED pre[n])
    <3>1. hotline[n]
      BY <2>1 DEF LinkUp
    <3>2. QED
      BY <3>1, BecomesStandby
  <2>3. /\ Attachment(n, p) /\ comp[p] \in Active \union {"init"} /\ attached[n] = -1
    BY <1>1, <2>1, <2>2 DEF Feeding, Roles, Sessions
  <2>4. ASSUME NEW m \in Node, ReceiveLost(m) \/ Exit(m)
        PROVE  FALSE
    <3>1. ~hotline'[m]
      BY <1>1, <2>4 DEF ReceiveLost, Exit, Shape
    <3>2. QED
      BY <3>1 DEF LinkUp
  <2>5. ~HotlineBreak
    <3>1. SUFFICES ASSUME HotlineBreak
                   PROVE  FALSE
      OBVIOUS
    <3>2. PICK k \in 0 .. Len(wire[n]) :
            wire'[n] \in Seq(Package) /\ Len(wire'[n]) = k + 1 /\ wire'[n][k + 1] = Lost
      BY <1>1, <3>1, BreakFacts DEF Cut
    <3>3. k + 1 \in 1 .. Len(wire'[n])
      BY <1>2, <3>2
    <3>4. Lost \in ToSet(wire'[n])
      BY <3>2, <3>3 DEF ToSet
    <3>5. QED
      BY <3>4 DEF LinkUp
  <2>6. CASE ReceiveConfirmReq(n)
    <3>1. /\ Count(n)' = Count(n) + 1 /\ wire[n] # <<>> /\ attached' = attached
          /\ Head(wire[n]).no \in Nat
      BY <2>6, ConfirmReqFacts DEF PairInv, Count
    <3>2. /\ wire'[n] = Take(n)[n]
          /\ wire'[p] = wire[p] \/ wire'[p] = Append(wire[p], ConfirmRsp(Head(wire[n]).no))
      BY <1>1, <2>6, ReceivesFacts DEF Receives, ReceiveLoginReq, ReceiveConfirmReq, Receive
    <3>3. /\ Len(wire'[n]) = Len(wire[n]) - 1
          /\ \A j \in 1 .. Len(wire[n]) - 1 : wire'[n][j] = wire[n][j + 1]
      BY <1>1, <3>1, <3>2, TakeFacts
    <3>4. \A i \in 1 .. Len(wire[p]) : wire[p][i].tid # "loginReq"
      BY <2>3, <3>1 DEF Attachment
    <3>5. Flow
      <4>1. ASSUME attached'[p] # -1
            PROVE  /\ \A i \in 1 .. Len(wire'[n]) : wire'[n][i].tid = "confirmReq"
                   /\ attached'[p] = Count(n)' + Len(wire'[n])
        <5>1. /\ \A i \in 1 .. Len(wire[n]) : wire[n][i].tid = "confirmReq"
              /\ attached[p] = Count(n) + Len(wire[n])
          BY <2>3, <3>1, <4>1 DEF Attachment
        <5>2. \A i \in 1 .. Len(wire'[n]) : i + 1 \in 1 .. Len(wire[n]) /\ wire'[n][i] = wire[n][i + 1]
          BY <1>2, <3>3
        <5>3. attached'[p] = Count(n)' + Len(wire'[n])
          BY <1>2, <3>1, <3>3, <5>1
        <5>4. QED
          BY <5>1, <5>2, <5>3
      <4>2. QED
        BY <4>1
    <3>6. Login
      <4>1. CASE wire'[p] = wire[p]
        BY <3>4, <4>1
      <4>2. CASE wire'[p] = Append(wire[p], ConfirmRsp(Head(wire[n]).no))
        <5> DEFINE x == ConfirmRsp(Head(wire[n]).no)
        <5>1. x \in Package /\ x.tid = "confirmRsp"
          BY <3>1, Packages
        <5> HIDE DEF x
        <5>2. /\ Len(wire'[p]) = Len(wire[p]) + 1 /\ wire'[p][Len(wire[p]) + 1] = x
              /\ \A i \in 1 .. Len(wire[p]) : wire'[p][i] = wire[p][i]
          BY <1>2, <4>2, <5>1, SentFacts DEF x
        <5>3. \A i \in 1 .. Len(wire'[p]) : i \in 1 .. Len(wire[p]) \/ i = Len(wire[p]) + 1
          BY <1>2, <5>2
        <5>4. QED
          BY <3>4, <5>1, <5>2, <5>3
      <4>3. QED
        BY <3>2, <4>1, <4>2
    <3>7. QED
      BY <3>5, <3>6
  <2>7. ASSUME ~ReceiveConfirmReq(n)
        PROVE  Login /\ Flow
    <3>1. Count(n)' = Count(n)
      BY <2>2, <2>7 DEF Count
    <3>2. CASE UNCHANGED <<hotline, attached, wire>>
      BY <2>3, <3>1, <3>2 DEF Attachment
    <3>3. ~PublishSend(n)
      <4>1. SUFFICES ASSUME PublishSend(n)
                     PROVE  FALSE
        OBVIOUS
      <4>2. attached[n] \in 0 .. Count(n) - 1
        BY <4>1 DEF PublishSend
      <4>3. QED
        BY <1>2, <2>3, <4>2
    <3>4. CASE PublishSend(p)
      <4> DEFINE k == attached[p] + 1
                 x == ConfirmReq(k, pre[p][k])
      <4>1. /\ attached'[p] = k /\ k \in Nat /\ pre[p][k] \in Text
            /\ wire'[p] = wire[p] /\ wire'[n] = Append(wire[n], x)
        BY <1>1, <3>4, SendFacts
      <4>2. attached[p] \in 0 .. Count(p) - 1 /\ Count(p) \in Nat
        BY <1>1, <3>4, StoreStep DEF PublishSend
      <4>3. attached[p] # -1
        BY <4>2
      <4>4. /\ \A i \in 1 .. Len(wire[n]) : wire[n][i].tid = "confirmReq"
            /\ attached[p] = Count(n) + Len(wire[n])
        BY <2>3, <4>3 DEF Attachment
      <4>5. x \in Package /\ x.tid = "confirmReq"
        BY <4>1, Packages
      <4>6. Login
        BY <2>3, <4>1, <4>3 DEF Attachment
      <4> HIDE DEF x
      <4>7. /\ Len(wire'[n]) = Len(wire[n]) + 1 /\ wire'[n][Len(wire[n]) + 1] = x
            /\ \A i \in 1 .. Len(wire[n]) : wire'[n][i] = wire[n][i]
        BY <1>2, <4>1, <4>5, SentFacts
      <4>8. \A i \in 1 .. Len(wire'[n]) : i \in 1 .. Len(wire[n]) \/ i = Len(wire[n]) + 1
        BY <1>2, <4>7
      <4>9. attached'[p] = Count(n)' + Len(wire'[n])
        BY <1>2, <3>1, <4>1, <4>2, <4>4, <4>7
      <4>10. \A i \in 1 .. Len(wire'[n]) : wire'[n][i].tid = "confirmReq"
        BY <4>4, <4>5, <4>7, <4>8
      <4>11. QED
        BY <4>6, <4>9, <4>10
    <3>5. CASE ReceiveLoginReq(p)
      <4> DEFINE start == Head(wire[p]).no
      <4>1. /\ wire[p] # <<>> /\ wire[p][1].tid = "loginReq" /\ start = wire[p][1].no
            /\ 1 \in 1 .. Len(wire[p]) /\ wire'[p] = Take(p)[p]
            /\ \/ attached'[p] = start /\ wire'[n] = wire[n]
               \/ /\ attached'[p] = attached[p]
                  /\ wire'[n] \in {wire[n], Append(wire[n], LoginError)}
        BY <1>1, <3>5, LoginReqFacts
      <4>2. Len(wire[p]) = 1 /\ start = Count(n) /\ wire[n] = <<>> /\ attached[p] = -1
        BY <2>3, <4>1 DEF Attachment
      <4>3. Len(wire'[p]) = 0
        BY <1>1, <4>1, <4>2, TakeFacts
      <4>4. Login
        BY <4>3
      <4>5. CASE attached'[p] = start /\ wire'[n] = wire[n]
        <5>1. wire'[n] = <<>> /\ Len(wire'[n]) = 0 /\ attached'[p] = Count(n)'
          BY <3>1, <4>2, <4>5
        <5>2. Flow
          BY <1>2, <3>1, <5>1
        <5>3. QED
          BY <4>4, <5>2
      <4>6. CASE attached'[p] = attached[p]
        BY <4>2, <4>4, <4>6
      <4>7. QED
        BY <4>1, <4>5, <4>6
    <3>6. ASSUME ReceiveLoginReq(n) \/ ReceiveConfirmRsp(n) \/ ReceivePrepareRsp(n) \/ ReceiveConfirmReq(p)
          PROVE  FALSE
      BY <2>2, <2>3, <3>6 DEF ReceiveLoginReq, ReceiveConfirmRsp, ReceivePrepareRsp, ReceiveConfirmReq,
         Standby, Active
    <3>7. CASE ReceiveConfirmRsp(p) \/ ReceivePrepareRsp(p) \/ ReceiveIgnored(p)
      <4>1. attached' = attached /\ wire' = Take(p) /\ wire[p] # <<>>
        BY <3>7 DEF ReceiveConfirmRsp, ReceivePrepareRsp, ReceiveIgnored, Receive
      <4>2. /\ wire'[n] = wire[n] /\ Len(wire'[p]) = Len(wire[p]) - 1
            /\ \A j \in 1 .. Len(wire[p]) - 1 : wire'[p][j] = wire[p][j + 1]
        BY <1>1, <4>1, TakeFacts
      <4>3. Flow
        BY <2>3, <3>1, <4>1, <4>2 DEF Attachment
      <4>4. \A i \in 1 .. Len(wire'[p]) : /\ i + 1 \in 1 .. Len(wire[p]) /\ wire'[p][i] = wire[p][i + 1]
                                          /\ Len(wire[p]) # 1
        BY <1>2, <4>2
      <4>5. Login
        BY <2>3, <4>4 DEF Attachment
      <4>6. QED
        BY <4>3, <4>5
    <3>8. CASE ReceiveIgnored(n)
      <4>1. attached' = attached /\ wire' = Take(n) /\ wire[n] # <<>>
            /\ Head(wire[n]).tid # "confirmReq"
        BY <2>2, <2>7, <3>8, StandbyTakes DEF ReceiveIgnored, Receive, Receives
      <4>2. wire'[p] = wire[p] /\ 1 \in 1 .. Len(wire[n]) /\ wire[n][1].tid # "confirmReq"
        BY <1>1, <4>1, TakeFacts
      <4>3. attached[p] = -1 /\ \A i \in 1 .. Len(wire[p]) : wire[p][i].tid # "loginReq"
        BY <2>3, <4>1, <4>2 DEF Attachment
      <4>4. QED
        BY <4>1, <4>2, <4>3
    <3>9. QED
      <4>1. \A m \in Node : m = n \/ m = p
        BY Peers
      <4>2. QED
        BY <1>5, <1>6, <2>4, <2>5, <2>7, <3>2, <3>3, <3>4, <3>5, <3>6, <3>7, <3>8, <4>1, FrameLinks
  <2>8. QED
    BY <2>6, <2>7
<1>7. QED
  BY <1>4, <1>6

LEMMA FeedingNext ==
  ASSUME PairInv, [Next]_vars
  PROVE  Feeding'
BY NumberedNext, GenuineNext, AttachmentNext DEF Feeding

-----------------------------------------------------------------------------
(* Answers.                                                                *)

\* What two series have in common up to what the second has persisted, they keep.
LEMMA AgreeKept ==
  ASSUME PairInv, [Next]_vars, NEW n \in Node, NEW k \in Nat, Agree(n, k),
         k <= under[n] \/ alive[n], k <= under[Peer(n)] \/ alive[Peer(n)]
  PROVE  Common(pre'[n], pre'[Peer(n)], k)
<1> DEFINE p == Peer(n)
<1>1. p \in Node
  BY Peers
<1>2. k <= Count(n) /\ k <= Count(p) /\ Common(pre[n], pre[p], k)
  BY DEF Agree, Common, Count
<1>3. Common(pre[n], pre'[n], k)
  <2>1. /\ Count(n) \in Nat /\ Count(n)' \in Nat /\ under[n] \in Nat
        /\ Common(pre[n], pre'[n], under[n])
    BY StoreStep
  <2>2. CASE k <= under[n]
    BY <2>1, <2>2, CommonLess DEF Count
  <2>3. CASE alive[n]
    <3>1. Common(pre[n], pre'[n], Count(n))
      BY <2>3, StoreStep
    <3>2. QED
      BY <1>2, <2>1, <3>1, CommonLess DEF Count
  <2>4. QED
    BY <2>2, <2>3
<1>4. Common(pre[p], pre'[p], k)
  <2>1. /\ Count(p) \in Nat /\ Count(p)' \in Nat /\ under[p] \in Nat
        /\ Common(pre[p], pre'[p], under[p])
    BY <1>1, StoreStep
  <2>2. CASE k <= under[p]
    BY <2>1, <2>2, CommonLess DEF Count
  <2>3. CASE alive[p]
    <3>1. Common(pre[p], pre'[p], Count(p))
      BY <1>1, <2>3, StoreStep
    <3>2. QED
      BY <1>2, <2>1, <3>1, CommonLess DEF Count
  <2>4. QED
    BY <2>2, <2>3
<1>5. QED
  BY <1>2, <1>3, <1>4, CommonVia, CommonSwap

\* The message a standby appends is the one its primary has at this place.
LEMMA AppendedAgrees ==
  ASSUME PairInv, [Next]_vars, NEW n \in Node, ReceiveConfirmReq(n)
  PROVE  /\ Head(wire[n]).no = Count(n) + 1 /\ Count(n)' = Count(n) + 1
         /\ comp[Peer(n)] \in Active =>
              /\ Count(n) + 1 <= Count(Peer(n))
              /\ ~lossy => Common(pre'[n], pre[Peer(n)], Count(n) + 1)
<1> DEFINE p == Peer(n)
<1>1. Shape /\ Lengths /\ Persisting /\ Feeding /\ Ahead /\ p \in Node
  BY Peers DEF PairInv
<1> DEFINE x == Head(wire[n])
<1>2. /\ comp[n] \in Standby /\ wire[n] # <<>> /\ x.tid = "confirmReq"
      /\ Len(pre'[n]) = Count(n) + 1 /\ Common(pre[n], pre'[n], Count(n))
      /\ pre'[n][Count(n) + 1] = x.msg
  BY <1>1, ConfirmReqFacts
<1>3. x = wire[n][1] /\ 1 \in 1 .. Len(wire[n]) /\ Count(n) \in Nat /\ Count(p) \in Nat
  BY <1>1, <1>2, TakeFacts, StoreStep
<1>4. x.no = Count(n) + 1
  BY <1>1, <1>2, <1>3 DEF Feeding, Numbered
<1>5. ASSUME comp[p] \in Active
      PROVE  /\ Count(n) + 1 <= Count(p)
             /\ ~lossy => Common(pre'[n], pre[p], Count(n) + 1)
  <2>1. Count(n) + 1 <= Count(p) /\ (~lossy => x.msg = pre[p][Count(n) + 1])
    BY <1>1, <1>2, <1>3, <1>4, <1>5 DEF Feeding, Genuine
  <2>2. ASSUME ~lossy
        PROVE  Common(pre'[n], pre[p], Count(n) + 1)
    <3>1. Agree(n, Count(n)) /\ x.msg = pre[p][Count(n) + 1]
      BY <1>1, <1>2, <1>5, <2>1, <2>2 DEF Ahead
    <3>2. \A i \in 1 .. Count(n) : pre'[n][i] = pre[p][i]
      BY <1>2, <3>1 DEF Agree, Common
    <3>3. \A i \in 1 .. Count(n) + 1 : i \in 1 .. Count(n) \/ i = Count(n) + 1
      BY <1>3
    <3>4. \A i \in 1 .. Count(n) + 1 : pre'[n][i] = pre[p][i]
      BY <1>2, <3>1, <3>2, <3>3
    <3>5. QED
      BY <1>2, <1>3, <2>1, <3>4 DEF Common, Count
  <2>3. QED
    BY <2>1, <2>2
<1>6. QED
  BY <1>2, <1>4, <1>5 DEF Count

LEMMA AnsweredNext ==
  ASSUME PairInv, [Next]_vars
  PROVE  Answered'
<1>1. /\ Shape /\ Shape' /\ Lengths /\ Sessions /\ Roles /\ Answered /\ Persisting /\ Feeding
  BY ShapeNext DEF PairInv
<1>2. SUFFICES ASSUME NEW n \in Node, NEW i \in 1 .. Len(wire'[n]), wire'[n][i].tid = "confirmRsp"
               PROVE  /\ wire'[n][i].no > 0 /\ wire'[n][i].no <= Count(n)'
                      /\ wire'[n][i].no <= under'[Peer(n)]
                      /\ ~lossy' => Common(pre'[n], pre'[Peer(n)], wire'[n][i].no)
  BY DEF Answered, Agree
<1> DEFINE p == Peer(n)
           k == wire'[n][i].no
<1>3. /\ p \in Node /\ Peer(p) = n /\ wire[n] \in Seq(Package)
      /\ \A j \in 1 .. Len(wire[n]) : wire[n][j] \in Package
  BY <1>1, Peers, ElementOfSeq DEF Shape
<1>4. /\ Count(n) \in Nat /\ Count(n)' \in Nat /\ under[p] \in Nat /\ under'[p] \in Nat
      /\ under[p] <= under'[p] /\ (lossy => lossy') /\ (alive[n] => Count(n) <= Count(n)')
  BY <1>3, StoreStep
<1>5. CASE \E j \in 1 .. Len(wire[n]) : wire'[n][i] = wire[n][j]
  <2>1. PICK j \in 1 .. Len(wire[n]) : wire'[n][i] = wire[n][j]
    BY <1>5
  <2>2. k \in Nat
    BY <1>2, <1>3, <2>1, Packages
  <2>3. k > 0 /\ k <= Count(n) /\ k <= under[p] /\ (~lossy => Agree(n, k))
    BY <1>1, <1>2, <2>1 DEF Answered
  <2>4. alive[n]
    <3>1. wire[n] # <<>>
      <4>1. SUFFICES ASSUME wire[n] = <<>>
                     PROVE  FALSE
        OBVIOUS
      <4>2. Len(wire[n]) = 0
        BY <4>1
      <4>3. QED
        BY <2>1, <4>2
    <3>2. QED
      BY <1>1, <3>1 DEF Sessions, Roles
  <2> HIDE DEF k
  <2>5. k > 0 /\ k <= Count(n)' /\ k <= under'[p]
    BY <1>4, <2>2, <2>3, <2>4
  <2>6. ASSUME ~lossy'
        PROVE  Common(pre'[n], pre'[p], k)
    BY <1>4, <2>2, <2>3, <2>4, <2>6, AgreeKept
  <2>7. QED
    BY <2>5, <2>6 DEF k
<1>6. CASE ReceiveConfirmReq(p) /\ LinkUp /\ wire'[n][i] = ConfirmRsp(Head(wire[p]).no)
  <2>1. comp[n] \in Active
    <3>1. hotline[n]
      BY <1>6 DEF LinkUp
    <3>2. comp[n] # "init"
      BY <1>1, <3>1 DEF Sessions
    <3>3. comp[p] \in Standby
      BY <1>1, <1>3, <1>6, ConfirmReqFacts
    <3>4. QED
      BY <1>1, <1>3, <3>2, <3>3 DEF Roles
  <2>2. /\ Head(wire[p]).no = Count(p) + 1 /\ Count(p) + 1 <= Count(n)
        /\ ~lossy => Common(pre'[p], pre[n], Count(p) + 1)
    BY <1>3, <1>6, <2>1, AppendedAgrees
  <2>3. /\ Count(p) \in Nat /\ under'[p] = Count(p) + 1 /\ pre'[n] = pre[n] /\ lossy' = lossy
    BY <1>1, <1>3, <1>6, ConfirmReqFacts, StoreStep
  <2>4. k = Count(p) + 1
    BY <1>6, <2>2, <2>3, Packages
  <2> HIDE DEF k
  <2>5. k > 0 /\ k <= Count(n)' /\ k <= under'[p]
    BY <1>4, <2>2, <2>3, <2>4 DEF Count
  <2>6. ~lossy' => Common(pre'[n], pre'[p], k)
    BY <2>2, <2>3, <2>4, CommonSwap
  <2>7. QED
    BY <2>5, <2>6 DEF k
<1>7. CASE PublishSend(p) /\ wire'[n][i] = ConfirmReq(attached[p] + 1, pre[p][attached[p] + 1])
  <2>1. wire'[n][i].tid = "confirmReq"
    BY <1>1, <1>3, <1>7, SendFacts, Packages
  <2>2. QED
    BY <1>2, <2>1
<1>8. CASE HotlineConnect(p) /\ wire'[n][i] = LoginReq(Count(p))
  <2>1. Count(p) \in Nat
    BY <1>3, StoreStep
  <2>2. wire'[n][i].tid = "loginReq"
    BY <1>8, <2>1, Packages
  <2>3. QED
    BY <1>2, <2>2
<1>9. QED
  BY <1>2, <1>5, <1>6, <1>7, <1>8, WireElements

-----------------------------------------------------------------------------
(* Who is ahead.                                                           *)

LEMMA PrepareStep ==
  ASSUME Shape, [Next]_vars, NEW n \in Node, cmd'[n] = "prepare"
  PROVE  cmd[n] = "prepare" \/ comp[Peer(n)] = "single"
<1>1. cmd \in [Node -> Command \union {"none"}]
  BY DEF Shape
<1>2. CASE UNCHANGED <<alive, comp, cmd, guard.leader, guard.paired>>
  BY <1>2
<1>3. ASSUME NEW m \in Node, \/ Exit(m) \/ EnterSingle(m) \/ EnterPrepare(m) \/ EnterMaster(m)
                             \/ EnterSlaver(m) \/ ForcedExit(m) \/ GuardLost(m)
      PROVE  cmd[n] = "prepare"
  <2>1. cmd' = [cmd EXCEPT ![m] = "none"]
    BY <1>3 DEF Exit, EnterSingle, EnterPrepare, EnterMaster, EnterSlaver, ChangeState, ForcedExit,
       GuardLost
  <2>2. QED
    BY <1>1, <2>1
<1>4. ASSUME NEW m \in Node, Restart(m)
      PROVE  cmd[n] = "prepare"
  BY <1>4 DEF Restart
<1>5. ASSUME NEW m \in Node, GuardStart(m) \/ GuardPair(m) \/ GuardPromote(m)
      PROVE  cmd[n] = "prepare"
  <2>1. Peer(m) \in Node /\ Peer(m) # m
    BY Peers
  <2>2. CASE GuardStart(m)
    BY <1>1, <2>1, <2>2 DEF GuardStart, Commands
  <2>3. CASE GuardPair(m)
    BY <1>1, <2>1, <2>3 DEF GuardPair, Commands
  <2>4. CASE GuardPromote(m)
    BY <1>1, <2>1, <2>4 DEF GuardPromote, Commands
  <2>5. QED
    BY <1>5, <2>2, <2>3, <2>4
<1>6. ASSUME NEW m \in Node, GuardPrepare(m)
      PROVE  cmd[n] = "prepare" \/ comp[Peer(n)] = "single"
  <2>1. cmd' = [cmd EXCEPT ![m] = "prepare"] /\ comp[Peer(m)] = "single"
    BY <1>6 DEF GuardPrepare, Commands
  <2>2. QED
    BY <1>1, <2>1
<1>7. CASE GuardDissolve
  BY <1>7 DEF GuardDissolve, control
<1>8. QED
  BY <1>2, <1>3, <1>4, <1>5, <1>6, <1>7, FrameRoles DEF Guard

\* Nobody becomes the guard's leader while active, and alone.
LEMMA LeaderStep ==
  ASSUME Shape, Roles, [Next]_vars, NEW n \in Node, comp[n] \in Active, guard'.leader = n
  PROVE  guard.leader = n
<1>1. CASE UNCHANGED <<alive, comp, cmd, guard.leader, guard.paired>>
  BY <1>1
<1>2. ASSUME NEW m \in Node, \/ Exit(m) \/ EnterSingle(m) \/ EnterPrepare(m) \/ EnterMaster(m)
                             \/ EnterSlaver(m) \/ ForcedExit(m) \/ GuardLost(m) \/ Restart(m)
                             \/ GuardPrepare(m)
      PROVE  guard' = guard
  BY <1>2 DEF Exit, EnterSingle, EnterPrepare, EnterMaster, EnterSlaver, ChangeState, ForcedExit,
     GuardLost, Restart, GuardPrepare, Commands
<1>3. ASSUME NEW m \in Node, GuardStart(m)
      PROVE  guard.leader = n
  <2>1. comp[m] = "init" /\ comp[Peer(m)] = "init" /\ (n = m \/ n = Peer(m))
    BY <1>3, Peers DEF GuardStart
  <2>2. QED
    BY <2>1 DEF Active
<1>4. ASSUME NEW m \in Node, GuardPair(m)
      PROVE  guard.leader = n
  BY <1>4 DEF GuardPair, Commands, Shape
<1>5. ASSUME NEW m \in Node, GuardPromote(m)
      PROVE  guard.leader = n
  <2>1. guard'.leader = m /\ comp[m] \in {"primary", "secondary"} /\ guard.paired
    BY <1>5 DEF GuardPromote, Commands
  <2>2. n = m /\ comp[n] = "primary"
    BY <2>1 DEF Active
  <2>3. QED
    BY <2>1, <2>2 DEF Roles
<1>6. CASE GuardDissolve
  BY <1>6 DEF GuardDissolve, Active
<1>7. QED
  BY <1>1, <1>2, <1>3, <1>4, <1>5, <1>6, FrameRoles DEF Guard

\* What a promoted standby has, by what it has answered for and by what its
\* primary had confirmed alone.
LEMMA PromotedHas ==
  ASSUME PairInv, NEW n \in Node, EnterSingle(n), comp[n] = "secondary", ~lossy'
  PROVE  Agree(n, under[Peer(n)])
<1> DEFINE p == Peer(n)
<1>1. Shape /\ Lengths /\ Covered /\ p \in Node /\ Peer(p) = n
  BY Peers DEF PairInv
<1>2. Agree(n, solo[p]) /\ ~lossy
  BY <1>1, EnterSingleFacts
<1>3. under[p] \in Nat /\ solo[p] \in Nat /\ solo[p] <= under[p]
  BY <1>1 DEF Shape, Lengths
<1>4. CASE under[p] > solo[p]
  <2>1. Agree(p, under[p])
    BY <1>1, <1>2, <1>4 DEF Covered, Standby
  <2>2. QED
    BY <1>1, <2>1, CommonSwap DEF Agree
<1>5. CASE ~(under[p] > solo[p])
  <2>1. under[p] = solo[p]
    BY <1>3, <1>5
  <2>2. QED
    BY <1>2, <2>1
<1>6. QED
  BY <1>4, <1>5

\* The three parts of Ahead for one node.
AheadOf(n, p) ==
  /\ comp[n] \in Standby /\ comp[p] \in Active => Common(pre[n], pre[p], Count(n))
  /\ comp[n] \in Active /\ comp[p] = "init" /\ guard.leader = n => Common(pre[n], pre[p], under[p])
  /\ comp[n] = "single" /\ comp[p] = "primary" => Common(pre[n], pre[p], under[p])

LEMMA StandbyAhead ==
  ASSUME PairInv, [Next]_vars, ~lossy', NEW n \in Node, comp'[n] \in Standby, comp'[Peer(n)] \in Active
  PROVE  Common(pre'[n], pre'[Peer(n)], Count(n)')
<1> DEFINE p == Peer(n)
<1>1. /\ Shape /\ Lengths /\ Roles /\ Ahead /\ Persisting /\ p \in Node /\ p # n /\ Peer(p) = n /\ ~lossy
      /\ Count(n) \in Nat
  BY Peers, StoreStep DEF PairInv
<1>2. CASE comp[n] \in Standby /\ ReceiveConfirmReq(n)
  <2>1. comp[p] \in Active
    BY <1>2, StaysActive
  <2>2. pre'[p] = pre[p]
    BY <1>1, <1>2, ConfirmReqFacts
  <2>3. QED
    BY <1>1, <1>2, <2>1, <2>2, AppendedAgrees
<1>3. CASE comp[n] \in Standby /\ UNCHANGED pre[n]
  <2>1. comp[p] \in Active /\ alive[p]
    BY <1>3, StaysActive
  <2>2. Agree(n, Count(n)) /\ alive[n]
    BY <1>1, <1>3, <2>1 DEF Ahead, Roles, Standby
  <2>3. Count(n)' = Count(n)
    BY <1>3 DEF Count
  <2>4. QED
    BY <1>1, <2>1, <2>2, <2>3, AgreeKept
<1>4. CASE comp[n] = "init" /\ EnterPrepare(n) /\ cmd[n] = "prepare" /\ alive[n] /\ UNCHANGED <<pre, under>>
  <2>1. comp'[p] = comp[p]
    BY <1>1, <1>4 DEF EnterPrepare, ChangeState, Shape
  <2>2. guard.leader = p
    BY <1>1, <1>4 DEF Roles
  <2>3. Agree(p, under[n]) /\ under[n] = Count(n)
    BY <1>1, <1>4, <2>1, <2>2 DEF Ahead, Persisting
  <2>4. QED
    BY <1>1, <1>4, <2>3, CommonSwap DEF Agree, Count
<1>5. QED
  BY <1>2, <1>3, <1>4, BecomesStandby

LEMMA LeaderAhead ==
  ASSUME PairInv, [Next]_vars, ~lossy', NEW n \in Node, comp'[n] \in Active, comp'[Peer(n)] = "init",
         guard'.leader = n
  PROVE  Common(pre'[n], pre'[Peer(n)], under'[Peer(n)])
<1> DEFINE p == Peer(n)
<1>1. /\ Shape /\ Lengths /\ Roles /\ Ahead /\ p \in Node /\ p # n /\ Peer(p) = n /\ ~lossy
      /\ under[p] \in Nat
  BY Peers, StoreStep DEF PairInv
<1>2. CASE EnterSingle(n)
  <2>1. /\ comp[n] \in {"init", "primary", "secondary"} /\ comp[p] = "init" /\ pre' = pre
        /\ under'[p] = under[p] /\ guard.leader = n
        /\ comp[n] = "init" => Agree(n, under[p])
    BY <1>1, <1>2, EnterSingleFacts
  <2>2. comp[n] = "primary" => Agree(n, under[p])
    BY <1>1, <2>1 DEF Ahead, Active
  <2>3. comp[n] = "secondary" => Agree(n, under[p])
    BY <1>2, PromotedHas
  <2>4. QED
    BY <2>1, <2>2, <2>3 DEF Agree
<1>3. ASSUME ~EnterSingle(n)
      PROVE  Common(pre'[n], pre'[p], under'[p])
  <2>1. comp[n] \in Active
    BY <1>1, <1>3, CompStep DEF Active
  <2>2. guard.leader = n /\ alive[n]
    BY <1>1, <2>1, LeaderStep DEF Roles, Active
  <2>3. CASE comp[p] = "init"
    <3>1. Agree(n, under[p])
      BY <1>1, <2>1, <2>2, <2>3 DEF Ahead
    <3>2. under'[p] = under[p]
      BY <1>1, <2>3, SeriesStep DEF Active, Standby
    <3>3. QED
      BY <1>1, <2>2, <3>1, <3>2, AgreeKept
  <2>4. CASE Exit(p)
    <3>1. UNCHANGED <<pre, under>>
      BY <2>4 DEF Exit, flows
    <3>2. comp[p] \in CompState
      BY <1>1 DEF Shape
    <3>3. comp[p] = "init" => Agree(n, under[p])
      BY <1>1, <2>1, <2>2 DEF Ahead
    <3>4. comp[p] \in Standby => Agree(n, under[p])
      <4>1. SUFFICES ASSUME comp[p] \in Standby
                     PROVE  Agree(n, under[p])
        OBVIOUS
      <4>2. Common(pre[p], pre[n], Count(p))
        BY <1>1, <2>1, <4>1 DEF Ahead, Agree
      <4>3. under[p] <= Count(p) /\ Count(p) \in Nat /\ Count(n) \in Nat
        BY <1>1, StoreStep DEF Lengths
      <4>4. Common(pre[p], pre[n], under[p])
        BY <1>1, <4>2, <4>3, CommonLess DEF Count
      <4>5. QED
        BY <4>4, CommonSwap DEF Agree
    <3>5. comp[p] = "primary" => Agree(n, under[p])
      BY <1>1, <2>1 DEF Ahead, Roles, Active
    <3>6. comp[p] # "single"
      BY <1>1, <2>2 DEF Roles
    <3>7. QED
      BY <3>1, <3>2, <3>3, <3>4, <3>5, <3>6 DEF Agree, CompState, Standby
  <2>5. QED
    BY <1>1, <2>3, <2>4, CompStep
<1>4. QED
  BY <1>2, <1>3

LEMMA PromotedAhead ==
  ASSUME PairInv, [Next]_vars, ~lossy', NEW n \in Node, comp'[n] = "single", comp'[Peer(n)] = "primary"
  PROVE  Common(pre'[n], pre'[Peer(n)], under'[Peer(n)])
<1> DEFINE p == Peer(n)
<1>1. /\ Shape /\ Lengths /\ Roles /\ Ahead /\ Answered /\ p \in Node /\ p # n /\ Peer(p) = n /\ ~lossy
      /\ under[p] \in Nat
  BY Peers, StoreStep DEF PairInv
<1>2. CASE EnterSingle(n)
  <2>1. /\ comp[n] \in {"init", "primary", "secondary"} /\ comp[p] = "primary" /\ pre' = pre
        /\ under'[p] = under[p] /\ cmd[n] = "single"
    BY <1>1, <1>2, EnterSingleFacts
  <2>2. comp[n] # "init" /\ comp[n] # "primary"
    BY <1>1, <2>1 DEF Roles, Active
  <2>3. Agree(n, under[p])
    BY <1>2, <2>1, <2>2, PromotedHas
  <2>4. QED
    BY <2>1, <2>3 DEF Agree
<1>3. ASSUME ~EnterSingle(n)
      PROVE  Common(pre'[n], pre'[p], under'[p])
  <2>1. comp[n] = "single"
    BY <1>1, <1>3, CompStep
  <2>2. comp[p] = "primary"
    <3>1. comp[p] # "single"
      BY <1>1, <2>1 DEF Roles, Active
    <3>2. QED
      BY <1>1, <3>1, CompStep
  <2>3. Agree(n, under[p]) /\ alive[n] /\ alive[p]
    BY <1>1, <2>1, <2>2 DEF Ahead, Roles
  <2>4. CASE under'[p] = under[p]
    BY <1>1, <2>3, <2>4, AgreeKept
  <2>5. CASE ReceiveConfirmRsp(p)
    <3> DEFINE k == Head(wire[p]).no
    <3>1. pre' = pre /\ Agree(p, k) /\ under'[p] = (IF under[p] = k - 1 THEN k ELSE under[p])
      BY <1>1, <2>5, ConfirmRspFacts
    <3> HIDE DEF k
    <3>2. CASE under'[p] = k
      BY <1>1, <3>1, <3>2, CommonSwap DEF Agree
    <3>3. QED
      BY <2>4, <3>1, <3>2
  <2>6. QED
    BY <1>1, <2>2, <2>4, <2>5, SeriesStep DEF Standby
<1>4. QED
  BY <1>2, <1>3

LEMMA AheadNext ==
  ASSUME PairInv, [Next]_vars
  PROVE  Ahead'
<1>1. SUFFICES ASSUME ~lossy', NEW n \in Node
               PROVE  AheadOf(n, Peer(n))'
  BY DEF Ahead, AheadOf, Agree
<1>2. QED
  BY <1>1, StandbyAhead, LeaderAhead, PromotedAhead DEF AheadOf

-----------------------------------------------------------------------------
(* What is persisted on both nodes.                                        *)

CoveredBy(n, p) ==
  (comp[n] = "primary" \/ comp[p] \in Standby \/ cmd[p] = "prepare") /\ under[n] > solo[n] =>
    /\ under[n] <= under[p]
    /\ ~lossy => Common(pre[n], pre[p], under[n])

LEMMA CoveredNext ==
  ASSUME PairInv, [Next]_vars
  PROVE  Covered'
<1>1. SUFFICES ASSUME NEW n \in Node
               PROVE  CoveredBy(n, Peer(n))'
  BY DEF Covered, CoveredBy, Agree
<1> DEFINE p == Peer(n)
<1>2. /\ Shape /\ Shape' /\ Lengths /\ Roles /\ Roles' /\ Persisting /\ Covered /\ Answered
      /\ p \in Node /\ p # n /\ Peer(p) = n
  BY ShapeNext, RolesNext, Peers DEF PairInv
<1>3. /\ under[n] \in Nat /\ under[p] \in Nat /\ under'[n] \in Nat /\ under'[p] \in Nat
      /\ under[p] <= under'[p] /\ (lossy => lossy')
  BY <1>2, StoreStep
<1>4. SUFFICES ASSUME comp'[n] = "primary" \/ comp'[p] \in Standby \/ cmd'[p] = "prepare",
                      under'[n] > solo'[n]
               PROVE  /\ under'[n] <= under'[p]
                      /\ ~lossy' => Common(pre'[n], pre'[p], under'[n])
  BY DEF CoveredBy
<1>5. CASE under'[n] = under[n] /\ solo'[n] = solo[n]
  <2>1. comp[n] # "single"
    <3>1. comp[n] = "single" => under[n] = solo[n]
      BY <1>2 DEF Persisting
    <3>2. solo[n] \in Nat
      BY <1>2 DEF Shape
    <3>3. under[n] # solo[n]
      BY <1>3, <1>4, <1>5, <3>2
    <3>4. QED
      BY <3>1, <3>3
  <2>2. comp[n] = "primary" \/ comp[p] \in Standby \/ cmd[p] = "prepare"
    <3>1. comp'[n] = "primary" => comp[n] = "primary"
      BY <1>2, <2>1, CompStep
    <3>2. comp'[p] \in Standby => comp[p] \in Standby \/ cmd[p] = "prepare"
      BY <1>2, BecomesStandby
    <3>3. cmd'[p] = "prepare" => cmd[p] = "prepare"
      BY <1>2, <2>1, PrepareStep
    <3>4. QED
      BY <1>4, <3>1, <3>2, <3>3
  <2>3. under[n] > solo[n]
    BY <1>4, <1>5
  <2>4. under[n] <= under[p] /\ (~lossy => Agree(n, under[n]))
    BY <1>2, <2>2, <2>3 DEF Covered
  <2>5. under'[n] <= under'[p]
    BY <1>3, <1>5, <2>4
  <2>6. under[n] <= under[n]
    BY <1>3
  <2>7. ~lossy' => Common(pre'[n], pre'[p], under'[n])
    BY <1>3, <1>5, <2>4, <2>6, AgreeKept
  <2>8. QED
    BY <2>5, <2>7
<1>6. CASE under'[n] = Count(n)' /\ solo'[n] = Count(n)'
  BY <1>3, <1>4, <1>6
<1>7. CASE ReceiveConfirmReq(n) /\ comp[n] \in Standby /\ comp'[n] = comp[n]
  <2>1. comp'[n] # "primary"
    BY <1>7 DEF Standby
  <2>2. comp'[p] \notin Standby
    BY <1>2, <1>7 DEF Roles, Standby, Active
  <2>3. cmd'[p] # "prepare"
    BY <1>2, <1>7 DEF Roles, Standby
  <2>4. QED
    BY <1>4, <2>1, <2>2, <2>3
<1>8. CASE ReceiveConfirmRsp(n)
  <2> DEFINE k == Head(wire[n]).no
  <2>1. /\ k \in 1 .. Count(n) /\ k <= under[p] /\ (~lossy => Agree(n, k)) /\ UNCHANGED <<pre, solo>>
        /\ under'[n] = (IF under[n] = k - 1 THEN k ELSE under[n])
    BY <1>2, <1>8, ConfirmRspFacts
  <2>2. k \in Nat
    BY <2>1
  <2> HIDE DEF k
  <2>3. CASE under'[n] = k
    <3>1. under'[n] <= under'[p]
      BY <1>3, <2>1, <2>2, <2>3
    <3>2. ~lossy' => Common(pre'[n], pre'[p], under'[n])
      BY <1>3, <2>1, <2>3 DEF Agree
    <3>3. QED
      BY <3>1, <3>2
  <2>4. CASE under'[n] = under[n]
    BY <1>5, <2>1, <2>4
  <2>5. QED
    BY <2>1, <2>3, <2>4
<1>9. QED
  BY <1>5, <1>6, <1>7, <1>8, SeriesStep

-----------------------------------------------------------------------------
(* The theorems.                                                           *)

LEMMA PairInit ==
  ASSUME Init
  PROVE  PairInv
<1>1. Shape
  <2>1. <<>> \in Seq(Text) /\ <<>> \in Seq(Package) /\ 0 \in 0 .. MaxMessages
    BY EmptySeq, StandbyBounds
  <2>2. /\ pre \in [Node -> Seq(Text)] /\ handled \in [Node -> Seq(Text)]
        /\ wire \in [Node -> Seq(Package)] /\ fresh \in 0 .. MaxMessages
    BY <2>1 DEF Init
  <2>3. /\ under \in [Node -> Nat] /\ solo \in [Node -> Nat]
        /\ ack \in [Node -> Nat] /\ published \in [Node -> Nat]
    BY DEF Init
  <2>4. /\ noAckSeries \in [Node -> Int] /\ noAckResult \in [Node -> Int] /\ attached \in [Node -> Int]
    BY DEF Init
  <2>5. /\ alive \in [Node -> BOOLEAN] /\ comp \in [Node -> CompState]
        /\ kpc \in [Node -> {"run", "redo", "confirm", "register"}]
        /\ cmd \in [Node -> Command \union {"none"}]
    BY DEF Init, CompState
  <2>6. /\ hotline \in [Node -> BOOLEAN] /\ arb \in [Node -> BOOLEAN] /\ timer \in [Node -> BOOLEAN]
        /\ reset \in [Node -> BOOLEAN] /\ prepareFlag \in [Node -> BOOLEAN] /\ lossy \in BOOLEAN
    BY DEF Init
  <2>7. guard \in [leader : Node \union {NoNode}, paired : BOOLEAN, failed : BOOLEAN, ok : BOOLEAN]
    BY DEF Init
  <2>8. QED
    BY <2>2, <2>3, <2>4, <2>5, <2>6, <2>7 DEF Shape
<1>2. \A n \in Node :
        /\ alive[n] /\ comp[n] = "init" /\ cmd[n] = "none" /\ ~hotline[n] /\ attached[n] = -1
        /\ wire[n] = <<>> /\ Len(wire[n]) = 0 /\ pre[n] = <<>> /\ Len(pre[n]) = 0 /\ Len(handled[n]) = 0
        /\ under[n] = 0 /\ solo[n] = 0 /\ ack[n] = 0 /\ published[n] = 0
        /\ noAckSeries[n] = -1 /\ noAckResult[n] = -1
        /\ comp[Peer(n)] = "init" /\ cmd[Peer(n)] = "none"
  BY Peers DEF Init
<1>3. Lengths
  BY <1>2 DEF Lengths, Count
<1>4. Roles
  BY <1>2 DEF Roles, Active, Standby
<1>5. Persisting
  BY <1>2 DEF Persisting, Standby, Count
<1>6. Sessions
  BY <1>2 DEF Sessions, Standby
<1>7. Feeding /\ Answered
  BY <1>2 DEF Feeding, Answered, Standby
<1>8. Ahead
  BY <1>2 DEF Ahead, Active, Standby
<1>9. Covered
  <2>1. \A n \in Node : ~(under[n] > solo[n])
    BY <1>2
  <2>2. QED
    BY <2>1 DEF Covered
<1>10. QED
  BY <1>1, <1>3, <1>4, <1>5, <1>6, <1>7, <1>8, <1>9 DEF PairInv

LEMMA PairNext ==
  ASSUME PairInv, [Next]_vars
  PROVE  PairInv'
<1>1. Shape' /\ Roles'
  BY ShapeNext, RolesNext DEF PairInv
<1>2. QED
  BY <1>1, LengthsNext, PersistingNext, SessionsNext, FeedingNext, AnsweredNext, AheadNext, CoveredNext
     DEF PairInv

\* In every reachable state the flows of both nodes have their shape, and the
\* roles, the traffic of the hotline, and what each node has of the other's series fit
\* each other: the state objects of CCompServer, its hotline and the guard's
\* commands keep the pair together, whatever crashes and breaks.
THEOREM PairHolds == Spec => []PairInv
<1>1. Init => PairInv
  BY PairInit
<1>2. PairInv /\ [Next]_vars => PairInv'
  BY PairNext
<1>3. QED
  BY <1>1, <1>2, PTL DEF Spec

\* The series of a PREPARE or SECONDARY node is the beginning of that of the
\* node it stands by for, for any number of messages, exits and breaks of the
\* hotline.
THEOREM StandbyFollows == Spec => []StandbyIsPrefix
<1>1. PairInv => StandbyIsPrefix
  <2>1. SUFFICES ASSUME PairInv, ~lossy, NEW n \in Node, comp[n] \in Standby, comp[Peer(n)] \in Active
                 PROVE  IsPrefix(pre[n], pre[Peer(n)])
    BY DEF StandbyIsPrefix, Standby, Active
  <2>2. Agree(n, Count(n))
    BY <2>1 DEF PairInv, Ahead
  <2>3. pre[n] \in Seq(Text) /\ pre[Peer(n)] \in Seq(Text)
    BY <2>1, Peers DEF PairInv, Shape
  <2>4. QED
    BY <2>2, <2>3, PrefixIsCommon DEF Agree, Count
<1>2. QED
  BY <1>1, PairHolds, PTL

\* What a PRIMARY has persisted since it confirmed alone, its standby has
\* persisted, message for message: a takeover does not lose it.
THEOREM BothPersist == Spec => []PersistedOnBoth
<1>1. PairInv => TypeOK
  <2>1. SUFFICES ASSUME PairInv
                 PROVE  TypeOK
    OBVIOUS
  <2>2. Shape /\ Lengths
    BY <2>1 DEF PairInv
  <2>3. \A n \in Node :
          /\ pre[n] \in Seq(1 .. MaxMessages) /\ handled[n] \in Seq(1 .. MaxMessages)
          /\ Count(n) \in Nat /\ Len(handled[n]) \in Nat
          /\ under[n] \in Nat /\ ack[n] \in Nat /\ published[n] \in Nat
    BY <2>2, LenProperties DEF Shape, Text, Count
  <2>4. \A n \in Node :
          /\ under[n] \in 0 .. Count(n) /\ Len(handled[n]) <= Count(n)
          /\ published[n] \in 0 .. Len(handled[n]) /\ noAckSeries[n] \in -1 .. Count(n)
          /\ noAckResult[n] \in -1 .. Count(n) /\ ack[n] \in 0 .. Count(n)
          /\ attached[n] \in -1 .. Count(n)
    BY <2>2, <2>3 DEF Lengths
  <2>5. /\ alive \in [Node -> BOOLEAN] /\ comp \in [Node -> CompState]
        /\ kpc \in [Node -> {"run", "redo", "confirm", "register"}]
        /\ hotline \in [Node -> BOOLEAN] /\ {arb, timer, reset} \subseteq [Node -> BOOLEAN]
        /\ prepareFlag \in [Node -> BOOLEAN] /\ cmd \in [Node -> Command \union {"none"}]
    BY <2>2 DEF Shape
  <2>6. QED
    BY <2>3, <2>4, <2>5 DEF TypeOK
<1>2. ASSUME PairInv, NEW n \in Node, comp[n] = "primary", under[n] > solo[n]
      PROVE  /\ under[n] <= under[Peer(n)]
             /\ ~lossy => IsPrefix(Persisted(n), Persisted(Peer(n)))
  <2> DEFINE p == Peer(n)
  <2>1. under[n] <= under[p] /\ (~lossy => Agree(n, under[n]))
    BY <1>2 DEF PairInv, Covered
  <2>2. /\ pre[n] \in Seq(Text) /\ pre[p] \in Seq(Text) /\ under[n] \in Nat /\ under[p] \in Nat
        /\ Len(pre[n]) \in Nat /\ Len(pre[p]) \in Nat
        /\ under[n] <= Len(pre[n]) /\ under[p] <= Len(pre[p])
    BY <1>2, Peers, LenProperties DEF PairInv, Shape, Lengths, Count
  <2>3. under[n] \in 0 .. Len(pre[n]) /\ under[p] \in 0 .. Len(pre[p])
    BY <2>2
  <2>4. /\ Persisted(n) \in Seq(Text) /\ Len(Persisted(n)) = under[n]
        /\ Common(pre[n], Persisted(n), under[n])
    BY <2>2, <2>3, CommonSubSeq DEF Persisted
  <2>5. /\ Persisted(p) \in Seq(Text) /\ Len(Persisted(p)) = under[p]
        /\ Common(pre[p], Persisted(p), under[p])
    BY <2>2, <2>3, CommonSubSeq DEF Persisted
  <2>6. Common(pre[p], Persisted(p), under[n])
    BY <2>1, <2>2, <2>5, CommonLess
  <2>7. ASSUME ~lossy
        PROVE  IsPrefix(Persisted(n), Persisted(p))
    <3>1. Common(Persisted(n), Persisted(p), under[n])
      BY <2>1, <2>4, <2>6, <2>7, CommonVia, CommonSwap DEF Agree
    <3>2. QED
      BY <2>4, <2>5, <3>1, PrefixIsCommon
  <2>8. QED
    BY <2>1, <2>7
<1>3. PairInv => PersistedOnBoth
  BY <1>1, <1>2 DEF PersistedOnBoth
<1>4. QED
  BY <1>3, PairHolds, PTL

-----------------------------------------------------------------------------
(* The pair implements one replicated log.  Its own invariant says where    *)
(* what the fronts were ever given is kept.                                *)

\* Whoever handles nothing before it has replayed handles its series.
Tracks == ~skipped => \A n \in Node : Common(handled[n], pre[n], Len(handled[n]))

\* What n takes for confirmed it has persisted, or its peer has.
Vouched ==
  \A n \in Node : alive[n] =>
    \/ ack[n] <= under[n]
    \/ ack[n] <= under[Peer(n)] /\ (~lossy => Agree(n, ack[n]))

\* What is still on its way to a standby is what its primary, gone or not, has
\* persisted under that number.
Sent ==
  ~lossy => \A n \in Node : comp[n] \in Standby =>
    \A i \in 1 .. Len(wire[n]) :
      wire[n][i].tid = "confirmReq" /\ wire[n][i].no <= under[Peer(n)] =>
        wire[n][i].msg = pre[Peer(n)][wire[n][i].no]

\* What both have persisted is the same.
Alike ==
  ~lossy => \A n \in Node : \A i \in 1 .. under[n] :
    i <= under[Peer(n)] => pre[n][i] = pre[Peer(n)][i]

\* What was ever given is persisted on one of the nodes.
Kept == \E n \in Node : Len(shown) <= under[n] /\ Common(shown, pre[n], Len(shown))

Output ==
  /\ shown \in Seq(Text)
  /\ \A n \in Node : noAckResult[n] <= noAckSeries[n] /\ published[n] <= Len(shown)

LogInv ==
  /\ PairInv /\ Tracks /\ Vouched /\ Sent /\ Alike /\ Output
  /\ ~lossy /\ ~skipped => Kept

LEMMA FrameHistory ==
  ASSUME [Next]_vars
  PROVE  skipped' = skipped \/ \E n \in Node : RealDo(n)
<1> USE DEF flows, pubflow, links, control, bounds, history
<1>1. CASE UNCHANGED vars
  BY <1>1 DEF vars
<1>2. ASSUME NEW n \in Node, MatchingThread(n), ~RealDo(n)
      PROVE  skipped' = skipped
  BY <1>2 DEF MatchingThread, EnterRedo, RedoNext, RedoReturn, SelfConfirm, Register, Kernel
<1>3. ASSUME NEW n \in Node, SequencerThread(n)
      PROVE  skipped' = skipped
  BY <1>3 DEF SequencerThread, PublishSend, ReceiveLoginReq, ReceiveLoginError, ReceiveConfirmReq,
              ReceiveConfirmRsp, ReceivePrepareRsp, ReceiveIgnored, ReceiveLost, HotlineTimer,
              EnterSingle, EnterPrepare, EnterMaster, EnterSlaver, ChangeState, ForcedExit,
              GuardLost, GuardConnected, Reset, Exit
<1>4. ASSUME NEW n \in Node, Guard(n) \/ HotlineConnect(n) \/ Crash(n) \/ Restart(n)
      PROVE  skipped' = skipped
  BY <1>4 DEF Guard, GuardStart, GuardPrepare, GuardPair, GuardPromote, Commands, HotlineConnect,
              Crash, Exit, Restart
<1>5. CASE HotlineBreak \/ GuardDissolve
  BY <1>5 DEF HotlineBreak, GuardDissolve
<1>6. QED
  BY <1>1, <1>2, <1>3, <1>4, <1>5 DEF Next

\* What a restarted node handles, knows confirmed and publishes.
LEMMA RestartFacts ==
  ASSUME Shape, Lengths, NEW n \in Node, Restart(n)
  PROVE  /\ ~alive[n] /\ alive'[n] /\ Persisted(n) \in Seq(Text) /\ Len(Persisted(n)) = under[n]
         /\ Common(pre[n], Persisted(n), under[n])
         /\ pre'[n] = Persisted(n) /\ handled'[n] = Persisted(n) /\ handled'[Peer(n)] = handled[Peer(n)]
         /\ ack'[n] = under[n] /\ ack'[Peer(n)] = ack[Peer(n)]
         /\ under' = under /\ lossy' = lossy /\ skipped' = skipped
         /\ Publish(n, Persisted(n))
         /\ noAckSeries' = [noAckSeries EXCEPT ![n] = -1]
         /\ noAckResult' = [noAckResult EXCEPT ![n] = -1]
<1>1. /\ pre \in [Node -> Seq(Text)] /\ handled \in [Node -> Seq(Text)] /\ ack \in [Node -> Nat]
      /\ alive \in [Node -> BOOLEAN] /\ Peer(n) \in Node /\ Peer(n) # n
      /\ under[n] \in 0 .. Len(pre[n]) /\ pre[n] \in Seq(Text)
  <2>1. /\ pre \in [Node -> Seq(Text)] /\ handled \in [Node -> Seq(Text)] /\ ack \in [Node -> Nat]
        /\ alive \in [Node -> BOOLEAN] /\ Peer(n) \in Node /\ Peer(n) # n
        /\ pre[n] \in Seq(Text)
    BY Peers DEF Shape
  <2>2. under[n] \in Nat /\ under[n] <= Len(pre[n]) /\ Len(pre[n]) \in Nat
    BY <2>1, LenProperties DEF Shape, Lengths, Count
  <2>3. QED
    BY <2>1, <2>2
<1>2. /\ Persisted(n) \in Seq(Text) /\ Len(Persisted(n)) = under[n]
      /\ Common(pre[n], Persisted(n), under[n])
  BY <1>1, CommonSubSeq DEF Persisted
<1>3. /\ ~alive[n] /\ alive' = [alive EXCEPT ![n] = TRUE]
      /\ pre' = [pre EXCEPT ![n] = Persisted(n)] /\ handled' = [handled EXCEPT ![n] = Persisted(n)]
      /\ ack' = [ack EXCEPT ![n] = under[n]] /\ under' = under
      /\ Publish(n, Persisted(n)) /\ lossy' = lossy /\ skipped' = skipped
      /\ noAckSeries' = [noAckSeries EXCEPT ![n] = -1]
      /\ noAckResult' = [noAckResult EXCEPT ![n] = -1]
  BY DEF Restart, history
<1>4. QED
  BY <1>1, <1>2, <1>3

LEMMA TracksNext ==
  ASSUME PairInv, Tracks, [Next]_vars, ~skipped', NEW n \in Node
  PROVE  Common(handled'[n], pre'[n], Len(handled'[n]))
<1>1. /\ Shape /\ Lengths /\ Persisting /\ Answered
  BY DEF PairInv
<1>2. ~skipped
  BY FrameHistory DEF RealDo
<1>3. /\ Common(handled[n], pre[n], Len(handled[n])) /\ Len(handled[n]) \in Nat
      /\ Len(handled[n]) <= Count(n) /\ Count(n) \in Nat /\ Count(n)' \in Nat
      /\ handled \in [Node -> Seq(Text)] /\ pre \in [Node -> Seq(Text)]
      /\ handled[n] \in Seq(Text) /\ pre[n] \in Seq(Text)
  BY <1>1, <1>2, StoreStep, LenProperties DEF Tracks, Lengths, Shape
<1>4. ASSUME alive[n]
      PROVE  Common(handled[n], pre'[n], Len(handled[n]))
  <2>1. Common(pre[n], pre'[n], Count(n))
    BY <1>4, StoreStep
  <2>2. Common(pre[n], pre'[n], Len(handled[n]))
    BY <1>3, <2>1, CommonLess DEF Count
  <2>3. QED
    BY <1>3, <2>2, CommonVia
<1>5. CASE handled'[n] = handled[n] /\ ~Restart(n)
  <2>1. alive[n] \/ pre'[n] = pre[n]
    BY <1>5, SeriesStep DEF RealDo, SelfConfirm, Kernel, ReceiveConfirmReq, ReceiveConfirmRsp,
       EnterSingle, Receive, Obey
  <2>2. QED
    BY <1>3, <1>4, <1>5, <2>1
<1>6. CASE RedoNext(n)
  <2> DEFINE k == Len(handled[n]) + 1
             x == pre[n][k]
  <2>1. /\ Len(handled[n]) < Count(n) /\ handled' = [handled EXCEPT ![n] = Append(@, x)]
        /\ pre' = pre
    BY <1>6 DEF RedoNext
  <2>2. k \in 1 .. Len(pre[n])
    BY <1>3, <2>1 DEF Count
  <2>3. x \in Text
    BY <1>3, <2>2, ElementOfSeq
  <2>4. /\ handled'[n] = Append(handled[n], x) /\ pre'[n] = pre[n]
    BY <1>3, <2>1
  <2>5. x = pre[n][k]
    OBVIOUS
  <2> HIDE DEF x
  <2>6. /\ Len(Append(handled[n], x)) = k /\ Append(handled[n], x)[k] = x
        /\ \A i \in 1 .. Len(handled[n]) : Append(handled[n], x)[i] = handled[n][i]
    BY <1>3, <2>3, AppendProperties
  <2>7. \A i \in 1 .. k : i \in 1 .. Len(handled[n]) \/ i = k
    BY <1>3
  <2>8. \A i \in 1 .. k : Append(handled[n], x)[i] = pre[n][i]
    BY <1>3, <2>5, <2>6, <2>7 DEF Common
  <2> HIDE DEF k
  <2>9. QED
    BY <2>2, <2>4, <2>6, <2>8 DEF Common
<1>7. CASE RealDo(n)
  <2> DEFINE x == fresh'
             k == Len(handled[n]) + 1
  <2>1. Len(handled[n]) = Len(pre[n])
    <3>1. ~(Len(handled[n]) < Count(n))
      BY <1>7 DEF RealDo
    <3>2. QED
      BY <1>3, <3>1 DEF Count
  <2>2. /\ x \in Text
        /\ pre' = [pre EXCEPT ![n] = Append(@, x)] /\ handled' = [handled EXCEPT ![n] = Append(@, x)]
    BY <1>1, <1>7, StandbyBounds DEF RealDo, Shape, Text
  <2> HIDE DEF x
  <2>3. handled'[n] = Append(handled[n], x) /\ pre'[n] = Append(pre[n], x)
    BY <1>3, <2>2
  <2>4. /\ Len(Append(handled[n], x)) = k /\ Append(handled[n], x)[k] = x
        /\ \A i \in 1 .. Len(handled[n]) : Append(handled[n], x)[i] = handled[n][i]
        /\ Len(Append(pre[n], x)) = k /\ Append(pre[n], x)[k] = x
        /\ \A i \in 1 .. Len(handled[n]) : Append(pre[n], x)[i] = pre[n][i]
    BY <1>3, <2>1, <2>2, AppendProperties
  <2>5. \A i \in 1 .. k : i \in 1 .. Len(handled[n]) \/ i = k
    BY <1>3
  <2>6. \A i \in 1 .. k : Append(handled[n], x)[i] = Append(pre[n], x)[i]
    BY <1>3, <2>4, <2>5 DEF Common
  <2>7. k <= k
    BY <1>3
  <2> HIDE DEF k
  <2>8. QED
    BY <2>3, <2>4, <2>6, <2>7 DEF Common
<1>8. CASE Restart(n)
  <2>1. handled'[n] = pre'[n] /\ Len(pre'[n]) = under[n] /\ under[n] \in Nat
    BY <1>1, <1>8, RestartFacts DEF Shape
  <2>2. QED
    BY <2>1, CommonSelf
<1>9. ASSUME NEW m \in Node, m # n,
             \/ RedoNext(m) \/ RealDo(m) \/ SelfConfirm(m) \/ Register(m)
             \/ ReceiveConfirmReq(m) \/ ReceiveConfirmRsp(m) \/ EnterSingle(m) \/ Restart(m)
      PROVE  handled'[n] = handled[n]
  BY <1>3, <1>9 DEF RedoNext, RealDo, SelfConfirm, Register, ReceiveConfirmReq, ReceiveConfirmRsp,
     EnterSingle, Restart
<1>10. ASSUME SelfConfirm(n) \/ Register(n)
              \/ ReceiveConfirmReq(n) \/ ReceiveConfirmRsp(n) \/ EnterSingle(n)
       PROVE  handled'[n] = handled[n]
  BY <1>10 DEF SelfConfirm, Register, ReceiveConfirmReq, ReceiveConfirmRsp, EnterSingle
<1>11. QED
  BY <1>5, <1>6, <1>7, <1>8, <1>9, <1>10, FrameEntries

LEMMA VouchedNext ==
  ASSUME PairInv, Vouched, [Next]_vars
  PROVE  Vouched'
<1>1. /\ Shape /\ Lengths /\ Persisting /\ Answered /\ Shape'
  BY ShapeNext DEF PairInv
<1>2. SUFFICES ASSUME NEW n \in Node, alive'[n]
               PROVE  \/ ack'[n] <= under'[n]
                      \/ ack'[n] <= under'[Peer(n)]
                         /\ (~lossy' => Common(pre'[n], pre'[Peer(n)], ack'[n]))
  BY DEF Vouched, Agree
<1> DEFINE p == Peer(n)
           Goal == \/ ack'[n] <= under'[n]
                   \/ ack'[n] <= under'[p] /\ (~lossy' => Common(pre'[n], pre'[p], ack'[n]))
<1>3. p \in Node /\ p # n /\ Peer(p) = n
  BY Peers
<1>4. /\ under[n] \in Nat /\ under'[n] \in Nat /\ under[p] \in Nat /\ under'[p] \in Nat
      /\ under[n] <= under'[n] /\ under[p] <= under'[p] /\ (lossy => lossy')
      /\ Count(n) \in Nat
  BY <1>3, StoreStep
<1>5. ack[n] \in Nat /\ ack'[n] \in Nat
  BY <1>1 DEF Shape
<1>6. ASSUME ack'[n] = ack[n], alive[n]
      PROVE  Goal
  <2>1. CASE ack[n] <= under[n]
    BY <1>4, <1>5, <1>6, <2>1
  <2>2. CASE ack[n] <= under[p] /\ (~lossy => Agree(n, ack[n]))
    <3>1. ack'[n] <= under'[p]
      BY <1>4, <1>5, <1>6, <2>2
    <3>2. ~lossy' => Common(pre'[n], pre'[p], ack[n])
      BY <1>4, <1>5, <1>6, <2>2, AgreeKept
    <3>3. QED
      BY <1>6, <3>1, <3>2
  <2>3. QED
    BY <1>6, <2>1, <2>2 DEF Vouched
<1>7. ASSUME ack'[n] = ack[n], ~Restart(n)
      PROVE  Goal
  BY <1>1, <1>2, <1>6, <1>7, CompStep
<1>8. CASE UNCHANGED <<handled, pubflow>> /\ ~Restart(n)
  BY <1>7, <1>8 DEF pubflow
<1>9. CASE RedoNext(n) \/ RealDo(n) \/ Register(n)
  <2>1. ack' = ack /\ alive[n]
    BY <1>9 DEF RedoNext, RealDo, Register, Kernel, pubflow
  <2>2. QED
    BY <1>6, <2>1
<1>10. CASE SelfConfirm(n)
  <2>1. alive[n] /\ (comp[n] # "single" => ack' = ack)
    BY <1>10 DEF SelfConfirm, Kernel, pubflow
  <2>2. CASE comp[n] # "single"
    BY <1>6, <2>1, <2>2
  <2>3. CASE comp[n] = "single"
    <3>1. ack'[n] \in {ack[n], Count(n) - 1} /\ under'[n] = Count(n)
      BY <1>1, <1>10, <2>3, SelfConfirmFacts DEF Confirmed
    <3>2. QED
      BY <1>4, <1>6, <2>1, <3>1
  <2>4. QED
    BY <2>2, <2>3
<1>11. CASE ReceiveConfirmReq(n)
  <2>1. alive[n] /\ ack'[n] \in {ack[n], Count(n)} /\ under'[n] = Count(n) + 1
    BY <1>1, <1>11, ConfirmReqFacts DEF Confirmed
  <2>2. QED
    BY <1>4, <1>6, <2>1
<1>12. CASE ReceiveConfirmRsp(n)
  <2> DEFINE k == Head(wire[n]).no
  <2>1. /\ alive[n] /\ ack'[n] \in {ack[n], k - 1} /\ k \in 1 .. Count(n) /\ k <= under[p]
        /\ under'[p] = under[p] /\ (~lossy => Agree(n, k)) /\ pre' = pre /\ lossy' = lossy
    BY <1>1, <1>12, ConfirmRspFacts DEF Confirmed
  <2> HIDE DEF k
  <2>2. CASE ack'[n] = k - 1
    <3>1. k \in Nat /\ k - 1 \in Nat /\ k - 1 <= k
      BY <1>4, <2>1
    <3>2. ack'[n] <= under'[p]
      BY <1>4, <2>1, <2>2, <3>1
    <3>3. Count(n) \in Nat /\ Len(pre[n]) \in Nat /\ Len(pre[p]) \in Nat
      BY <1>3, StoreStep DEF Count
    <3>4. ~lossy => Common(pre[n], pre[p], k - 1)
      BY <2>1, <3>1, <3>3, CommonLess DEF Agree
    <3>5. QED
      BY <2>1, <2>2, <3>2, <3>4
  <2>3. QED
    BY <1>6, <2>1, <2>2
<1>13. CASE EnterSingle(n)
  <2>1. alive[n] /\ ack'[n] \in {ack[n], Count(n) - 1} /\ under'[n] = Count(n)
    BY <1>1, <1>13, EnterSingleFacts DEF Confirmed
  <2>2. QED
    BY <1>4, <1>6, <2>1
<1>14. CASE Restart(n)
  BY <1>1, <1>4, <1>14, RestartFacts
<1>15. ASSUME NEW m \in Node, m # n, ~Restart(n),
              \/ RedoNext(m) \/ RealDo(m) \/ SelfConfirm(m) \/ Register(m)
              \/ ReceiveConfirmReq(m) \/ ReceiveConfirmRsp(m) \/ EnterSingle(m) \/ Restart(m)
       PROVE  Goal
  <2>1. m = p /\ Peer(m) = n
    BY <1>3, <1>15, Peers
  <2>2. CASE RedoNext(m) \/ RealDo(m) \/ Register(m)
    BY <1>7, <1>15, <2>2 DEF RedoNext, RealDo, Register, pubflow
  <2>3. CASE SelfConfirm(m)
    BY <1>1, <1>7, <1>15, <2>1, <2>3, SelfConfirmFacts DEF Confirmed
  <2>4. CASE ReceiveConfirmReq(m)
    BY <1>1, <1>7, <1>15, <2>1, <2>4, ConfirmReqFacts DEF Confirmed
  <2>5. CASE ReceiveConfirmRsp(m)
    BY <1>1, <1>7, <1>15, <2>1, <2>5, ConfirmRspFacts DEF Confirmed
  <2>6. CASE EnterSingle(m)
    BY <1>1, <1>7, <1>15, <2>1, <2>6, EnterSingleFacts DEF Confirmed
  <2>7. CASE Restart(m)
    BY <1>1, <1>7, <1>15, <2>1, <2>7, RestartFacts
  <2>8. QED
    BY <1>15, <2>2, <2>3, <2>4, <2>5, <2>6, <2>7
<1>16. QED
  BY <1>8, <1>9, <1>10, <1>11, <1>12, <1>13, <1>14, <1>15, FrameEntries

LEMMA SentNext ==
  ASSUME PairInv, Sent, [Next]_vars
  PROVE  Sent'
<1>1. SUFFICES ASSUME ~lossy', NEW n \in Node, comp'[n] \in Standby, NEW i \in 1 .. Len(wire'[n]),
                      wire'[n][i].tid = "confirmReq", wire'[n][i].no <= under'[Peer(n)]
               PROVE  wire'[n][i].msg = pre'[Peer(n)][wire'[n][i].no]
  BY DEF Sent
<1> DEFINE p == Peer(n)
<1>2. /\ Shape /\ Lengths /\ Sessions /\ Roles /\ Feeding /\ p \in Node /\ Peer(p) = n
      /\ Roles' /\ Feeding' /\ Sessions' /\ Shape
  BY PairNext, Peers DEF PairInv
<1>3. CASE comp'[p] \in Active
  BY <1>1, <1>2, <1>3 DEF Feeding, Genuine
<1>4. CASE comp'[p] = "init"
  <2>1. under'[p] = under[p] /\ Common(pre[p], pre'[p], under[p]) /\ (lossy => lossy')
    <3>1. under'[p] = under[p]
      BY <1>2, <1>4, SeriesStep DEF Active, Standby
    <3>2. QED
      BY <1>2, <3>1, StoreStep
  <2>2. comp[n] \in Standby
    <3>1. wire'[n] # <<>>
      <4>1. SUFFICES ASSUME wire'[n] = <<>>
                     PROVE  FALSE
        OBVIOUS
      <4>2. Len(wire'[n]) = 0
        BY <4>1
      <4>3. QED
        BY <1>1, <4>2
    <3>2. QED
      BY <1>1, <3>1, BecomesStandby
  <2>3. PICK j \in 1 .. Len(wire[n]) : wire'[n][i] = wire[n][j]
    <3>1. ~PublishSend(p)
      <4>1. SUFFICES ASSUME PublishSend(p)
                     PROVE  FALSE
        OBVIOUS
      <4>2. hotline'[p]
        BY <1>2, <4>1, SendFacts DEF LinkUp
      <4>3. QED
        BY <1>2, <1>4, <4>2 DEF Sessions
    <3>2. ~ReceiveConfirmReq(p)
      BY <1>2, <1>4, ConfirmReqFacts DEF ReceiveConfirmReq
    <3>3. ~HotlineConnect(p)
      BY <1>4 DEF HotlineConnect
    <3>4. QED
      BY <1>1, <3>1, <3>2, <3>3, WireElements
  <2>4. wire[n][j].tid = "confirmReq" /\ wire[n][j].no <= under[p]
    BY <1>1, <2>1, <2>3
  <2>5. wire[n][j].msg = pre[p][wire[n][j].no]
    BY <1>1, <2>1, <2>2, <2>4 DEF Sent
  <2>6. wire[n][j].no \in 1 .. under[p]
    <3>1. wire[n][j].no = Count(n) + j
      BY <1>2, <2>2, <2>4 DEF Feeding, Numbered
    <3>2. Count(n) \in Nat /\ j \in Nat /\ j > 0 /\ under[p] \in Nat
      BY <1>2, StoreStep
    <3>3. QED
      BY <2>4, <3>1, <3>2
  <2>7. pre'[p][wire[n][j].no] = pre[p][wire[n][j].no]
    BY <2>1, <2>6 DEF Common
  <2>8. QED
    BY <2>3, <2>5, <2>7
<1>5. QED
  BY <1>1, <1>2, <1>3, <1>4 DEF Roles

\* A node that is alone has all that its peer has persisted.
LEMMA AloneHasAll ==
  ASSUME PairInv', ~lossy', NEW n \in Node, comp'[n] = "single"
  PROVE  Common(pre'[n], pre'[Peer(n)], under'[Peer(n)])
<1> DEFINE p == Peer(n)
<1>1. /\ Shape' /\ Lengths' /\ Roles' /\ Ahead' /\ p \in Node /\ Peer(p) = n
  BY Peers DEF PairInv
<1>2. comp'[p] \in CompState
  BY <1>1 DEF Shape
<1>3. CASE comp'[p] = "init" \/ comp'[p] = "primary"
  <2>1. guard'.leader = n
    BY <1>1 DEF Roles
  <2>2. QED
    BY <1>1, <1>3, <2>1 DEF Ahead, Active, Agree
<1>4. CASE comp'[p] \in Standby
  <2>1. Common(pre'[p], pre'[n], Count(p)')
    BY <1>1, <1>4 DEF Ahead, Agree, Active
  <2>2. /\ under'[p] \in Nat /\ under'[p] <= Len(pre'[p])
        /\ Len(pre'[p]) \in Nat /\ Len(pre'[n]) \in Nat
    BY <1>1, LenProperties DEF Shape, Lengths, Count
  <2>3. Common(pre'[p], pre'[n], under'[p])
    BY <2>1, <2>2, CommonLess DEF Count
  <2>4. QED
    BY <2>3, CommonSwap
<1>5. comp'[p] # "single"
  BY <1>1 DEF Roles, Active
<1>6. QED
  BY <1>2, <1>3, <1>4, <1>5 DEF CompState, Standby

LEMMA AlikeNext ==
  ASSUME PairInv, Sent, Alike, [Next]_vars
  PROVE  Alike'
<1> DEFINE Same(n) == \A i \in 1 .. under'[n] : i <= under'[Peer(n)] => pre'[n][i] = pre'[Peer(n)][i]
<1>1. SUFFICES ASSUME ~lossy'
               PROVE  \A n \in Node : Same(n)
  BY DEF Alike
<1>2. PairInv' /\ Shape /\ Lengths /\ Persisting /\ Answered /\ Feeding
  BY PairNext DEF PairInv
<1>3. ~lossy
  <2>1. PICK n \in Node : TRUE
    BY TwoNodes, FS_EmptySet
  <2>2. QED
    BY <1>1, <2>1, StoreStep
<1>4. ASSUME NEW n \in Node
      PROVE  /\ Peer(n) \in Node /\ Peer(Peer(n)) = n
             /\ under[n] \in Nat /\ under'[n] \in Nat /\ under[n] <= under'[n]
             /\ Common(pre[n], pre'[n], under[n])
             /\ under[Peer(n)] \in Nat /\ under'[Peer(n)] \in Nat
             /\ Common(pre[Peer(n)], pre'[Peer(n)], under[Peer(n)])
             /\ \A i \in 1 .. under[n] : i <= under[Peer(n)] => pre[n][i] = pre[Peer(n)][i]
  BY <1>3, <1>4, Peers, StoreStep DEF Alike
<1>5. ASSUME NEW n \in Node, under'[n] = under[n], under'[Peer(n)] = under[Peer(n)]
      PROVE  Same(n)
  <2>1. SUFFICES ASSUME NEW i \in 1 .. under'[n], i <= under'[Peer(n)]
                 PROVE  pre'[n][i] = pre'[Peer(n)][i]
    OBVIOUS
  <2>2. i \in 1 .. under[n] /\ i \in 1 .. under[Peer(n)]
    BY <1>4, <1>5, <2>1
  <2>3. pre[n][i] = pre'[n][i] /\ pre[Peer(n)][i] = pre'[Peer(n)][i] /\ pre[n][i] = pre[Peer(n)][i]
    BY <1>4, <2>2 DEF Common
  <2>4. QED
    BY <2>3
\* One that persists more has it from the other.
<1>6. ASSUME NEW n \in Node, under'[Peer(n)] = under[Peer(n)],
             SelfConfirm(n) \/ ReceiveConfirmReq(n) \/ ReceiveConfirmRsp(n) \/ EnterSingle(n)
      PROVE  Same(n)
  <2> DEFINE p == Peer(n)
  <2>1. CASE comp'[n] = "single"
    <3>1. Common(pre'[n], pre'[p], under'[p])
      BY <1>1, <1>2, <2>1, AloneHasAll
    <3>2. QED
      BY <1>4, <3>1 DEF Common
  <2>2. CASE SelfConfirm(n) /\ comp'[n] # "single"
    <3>1. under'[n] = under[n]
      BY <1>2, <2>2, SelfConfirmFacts
    <3>2. QED
      BY <1>5, <1>6, <3>1
  <2>3. CASE ReceiveConfirmReq(n)
    <3> DEFINE x == Head(wire[n])
               k == Count(n) + 1
    <3>1. /\ comp[n] \in Standby /\ wire[n] # <<>> /\ x.tid = "confirmReq" /\ under[n] = Count(n)
          /\ under'[n] = k /\ pre'[n][k] = x.msg /\ pre'[p] = pre[p]
      BY <1>2, <2>3, ConfirmReqFacts
    <3>2. x = wire[n][1] /\ 1 \in 1 .. Len(wire[n])
      BY <1>2, <3>1, TakeFacts
    <3>3. x.no = k
      BY <2>3, AppendedAgrees
    <3>4. k <= under[p] => x.msg = pre[p][k]
      BY <1>3, <3>1, <3>2, <3>3 DEF Sent
    <3>5. SUFFICES ASSUME NEW i \in 1 .. under'[n], i <= under'[p]
                   PROVE  pre'[n][i] = pre'[p][i]
      OBVIOUS
    <3>6. CASE i = k
      <4>1. k <= under[p]
        BY <1>6, <3>5, <3>6
      <4>2. QED
        BY <3>1, <3>4, <3>6, <4>1
    <3>7. CASE i # k
      <4>1. i \in 1 .. under[n] /\ i <= under[p]
        BY <1>4, <1>6, <3>1, <3>5, <3>7
      <4>2. pre[n][i] = pre'[n][i] /\ pre[n][i] = pre[p][i]
        BY <1>4, <4>1 DEF Common
      <4>3. QED
        BY <3>1, <4>2
    <3>8. QED
      BY <3>6, <3>7
  <2>4. CASE ReceiveConfirmRsp(n)
    <3> DEFINE k == Head(wire[n]).no
    <3>1. pre' = pre /\ Agree(n, k) /\ under'[n] = IF under[n] = k - 1 THEN k ELSE under[n]
      BY <1>2, <1>3, <2>4, ConfirmRspFacts
    <3> HIDE DEF k
    <3>2. CASE under'[n] = k
      BY <3>1, <3>2 DEF Agree, Common
    <3>3. CASE under'[n] = under[n]
      BY <1>5, <1>6, <3>3
    <3>4. QED
      BY <3>1, <3>2, <3>3
  <2>5. CASE EnterSingle(n)
    BY <1>2, <2>1, <2>5, EnterSingleFacts
  <2>6. QED
    BY <1>6, <2>2, <2>1, <2>3, <2>4, <2>5
<1>7. ASSUME NEW n \in Node, Same(n)
      PROVE  Same(Peer(n))
  BY <1>4, <1>7
<1>8. CASE UNCHANGED <<pre, under, solo, lossy>>
  BY <1>4, <1>5, <1>8
<1>9. ASSUME NEW m \in Node, NEW n \in Node,
             \/ RealDo(m) \/ SelfConfirm(m) \/ ReceiveConfirmReq(m)
             \/ ReceiveConfirmRsp(m) \/ EnterSingle(m) \/ Restart(m)
      PROVE  Same(n)
  <2>1. n = m \/ n = Peer(m)
    BY Peers
  <2>2. CASE RealDo(m)
    <3>1. under' = under
      BY <1>2, <2>2, RealDoFacts
    <3>2. QED
      BY <1>5, <3>1
  <2>3. CASE Restart(m)
    <3>1. under' = under
      BY <1>2, <2>3, RestartFacts
    <3>2. QED
      BY <1>5, <3>1
  <2>4. CASE SelfConfirm(m) \/ ReceiveConfirmReq(m) \/ ReceiveConfirmRsp(m) \/ EnterSingle(m)
    <3>1. under'[Peer(m)] = under[Peer(m)]
      BY <1>2, <2>4, SelfConfirmFacts, ConfirmReqFacts, ConfirmRspFacts, EnterSingleFacts
    <3>2. Same(m)
      BY <1>6, <2>4, <3>1
    <3>3. QED
      BY <1>7, <2>1, <3>2
  <2>5. QED
    BY <1>9, <2>2, <2>3, <2>4
<1>10. QED
  BY <1>8, <1>9, FrameSeries

\* A result flow is published anew, or none.
Publishes(n, s) ==
  /\ alive'[n] /\ s \in Seq(Text) /\ s = Distributed(n)' /\ Publish(n, s)
  /\ Len(s) <= ack'[n]
  /\ handled'[Peer(n)] = handled[Peer(n)]
  /\ handled'[n] = handled[n] \/ Restart(n)

LEMMA EntryStep ==
  ASSUME Shape, Lengths, NEW n \in Node, NEW k \in Nat, PubFlowConfirm(n, k), alive'[n],
         noAckResult[n] <= noAckSeries[n], handled' = handled
  PROVE  \/ UNCHANGED <<published, shown>>
         \/ Publishes(n, SubSeq(handled[n], 1, noAckResult[n]))
<1> DEFINE L == noAckResult[n]
           s == SubSeq(handled[n], 1, L)
<1>1. /\ handled[n] \in Seq(Text) /\ Len(handled[n]) \in Nat /\ L \in Int
      /\ published \in [Node -> Nat] /\ noAckSeries[n] \in Int
      /\ ack' = [ack EXCEPT ![n] = k] /\ ack \in [Node -> Nat]
  BY LenProperties DEF Shape, PubFlowConfirm
<1>2. CASE noAckSeries[n] >= 0 /\ noAckSeries[n] <= k
  <2>1. L \in 0 .. Len(handled[n]) /\ L <= k
    <3>1. L \in -1 .. Len(handled[n]) /\ (noAckSeries[n] = -1 <=> L = -1)
      BY DEF Lengths
    <3>2. noAckSeries[n] # -1
      BY <1>1, <1>2
    <3>3. QED
      BY <1>1, <1>2, <3>1, <3>2
  <2>2. s \in Seq(Text) /\ Len(s) = L
    BY <1>1, <2>1, CommonSubSeq
  <2>3. Publish(n, s)
    BY <1>2 DEF PubFlowConfirm
  <2>4. published'[n] = L /\ ack'[n] = k
    BY <1>1, <2>2, <2>3 DEF Publish
  <2>5. s = Distributed(n)'
    BY <2>4 DEF Distributed
  <2>6. QED
    BY <2>1, <2>2, <2>3, <2>4, <2>5 DEF Publishes
<1>3. CASE ~(noAckSeries[n] >= 0 /\ noAckSeries[n] <= k)
  BY <1>3 DEF PubFlowConfirm
<1>4. QED
  BY <1>2, <1>3

\* Whatever is published is what was handled, as far as it is known confirmed.
LEMMA PublishStep ==
  ASSUME PairInv, Output, [Next]_vars
  PROVE  \/ UNCHANGED <<published, shown>>
            /\ \A n \in Node : Common(handled[n], handled'[n], Len(handled[n]))
         \/ \E n \in Node : \E s : Publishes(n, s)
<1>1. /\ Shape /\ Lengths /\ Persisting /\ Answered
  BY DEF PairInv
<1>2. \A n \in Node : /\ handled[n] \in Seq(Text) /\ Len(handled[n]) \in Nat
                      /\ Count(n) \in Nat /\ ack[n] \in Nat
                      /\ noAckResult[n] <= noAckSeries[n]
                      /\ Peer(n) \in Node /\ Peer(n) # n /\ Peer(Peer(n)) = n
  BY <1>1, Peers, LenProperties DEF Shape, Output, Count
<1>3. ASSUME handled' = handled
      PROVE  \A n \in Node : Common(handled[n], handled'[n], Len(handled[n]))
  BY <1>2, <1>3, CommonSelf
<1>4. CASE UNCHANGED <<handled, pubflow>>
  BY <1>3, <1>4 DEF pubflow
<1>5. ASSUME NEW n \in Node, RedoNext(n)
      PROVE  /\ UNCHANGED <<published, shown>>
             /\ \A m \in Node : Common(handled[m], handled'[m], Len(handled[m]))
  <2> DEFINE x == pre[n][Len(handled[n]) + 1]
  <2>1. /\ UNCHANGED <<published, shown>> /\ handled' = [handled EXCEPT ![n] = Append(@, x)]
        /\ Len(handled[n]) < Count(n)
    BY <1>5 DEF RedoNext, pubflow
  <2>2. handled \in [Node -> Seq(Text)] /\ pre[n] \in Seq(Text)
        /\ Len(handled[n]) + 1 \in 1 .. Len(pre[n])
    <3>1. handled \in [Node -> Seq(Text)] /\ pre[n] \in Seq(Text)
      BY <1>1 DEF Shape
    <3>2. Len(handled[n]) + 1 \in 1 .. Len(pre[n])
      BY <1>2, <2>1 DEF Count
    <3>3. QED
      BY <3>1, <3>2
  <2>3. x \in Text
    BY <2>2, ElementOfSeq
  <2> HIDE DEF x
  <2>4. Common(handled[n], Append(handled[n], x), Len(handled[n]))
    BY <1>2, <2>3, CommonAppend
  <2>5. \A m \in Node : handled'[m] = IF m = n THEN Append(handled[n], x) ELSE handled[m]
    BY <2>1, <2>2
  <2>6. \A m \in Node : Common(handled[m], handled[m], Len(handled[m]))
    BY <1>2, CommonSelf
  <2>7. QED
    BY <2>1, <2>4, <2>5, <2>6
<1>6. ASSUME NEW n \in Node, RealDo(n)
      PROVE  /\ UNCHANGED <<published, shown>>
             /\ \A m \in Node : Common(handled[m], handled'[m], Len(handled[m]))
  <2> DEFINE x == fresh'
  <2>1. /\ UNCHANGED <<published, shown>> /\ handled' = [handled EXCEPT ![n] = Append(@, x)]
    BY <1>6 DEF RealDo, pubflow
  <2>2. handled \in [Node -> Seq(Text)] /\ x \in Text
    <3>1. handled \in [Node -> Seq(Text)] /\ fresh \in 0 .. MaxMessages
      BY <1>1 DEF Shape
    <3>2. fresh < MaxMessages /\ x = fresh + 1
      BY <1>6 DEF RealDo
    <3>3. MaxMessages \in Nat
      BY StandbyBounds
    <3>4. QED
      BY <3>1, <3>2, <3>3 DEF Text
  <2> HIDE DEF x
  <2>3. Common(handled[n], Append(handled[n], x), Len(handled[n]))
    BY <1>2, <2>2, CommonAppend
  <2>4. \A m \in Node : handled'[m] = IF m = n THEN Append(handled[n], x) ELSE handled[m]
    BY <2>1, <2>2
  <2>5. \A m \in Node : Common(handled[m], handled[m], Len(handled[m]))
    BY <1>2, CommonSelf
  <2>6. QED
    BY <2>1, <2>3, <2>4, <2>5
<1>7. ASSUME NEW n \in Node, Register(n)
      PROVE  handled' = handled /\ (UNCHANGED <<published, shown>> \/ Publishes(n, handled[n]))
  <2>1. handled' = handled /\ ack' = ack /\ alive[n] /\ alive' = alive
    BY <1>7 DEF Register, Kernel
  <2>2. CASE Count(n) <= ack[n]
    <3>1. Publish(n, handled[n])
      BY <1>7, <2>2 DEF Register
    <3>2. published'[n] = Len(handled[n])
      BY <1>1, <3>1 DEF Publish, Shape
    <3>3. handled[n] = SubSeq(handled[n], 1, Len(handled[n]))
      BY <1>2, SubSeqProperties
    <3>4. handled[n] = Distributed(n)'
      BY <2>1, <3>2, <3>3 DEF Distributed
    <3>5. Len(handled[n]) <= Count(n)
      BY <1>1 DEF Lengths
    <3>6. Len(handled[n]) <= ack'[n]
      BY <1>2, <2>1, <2>2, <3>5
    <3>7. QED
      BY <1>2, <2>1, <3>1, <3>4, <3>6 DEF Publishes
  <2>3. CASE ~(Count(n) <= ack[n])
    BY <1>7, <2>1, <2>3 DEF Register
  <2>4. QED
    BY <2>2, <2>3
<1>8. ASSUME NEW n \in Node, handled' = handled, alive'[n],
             UNCHANGED pubflow \/ \E k \in Nat : PubFlowConfirm(n, k)
      PROVE  UNCHANGED <<published, shown>> \/ \E s : Publishes(n, s)
  BY <1>1, <1>2, <1>8, EntryStep DEF pubflow
<1>9. ASSUME NEW n \in Node, NEW k \in Int, k >= -1, ConfirmKey(n, k)
      PROVE  UNCHANGED pubflow \/ \E j \in Nat : PubFlowConfirm(n, j)
  <2>1. CASE k < under[n]
    BY <1>9, <2>1 DEF ConfirmKey
  <2>2. CASE ~(k < under[n])
    <3>1. under[n] \in Nat
      BY <1>1 DEF Shape
    <3>2. k \in Nat
      BY <1>9, <2>2, <3>1
    <3>3. QED
      BY <1>9, <2>2, <3>2 DEF ConfirmKey
  <2>3. QED
    BY <2>1, <2>2
<1>10. ASSUME NEW n \in Node, ConfirmAll(n)
       PROVE  UNCHANGED pubflow \/ \E k \in Nat : PubFlowConfirm(n, k)
  <2>1. CASE under[n] = Count(n)
    BY <1>10, <2>1 DEF ConfirmAll
  <2>2. CASE under[n] # Count(n)
    <3>1. under[n] \in Nat /\ under[n] <= Count(n)
      BY <1>1 DEF Shape, Lengths
    <3>2. Count(n) - 1 \in Nat
      BY <1>2, <2>2, <3>1
    <3>3. QED
      BY <1>10, <2>2, <3>2 DEF ConfirmAll
  <2>3. QED
    BY <2>1, <2>2
<1>11. ASSUME NEW n \in Node, SelfConfirm(n)
       PROVE  handled' = handled /\ (UNCHANGED <<published, shown>> \/ \E s : Publishes(n, s))
  <2>1. handled' = handled /\ alive[n] /\ alive' = alive /\ (UNCHANGED pubflow \/ ConfirmAll(n))
    BY <1>11 DEF SelfConfirm, Kernel
  <2>2. QED
    BY <1>8, <1>10, <2>1
<1>12. ASSUME NEW n \in Node, EnterSingle(n)
       PROVE  handled' = handled /\ (UNCHANGED <<published, shown>> \/ \E s : Publishes(n, s))
  <2>1. handled' = handled /\ alive[n] /\ alive' = alive /\ ConfirmAll(n)
    BY <1>12 DEF EnterSingle, Obey
  <2>2. QED
    BY <1>8, <1>10, <2>1
<1>13. ASSUME NEW n \in Node, ReceiveConfirmReq(n)
       PROVE  handled' = handled /\ (UNCHANGED <<published, shown>> \/ \E s : Publishes(n, s))
  <2>1. handled' = handled /\ alive[n] /\ alive' = alive /\ ConfirmKey(n, Count(n))
    BY <1>13 DEF ReceiveConfirmReq, Receive
  <2>2. Count(n) \in Int /\ Count(n) >= -1
    BY <1>2
  <2>3. QED
    BY <1>8, <1>9, <2>1, <2>2
<1>14. ASSUME NEW n \in Node, ReceiveConfirmRsp(n)
       PROVE  handled' = handled /\ (UNCHANGED <<published, shown>> \/ \E s : Publishes(n, s))
  <2> DEFINE k == Head(wire[n]).no - 1
  <2>1. handled' = handled /\ alive[n] /\ alive' = alive /\ ConfirmKey(n, k)
    BY <1>14 DEF ReceiveConfirmRsp, Receive
  <2>2. k \in Int /\ k >= -1
    <3>1. Head(wire[n]).no \in 1 .. Count(n)
      BY <1>1, <1>14, ConfirmRspFacts
    <3>2. QED
      BY <3>1
  <2>3. QED
    BY <1>8, <1>9, <2>1, <2>2
<1>15. ASSUME NEW n \in Node, Restart(n)
       PROVE  Publishes(n, Persisted(n))
  <2> DEFINE s == Persisted(n)
  <2>1. /\ alive'[n] /\ s \in Seq(Text) /\ Len(s) = under[n] /\ handled'[n] = s /\ ack'[n] = under[n]
        /\ Publish(n, s) /\ handled'[Peer(n)] = handled[Peer(n)]
    BY <1>1, <1>15, RestartFacts
  <2>2. published'[n] = Len(s) /\ under[n] \in Nat
    BY <1>1, <2>1 DEF Publish, Shape
  <2>3. s = SubSeq(s, 1, Len(s))
    BY <2>1, SubSeqProperties
  <2>4. s = Distributed(n)'
    BY <2>1, <2>2, <2>3 DEF Distributed
  <2>5. Len(s) <= ack'[n]
    BY <2>1, <2>2
  <2>6. QED
    BY <1>15, <2>1, <2>4, <2>5 DEF Publishes
<1>16. QED
  BY <1>3, <1>4, <1>5, <1>6, <1>7, <1>11, <1>12, <1>13, <1>14, <1>15, FrameEntries

LEMMA OutputNext ==
  ASSUME PairInv, Output, [Next]_vars
  PROVE  Output'
<1>1. /\ Shape /\ Lengths /\ Persisting /\ Answered /\ Shape'
  BY ShapeNext DEF PairInv
<1>2. \A n \in Node : noAckResult[n] <= noAckSeries[n] /\ published[n] <= Len(shown)
  BY DEF Output
<1>3. shown \in Seq(Text) /\ Len(shown) \in Nat
  BY LenProperties DEF Output
<1>4. ASSUME NEW n \in Node
      PROVE  noAckResult'[n] <= noAckSeries'[n]
  <2> DEFINE Same == noAckResult'[n] = noAckResult[n] /\ noAckSeries'[n] = noAckSeries[n]
             None == noAckResult'[n] = -1 /\ noAckSeries'[n] = -1
  <2>1. CASE UNCHANGED pubflow
    BY <1>2, <2>1 DEF pubflow
  <2>2. ASSUME NEW m \in Node, n = m \/ n = Peer(m), NEW k, Confirmed(m, k)
        PROVE  Same \/ None
    BY <2>2 DEF Confirmed
  <2>3. ASSUME NEW m \in Node,
               \/ SelfConfirm(m) \/ ReceiveConfirmReq(m) \/ ReceiveConfirmRsp(m) \/ EnterSingle(m)
        PROVE  Same \/ None
    <3>1. n = m \/ n = Peer(m)
      BY Peers
    <3>2. \E k : Confirmed(m, k)
      BY <1>1, <2>3, SelfConfirmFacts, ConfirmReqFacts, ConfirmRspFacts, EnterSingleFacts
    <3>3. QED
      BY <2>2, <3>1, <3>2
  <2>4. ASSUME NEW m \in Node, RedoNext(m) \/ RealDo(m)
        PROVE  Same
    BY <2>4 DEF RedoNext, RealDo, pubflow
  <2>5. ASSUME NEW m \in Node, Register(m)
        PROVE  noAckResult'[n] <= noAckSeries'[n]
    <3>1. CASE Count(m) <= ack[m]
      BY <1>2, <2>5, <3>1 DEF Register
    <3>2. CASE ~(Count(m) <= ack[m])
      <4>1. /\ noAckSeries' = [noAckSeries EXCEPT ![m] = Count(m)]
            /\ noAckResult' = [noAckResult EXCEPT ![m] = Len(handled[m])]
        BY <2>5, <3>2 DEF Register
      <4>2. /\ noAckSeries \in [Node -> Int] /\ noAckResult \in [Node -> Int]
            /\ Len(handled[m]) <= Count(m)
        BY <1>1 DEF Shape, Lengths
      <4>3. CASE n = m
        BY <4>1, <4>2, <4>3
      <4>4. CASE n # m
        BY <1>2, <4>1, <4>2, <4>4
      <4>5. QED
        BY <4>3, <4>4
    <3>3. QED
      BY <3>1, <3>2
  <2>6. ASSUME NEW m \in Node, Restart(m)
        PROVE  Same \/ None
    <3>1. /\ noAckSeries' = [noAckSeries EXCEPT ![m] = -1]
          /\ noAckResult' = [noAckResult EXCEPT ![m] = -1]
      BY <1>1, <2>6, RestartFacts
    <3>2. noAckSeries \in [Node -> Int] /\ noAckResult \in [Node -> Int]
      BY <1>1 DEF Shape
    <3>3. QED
      BY <3>1, <3>2
  <2>7. ASSUME Same \/ None
        PROVE  noAckResult'[n] <= noAckSeries'[n]
    BY <1>2, <2>7
  <2>8. QED
    BY <2>1, <2>3, <2>4, <2>5, <2>6, <2>7, FrameEntries
<1>5. ASSUME NEW m \in Node, NEW s, Publishes(m, s)
      PROVE  /\ shown' \in Seq(Text)
             /\ \A n \in Node : published'[n] <= Len(shown')
  <2>1. /\ s \in Seq(Text) /\ published' = [published EXCEPT ![m] = Len(s)]
        /\ shown' = IF Len(s) > Len(shown) THEN s ELSE shown
    BY <1>5 DEF Publishes, Publish
  <2>2. Len(s) \in Nat /\ published \in [Node -> Nat]
    BY <1>1, <2>1, LenProperties DEF Shape
  <2>3. Len(s) <= Len(shown') /\ Len(shown) <= Len(shown') /\ shown' \in Seq(Text) /\ Len(shown') \in Nat
    BY <1>3, <2>1, <2>2
  <2>4. ASSUME NEW n \in Node
        PROVE  published'[n] <= Len(shown')
    <3>1. published'[n] = IF n = m THEN Len(s) ELSE published[n]
      BY <2>1, <2>2
    <3>2. published[n] \in Nat /\ published[n] <= Len(shown)
      BY <1>2, <2>2
    <3>3. QED
      BY <1>3, <2>2, <2>3, <3>1, <3>2
  <2>5. QED
    BY <2>3, <2>4
<1>6. shown' \in Seq(Text) /\ \A n \in Node : published'[n] <= Len(shown')
  BY <1>2, <1>3, <1>5, PublishStep
<1>7. QED
  BY <1>4, <1>6 DEF Output

\* What two beginnings of the same history have in common.
LEMMA CommonBoth ==
  ASSUME NEW s, NEW t, NEW u, NEW k, k <= Len(s), k <= Len(u),
         Common(s, t, Len(s)), Common(u, t, Len(u)),
         Len(s) \in Nat, Len(u) \in Nat, Len(t) \in Nat, k \in Nat
  PROVE  Common(s, u, k)
<1>1. \A i \in 1 .. k : i \in 1 .. Len(s) /\ i \in 1 .. Len(u)
  OBVIOUS
<1>2. QED
  BY <1>1 DEF Common

LEMMA BothPersisted ==
  ASSUME Shape', Lengths', Alike', ~lossy', NEW n \in Node, NEW m \in Node,
         NEW s \in Seq(Text), NEW t \in Seq(Text), NEW k \in Nat, k <= Len(s), k <= Len(t),
         Len(s) <= under'[n], Common(s, pre'[n], Len(s)),
         Len(t) <= under'[m], Common(t, pre'[m], Len(t))
  PROVE  Common(s, t, k)
<1>1. Len(s) \in Nat /\ Len(t) \in Nat /\ under'[n] \in Nat /\ under'[m] \in Nat
  BY LenProperties DEF Shape
<1>2. m = n \/ m = Peer(n)
  BY Peers
<1>3. ASSUME NEW i \in 1 .. k
      PROVE  s[i] = t[i]
  <2>1. i \in 1 .. Len(s) /\ i \in 1 .. Len(t) /\ i \in 1 .. under'[n] /\ i \in 1 .. under'[m]
    BY <1>1
  <2>2. s[i] = pre'[n][i] /\ t[i] = pre'[m][i]
    BY <2>1 DEF Common
  <2>3. pre'[n][i] = pre'[m][i]
    BY <1>2, <2>1 DEF Alike
  <2>4. QED
    BY <2>2, <2>3
<1>4. QED
  BY <1>3 DEF Common

\* What is published is persisted on one of the nodes.
LEMMA PublishedFacts ==
  ASSUME PairInv, Tracks, Vouched, [Next]_vars, ~lossy', ~skipped',
         NEW n \in Node, NEW s, Publishes(n, s)
  PROVE  /\ Common(s, pre'[n], Len(s))
         /\ \E m \in Node : Len(s) <= under'[m] /\ Common(s, pre'[m], Len(s))
<1> DEFINE p == Peer(n)
<1>1. /\ PairInv' /\ Shape' /\ Lengths' /\ Vouched' /\ p \in Node
      /\ alive'[n] /\ s \in Seq(Text) /\ s = Distributed(n)' /\ Len(s) <= ack'[n]
  BY PairNext, VouchedNext, Peers DEF PairInv, Publishes
<1>2. /\ Len(s) \in Nat /\ ack'[n] \in Nat /\ under'[n] \in Nat /\ under'[p] \in Nat
      /\ published'[n] \in Nat /\ published'[n] <= Len(handled'[n])
      /\ handled'[n] \in Seq(Text) /\ Len(handled'[n]) \in Nat
      /\ Len(pre'[n]) \in Nat /\ Len(pre'[p]) \in Nat
  BY <1>1, LenProperties DEF Shape, Lengths
<1>3. Len(s) = published'[n] /\ Common(handled'[n], s, published'[n])
  <2>1. published'[n] \in 0 .. Len(handled'[n])
    BY <1>2
  <2>2. QED
    BY <1>1, <1>2, <2>1, CommonSubSeq DEF Distributed
<1>4. Common(s, pre'[n], Len(s))
  <2>1. Common(handled'[n], pre'[n], Len(handled'[n]))
    BY TracksNext
  <2>2. Common(handled'[n], pre'[n], Len(s))
    BY <1>2, <1>3, <2>1, CommonLess
  <2>3. QED
    BY <1>3, <2>2, CommonSwap, CommonVia
<1>5. CASE ack'[n] <= under'[n]
  BY <1>1, <1>2, <1>4, <1>5
<1>6. CASE ack'[n] <= under'[p] /\ Common(pre'[n], pre'[p], ack'[n])
  <2>1. Common(pre'[n], pre'[p], Len(s))
    BY <1>1, <1>2, <1>6, CommonLess
  <2>2. Common(s, pre'[p], Len(s)) /\ Len(s) <= under'[p]
    BY <1>1, <1>2, <1>4, <1>6, <2>1, CommonVia
  <2>3. QED
    BY <1>1, <1>4, <2>2
<1>7. QED
  BY <1>1, <1>5, <1>6 DEF Vouched, Agree

\* What is published begins with what was given before, or is its beginning.
LEMMA OneHistory ==
  ASSUME LogInv, [Next]_vars, ~lossy', ~skipped', NEW n \in Node, NEW s, Publishes(n, s)
  PROVE  \A k \in Nat : k <= Len(s) /\ k <= Len(shown) => Common(s, shown, k)
<1>1. /\ PairInv /\ Tracks /\ Vouched /\ Sent /\ Alike /\ Output /\ ~skipped /\ ~lossy
      /\ PairInv' /\ Shape' /\ Lengths' /\ Alike' /\ s \in Seq(Text) /\ shown \in Seq(Text)
  <2>1. /\ PairInv /\ Tracks /\ Vouched /\ Sent /\ Alike /\ Output
    BY DEF LogInv
  <2>2. PairInv' /\ Alike'
    BY <2>1, PairNext, AlikeNext
  <2>3. ~skipped
    BY FrameHistory DEF RealDo
  <2>4. ~lossy
    BY <2>1, StoreStep
  <2>5. QED
    BY <2>1, <2>2, <2>3, <2>4 DEF PairInv, Output, Publishes
<1>2. PICK m \in Node : Len(s) <= under'[m] /\ Common(s, pre'[m], Len(s))
  BY <1>1, PublishedFacts
<1>3. PICK q \in Node : Len(shown) <= under[q] /\ Common(shown, pre[q], Len(shown))
  BY <1>1 DEF LogInv, Kept
<1>4. Len(shown) <= under'[q] /\ Common(shown, pre'[q], Len(shown))
  <2>1. /\ under[q] \in Nat /\ under'[q] \in Nat /\ under[q] <= under'[q]
        /\ Common(pre[q], pre'[q], under[q])
        /\ Len(pre[q]) \in Nat /\ Len(pre'[q]) \in Nat /\ Len(shown) \in Nat
    BY <1>1, StoreStep, LenProperties DEF Count
  <2>2. Common(pre[q], pre'[q], Len(shown))
    BY <1>3, <2>1, CommonLess
  <2>3. QED
    BY <1>3, <2>1, <2>2, CommonVia
<1>5. QED
  BY <1>1, <1>2, <1>4, BothPersisted

LEMMA KeptNext ==
  ASSUME LogInv, [Next]_vars, ~lossy', ~skipped'
  PROVE  Kept'
<1>1. /\ PairInv /\ Tracks /\ Vouched /\ Output /\ ~skipped
  <2>1. ~skipped
    BY FrameHistory DEF RealDo
  <2>2. QED
    BY <2>1 DEF LogInv
<1>2. PICK n \in Node : TRUE
  BY TwoNodes, FS_EmptySet
<1>3. ~lossy
  BY <1>1, StoreStep
<1>4. PICK q \in Node : Len(shown) <= under[q] /\ Common(shown, pre[q], Len(shown))
  BY <1>1, <1>3 DEF LogInv, Kept
<1>5. Len(shown) <= under'[q] /\ Common(shown, pre'[q], Len(shown))
  <2>1. /\ under[q] \in Nat /\ under'[q] \in Nat /\ under[q] <= under'[q]
        /\ Common(pre[q], pre'[q], under[q])
        /\ Len(pre[q]) \in Nat /\ Len(pre'[q]) \in Nat /\ Len(shown) \in Nat
    BY <1>1, StoreStep, LenProperties DEF Count, Output
  <2>2. Common(pre[q], pre'[q], Len(shown))
    BY <1>4, <2>1, CommonLess
  <2>3. QED
    BY <1>4, <2>1, <2>2, CommonVia
<1>6. CASE shown' = shown
  BY <1>5, <1>6 DEF Kept
<1>7. ASSUME NEW m \in Node, NEW s, Publishes(m, s), shown' # shown
      PROVE  Kept'
  <2>1. shown' = s
    BY <1>7 DEF Publishes, Publish
  <2>2. QED
    BY <1>1, <1>7, <2>1, PublishedFacts DEF Kept
<1>8. QED
  BY <1>1, <1>6, <1>7, PublishStep

LEMMA LogInit ==
  ASSUME Init
  PROVE  LogInv
<1>1. PairInv
  BY PairInit
<1>2. \A n \in Node :
        /\ comp[n] = "init" /\ pre[n] = <<>> /\ Len(pre[n]) = 0
        /\ handled[n] = <<>> /\ Len(handled[n]) = 0
        /\ under[n] = 0 /\ ack[n] = 0 /\ published[n] = 0
        /\ noAckSeries[n] = -1 /\ noAckResult[n] = -1
  BY DEF Init
<1>3. shown \in Seq(Text) /\ shown = <<>> /\ Len(shown) = 0
  BY EmptySeq DEF Init
<1>4. Tracks
  BY <1>2 DEF Tracks, Common
<1>5. Vouched
  BY <1>2 DEF Vouched
<1>6. Sent
  BY <1>2 DEF Sent, Standby
<1>7. Alike
  BY <1>2 DEF Alike
<1>8. Output
  BY <1>2, <1>3 DEF Output
<1>9. Kept
  <2>1. PICK n \in Node : TRUE
    BY TwoNodes, FS_EmptySet
  <2>2. QED
    BY <1>2, <1>3, <2>1 DEF Kept, Common
<1>10. QED
  BY <1>1, <1>4, <1>5, <1>6, <1>7, <1>8, <1>9 DEF LogInv

LEMMA LogNext ==
  ASSUME LogInv, [Next]_vars
  PROVE  LogInv'
<1>1. PairInv /\ Tracks /\ Vouched /\ Sent /\ Alike /\ Output
  BY DEF LogInv
<1>2. PairInv' /\ Vouched' /\ Sent' /\ Alike' /\ Output'
  BY <1>1, PairNext, VouchedNext, SentNext, AlikeNext, OutputNext
<1>3. Tracks'
  BY <1>1, TracksNext DEF Tracks
<1>4. QED
  BY <1>2, <1>3, KeptNext DEF LogInv

\* What a node gives changes only when it publishes.
LEMMA SameGiven ==
  ASSUME Shape, Shape', Lengths, NEW n \in Node, published'[n] = published[n],
         Common(handled[n], handled'[n], Len(handled[n]))
  PROVE  Distributed(n)' = Distributed(n)
<1> DEFINE k == published[n]
           s == handled[n]
           t == handled'[n]
<1>1. /\ s \in Seq(Text) /\ t \in Seq(Text) /\ Len(s) \in Nat /\ Len(t) \in Nat
      /\ k \in Nat /\ k <= Len(s) /\ Common(s, t, Len(s))
  BY LenProperties DEF Shape, Lengths
<1> HIDE DEF s, t, k
<1>2. k \in 0 .. Len(s) /\ k \in 0 .. Len(t) /\ Common(s, t, k)
  BY <1>1, CommonLess DEF Common
<1>3. /\ SubSeq(s, 1, k) \in Seq(Text) /\ Len(SubSeq(s, 1, k)) = k /\ Common(s, SubSeq(s, 1, k), k)
      /\ SubSeq(t, 1, k) \in Seq(Text) /\ Len(SubSeq(t, 1, k)) = k /\ Common(t, SubSeq(t, 1, k), k)
  BY <1>1, <1>2, CommonSubSeq
<1>4. \A i \in 1 .. k : SubSeq(s, 1, k)[i] = SubSeq(t, 1, k)[i]
  BY <1>2, <1>3 DEF Common
<1>5. SubSeq(s, 1, k) = SubSeq(t, 1, k)
  BY <1>3, <1>4, SeqEqual
<1>6. QED
  BY <1>5 DEF Distributed, s, t, k

LEMMA InitImplements ==
  ASSUME Init
  PROVE  Abstract!Init
<1>1. \A n \in Node : Distributed(n) = <<>>
  <2>1. SUFFICES ASSUME NEW n \in Node
                 PROVE  Distributed(n) = <<>>
    OBVIOUS
  <2>2. handled[n] = <<>> /\ published[n] = 0
    BY DEF Init
  <2>3. <<>> \in Seq(Text) /\ 0 \in 0 .. Len(<<>>)
    BY EmptySeq
  <2>4. SubSeq(<<>>, 1, 0) \in Seq(Text) /\ Len(SubSeq(<<>>, 1, 0)) = 0
    BY <2>3, CommonSubSeq
  <2>5. QED
    BY <2>2, <2>4, EmptySeq DEF Distributed
<1>2. shown = <<>> /\ ~lossy /\ ~skipped
  BY DEF Init
<1>3. QED
  BY <1>1, <1>2 DEF Abstract!Init

LEMMA SamePrefixes ==
  \A s, t : /\ Abstract!IsPrefix(s, t) <=> IsPrefix(s, t)
            /\ Abstract!IsStrictPrefix(s, t) <=> IsStrictPrefix(s, t)
BY DEF IsPrefix, IsStrictPrefix, Abstract!IsPrefix, Abstract!IsStrictPrefix

\* One node publishes: it gives more or, after a restart, less of the one log.
LEMMA PublishImplements ==
  ASSUME LogInv, [Next]_vars, ~lossy', ~skipped', NEW n \in Node, NEW s, Publishes(n, s)
  PROVE  [Abstract!Next]_(Abstract!vars)
<1> DEFINE p == Peer(n)
           g == Distributed(n)
           given == [m \in Node |-> Distributed(m)]
<1>1. /\ PairInv /\ Tracks /\ Vouched /\ Output /\ ~lossy /\ ~skipped /\ Shape /\ Lengths /\ Shape'
      /\ p \in Node /\ p # n /\ s \in Seq(Text) /\ shown \in Seq(Text) /\ s = Distributed(n)'
      /\ \A m \in Node : m = n \/ m = p
  <2>1. PairInv /\ Tracks /\ Vouched /\ Output
    BY DEF LogInv
  <2>2. Shape /\ Lengths /\ Shape'
    BY <2>1, ShapeNext DEF PairInv
  <2>3. ~skipped
    BY FrameHistory DEF RealDo
  <2>4. ~lossy
    BY <2>1, StoreStep
  <2>5. p \in Node /\ p # n /\ \A m \in Node : m = n \/ m = p
    BY Peers
  <2>6. QED
    BY <2>1, <2>2, <2>3, <2>4, <2>5 DEF Output, Publishes
<1>2. /\ published' = [published EXCEPT ![n] = Len(s)]
      /\ shown' = IF Len(s) > Len(shown) THEN s ELSE shown
      /\ handled'[p] = handled[p]
      /\ handled'[n] = handled[n] \/ Restart(n)
  BY DEF Publishes, Publish
<1>3. Distributed(p)' = Distributed(p)
  <2>1. published'[p] = published[p]
    BY <1>1, <1>2 DEF Shape
  <2>2. QED
    BY <1>2, <2>1 DEF Distributed
<1>4. /\ Len(s) \in Nat /\ Len(shown) \in Nat /\ Len(g) = published[n] /\ g \in Seq(Text)
      /\ published[n] \in Nat /\ Len(pre[n]) \in Nat /\ Common(handled[n], g, Len(g))
      /\ Len(g) <= Len(shown) /\ Len(g) <= Len(handled[n]) /\ Len(handled[n]) \in Nat
  <2>1. /\ handled[n] \in Seq(Text) /\ Len(handled[n]) \in Nat /\ published[n] \in Nat
        /\ Len(pre[n]) \in Nat /\ Len(s) \in Nat /\ Len(shown) \in Nat
        /\ published[n] <= Len(handled[n])
    BY <1>1, LenProperties DEF Shape, Lengths
  <2>2. published[n] \in 0 .. Len(handled[n])
    BY <2>1
  <2>3. g \in Seq(Text) /\ Len(g) = published[n] /\ Common(handled[n], g, published[n])
    BY <2>1, <2>2, CommonSubSeq DEF Distributed
  <2>4. published[n] <= Len(shown)
    BY <1>1 DEF Output
  <2>5. QED
    BY <2>1, <2>3, <2>4
\* Both are beginnings of the series as it was.
<1>5. Common(g, pre[n], Len(g))
  <2>1. Common(handled[n], pre[n], Len(handled[n]))
    BY <1>1 DEF Tracks
  <2>2. Common(handled[n], pre[n], Len(g))
    BY <1>4, <2>1, CommonLess
  <2>3. QED
    BY <1>4, <2>2, CommonSwap, CommonVia
<1>6. Common(s, pre[n], Len(s))
  <2>1. CASE Restart(n)
    <3>1. s \in Seq(Text) /\ Common(s, pre'[n], Len(s)) /\ Common(pre[n], pre'[n], under[n])
          /\ Len(pre'[n]) = under[n] /\ under[n] \in Nat
      BY <1>1, <2>1, PublishedFacts, RestartFacts, StoreStep
    <3>2. Len(s) <= under[n]
      BY <3>1 DEF Common
    <3>3. Common(pre[n], pre'[n], Len(s))
      BY <1>4, <3>1, <3>2, CommonLess
    <3>4. QED
      BY <3>1, <3>3, CommonSwap, CommonVia
  <2>2. CASE handled'[n] = handled[n]
    <3>1. published'[n] = Len(s)
      BY <1>1, <1>2 DEF Shape
    <3>2. s = SubSeq(handled[n], 1, Len(s))
      BY <1>1, <2>2, <3>1 DEF Distributed
    <3>3. Len(s) <= Len(handled[n])
      BY <1>1, <2>2, <3>1, PairNext DEF PairInv, Lengths
    <3>4. Len(s) \in 0 .. Len(handled[n]) /\ handled[n] \in Seq(Text)
      BY <1>1, <1>4, <3>3 DEF Shape
    <3>5. Common(handled[n], s, Len(s))
      BY <3>2, <3>4, CommonSubSeq
    <3>6. Common(handled[n], pre[n], Len(s))
      <4>1. Common(handled[n], pre[n], Len(handled[n]))
        BY <1>1 DEF Tracks
      <4>2. QED
        BY <1>4, <3>3, <4>1, CommonLess
    <3>7. QED
      BY <3>5, <3>6, CommonSwap, CommonVia
  <2>3. QED
    BY <1>2, <2>1, <2>2
<1>7. \A k \in Nat : k <= Len(s) /\ k <= Len(g) => Common(s, g, k)
  BY <1>4, <1>5, <1>6, CommonBoth
<1>8. \A k \in Nat : k <= Len(s) /\ k <= Len(shown) => Common(s, shown, k)
  BY OneHistory
<1>9. given' = [given EXCEPT ![n] = s] /\ given'[n] = s /\ given[n] = g
  <2>1. \A m \in Node : Distributed(m)' = IF m = n THEN s ELSE Distributed(m)
    BY <1>1, <1>3
  <2>2. QED
    BY <1>1, <2>1
<1>10. CASE Len(s) > Len(g)
  <2>1. IsPrefix(g, s) /\ g # s
    <3>1. Common(s, g, Len(g))
      BY <1>4, <1>7, <1>10
    <3>2. Common(g, s, Len(g))
      BY <3>1, CommonSwap
    <3>3. IsPrefix(g, s)
      BY <1>1, <1>4, <3>2, PrefixIsCommon
    <3>4. g # s
      BY <1>4, <1>10
    <3>5. QED
      BY <3>3, <3>4
  <2>2. IsStrictPrefix(g, s)
    BY <2>1 DEF IsStrictPrefix
  <2>3. CASE Len(s) <= Len(shown)
    <3>1. Common(s, shown, Len(s))
      BY <1>4, <1>8, <2>3
    <3>2. IsPrefix(s, shown)
      BY <1>1, <3>1, PrefixIsCommon
    <3>3. shown' = shown
      BY <1>2, <1>4, <2>3
    <3>4. Abstract!Give(n)
      BY <1>1, <1>9, <2>2, <2>3, <3>2, <3>3, SamePrefixes DEF Abstract!Give, Text
    <3>5. QED
      BY <3>4 DEF Abstract!Next
  <2>4. CASE ~(Len(s) <= Len(shown))
    <3>1. Common(s, shown, Len(shown))
      BY <1>4, <1>8, <2>4
    <3>2. Common(shown, s, Len(shown))
      BY <3>1, CommonSwap
    <3>3. IsPrefix(shown, s)
      BY <1>1, <3>2, PrefixIsCommon
    <3>4. shown' = s
      BY <1>2, <1>4, <2>4
    <3>5. Abstract!Give(n)
      BY <1>1, <1>9, <2>2, <2>4, <3>3, <3>4, SamePrefixes DEF Abstract!Give, Text
    <3>6. QED
      BY <3>5 DEF Abstract!Next
  <2>5. QED
    BY <2>3, <2>4
<1>11. CASE Len(s) <= Len(g)
  <2>1. shown' = shown
    BY <1>2, <1>4, <1>11
  <2>2. Common(s, g, Len(s))
    BY <1>4, <1>7, <1>11
  <2>3. IsPrefix(s, g)
    BY <1>1, <1>4, <2>2, PrefixIsCommon
  <2>4. CASE s = g
    <3>1. given' = given
      BY <1>1, <1>9, <2>4
    <3>2. (lossy' \/ skipped') = (lossy \/ skipped)
      BY <1>1
    <3>3. QED
      BY <2>1, <3>1, <3>2 DEF Abstract!vars
  <2>5. CASE s # g
    <3>1. IsStrictPrefix(s, g)
      BY <2>3, <2>5 DEF IsStrictPrefix
    <3>2. Abstract!Restart(n)
      BY <1>1, <1>9, <2>1, <3>1, SamePrefixes DEF Abstract!Restart
    <3>3. QED
      BY <3>2 DEF Abstract!Next
  <2>6. QED
    BY <2>4, <2>5
<1>12. QED
  BY <1>4, <1>10, <1>11

LEMMA StepImplements ==
  ASSUME LogInv, [Next]_vars
  PROVE  [Abstract!Next]_(Abstract!vars)
<1>1. /\ PairInv /\ Tracks /\ Vouched /\ Output /\ Shape /\ Lengths /\ Shape'
  BY ShapeNext DEF LogInv, PairInv
<1>2. CASE lossy' \/ skipped'
  <2>1. (lossy' \/ skipped') = TRUE
    BY <1>2
  <2>2. Abstract!Void
    BY <2>1 DEF Abstract!Void
  <2>3. QED
    BY <2>2 DEF Abstract!Next
<1>3. ASSUME ~lossy', ~skipped', NEW n \in Node, NEW s, Publishes(n, s)
      PROVE  [Abstract!Next]_(Abstract!vars)
  BY <1>3, PublishImplements
<1>4. ASSUME ~lossy', ~skipped', UNCHANGED <<published, shown>>,
             \A n \in Node : Common(handled[n], handled'[n], Len(handled[n]))
      PROVE  [Abstract!Next]_(Abstract!vars)
  <2>1. ~lossy /\ ~skipped
    <3>1. ~skipped
      BY <1>4, FrameHistory DEF RealDo
    <3>2. PICK n \in Node : TRUE
      BY TwoNodes, FS_EmptySet
    <3>3. ~lossy
      BY <1>1, <1>4, <3>2, StoreStep
    <3>4. QED
      BY <3>1, <3>3
  <2>2. \A n \in Node : Distributed(n)' = Distributed(n)
    BY <1>1, <1>4, SameGiven
  <2>3. [n \in Node |-> Distributed(n)]' = [n \in Node |-> Distributed(n)]
    BY <2>2
  <2>4. (lossy' \/ skipped') = (lossy \/ skipped)
    BY <1>4, <2>1
  <2>5. QED
    BY <1>4, <2>3, <2>4 DEF Abstract!vars
<1>5. QED
  BY <1>1, <1>2, <1>3, <1>4, PublishStep

\* The pair implements one replicated log: what the fronts of either node were
\* ever given is one history (CPubFlow, CCompServer::ConfirmQueued and the
\* hotline), whatever exits, breaks or takes over, until somebody goes on
\* without messages the other had, or handles a new message before the replay
\* is done.
THEOREM LogImplemented == Spec => ImplementsLog
<1>1. Init => LogInv /\ Abstract!Init
  BY LogInit, InitImplements
<1>2. LogInv /\ [Next]_vars => LogInv'
  BY LogNext
<1>3. LogInv /\ [Next]_vars => [Abstract!Next]_(Abstract!vars)
  BY StepImplements
<1>4. QED
  BY <1>1, <1>2, <1>3, PTL DEF Spec, ImplementsLog, Abstract!Spec
=============================================================================
