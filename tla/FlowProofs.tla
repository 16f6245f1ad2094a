----------------------------- MODULE FlowProofs -----------------------------
(***************************************************************************)
(* Proofs about the flows: the persisted one (FileFlow), for every set of  *)
(* readers and messages and every gap; the one over datagrams (Multicast), *)
(* for every set of subscribers, every window and any number of ports; the *)
(* published one in memory (PubFlow), for every replayed prefix and every  *)
(* bound.                                                                  *)
(*                                                                         *)
(* On disk, every file but the last is full (Layout), so that a record is  *)
(* found by its number (Numbered), and what Get remembers of the last read *)
(* leads to the record behind it (Remembered, InGet).  Over datagrams, the *)
(* oldest package a subscriber holds is one it waits for, so that all it   *)
(* holds are less than a window from that one and the ring of items never  *)
(* overflows (Ordered); and the ports share the subscribers out (Parted).  *)
(* In memory, the value of `published' is known exactly in every state of  *)
(* the two threads (ReleasedInv), because an entry is written only while   *)
(* none waits and is read only while the matching thread is outside        *)
(* SetSIDAndRID's stores (PendingInv).                                     *)
(***************************************************************************)
EXTENDS PubFlow, FileFlow, Multicast, SequenceTheorems, FiniteSetTheorems, TLAPS

(* Induction, from the order of the finite sets by inclusion: the one of    *)
(* the library takes an operator.                                          *)

LEMMA Least ==
  ASSUME NEW T, T \subseteq Nat, T # {}
  PROVE  \E n \in T : \A m \in T : n <= m
<1> DEFINE Below == {1 .. n : n \in T}
<1>1. Below \subseteq FiniteSubsetsOf(Nat) /\ Below # {}
  <2>1. \A n \in Nat : 1 .. n \in SUBSET Nat /\ IsFiniteSet(1 .. n)
    BY FS_Interval
  <2>2. QED
    BY <2>1 DEF FiniteSubsetsOf
<1>2. PICK x \in Below : \A y \in Below : <<y, x>> \notin StrictSubsetOrdering(Nat)
  BY <1>1, FS_StrictSubsetOrderingWellFounded, WFMin
<1>3. PICK n \in T : x = 1 .. n
  BY <1>2
<1>4. ASSUME NEW m \in T, m < n
      PROVE  FALSE
  <2>1. 1 .. m \subseteq 1 .. n /\ n \in 1 .. n /\ n \notin 1 .. m /\ 1 .. m \in Below
    BY <1>4
  <2>2. <<1 .. m, 1 .. n>> \in StrictSubsetOrdering(Nat)
    BY <2>1, <1>4 DEF StrictSubsetOrdering
  <2>3. QED
    BY <1>2, <1>3, <2>1, <2>2
<1>5. QED
  BY <1>4

LEMMA Induction ==
  ASSUME NEW T, 0 \in T, \A n \in Nat : n \in T => n + 1 \in T
  PROVE  Nat \subseteq T
<1> DEFINE B == Nat \ T
<1>1. SUFFICES ASSUME B # {} PROVE FALSE
  OBVIOUS
<1>2. PICK n \in B : \A m \in B : n <= m
  BY <1>1, Least
<1>3. n # 0 /\ n - 1 \in Nat
  BY <1>2
<1>4. n - 1 \in T
  BY <1>2, <1>3
<1>5. QED
  BY <1>2, <1>3, <1>4

-----------------------------------------------------------------------------
(* The concatenation of the files.                                         *)

\* h gives the concatenations of the first i elements of q.
Flattens(q, h) ==
  /\ h = [i \in 1 .. Len(q) |-> h[i]]
  /\ \A i \in 1 .. Len(q) : h[i] = IF i = 1 THEN q[i] ELSE h[i - 1] \o q[i]

LEMMA FlattensOnce ==
  ASSUME NEW q, Len(q) \in Nat, NEW g, NEW h, Flattens(q, g), Flattens(q, h)
  PROVE  g = h
<1> DEFINE T == {n \in Nat : \A i \in 1 .. n : i <= Len(q) => g[i] = h[i]}
<1>1. 0 \in T
  OBVIOUS
<1>2. ASSUME NEW n \in Nat, n \in T
      PROVE  n + 1 \in T
  <2>1. SUFFICES ASSUME NEW m \in 1 .. Len(q), m = n + 1 PROVE g[m] = h[m]
    BY <1>2
  <2>2. m # 1 => g[m - 1] = h[m - 1]
    BY <1>2, <2>1
  <2>3. /\ g[m] = IF m = 1 THEN q[m] ELSE g[m - 1] \o q[m]
        /\ h[m] = IF m = 1 THEN q[m] ELSE h[m - 1] \o q[m]
    BY DEF Flattens
  <2>4. QED
    BY <2>2, <2>3
<1>3. Nat \subseteq T
  <2> HIDE DEF T
  <2>1. QED
    BY <1>1, <1>2, Induction
<1>4. \A i \in 1 .. Len(q) : g[i] = h[i]
  BY <1>3
<1>5. QED
  BY <1>4 DEF Flattens

LEMMA FlattensSome ==
  ASSUME NEW S, NEW q \in Seq(Seq(S))
  PROVE  \E h : Flattens(q, h) /\ \A i \in 1 .. Len(q) : h[i] \in Seq(S)
<1> DEFINE Upto(n, h) == /\ h = [i \in 1 .. n |-> h[i]]
                         /\ \A i \in 1 .. n : /\ h[i] = IF i = 1 THEN q[i] ELSE h[i - 1] \o q[i]
                                              /\ h[i] \in Seq(S)
           T == {n \in Nat : n <= Len(q) => \E h : Upto(n, h)}
<1>1. 0 \in T
  <2>1. Upto(0, [i \in 1 .. 0 |-> q])
    OBVIOUS
  <2>2. QED
    BY <2>1
<1>2. ASSUME NEW n \in Nat, n \in T
      PROVE  n + 1 \in T
  <2>1. SUFFICES ASSUME n + 1 <= Len(q) PROVE \E h : Upto(n + 1, h)
    OBVIOUS
  <2>2. PICK h : Upto(n, h)
    BY <1>2, <2>1
  <2> DEFINE top == IF n = 0 THEN q[1] ELSE h[n] \o q[n + 1]
             g == [i \in 1 .. n + 1 |-> IF i = n + 1 THEN top ELSE h[i]]
  <2>3. q[n + 1] \in Seq(S) /\ q[1] \in Seq(S)
    BY <2>1
  <2>4. top \in Seq(S)
    <3>1. CASE n = 0
      BY <2>3, <3>1
    <3>2. CASE n # 0
      <4>1. h[n] \in Seq(S)
        <5>1. n \in 1 .. n
          BY <3>2
        <5>2. QED
          BY <2>2, <5>1
      <4>2. QED
        BY <2>3, <3>2, <4>1, ConcatProperties
    <3>3. QED
      BY <3>1, <3>2
  <2>5. ASSUME NEW i \in 1 .. n + 1
        PROVE  /\ g[i] = IF i = 1 THEN q[i] ELSE g[i - 1] \o q[i]
               /\ g[i] \in Seq(S)
    <3>1. CASE i = n + 1
      <4>1. n # 0 => g[n] = h[n]
        OBVIOUS
      <4> HIDE DEF g
      <4>2. g[i] = top
        BY <3>1 DEF g
      <4>3. n # 0 => i - 1 = n /\ i # 1
        BY <3>1
      <4>4. QED
        BY <2>4, <3>1, <4>1, <4>2, <4>3
    <3>2. CASE i # n + 1
      <4>1. i \in 1 .. n /\ g[i] = h[i] /\ (i # 1 => g[i - 1] = h[i - 1])
        BY <3>2
      <4> HIDE DEF g
      <4>2. QED
        BY <2>2, <4>1
    <3>3. QED
      BY <3>1, <3>2
  <2>6. g = [i \in 1 .. n + 1 |-> g[i]]
    OBVIOUS
  <2>7. Upto(n + 1, g)
    <3> HIDE DEF g
    <3>1. QED
      BY <2>5, <2>6
  <2>8. QED
    BY <2>7
<1>3. Nat \subseteq T
  <2> HIDE DEF T
  <2>1. QED
    BY <1>1, <1>2, Induction
<1>4. Len(q) \in Nat /\ Len(q) \in T
  BY <1>3, LenProperties
<1>5. PICK h : Upto(Len(q), h)
  BY <1>4
<1>6. QED
  BY <1>5 DEF Flattens

LEMMA FlattenIs ==
  ASSUME NEW q, Len(q) \in Nat, Len(q) # 0, NEW h, Flattens(q, h)
  PROVE  FlattenSeq(q) = h[Len(q)]
<1> DEFINE F(g) == g = [i \in 1 .. Len(q) |-> IF i = 1 THEN q[i] ELSE g[i - 1] \o q[i]]
           f == CHOOSE g : F(g)
<1>1. F(h)
  BY DEF Flattens
<1>2. F(f)
  BY <1>1
<1>3. Flattens(q, f)
  <2> HIDE DEF f
  <2>1. QED
    BY <1>2 DEF Flattens
<1>4. f = h
  <2> HIDE DEF f
  <2>1. QED
    BY <1>3, FlattensOnce
<1>5. QED
  BY <1>4 DEF FlattenSeq

LEMMA FlattenAppend ==
  ASSUME NEW S, NEW q \in Seq(Seq(S)), NEW s \in Seq(S)
  PROVE  FlattenSeq(q) \in Seq(S) /\ FlattenSeq(Append(q, s)) = FlattenSeq(q) \o s
<1> DEFINE t == Append(q, s)
           n == Len(q)
<1>1. /\ n \in Nat /\ t \in Seq(Seq(S)) /\ Len(t) = n + 1 /\ t[n + 1] = s
      /\ \A i \in 1 .. n : t[i] = q[i]
  BY AppendProperties, LenProperties
<1>2. PICK h : Flattens(q, h) /\ \A i \in 1 .. n : h[i] \in Seq(S)
  BY FlattensSome
<1>3. CASE n = 0
  <2>1. q = <<>> /\ FlattenSeq(q) = <<>>
    BY <1>3, EmptySeq DEF FlattenSeq
  <2>2. Flattens(t, [i \in 1 .. 1 |-> s])
    BY <1>1, <1>3 DEF Flattens
  <2>3. FlattenSeq(t) = s
    <3> DEFINE g == [i \in 1 .. 1 |-> s]
    <3>1. g[1] = s /\ Flattens(t, g)
      BY <2>2
    <3>2. Len(t) = 1 /\ Len(t) \in Nat /\ Len(t) # 0
      BY <1>1, <1>3
    <3> HIDE DEF t, g
    <3>3. FlattenSeq(t) = g[Len(t)]
      BY <3>1, <3>2, FlattenIs
    <3>4. QED
      BY <3>1, <3>2, <3>3
  <2>4. <<>> \o s = s /\ <<>> \in Seq(S)
    BY ConcatEmptySeq, EmptySeq
  <2>5. QED
    BY <2>1, <2>3, <2>4
<1>4. CASE n # 0
  <2> DEFINE g == [i \in 1 .. n + 1 |-> IF i = n + 1 THEN h[n] \o s ELSE h[i]]
  <2>1. FlattenSeq(q) = h[n] /\ h[n] \in Seq(S)
    BY <1>1, <1>2, <1>4, FlattenIs
  <2>2. ASSUME NEW i \in 1 .. n + 1
        PROVE  g[i] = IF i = 1 THEN t[i] ELSE g[i - 1] \o t[i]
    <3>1. CASE i = n + 1
      <4>1. g[i] = h[n] \o s /\ i # 1 /\ i - 1 = n /\ g[n] = h[n] /\ t[i] = s
        BY <1>1, <1>4, <3>1
      <4> HIDE DEF g
      <4>2. QED
        BY <4>1
    <3>2. CASE i # n + 1
      <4>1. i \in 1 .. n /\ g[i] = h[i] /\ (i # 1 => g[i - 1] = h[i - 1]) /\ t[i] = q[i]
        BY <1>1, <3>2
      <4>2. h[i] = IF i = 1 THEN q[i] ELSE h[i - 1] \o q[i]
        BY <1>2, <4>1 DEF Flattens
      <4> HIDE DEF g
      <4>3. QED
        BY <4>1, <4>2
    <3>3. QED
      BY <3>1, <3>2
  <2>3. g = [i \in 1 .. n + 1 |-> g[i]] /\ g[n + 1] = h[n] \o s
    BY <1>1
  <2> HIDE DEF g
  <2>4. Flattens(t, g)
    BY <1>1, <2>2, <2>3 DEF Flattens
  <2>5. FlattenSeq(t) = g[n + 1]
    <3> HIDE DEF t, n
    <3>1. QED
      BY <1>1, <2>4, FlattenIs
  <2>6. QED
    BY <2>1, <2>3, <2>5
<1>5. QED
  BY <1>3, <1>4

LEMMA FlattenLast ==
  ASSUME NEW S, NEW q \in Seq(Seq(S)), NEW m \in S, Len(q) # 0
  PROVE  FlattenSeq([q EXCEPT ![Len(q)] = Append(@, m)]) = Append(FlattenSeq(q), m)
<1> DEFINE n == Len(q)
           t == [q EXCEPT ![n] = Append(@, m)]
<1>1. /\ n \in Nat /\ n >= 1 /\ q = [i \in 1 .. n |-> q[i]] /\ \A i \in 1 .. n : q[i] \in Seq(S)
  BY LenProperties
<1>2. /\ t = [i \in 1 .. n |-> IF i = n THEN Append(q[n], m) ELSE q[i]]
      /\ t \in Seq(Seq(S)) /\ Len(t) = n
  <2>1. Append(q[n], m) \in Seq(S)
    BY <1>1, AppendProperties
  <2>2. t = [i \in 1 .. n |-> IF i = n THEN Append(q[n], m) ELSE q[i]]
    BY <1>1
  <2> HIDE DEF t
  <2>3. t \in [1 .. n -> Seq(S)]
    BY <1>1, <2>1, <2>2
  <2>4. QED
    BY <1>1, <2>2, <2>3, IsASeq, LenProperties
<1>3. PICK h : Flattens(q, h) /\ \A i \in 1 .. n : h[i] \in Seq(S)
  BY FlattensSome
<1> DEFINE g == [i \in 1 .. n |-> IF i = n THEN Append(h[n], m) ELSE h[i]]
<1>4. ASSUME NEW i \in 1 .. n
      PROVE  g[i] = IF i = 1 THEN t[i] ELSE g[i - 1] \o t[i]
  <2>1. CASE i = n
    <3>1. g[i] = Append(h[n], m) /\ t[i] = Append(q[n], m)
      BY <1>2, <2>1
    <3>2. i # 1 => i - 1 \in 1 .. n /\ i - 1 # n
      <4>1. n \in Nat
        BY LenProperties
      <4> HIDE DEF n
      <4>2. QED
        BY <4>1, <2>1
    <3>3. i # 1 => g[i - 1] = h[i - 1] /\ h[i - 1] \in Seq(S)
      BY <1>3, <3>2
    <3>4. h[i] = IF i = 1 THEN q[i] ELSE h[i - 1] \o q[i]
      BY <1>3 DEF Flattens
    <3>5. i # 1 => Append(h[i - 1] \o q[n], m) = h[i - 1] \o Append(q[n], m)
      <4>1. \A u, v \in Seq(S) : Append(u \o v, m) = u \o Append(v, m)
        <5>1. <<m>> \in Seq(S)
          OBVIOUS
        <5>2. ASSUME NEW u \in Seq(S), NEW v \in Seq(S)
              PROVE  Append(u \o v, m) = u \o Append(v, m)
          <6> HIDE DEF g, t, n
          <6>1. u \o v \in Seq(S)
            BY ConcatProperties
          <6>2. Append(u \o v, m) = (u \o v) \o <<m>> /\ Append(v, m) = v \o <<m>>
            BY <6>1, AppendIsConcat
          <6>3. QED
            BY <5>1, <6>2, ConcatAssociative
        <5>3. QED
          BY <5>2
      <4>2. q[n] \in Seq(S)
        BY <1>1
      <4>3. QED
        BY <3>3, <4>1, <4>2
    <3> HIDE DEF g, t
    <3>6. QED
      BY <2>1, <3>1, <3>3, <3>4, <3>5
  <2>2. CASE i # n
    <3>1. g[i] = h[i] /\ (i # 1 => g[i - 1] = h[i - 1]) /\ t[i] = q[i]
      BY <1>1, <1>2, <2>2
    <3>2. h[i] = IF i = 1 THEN q[i] ELSE h[i - 1] \o q[i]
      BY <1>3 DEF Flattens
    <3> HIDE DEF g, t
    <3>3. QED
      BY <3>1, <3>2
  <2>3. QED
    BY <2>1, <2>2
<1>5. g = [i \in 1 .. n |-> g[i]] /\ g[n] = Append(h[n], m)
  BY <1>1
<1> HIDE DEF g
<1>6. FlattenSeq(t) = Append(h[n], m)
  <2>1. Flattens(t, g)
    BY <1>2, <1>4, <1>5 DEF Flattens
  <2> HIDE DEF t
  <2>2. QED
    BY <1>1, <1>2, <1>5, <2>1, FlattenIs
<1>7. FlattenSeq(q) = h[n]
  BY <1>1, <1>3, FlattenIs
<1>8. QED
  BY <1>6, <1>7

-----------------------------------------------------------------------------
(* The files, and a record under its number.                               *)

Record == Message \union {Torn}

\* The records before file i.
Before(i) == i * Gap

\* Every file but the last is full.
Layout(q) ==
  /\ Len(q) >= 1
  /\ \A i \in 1 .. Len(q) - 1 : Len(q[i]) = Gap
  /\ Len(q[Len(q)]) <= Gap

RecordsIn(q) == Before(Len(q) - 1) + Len(q[Len(q)])

\* A record is found in the file and at the offset its number says.
Numbered(q) ==
  /\ Len(FlattenSeq(q)) = RecordsIn(q)
  /\ \A i \in 1 .. Len(q) : \A k \in 1 .. Len(q[i]) : FlattenSeq(q)[Before(i - 1) + k] = q[i][k]

Filed(q) == q \in Seq(Seq(Record)) /\ Layout(q) /\ Numbered(q)

LEMMA Gaps ==
  /\ Gap \in Nat /\ Gap >= 1 /\ MaxRecords \in Nat
  /\ \A n \in Nat : /\ IndexOf(n) \in Nat /\ Before(IndexOf(n)) \in Nat
                    /\ Before(IndexOf(n)) <= n /\ n < Before(IndexOf(n)) + Gap
  /\ \A n, k \in Nat : Before(k) <= n /\ n < Before(k) + Gap => IndexOf(n) = k
<1>1. Gap \in Nat /\ Gap >= 1 /\ MaxRecords \in Nat
  BY FileBounds
<1>2. ASSUME NEW n \in Nat
      PROVE  /\ IndexOf(n) \in Nat /\ Before(IndexOf(n)) \in Nat
             /\ Before(IndexOf(n)) <= n /\ n < Before(IndexOf(n)) + Gap
  BY <1>1 DEF IndexOf, Before
<1>3. ASSUME NEW n \in Nat, NEW k \in Nat, Before(k) <= n, n < Before(k) + Gap
      PROVE  IndexOf(n) = k
  <2>1. n = k * Gap + (n - k * Gap) /\ n - k * Gap \in 0 .. Gap - 1
    BY <1>1, <1>3 DEF Before
  <2>2. QED
    BY <1>1, <2>1 DEF IndexOf
<1>4. QED
  BY <1>1, <1>2, <1>3

LEMMA Multiples ==
  /\ \A i \in Nat : Before(i) \in Nat /\ Before(i + 1) = Before(i) + Gap
  /\ \A i, j \in Nat : /\ i < j => Before(i) + Gap <= Before(j)
                       /\ i <= j => Before(i) <= Before(j)
BY Gaps DEF Before

LEMMA IndexInBounds ==
  ASSUME NEW n \in 0 .. MaxRecords
  PROVE  IndexOf(n) \in Index
<1>1. IndexOf(n) \in Nat /\ IndexOf(MaxRecords) \in Nat /\ n \in Nat /\ MaxRecords \in Nat
  BY Gaps
<1>2. ASSUME IndexOf(MaxRecords) < IndexOf(n)
      PROVE  FALSE
  <2>1. /\ Before(IndexOf(MaxRecords)) + Gap <= Before(IndexOf(n))
        /\ Before(IndexOf(n)) <= n /\ MaxRecords < Before(IndexOf(MaxRecords)) + Gap
        /\ Before(IndexOf(n)) \in Nat /\ Before(IndexOf(MaxRecords)) \in Nat /\ Gap \in Nat
    BY <1>1, <1>2, Gaps, Multiples
  <2>2. QED
    BY <1>1, <2>1
<1>3. QED
  BY <1>1, <1>2 DEF Index, IndexOf

LEMMA FiledTypes ==
  ASSUME NEW q \in Seq(Seq(Record)), Len(q) >= 1
  PROVE  /\ Len(q) \in Nat /\ \A i \in 1 .. Len(q) : q[i] \in Seq(Record) /\ Len(q[i]) \in Nat
         /\ q[Len(q)] \in Seq(Record) /\ Len(q[Len(q)]) \in Nat
         /\ FlattenSeq(q) \in Seq(Record) /\ Len(FlattenSeq(q)) \in Nat
<1>1. Len(q) \in Nat /\ \A i \in 1 .. Len(q) : q[i] \in Seq(Record)
  BY LenProperties
<1>2. FlattenSeq(q) \in Seq(Record)
  <2>1. <<>> \in Seq(Record)
    BY EmptySeq
  <2>2. QED
    BY <2>1, FlattenAppend
<1>3. QED
  BY <1>1, <1>2, LenProperties

LEMMA FiledStart == Filed(<< <<>> >>) /\ FlattenSeq(<< <<>> >>) = <<>>
<1> DEFINE q == << <<>> >>
<1>1. <<>> \in Seq(Record) /\ <<>> \in Seq(Seq(Record))
  BY EmptySeq
<1>2. q = Append(<<>>, <<>>)
  OBVIOUS
<1>3. FlattenSeq(<<>>) = <<>>
  BY DEF FlattenSeq
<1>4. FlattenSeq(q) = <<>> \o <<>>
  BY <1>1, <1>2, <1>3, FlattenAppend
<1>5. <<>> \o <<>> = <<>>
  BY <1>1, ConcatEmptySeq
<1>6. Len(q) = 1 /\ Len(q[1]) = 0 /\ q \in Seq(Seq(Record)) /\ Len(<<>>) = 0
  BY <1>1
<1> HIDE DEF q
<1>7. RecordsIn(q) = 0
  <2>1. Before(0) = 0
    BY Gaps DEF Before
  <2>2. RecordsIn(q) = Before(1 - 1) + 0
    BY <1>6 DEF RecordsIn
  <2>3. QED
    BY <2>1, <2>2
<1>8. Filed(q)
  BY <1>4, <1>5, <1>6, <1>7, Gaps DEF Filed, Layout, Numbered
<1>9. QED
  BY <1>4, <1>5, <1>8 DEF q

LEMMA FiledNew ==
  ASSUME NEW q, Filed(q), Len(q[Len(q)]) = Gap
  PROVE  /\ Filed(Append(q, <<>>)) /\ FlattenSeq(Append(q, <<>>)) = FlattenSeq(q)
         /\ Len(Append(q, <<>>)) = Len(q) + 1 /\ Append(q, <<>>)[Len(q) + 1] = <<>>
         /\ RecordsIn(Append(q, <<>>)) = RecordsIn(q)
<1> DEFINE t == Append(q, <<>>)
           n == Len(q)
<1>1. /\ q \in Seq(Seq(Record)) /\ n >= 1
      /\ n \in Nat /\ \A i \in 1 .. n : q[i] \in Seq(Record) /\ Len(q[i]) \in Nat
      /\ FlattenSeq(q) \in Seq(Record) /\ <<>> \in Seq(Record)
  BY FiledTypes, EmptySeq DEF Filed, Layout
<1>2. /\ t \in Seq(Seq(Record)) /\ Len(t) = n + 1 /\ t[n + 1] = <<>> /\ Len(t[n + 1]) = 0
      /\ \A i \in 1 .. n : t[i] = q[i]
  BY <1>1, AppendProperties, EmptySeq
<1>3. FlattenSeq(t) = FlattenSeq(q)
  <2>1. FlattenSeq(t) = FlattenSeq(q) \o <<>>
    BY <1>1, FlattenAppend
  <2>2. QED
    BY <1>1, <2>1, ConcatEmptySeq
<1> HIDE DEF t
<1>4. RecordsIn(t) = RecordsIn(q)
  <2>1. n - 1 \in Nat /\ n - 1 + 1 = n
    BY <1>1
  <2>2. Before(n - 1) \in Nat /\ Before(n - 1) + Gap = Before(n)
    BY <2>1, Multiples
  <2>3. RecordsIn(t) = Before(n) + 0 /\ RecordsIn(q) = Before(n - 1) + Gap
    <3>1. n + 1 - 1 = n
      BY <1>1
    <3>2. QED
      BY <1>2, <3>1 DEF RecordsIn
  <2>4. QED
    BY <2>2, <2>3, Gaps
<1>5. Layout(t)
  <2>1. ASSUME NEW i \in 1 .. n
        PROVE  Len(t[i]) = Gap
    <3>1. i = n \/ i \in 1 .. n - 1
      BY <1>1
    <3>2. QED
      BY <1>2, <3>1 DEF Filed, Layout
  <2>2. QED
    BY <1>1, <1>2, <2>1, Gaps DEF Layout
<1>6. Numbered(t)
  <2>1. ASSUME NEW i \in 1 .. n + 1, NEW k \in 1 .. Len(t[i])
        PROVE  i \in 1 .. n /\ t[i] = q[i] /\ k \in 1 .. Len(q[i])
    <3>1. i # n + 1
      BY <1>1, <1>2
    <3>2. n \in Nat
      BY <1>1
    <3> HIDE DEF n
    <3>3. i \in 1 .. n
      BY <3>1, <3>2
    <3>4. t[i] = q[i]
      BY <1>2, <3>3
    <3>5. QED
      BY <3>3, <3>4
  <2>2. /\ Len(FlattenSeq(q)) = RecordsIn(q)
        /\ \A i \in 1 .. n : \A k \in 1 .. Len(q[i]) : FlattenSeq(q)[Before(i - 1) + k] = q[i][k]
    BY DEF Filed, Numbered
  <2>3. Len(FlattenSeq(t)) = RecordsIn(t)
    BY <1>3, <1>4, <2>2
  <2>4. ASSUME NEW i \in 1 .. Len(t), NEW k \in 1 .. Len(t[i])
        PROVE  FlattenSeq(t)[Before(i - 1) + k] = t[i][k]
    <3>1. i \in 1 .. n /\ t[i] = q[i] /\ k \in 1 .. Len(q[i])
      BY <1>2, <2>1
    <3>2. FlattenSeq(q)[Before(i - 1) + k] = q[i][k]
      BY <2>2, <3>1
    <3>3. QED
      BY <1>3, <3>1, <3>2
  <2>5. QED
    BY <2>3, <2>4 DEF Numbered
<1>7. QED
  BY <1>2, <1>3, <1>4, <1>5, <1>6 DEF Filed, t

Stores(q, m) == [q EXCEPT ![Len(q)] = Append(@, m)]

LEMMA FiledStore ==
  ASSUME NEW q, Filed(q), NEW m \in Record, Len(q[Len(q)]) < Gap,
         NEW t, t = Stores(q, m)
  PROVE  /\ Filed(t) /\ FlattenSeq(t) = Append(FlattenSeq(q), m)
         /\ Len(t) = Len(q) /\ t[Len(q)] = Append(q[Len(q)], m)
         /\ Len(t[Len(q)]) = Len(q[Len(q)]) + 1
         /\ \A i \in 1 .. Len(q) - 1 : t[i] = q[i]
         /\ RecordsIn(t) = RecordsIn(q) + 1
<1> DEFINE n == Len(q)
           k == Len(q[n])
<1>1. /\ q \in Seq(Seq(Record)) /\ n >= 1 /\ k \in Nat
      /\ n \in Nat /\ \A i \in 1 .. n : q[i] \in Seq(Record) /\ Len(q[i]) \in Nat
      /\ FlattenSeq(q) \in Seq(Record) /\ Len(FlattenSeq(q)) = RecordsIn(q)
      /\ RecordsIn(q) \in Nat
  BY FiledTypes DEF Filed, Layout, Numbered
<1>2. FlattenSeq(t) = Append(FlattenSeq(q), m)
  <2>1. Len(q) # 0
    BY <1>1
  <2>2. QED
    BY <1>1, <2>1, FlattenLast DEF Stores
<1>3. /\ Append(q[n], m) \in Seq(Record) /\ Len(Append(q[n], m)) = k + 1
      /\ \A j \in 1 .. k : Append(q[n], m)[j] = q[n][j]
      /\ Append(q[n], m)[k + 1] = m
  BY <1>1, AppendProperties
<1>4. /\ t \in Seq(Seq(Record)) /\ Len(t) = n /\ t[n] = Append(q[n], m)
      /\ \A i \in 1 .. n - 1 : t[i] = q[i]
  <2>1. n \in 1 .. n
    BY <1>1
  <2>2. t \in Seq(Seq(Record)) /\ Len(t) = n /\ \A i \in 1 .. n : t[i] = IF i = n THEN Append(q[n], m) ELSE q[i]
    BY <1>1, <1>3, <2>1, ExceptSeq DEF Stores
  <2>3. \A i \in 1 .. n - 1 : i \in 1 .. n /\ i # n
    BY <1>1
  <2>4. QED
    BY <2>1, <2>2, <2>3
<1>5. RecordsIn(t) = RecordsIn(q) + 1
  <2>1. RecordsIn(t) = Before(n - 1) + (k + 1) /\ RecordsIn(q) = Before(n - 1) + k
    BY <1>3, <1>4 DEF RecordsIn
  <2>2. Before(n - 1) \in Nat
    <3>1. n - 1 \in Nat
      BY <1>1
    <3>2. QED
      BY <3>1, Multiples
  <2>3. QED
    BY <1>1, <2>1, <2>2
<1>6. Layout(t)
  <2>1. Len(t[n]) <= Gap
    <3>1. Len(t[n]) = k + 1 /\ k \in Nat /\ k < Gap /\ Gap \in Nat
      BY <1>1, <1>3, <1>4, Gaps
    <3> HIDE DEF n, k
    <3>2. QED
      BY <3>1
  <2>2. \A i \in 1 .. n - 1 : Len(t[i]) = Gap
    BY <1>4 DEF Filed, Layout
  <2>3. QED
    BY <1>1, <1>4, <2>1, <2>2 DEF Layout
<1>7. Numbered(t)
  <2>1. /\ Len(FlattenSeq(t)) = RecordsIn(q) + 1
        /\ \A j \in 1 .. RecordsIn(q) : FlattenSeq(t)[j] = FlattenSeq(q)[j]
        /\ FlattenSeq(t)[RecordsIn(q) + 1] = m
    <3> DEFINE w == FlattenSeq(q)
    <3>1. w \in Seq(Record) /\ Len(w) = RecordsIn(q) /\ FlattenSeq(t) = Append(w, m)
      BY <1>1, <1>2
    <3> HIDE DEF w
    <3>2. /\ Len(Append(w, m)) = Len(w) + 1 /\ Append(w, m)[Len(w) + 1] = m
          /\ \A j \in 1 .. Len(w) : Append(w, m)[j] = w[j]
      BY <3>1, AppendProperties
    <3>3. QED
      BY <3>1, <3>2 DEF w
  <2>2. ASSUME NEW i \in 1 .. n, NEW j \in 1 .. Len(t[i])
        PROVE  FlattenSeq(t)[Before(i - 1) + j] = t[i][j]
    <3>1. CASE i = n /\ j = k + 1
      <4>1. Before(i - 1) + j = RecordsIn(q) + 1
        <5>1. Before(n - 1) \in Nat /\ RecordsIn(q) = Before(n - 1) + k
          <6>1. n - 1 \in Nat
            BY <1>1
          <6>2. QED
            BY <6>1, Multiples DEF RecordsIn
        <5>2. k \in Nat
          BY <1>1
        <5> HIDE DEF n, k
        <5>3. QED
          BY <3>1, <5>1, <5>2
      <4>2. QED
        BY <1>3, <1>4, <2>1, <3>1, <4>1
    <3>2. CASE ~(i = n /\ j = k + 1)
      <4>1. j \in 1 .. Len(q[i]) /\ t[i][j] = q[i][j]
        <5>1. CASE i = n
          <6>1. j \in 1 .. k + 1 /\ j # k + 1 /\ k \in Nat
            BY <1>1, <1>3, <1>4, <3>2, <5>1
          <6>2. j \in 1 .. k
            <7> HIDE DEF k
            <7>1. QED
              BY <6>1
          <6>3. QED
            BY <1>3, <1>4, <5>1, <6>2
        <5>2. CASE i # n
          <6>1. i \in 1 .. n - 1
            BY <1>1, <5>2
          <6>2. QED
            BY <1>4, <6>1
        <5>3. QED
          BY <5>1, <5>2
      <4>2. Before(i - 1) + j \in 1 .. RecordsIn(q)
        <5>1. Before(i - 1) \in Nat /\ Before(n - 1) \in Nat /\ i - 1 \in Nat /\ n - 1 \in Nat
          <6>1. i - 1 \in Nat /\ n - 1 \in Nat
            BY <1>1
          <6>2. QED
            BY <6>1, Multiples
        <5>2. CASE i = n
          BY <1>1, <4>1, <5>1, <5>2 DEF RecordsIn
        <5>3. CASE i # n
          <6>1. Before(i - 1) + Gap <= Before(n - 1)
            <7>1. i - 1 < n - 1
              BY <1>1, <5>3
            <7>2. QED
              BY <5>1, <7>1, Multiples
          <6>2. j \in Nat /\ j >= 1 /\ j <= Gap
            <7>1. i \in 1 .. n - 1
              BY <1>1, <5>3
            <7>2. Len(q[i]) = Gap
              BY <7>1 DEF Filed, Layout
            <7>3. QED
              BY <4>1, <7>2, Gaps
          <6>3. RecordsIn(q) = Before(n - 1) + k
            BY DEF RecordsIn
          <6>4. k \in Nat /\ Gap \in Nat
            BY <1>1, Gaps
          <6> HIDE DEF n, k
          <6>5. QED
            BY <5>1, <6>1, <6>2, <6>3, <6>4
        <5>4. QED
          BY <5>2, <5>3
      <4>3. QED
        BY <2>1, <4>1, <4>2 DEF Filed, Numbered
    <3>3. QED
      BY <3>1, <3>2
  <2>3. QED
    BY <1>4, <1>5, <2>1, <2>2 DEF Numbered
<1>8. QED
  BY <1>2, <1>3, <1>4, <1>5, <1>6, <1>7 DEF Filed

\* The record with number n.
LEMMA FiledGet ==
  ASSUME NEW q, Filed(q), NEW n \in Nat, n < RecordsIn(q)
  PROVE  /\ IndexOf(n) + 1 \in 1 .. Len(q) /\ n - Before(IndexOf(n)) \in 0 .. Gap - 1
         /\ n - Before(IndexOf(n)) + 1 \in 1 .. Len(q[IndexOf(n) + 1])
         /\ FlattenSeq(q)[n + 1] = q[IndexOf(n) + 1][n - Before(IndexOf(n)) + 1]
<1> DEFINE l == Len(q)
           i == IndexOf(n) + 1
           k == n - Before(IndexOf(n)) + 1
<1>1. /\ l \in Nat /\ l >= 1 /\ Len(q[l]) \in Nat /\ Len(q[l]) <= Gap
      /\ \A j \in 1 .. l - 1 : Len(q[j]) = Gap
      /\ RecordsIn(q) = Before(l - 1) + Len(q[l]) /\ Before(l - 1) \in Nat
  <2>1. /\ l \in Nat /\ l >= 1 /\ Len(q[l]) \in Nat /\ Len(q[l]) <= Gap
        /\ \A j \in 1 .. l - 1 : Len(q[j]) = Gap
        /\ RecordsIn(q) = Before(l - 1) + Len(q[l])
    BY FiledTypes DEF Filed, Layout, RecordsIn
  <2>2. l - 1 \in Nat
    BY <2>1
  <2>3. QED
    BY <2>1, <2>2, Multiples
<1>2. /\ IndexOf(n) \in Nat /\ Before(IndexOf(n)) \in Nat /\ Gap \in Nat
      /\ Before(IndexOf(n)) <= n /\ n < Before(IndexOf(n)) + Gap
  BY Gaps
<1>3. IndexOf(n) <= l - 1
  <2>1. ASSUME l - 1 < IndexOf(n) PROVE FALSE
    <3>1. Before(l - 1) + Gap <= Before(IndexOf(n))
      <4>1. l - 1 \in Nat
        BY <1>1
      <4>2. QED
        BY <1>2, <2>1, <4>1, Multiples
    <3>2. QED
      BY <1>1, <1>2, <3>1
  <2>2. QED
    BY <1>1, <1>2, <2>1
<1>4. k \in 1 .. Len(q[i])
  <2>1. k \in Nat /\ k >= 1 /\ k <= Gap
    BY <1>2
  <2>2. CASE i = l
    <3>1. IndexOf(n) = l - 1
      <4>1. l \in Nat /\ IndexOf(n) \in Nat /\ IndexOf(n) + 1 = l
        BY <1>1, <1>2, <2>2
      <4> HIDE DEF l
      <4>2. QED
        BY <4>1
    <3>2. n < Before(IndexOf(n)) + Len(q[l])
      BY <1>1, <3>1
    <3>3. k <= Len(q[l])
      BY <1>1, <1>2, <3>2
    <3>4. QED
      BY <1>1, <2>1, <2>2, <3>3
  <2>3. CASE i # l
    <3>1. i \in 1 .. l - 1
      BY <1>1, <1>2, <1>3, <2>3
    <3>2. Len(q[i]) = Gap
      BY <1>1, <3>1
    <3>3. QED
      BY <1>2, <2>1, <3>2
  <2>4. QED
    BY <2>2, <2>3
<1>5. i \in 1 .. l /\ Before(i - 1) + k = n + 1
  BY <1>1, <1>2, <1>3
<1>6. FlattenSeq(q)[Before(i - 1) + k] = q[i][k]
  <2> HIDE DEF i, k
  <2>1. QED
    BY <1>4, <1>5 DEF Filed, Numbered
<1>7. n - Before(IndexOf(n)) \in 0 .. Gap - 1
  BY <1>2
<1>8. FlattenSeq(q)[n + 1] = q[i][k]
  <2> HIDE DEF i, k
  <2>1. QED
    BY <1>5, <1>6
<1>9. QED
  BY <1>4, <1>5, <1>7, <1>8

-----------------------------------------------------------------------------
(* The flow.                                                               *)

Untorn == \A i \in 1 .. Len(file) : \A k \in 1 .. Len(file[i]) : file[i][k] # Torn

\* What Get remembers of the last read leads to the next record.
Remembered == IndexOf(readId + 1) = readIndex => readOffset = readId + 1 - Before(readIndex)

\* The readers inside Get: each is where its record is, and one that is alone reads it.
InGet ==
  /\ \A r \in Inside : /\ adding = Garbage /\ next[r] < total
                       /\ offset[r] = next[r] - Before(IndexOf(next[r]))
  /\ ~overlapped =>
       /\ \A r, s \in Inside : r = s
       /\ open \subseteq {Curr, readIndex} \union {IndexOf(next[r]) : r \in Inside}
       /\ \A r \in Reader :
            /\ rpc[r] = "read" => pos[IndexOf(next[r])] = offset[r]
            /\ rpc[r] = "finish" /\ ~torn => got[r] = Written[next[r] + 1]

Stored ==
  /\ Filed(file) /\ total = RecordsIn(file)
  /\ adding # Garbage => Len(file[Len(file)]) < Gap /\ total < MaxRecords
  /\ ~torn => Untorn

FileInv == FileTypeOK /\ Stored /\ Remembered /\ InGet

LEMMA FileFacts ==
  ASSUME FileTypeOK, Stored
  PROVE  /\ Len(file) \in Nat /\ Len(file) >= 1 /\ Curr = Len(file) - 1 /\ Curr \in Nat /\ Curr \in Index
         /\ Last(file) = file[Len(file)] /\ Len(file[Len(file)]) \in Nat /\ Len(file[Len(file)]) <= Gap
         /\ total = Before(Curr) + Len(file[Len(file)]) /\ Before(Curr) \in Nat
         /\ total \in Nat /\ total <= MaxRecords
         /\ Len(Written) = total
<1>1. file \in Seq(Seq(Record)) /\ Len(file) >= 1 /\ Len(file[Len(file)]) <= Gap
  BY DEF Stored, Filed, Layout
<1>2. Len(file) \in Nat /\ Len(file[Len(file)]) \in Nat
  BY <1>1, FiledTypes
<1>3. Curr = Len(file) - 1 /\ Curr \in Nat
  BY <1>1, <1>2 DEF Curr
<1>4. total = Before(Curr) + Len(file[Len(file)]) /\ Before(Curr) \in Nat
  BY <1>3, Multiples DEF Stored, RecordsIn
<1>5. total \in Nat /\ total <= MaxRecords
  BY Gaps DEF FileTypeOK, Id
<1>6. Len(Written) = total
  BY DEF Written, Stored, Filed, Numbered
<1>7. QED
  BY <1>1, <1>2, <1>3, <1>4, <1>5, <1>6 DEF FileTypeOK, Last

LEMMA FileStart == FileInit => FileInv
<1> SUFFICES ASSUME FileInit PROVE FileInv
  OBVIOUS
<1>1. /\ file = << <<>> >> /\ total = 0 /\ open = {0} /\ pos = [i \in Index |-> 0]
      /\ readId = -1 /\ readIndex = 0 /\ readOffset = 0 /\ adding = Garbage
      /\ rpc = [r \in Reader |-> "idle"] /\ offset = [r \in Reader |-> 0]
      /\ got = [r \in Reader |-> Garbage] /\ next = [r \in Reader |-> 0]
      /\ last = [r \in Reader |-> Garbage] /\ torn = FALSE
  BY DEF FileInit
<1>2. Len(file) = 1 /\ file[1] = <<>> /\ Len(file[1]) = 0
  BY <1>1
<1>3. 0 \in Index /\ 0 \in Id /\ 0 \in 0 .. Gap /\ Before(0) = 0 /\ IndexOf(0) = 0
  <2>1. 0 \in 0 .. MaxRecords /\ 0 \in 0 .. Gap /\ Before(0) = 0
    BY Gaps DEF Before
  <2>2. IndexOf(0) = 0
    BY <2>1, Gaps
  <2>3. QED
    BY <2>1, <2>2, IndexInBounds DEF Id
<1>4. Filed(file) /\ RecordsIn(file) = 0
  <2>1. Filed(file)
    BY <1>1, FiledStart
  <2>2. RecordsIn(file) = Before(1 - 1) + 0
    BY <1>2 DEF RecordsIn
  <2>3. QED
    BY <1>3, <2>1, <2>2
<1>5. Stored
  BY <1>1, <1>2, <1>4 DEF Stored, Untorn
<1>6. FileTypeOK
  <2>1. file \in Seq(Seq(Message \union {Torn}))
    BY <1>4 DEF Filed, Record
  <2>2. readId \in -1 .. MaxRecords
    BY <1>1, Gaps
  <2>3. QED
    BY <1>1, <1>2, <1>3, <2>1, <2>2 DEF FileTypeOK
<1>7. Remembered
  BY <1>1, <1>3 DEF Remembered
<1>8. InGet
  BY <1>1, <1>2 DEF InGet, Inside, Curr
<1>9. QED
  BY <1>5, <1>6, <1>7, <1>8 DEF FileInv

LEMMA BeginAppendKeeps ==
  ASSUME FileInv, NEW m \in Message, BeginAppend(m)
  PROVE  FileInv' /\ Written' = Written
<1>1. FileTypeOK /\ Stored /\ Remembered /\ InGet
  BY DEF FileInv
<1>2. /\ Len(file) \in Nat /\ Len(file) >= 1 /\ Curr = Len(file) - 1 /\ Curr \in Nat /\ Curr \in Index
      /\ Len(file[Len(file)]) \in Nat /\ Len(file[Len(file)]) <= Gap
      /\ total = Before(Curr) + Len(file[Len(file)]) /\ Before(Curr) \in Nat
      /\ total \in Nat /\ total <= MaxRecords
  BY <1>1, FileFacts
<1>3. /\ Inside = {} /\ adding = Garbage /\ adding' = m /\ total < MaxRecords
      /\ UNCHANGED <<total, pos, readId, readIndex, readOffset, rpc, offset, got, next, last, crashes, overlapped, torn>>
  BY DEF BeginAppend, cursor, locals, reading
<1>4. IndexOf(total) \in Nat /\ IndexOf(total) \in Index /\ Gap \in Nat /\ Gap >= 1
      /\ Before(IndexOf(total)) \in Nat
      /\ Before(IndexOf(total)) <= total /\ total < Before(IndexOf(total)) + Gap
  BY <1>2, IndexInBounds, Gaps
<1>5. /\ file' \in Seq(Seq(Record)) /\ Filed(file') /\ RecordsIn(file') = RecordsIn(file)
      /\ Len(file') - 1 \in Index /\ Len(file'[Len(file')]) < Gap
      /\ Written' = Written /\ (Untorn => Untorn')
      /\ open' \subseteq Index /\ open' \subseteq (open \ {Curr}) \union {Len(file') - 1}
  <2>1. CASE IndexOf(total) > Curr
    <3>1. Before(Curr) + Gap <= Before(IndexOf(total)) /\ Before(Curr + 1) = Before(Curr) + Gap
      BY <1>2, <1>4, <2>1, Multiples
    <3>2. Len(file[Len(file)]) = Gap
      BY <1>2, <1>4, <3>1
    <3>3. IndexOf(total) = Curr + 1
      <4>1. Before(Curr + 1) <= total /\ total < Before(Curr + 1) + Gap /\ Curr + 1 \in Nat
        BY <1>2, <1>4, <3>1, <3>2
      <4>2. QED
        BY <1>2, <4>1, Gaps
    <3>4. file' = Append(file, <<>>) /\ open' = (open \union {IndexOf(total)}) \ {Curr}
      BY <2>1 DEF BeginAppend
    <3>5. /\ Filed(file') /\ FlattenSeq(file') = FlattenSeq(file)
          /\ Len(file') = Len(file) + 1 /\ file'[Len(file) + 1] = <<>>
          /\ RecordsIn(file') = RecordsIn(file)
      BY <1>1, <3>2, <3>4, FiledNew DEF Stored
    <3>6. Len(file') - 1 = IndexOf(total) /\ Len(file'[Len(file')]) = 0
      BY <1>2, <3>3, <3>5
    <3>7. Untorn => Untorn'
      <4>1. \A i \in 1 .. Len(file) : file'[i] = file[i]
        BY <3>4, AppendProperties, EmptySeq, <1>1 DEF Stored, Filed
      <4>2. ASSUME Untorn, NEW i \in 1 .. Len(file'), NEW k \in 1 .. Len(file'[i])
            PROVE  file'[i][k] # Torn
        <5>1. i # Len(file')
          BY <3>6
        <5>2. i \in 1 .. Len(file)
          BY <1>2, <3>5, <5>1
        <5>3. QED
          BY <4>1, <4>2, <5>2 DEF Untorn
      <4>3. QED
        BY <4>2 DEF Untorn
    <3>8. QED
      BY <1>1, <1>4, <3>4, <3>5, <3>6, <3>7 DEF FileTypeOK, Filed, Written
  <2>2. CASE ~(IndexOf(total) > Curr)
    <3>1. Before(IndexOf(total)) <= Before(Curr)
      <4>1. IndexOf(total) <= Curr
        BY <1>2, <1>4, <2>2
      <4>2. QED
        BY <1>2, <1>4, <4>1, Multiples
    <3>2. Len(file[Len(file)]) < Gap
      BY <1>2, <1>4, <3>1
    <3>3. file' = file /\ open' = open
      BY <2>2 DEF BeginAppend
    <3>4. QED
      BY <1>1, <1>2, <3>2, <3>3 DEF FileTypeOK, Stored, Filed, Written, Untorn
  <2>3. QED
    BY <2>1, <2>2
<1>6. FileTypeOK'
  <2>1. m \in Message \union {Garbage}
    OBVIOUS
  <2>2. QED
    BY <1>1, <1>3, <1>5, <2>1 DEF FileTypeOK, Record
<1>7. Stored'
  BY <1>1, <1>3, <1>5 DEF Stored
<1>8. Remembered'
  BY <1>1, <1>3 DEF Remembered
<1>9. InGet'
  <2>1. Inside' = {}
    BY <1>3 DEF Inside
  <2>2. ~overlapped => open' \subseteq {Curr', readIndex}
    <3>1. ~overlapped => open \subseteq {Curr, readIndex}
      BY <1>1, <1>3 DEF InGet
    <3>2. Curr' = Len(file') - 1
      BY DEF Curr
    <3>3. QED
      BY <1>5, <3>1, <3>2
  <2>3. \A r \in Reader : rpc'[r] = "idle"
    BY <1>3 DEF Inside
  <2>4. QED
    BY <1>3, <2>1, <2>2, <2>3 DEF InGet
<1>10. QED
  BY <1>5, <1>6, <1>7, <1>8, <1>9 DEF FileInv

\* A record is appended to the last file.
LEMMA StoredStore ==
  ASSUME FileTypeOK, Stored, adding # Garbage, NEW m \in Record,
         file' = Stores(file, m)
  PROVE  /\ file' \in Seq(Seq(Record)) /\ Filed(file') /\ RecordsIn(file') = total + 1
         /\ Written' = Append(Written, m) /\ total + 1 \in Id
         /\ Len(file') = Len(file) /\ Curr' = Curr
         /\ m # Torn => (Untorn => Untorn')
<1>1. /\ Len(file) \in Nat /\ Len(file) >= 1 /\ total \in Nat /\ total < MaxRecords
      /\ Len(file[Len(file)]) < Gap /\ Filed(file) /\ total = RecordsIn(file)
      /\ Len(file[Len(file)]) \in Nat
  BY FileFacts DEF Stored
<1>2. /\ Filed(file') /\ FlattenSeq(file') = Append(FlattenSeq(file), m)
      /\ Len(file') = Len(file) /\ file'[Len(file)] = Append(file[Len(file)], m)
      /\ Len(file'[Len(file)]) = Len(file[Len(file)]) + 1
      /\ \A i \in 1 .. Len(file) - 1 : file'[i] = file[i]
      /\ RecordsIn(file') = RecordsIn(file) + 1
  BY <1>1, FiledStore
<1>3. ASSUME m # Torn, Untorn, NEW i \in 1 .. Len(file'), NEW k \in 1 .. Len(file'[i])
      PROVE  file'[i][k] # Torn
  <2>1. CASE i = Len(file)
    <3>1. file[Len(file)] \in Seq(Record)
      BY <1>1, FiledTypes DEF Filed
    <3> DEFINE l == file[Len(file)]
    <3>2. l \in Seq(Record) /\ Len(l) \in Nat /\ file'[i] = Append(l, m) /\ Len(file'[i]) = Len(l) + 1
      BY <1>1, <1>2, <2>1, <3>1
    <3>3. \A j \in 1 .. Len(l) : l[j] # Torn
      <4>1. Len(file) \in 1 .. Len(file)
        BY <1>1
      <4>2. QED
        BY <1>3, <4>1 DEF Untorn
    <3> HIDE DEF l
    <3>4. /\ \A j \in 1 .. Len(l) : Append(l, m)[j] = l[j]
          /\ Append(l, m)[Len(l) + 1] = m
      BY <3>2, AppendProperties
    <3>5. k \in 1 .. Len(l) \/ k = Len(l) + 1
      BY <3>2
    <3>6. QED
      BY <1>3, <3>2, <3>3, <3>4, <3>5
  <2>2. CASE i # Len(file)
    <3>1. i \in 1 .. Len(file) - 1 /\ i \in 1 .. Len(file)
      <4>1. Len(file') = Len(file) /\ Len(file) \in Nat
        BY <1>1, <1>2
      <4>2. QED
        BY <2>2, <4>1
    <3>2. QED
      BY <1>2, <1>3, <3>1 DEF Untorn
  <2>3. QED
    BY <2>1, <2>2
<1>4. total + 1 \in Id
  <2>1. total \in Nat /\ total < MaxRecords /\ MaxRecords \in Nat
    BY <1>1, Gaps
  <2>2. QED
    BY <2>1 DEF Id
<1>5. QED
  BY <1>1, <1>2, <1>3, <1>4 DEF Filed, Written, Curr, Untorn

LEMMA EndAppendKeeps ==
  ASSUME FileInv, EndAppend
  PROVE  FileInv' /\ Written' = Append(Written, adding) /\ adding \in Message
<1>1. FileTypeOK /\ Stored /\ Remembered /\ InGet
  BY DEF FileInv
<1>2. /\ adding # Garbage /\ file' = [file EXCEPT ![Len(file)] = Append(@, adding)]
      /\ total' = total + 1 /\ adding' = Garbage
      /\ UNCHANGED <<open, pos, readId, readIndex, readOffset, rpc, offset, got, next, last, crashes, overlapped, torn>>
  BY DEF EndAppend, cursor, locals, reading
<1>3. adding \in Message /\ adding \in Record /\ adding # Torn
  BY <1>1, <1>2, FileBounds DEF FileTypeOK, Record
<1>4. /\ file' \in Seq(Seq(Record)) /\ Filed(file') /\ RecordsIn(file') = total + 1
      /\ Written' = Append(Written, adding) /\ total + 1 \in Id
      /\ Len(file') = Len(file) /\ Curr' = Curr
      /\ (Untorn => Untorn')
  <2>1. file' = Stores(file, adding)
    BY <1>2 DEF Stores
  <2>2. QED
    BY <1>1, <1>2, <1>3, <2>1, StoredStore
<1>5. FileTypeOK'
  BY <1>1, <1>2, <1>4 DEF FileTypeOK, Record
<1>6. Stored'
  BY <1>1, <1>2, <1>4 DEF Stored
<1>7. Remembered'
  BY <1>1, <1>2 DEF Remembered
<1>8. InGet'
  <2>1. Inside = {} /\ Inside' = {} /\ \A r \in Reader : rpc'[r] = "idle"
    BY <1>1, <1>2 DEF InGet, Inside
  <2>2. ~overlapped => open' \subseteq {Curr', readIndex}
    BY <1>1, <1>2, <1>4, <2>1 DEF InGet
  <2>3. QED
    BY <1>2, <2>1, <2>2 DEF InGet
<1>9. QED
  BY <1>3, <1>4, <1>5, <1>6, <1>7, <1>8 DEF FileInv

LEMMA LocateKeeps ==
  ASSUME FileInv, NEW r \in Reader, Locate(r)
  PROVE  FileInv'
<1> DEFINE i == IndexOf(next[r])
<1>1. FileTypeOK /\ Stored /\ Remembered /\ InGet
  BY DEF FileInv
<1>2. /\ rpc[r] = "idle" /\ adding = Garbage /\ next[r] < total
      /\ open' = OpenFor(i) /\ offset' = [offset EXCEPT ![r] = OffsetOf(next[r])]
      /\ pos' = [pos EXCEPT ![i] = offset'[r]]
      /\ rpc' = [rpc EXCEPT ![r] = "read"]
      /\ overlapped' = (overlapped \/ Inside # {})
      /\ UNCHANGED <<file, total, readId, readIndex, readOffset, adding, got, next, last, crashes, torn>>
  BY DEF Locate, cursor, reading
<1>3. next[r] \in Nat /\ next[r] \in 0 .. MaxRecords
  BY <1>1 DEF FileTypeOK, Id
<1>4. /\ i \in Nat /\ Before(i) \in Nat /\ Gap \in Nat /\ Gap >= 1 /\ i \in Index
      /\ Before(i) <= next[r] /\ next[r] < Before(i) + Gap
  BY <1>3, Gaps, IndexInBounds
<1>5. OffsetOf(next[r]) = next[r] - Before(i)
  <2>1. CASE i = readIndex /\ next[r] = readId + 1
    <3>1. OffsetOf(next[r]) = readOffset
      BY <2>1 DEF OffsetOf
    <3>2. IndexOf(readId + 1) = readIndex
      BY <2>1
    <3>3. readOffset = readId + 1 - Before(readIndex)
      BY <1>1, <3>2 DEF Remembered
    <3>4. readId \in Int /\ Before(readIndex) \in Nat
      BY <1>1, <1>4, <2>1 DEF FileTypeOK
    <3>5. QED
      BY <2>1, <3>1, <3>3, <3>4
  <2>2. CASE ~(i = readIndex /\ next[r] = readId + 1)
    BY <2>2 DEF OffsetOf, Before
  <2>3. QED
    BY <2>1, <2>2
<1>6. OffsetOf(next[r]) \in 0 .. Gap
  BY <1>3, <1>4, <1>5
<1>7. offset'[r] = next[r] - Before(i) /\ \A s \in Reader : s # r => offset'[s] = offset[s] /\ rpc'[s] = rpc[s]
  BY <1>1, <1>2, <1>5 DEF FileTypeOK
<1>8. rpc'[r] = "read" /\ Inside' = Inside \union {r} /\ r \notin Inside
  BY <1>1, <1>2 DEF FileTypeOK, Inside
<1>9. pos' \in [Index -> 0 .. Gap] /\ pos'[i] = offset'[r]
  BY <1>1, <1>2, <1>4, <1>6, <1>7, <1>5 DEF FileTypeOK
<1>10. open' \subseteq open \union {i} /\ open' \subseteq Index
  BY <1>1, <1>2, <1>4 DEF OpenFor, FileTypeOK
<1>11. FileTypeOK'
  <2>1. offset' \in [Reader -> 0 .. Gap]
    BY <1>1, <1>2, <1>6 DEF FileTypeOK
  <2>2. rpc' \in [Reader -> {"idle", "read", "finish"}]
    BY <1>1, <1>2 DEF FileTypeOK
  <2>3. QED
    BY <1>1, <1>2, <1>9, <1>10, <2>1, <2>2 DEF FileTypeOK
<1>12. Stored' /\ Written' = Written /\ Curr' = Curr
  BY <1>1, <1>2 DEF Stored, Untorn, Written, Curr
<1>13. Remembered'
  BY <1>1, <1>2 DEF Remembered
<1>14. InGet'
  <2>1. ASSUME NEW s \in Inside'
        PROVE  /\ adding' = Garbage /\ next'[s] < total'
               /\ offset'[s] = next'[s] - Before(IndexOf(next'[s]))
    <3>1. CASE s = r
      BY <1>2, <1>7, <3>1
    <3>2. CASE s # r
      <4>1. s \in Inside /\ s \in Reader
        BY <1>8, <3>2 DEF Inside
      <4>2. QED
        BY <1>1, <1>2, <1>7, <3>2, <4>1 DEF InGet
    <3>3. QED
      BY <3>1, <3>2
  <2>2. ASSUME ~overlapped'
        PROVE  /\ \A s, t \in Inside' : s = t
               /\ open' \subseteq {Curr', readIndex'} \union {IndexOf(next'[s]) : s \in Inside'}
               /\ \A s \in Reader :
                    /\ rpc'[s] = "read" => pos'[IndexOf(next'[s])] = offset'[s]
                    /\ rpc'[s] = "finish" /\ ~torn' => got'[s] = Written'[next'[s] + 1]
    <3>1. Inside = {} /\ ~overlapped /\ Inside' = {r}
      BY <1>2, <1>8, <2>2
    <3>2. open' \subseteq {Curr, readIndex} \union {i}
      BY <1>1, <1>10, <3>1 DEF InGet
    <3>3. \A s \in Reader : s # r => rpc'[s] = "idle"
      BY <3>1 DEF Inside
    <3>4. QED
      BY <1>2, <1>8, <1>9, <1>12, <3>1, <3>2, <3>3
  <2>3. QED
    BY <2>1, <2>2 DEF InGet
<1>15. QED
  BY <1>11, <1>12, <1>13, <1>14 DEF FileInv

LEMMA ReadKeeps ==
  ASSUME FileInv, NEW r \in Reader, Read(r)
  PROVE  FileInv'
<1> DEFINE i == IndexOf(next[r])
           k == pos[i]
<1>1. FileTypeOK /\ Stored /\ Remembered /\ InGet
  BY DEF FileInv
<1>2. /\ rpc[r] = "read" /\ k < Len(file[i + 1])
      /\ got' = [got EXCEPT ![r] = RecordAt(i, k)]
      /\ pos' = [pos EXCEPT ![i] = k + 1]
      /\ rpc' = [rpc EXCEPT ![r] = "finish"]
      /\ UNCHANGED <<file, total, open, readId, readIndex, readOffset, adding, offset, next, last, crashes, overlapped, torn>>
  BY DEF Read, Complete, Records, cursor, reading
<1>3. r \in Inside
  BY <1>2 DEF Inside
<1>4. /\ next[r] \in Nat /\ next[r] < total /\ offset[r] = next[r] - Before(i) /\ i \in Index
  <2>1. next[r] \in Nat /\ next[r] \in 0 .. MaxRecords
    BY <1>1 DEF FileTypeOK, Id
  <2>2. QED
    BY <1>1, <1>3, <2>1, IndexInBounds DEF InGet
<1>5. /\ i + 1 \in 1 .. Len(file)
      /\ Written[next[r] + 1] = file[i + 1][next[r] - Before(i) + 1]
  BY <1>1, <1>4, FiledGet DEF Stored, Written
<1>6. /\ file[i + 1] \in Seq(Record) /\ Len(file[i + 1]) \in Nat /\ Len(file[i + 1]) <= Gap
  <2>1. file[i + 1] \in Seq(Record) /\ Len(file[i + 1]) \in Nat
    BY <1>1, <1>5, FiledTypes DEF Stored, Filed, Layout
  <2>2. i + 1 = Len(file) \/ i + 1 \in 1 .. Len(file) - 1
    BY <1>1, <1>5, FileFacts
  <2>3. Len(file[i + 1]) <= Gap
    <3>1. CASE i + 1 = Len(file)
      BY <1>1, <3>1, FileFacts
    <3>2. CASE i + 1 \in 1 .. Len(file) - 1
      <4>1. \A j \in 1 .. Len(file) - 1 : Len(file[j]) = Gap
        BY <1>1 DEF Stored, Filed, Layout
      <4>2. Len(file[i + 1]) = Gap
        BY <3>2, <4>1
      <4>3. Gap \in Nat
        BY Gaps
      <4>4. QED
        BY <4>2, <4>3
    <3>3. QED
      BY <2>2, <3>1, <3>2
  <2>4. QED
    BY <2>1, <2>3
<1>7. k \in Nat /\ k + 1 \in 1 .. Len(file[i + 1]) /\ k + 1 \in 0 .. Gap
  <2>1. k \in 0 .. Gap /\ Gap \in Nat
    BY <1>1, <1>4, Gaps DEF FileTypeOK
  <2>2. QED
    BY <1>2, <1>6, <2>1
<1>8. /\ RecordAt(i, k) \in Message \union {Garbage}
      /\ ~torn => RecordAt(i, k) = file[i + 1][k + 1]
  <2>1. file[i + 1][k + 1] \in Record
    BY <1>6, <1>7, ElementOfSeq
  <2>2. CASE \E j \in 1 .. k + 1 : file[i + 1][j] = Torn
    <3>1. PICK j \in 1 .. k + 1 : file[i + 1][j] = Torn
      BY <2>2
    <3>2. j \in 1 .. Len(file[i + 1])
      BY <1>6, <1>7
    <3>3. torn
      BY <1>1, <1>5, <3>1, <3>2 DEF Stored, Untorn
    <3>4. QED
      BY <2>2, <3>3 DEF RecordAt, Records
  <2>3. CASE ~ \E j \in 1 .. k + 1 : file[i + 1][j] = Torn
    <3>1. RecordAt(i, k) = file[i + 1][k + 1]
      BY <2>3 DEF RecordAt, Records
    <3>2. file[i + 1][k + 1] # Torn
      BY <1>7, <2>3
    <3>3. QED
      BY <2>1, <3>1, <3>2 DEF Record
  <2>4. QED
    BY <2>2, <2>3
<1>9. /\ got'[r] = RecordAt(i, k) /\ rpc'[r] = "finish"
      /\ \A s \in Reader : s # r => rpc'[s] = rpc[s] /\ got'[s] = got[s]
  BY <1>1, <1>2 DEF FileTypeOK
<1>10. Inside' = Inside
  BY <1>2, <1>9 DEF Inside
<1>11. FileTypeOK'
  <2>1. got' \in [Reader -> Message \union {Garbage}]
    BY <1>1, <1>2, <1>8 DEF FileTypeOK
  <2>2. rpc' \in [Reader -> {"idle", "read", "finish"}]
    BY <1>1, <1>2 DEF FileTypeOK
  <2>3. pos' \in [Index -> 0 .. Gap]
    BY <1>1, <1>2, <1>4, <1>7 DEF FileTypeOK
  <2>4. QED
    BY <1>1, <1>2, <2>1, <2>2, <2>3 DEF FileTypeOK
<1>12. Stored' /\ Written' = Written /\ Curr' = Curr
  BY <1>1, <1>2 DEF Stored, Untorn, Written, Curr
<1>13. Remembered'
  BY <1>1, <1>2 DEF Remembered
<1>14. InGet'
  <2>1. \A s \in Inside' : /\ adding' = Garbage /\ next'[s] < total'
                           /\ offset'[s] = next'[s] - Before(IndexOf(next'[s]))
    BY <1>1, <1>2, <1>10 DEF InGet
  <2>2. ASSUME ~overlapped'
        PROVE  /\ \A s, t \in Inside' : s = t
               /\ open' \subseteq {Curr', readIndex'} \union {IndexOf(next'[s]) : s \in Inside'}
               /\ \A s \in Reader :
                    /\ rpc'[s] = "read" => pos'[IndexOf(next'[s])] = offset'[s]
                    /\ rpc'[s] = "finish" /\ ~torn' => got'[s] = Written'[next'[s] + 1]
    <3>1. /\ ~overlapped /\ \A s, t \in Inside : s = t
          /\ open \subseteq {Curr, readIndex} \union {IndexOf(next[s]) : s \in Inside}
          /\ pos[i] = offset[r]
      BY <1>1, <1>2, <2>2 DEF InGet
    <3>2. \A s \in Reader : s # r => rpc'[s] # "read" /\ rpc'[s] # "finish"
      BY <1>3, <1>9, <3>1 DEF Inside
    <3>3. ~torn => got'[r] = Written[next[r] + 1]
      BY <1>4, <1>5, <1>8, <1>9, <3>1
    <3>4. QED
      BY <1>2, <1>9, <1>10, <1>12, <3>1, <3>2, <3>3
  <2>3. QED
    BY <2>1, <2>2 DEF InGet
<1>15. QED
  BY <1>11, <1>12, <1>13, <1>14 DEF FileInv

LEMMA FinishKeeps ==
  ASSUME FileInv, NEW r \in Reader, Finish(r)
  PROVE  /\ FileInv' /\ Written' = Written
         /\ next[r] < Len(Written)
         /\ ~overlapped /\ ~torn => got[r] = Written[next[r] + 1]
<1> DEFINE i == IndexOf(next[r])
<1>1. FileTypeOK /\ Stored /\ Remembered /\ InGet
  BY DEF FileInv
<1>2. /\ rpc[r] = "finish"
      /\ open' = IF Used(i) THEN open ELSE open \ {readIndex}
      /\ readIndex' = i /\ readId' = next[r] /\ readOffset' = offset[r] + 1
      /\ rpc' = [rpc EXCEPT ![r] = "idle"]
      /\ next' = [next EXCEPT ![r] = @ + 1]
      /\ last' = [last EXCEPT ![r] = got[r]]
      /\ UNCHANGED <<file, total, pos, adding, offset, got, crashes, overlapped, torn>>
  BY DEF Finish
<1>3. r \in Inside
  BY <1>2 DEF Inside
<1>4. total \in Nat /\ total <= MaxRecords /\ MaxRecords \in Nat /\ Len(Written) = total
  BY <1>1, FileFacts, Gaps
<1>5. /\ next[r] \in Nat /\ next[r] < total /\ next[r] + 1 \in Id /\ i \in Index
      /\ offset[r] = next[r] - Before(i)
      /\ i \in Nat /\ Before(i) \in Nat /\ Gap \in Nat
      /\ Before(i) <= next[r] /\ next[r] < Before(i) + Gap
  <2>1. next[r] \in Nat /\ next[r] \in 0 .. MaxRecords
    BY <1>1 DEF FileTypeOK, Id
  <2>2. next[r] < total /\ offset[r] = next[r] - Before(i)
    BY <1>1, <1>3 DEF InGet
  <2>3. next[r] + 1 \in Id
    BY <1>4, <2>1, <2>2 DEF Id
  <2>4. QED
    BY <2>1, <2>2, <2>3, Gaps, IndexInBounds
<1>6. /\ rpc'[r] = "idle" /\ next'[r] = next[r] + 1
      /\ \A s \in Reader : s # r => rpc'[s] = rpc[s] /\ next'[s] = next[s]
      /\ Inside' = Inside \ {r}
  <2>1. /\ rpc'[r] = "idle" /\ next'[r] = next[r] + 1
        /\ \A s \in Reader : s # r => rpc'[s] = rpc[s] /\ next'[s] = next[s]
    BY <1>1, <1>2 DEF FileTypeOK
  <2>2. QED
    BY <2>1 DEF Inside
<1>7. FileTypeOK'
  <2>1. offset[r] + 1 \in 0 .. Gap /\ next[r] \in -1 .. MaxRecords
    BY <1>4, <1>5
  <2>2. next' \in [Reader -> Id] /\ last' \in [Reader -> Message \union {Garbage}]
    BY <1>1, <1>2, <1>5 DEF FileTypeOK
  <2>3. rpc' \in [Reader -> {"idle", "read", "finish"}]
    BY <1>1, <1>2 DEF FileTypeOK
  <2>4. open' \subseteq Index
    BY <1>1, <1>2 DEF FileTypeOK
  <2>5. QED
    BY <1>1, <1>2, <1>5, <2>1, <2>2, <2>3, <2>4 DEF FileTypeOK
<1>8. Stored' /\ Written' = Written /\ Curr' = Curr
  BY <1>1, <1>2 DEF Stored, Untorn, Written, Curr
<1>9. Remembered'
  <2>1. readOffset' = next[r] + 1 - Before(i)
    BY <1>2, <1>5
  <2>2. QED
    BY <1>2, <2>1 DEF Remembered
<1>10. InGet'
  <2>1. \A s \in Inside' : /\ adding' = Garbage /\ next'[s] < total'
                           /\ offset'[s] = next'[s] - Before(IndexOf(next'[s]))
    <3>1. \A s \in Inside' : s \in Inside /\ s \in Reader /\ s # r
      BY <1>6 DEF Inside
    <3>2. QED
      BY <1>1, <1>2, <1>6, <3>1 DEF InGet
  <2>2. ASSUME ~overlapped'
        PROVE  /\ \A s, t \in Inside' : s = t
               /\ open' \subseteq {Curr', readIndex'} \union {IndexOf(next'[s]) : s \in Inside'}
               /\ \A s \in Reader :
                    /\ rpc'[s] = "read" => pos'[IndexOf(next'[s])] = offset'[s]
                    /\ rpc'[s] = "finish" /\ ~torn' => got'[s] = Written'[next'[s] + 1]
    <3>1. /\ ~overlapped /\ \A s, t \in Inside : s = t
          /\ open \subseteq {Curr, readIndex} \union {IndexOf(next[s]) : s \in Inside}
      BY <1>1, <1>2, <2>2 DEF InGet
    <3>2. Inside' = {} /\ Inside = {r}
      BY <1>3, <1>6, <3>1
    <3>3. \A s \in Reader : rpc'[s] = "idle"
      BY <3>2, <1>6 DEF Inside
    <3>4. open \subseteq {Curr, readIndex, i}
      BY <3>1, <3>2
    <3>5. open' \subseteq {Curr, i}
      BY <1>2, <3>4 DEF Used
    <3>6. QED
      BY <1>2, <1>8, <3>2, <3>3, <3>5
  <2>3. QED
    BY <2>1, <2>2 DEF InGet
<1>11. ~overlapped /\ ~torn => got[r] = Written[next[r] + 1]
  BY <1>1, <1>2 DEF InGet
<1>12. QED
  BY <1>4, <1>5, <1>7, <1>8, <1>9, <1>10, <1>11 DEF FileInv

LEMMA RestartKeeps ==
  ASSUME FileInv, Restart
  PROVE  /\ FileInv'
         /\ ~torn' => \/ Written' = Written
                      \/ adding \in Message /\ Written' = Append(Written, adding)
<1>1. FileTypeOK /\ Stored /\ Remembered /\ InGet
  BY DEF FileInv
<1>2. /\ Killed /\ total' = Curr' * Gap + Len(Last(file')) /\ open' = {Curr'}
      /\ pos' = [j \in Index |-> 0]
      /\ readId' = Curr' * Gap - 1 /\ readIndex' = Curr' /\ readOffset' = 0
      /\ adding' = Garbage /\ rpc' = [r \in Reader |-> "idle"]
      /\ offset' = [r \in Reader |-> 0] /\ got' = [r \in Reader |-> Garbage]
      /\ UNCHANGED <<next, last, overlapped>>
  BY DEF Restart, Constructed, reading
<1>3. /\ file' \in Seq(Seq(Record)) /\ Filed(file') /\ Len(file') = Len(file) /\ Curr' = Curr
      /\ RecordsIn(file') \in Id
      /\ ~torn' => Untorn'
      /\ ~torn' => \/ Written' = Written
                   \/ adding \in Message /\ Written' = Append(Written, adding)
  <2>1. CASE file' = file /\ torn' = torn
    BY <1>1, <2>1 DEF Stored, Filed, Written, Curr, Untorn, FileTypeOK
  <2>2. CASE /\ adding # Garbage
             /\ \E end \in {adding, Torn} :
                  /\ file' = [file EXCEPT ![Len(file)] = Append(@, end)]
                  /\ torn' = (torn \/ end = Torn)
    <3>1. PICK end \in {adding, Torn} : file' = Stores(file, end) /\ torn' = (torn \/ end = Torn)
      BY <2>2 DEF Stores
    <3>2. adding \in Message /\ end \in Record /\ (~torn' => end = adding /\ end # Torn /\ ~torn)
      BY <1>1, <2>2, <3>1 DEF FileTypeOK, Record
    <3>3. /\ file' \in Seq(Seq(Record)) /\ Filed(file') /\ RecordsIn(file') = total + 1
          /\ Written' = Append(Written, end) /\ total + 1 \in Id
          /\ Len(file') = Len(file) /\ Curr' = Curr
          /\ end # Torn => (Untorn => Untorn')
      BY <1>1, <2>2, <3>1, <3>2, StoredStore
    <3>4. QED
      BY <1>1, <3>2, <3>3 DEF Stored
  <2>3. QED
    BY <1>2, <2>1, <2>2 DEF Killed
<1>4. /\ Curr \in Nat /\ Curr \in Index /\ Before(Curr) \in Nat /\ Before(Curr) <= total
      /\ total <= MaxRecords /\ MaxRecords \in Nat /\ total \in Nat /\ Gap \in Nat
  <2> DEFINE l == Len(file[Len(file)])
  <2>1. /\ Curr \in Nat /\ Curr \in Index /\ Before(Curr) \in Nat /\ l \in Nat
        /\ total = Before(Curr) + l /\ total <= MaxRecords /\ total \in Nat
    BY <1>1, FileFacts
  <2> HIDE DEF l
  <2>2. Before(Curr) <= total
    BY <2>1
  <2>3. QED
    BY <2>1, <2>2, Gaps
<1>5. total' = RecordsIn(file') /\ readId' = Before(Curr) - 1
  <2>1. Curr' = Len(file') - 1 /\ Last(file') = file'[Len(file')]
    BY DEF Curr, Last
  <2>2. QED
    BY <1>2, <1>3, <2>1 DEF RecordsIn, Before
<1>6. FileTypeOK'
  <2>1. readId' \in -1 .. MaxRecords /\ 0 \in 0 .. Gap
    BY <1>4, <1>5
  <2>2. Len(file') - 1 \in Index /\ total' \in Id
    BY <1>1, <1>3, <1>5, FileFacts
  <2>3. QED
    BY <1>1, <1>2, <1>3, <1>4, <2>1, <2>2 DEF FileTypeOK, Record
<1>7. Stored'
  BY <1>2, <1>3, <1>5 DEF Stored
<1>8. Remembered'
  <2>1. readId' + 1 - Before(readIndex') = 0
    BY <1>2, <1>3, <1>4, <1>5
  <2>2. QED
    BY <1>2, <2>1 DEF Remembered
<1>9. InGet'
  BY <1>2 DEF InGet, Inside
<1>10. QED
  BY <1>3, <1>6, <1>7, <1>8, <1>9 DEF FileInv

LEMMA FileStep ==
  ASSUME FileInv, [FileNext]_fileVars
  PROVE  FileInv'
<1>1. CASE UNCHANGED fileVars
  BY <1>1 DEF FileInv, FileTypeOK, Stored, Untorn, Remembered, InGet, Inside, Written, Curr,
              fileVars, cursor, locals, reading
<1>2. QED
  BY <1>1, BeginAppendKeeps, EndAppendKeeps, LocateKeeps, ReadKeeps, FinishKeeps, RestartKeeps
  DEF FileNext

\* Every file but the last is full, a record is where its number says, what Get remembers
\* of the last read leads to the next record, and a reader that is alone in Get reads
\* the record it asked for.
THEOREM FilesHold == FileSpec => []FileInv
<1>1. FileInit => FileInv
  BY FileStart
<1>2. FileInv /\ [FileNext]_fileVars => FileInv'
  BY FileStep
<1>3. QED
  BY <1>1, <1>2, PTL DEF FileSpec

\* However the readers jump from file to file, no more files are open than the one
\* written, the one read last and the one being read.
THEOREM OpenFilesBounded == FileSpec => []FilesBounded
<1>1. FileInv => FilesBounded
  BY DEF FileInv, FilesBounded, InGet
<1>2. QED
  BY <1>1, FilesHold, PTL

LEMMA FileInitImplements ==
  ASSUME FileInit
  PROVE  Abstract!Init
<1>1. /\ file = << <<>> >> /\ next = [r \in Reader |-> 0] /\ last = [r \in Reader |-> Garbage]
      /\ overlapped = FALSE /\ torn = FALSE
  BY DEF FileInit
<1>2. Written = <<>>
  BY <1>1, FiledStart DEF Written
<1>3. Written \in Seq(Message \union {Garbage, Torn}) /\ Len(Written) = 0
  BY <1>2, EmptySeq
<1>4. next \in [Reader -> 0 .. Len(Written)]
  BY <1>1, <1>3
<1>5. last \in [Reader -> Message \union {Garbage, Torn}]
  BY <1>1
<1>6. (overlapped \/ torn) = FALSE
  BY <1>1
<1>7. QED
  BY <1>3, <1>4, <1>5, <1>6 DEF Abstract!Init

LEMMA FileStepImplements ==
  ASSUME FileInv, FileInv', [FileNext]_fileVars
  PROVE  [Abstract!Next]_(Abstract!vars)
<1>1. CASE overlapped' \/ torn'
  BY <1>1 DEF Abstract!Next, Abstract!Break
<1>2. ASSUME ~(overlapped' \/ torn'), ~overlapped, ~torn
      PROVE  [Abstract!Next]_(Abstract!vars)
  <2>1. (overlapped \/ torn)' = (overlapped \/ torn)
    BY <1>2
  <2>2. CASE UNCHANGED <<Written, next, last>>
    BY <2>1, <2>2 DEF Abstract!vars
  <2>3. ASSUME NEW m \in Message, BeginAppend(m)
        PROVE  UNCHANGED <<Written, next, last>>
    BY <2>3, BeginAppendKeeps DEF BeginAppend, reading
  <2>4. CASE \E m \in Message : Written' = Append(Written, m) /\ UNCHANGED <<next, last>>
    <3>1. Abstract!AppendMessage
      BY <1>2, <2>4 DEF Abstract!AppendMessage
    <3>2. QED
      BY <3>1 DEF Abstract!Next
  <2>5. CASE EndAppend
    BY <2>4, <2>5, EndAppendKeeps DEF EndAppend, reading
  <2>6. ASSUME NEW r \in Reader, Locate(r) \/ Read(r)
        PROVE  UNCHANGED <<Written, next, last>>
    BY <2>6 DEF Locate, Read, Written, reading
  <2>7. ASSUME NEW r \in Reader, Finish(r)
        PROVE  Abstract!Next
    <3>1. /\ Written' = Written /\ next[r] < Len(Written) /\ got[r] = Written[next[r] + 1]
      BY <1>2, <2>7, FinishKeeps
    <3>2. next' = [next EXCEPT ![r] = @ + 1] /\ last' = [last EXCEPT ![r] = got[r]]
      BY <2>7 DEF Finish
    <3>3. Abstract!Give(r)
      BY <1>2, <3>1, <3>2 DEF Abstract!Give
    <3>4. QED
      BY <3>3 DEF Abstract!Next
  <2>8. CASE Restart
    <3>1. \/ Written' = Written
          \/ adding \in Message /\ Written' = Append(Written, adding)
      BY <1>2, <2>8, RestartKeeps
    <3>2. UNCHANGED <<next, last>>
      BY <2>8 DEF Restart, reading
    <3>3. QED
      BY <2>2, <2>4, <3>1, <3>2
  <2>9. CASE UNCHANGED fileVars
    BY <2>2, <2>9 DEF fileVars, reading, Written
  <2>10. QED
    BY <2>2, <2>3, <2>5, <2>6, <2>7, <2>8, <2>9 DEF FileNext
<1>3. overlapped => overlapped'
  BY DEF FileNext, BeginAppend, EndAppend, Locate, Read, Finish, Restart, fileVars
<1>4. torn => torn'
  BY DEF FileNext, BeginAppend, EndAppend, Locate, Read, Finish, Restart, Killed, fileVars
<1>5. QED
  BY <1>1, <1>2, <1>3, <1>4

\* The persisted flow keeps what a flow promises: what the readers are given is what was
\* appended, file after file and across restarts, until two readers are inside Get at
\* once or a record is torn.
THEOREM FilesImplementFlow == FileSpec => ImplementsFlow
<1>1. FileInit => FileInv /\ Abstract!Init
  BY FileStart, FileInitImplements
<1>2. FileInv /\ [FileNext]_fileVars => FileInv'
  BY FileStep
<1>3. FileInv /\ FileInv' /\ [FileNext]_fileVars => [Abstract!Next]_(Abstract!vars)
  BY FileStepImplements
<1>4. QED
  BY <1>1, <1>2, <1>3, PTL DEF FileSpec, ImplementsFlow, Abstract!Spec

-----------------------------------------------------------------------------
(* The flow over datagrams (Multicast): the ring of a subscriber's window    *)
(* (COrderingQ), and the ports.                                              *)

\* Counting around a ring of n places from place h on.
LEMMA Ring ==
  ASSUME NEW n \in Nat \ {0}, NEW h \in 0 .. n - 1
  PROVE  /\ \A k \in 0 .. n : (h + k) % n \in 0 .. n - 1 /\ (h + k) % n \in {h + k, h + k - n}
         /\ \A t \in 0 .. n - 1 : (t - h) % n \in 0 .. n - 1 /\ (t - h) % n \in {t - h, t - h + n}
<1>1. ASSUME NEW k \in 0 .. n
      PROVE  (h + k) % n \in 0 .. n - 1 /\ (h + k) % n \in {h + k, h + k - n}
  OBVIOUS
<1>2. ASSUME NEW t \in 0 .. n - 1
      PROVE  (t - h) % n \in 0 .. n - 1 /\ (t - h) % n \in {t - h, t - h + n}
  OBVIOUS
<1>3. QED
  BY <1>1, <1>2

\* Further on from a place that has been counted to, and back.
LEMMA RingSum ==
  ASSUME NEW n \in Nat \ {0}, NEW h \in 0 .. n - 1
  PROVE  /\ \A k \in 0 .. n - 1 : (((h + k) % n) - h) % n = k
         /\ \A m \in 0 .. n, k \in 0 .. n : m + k <= n => (((h + m) % n) + k) % n = (h + (m + k)) % n
         /\ \A t \in 0 .. n - 1, m \in 0 .. n - 1 : m <= (t - h) % n => (t - ((h + m) % n)) % n = ((t - h) % n) - m
<1>1. ASSUME NEW k \in 0 .. n - 1
      PROVE  (((h + k) % n) - h) % n = k
  <2> DEFINE x == (h + k) % n
  <2>1. x \in 0 .. n - 1 /\ x \in {h + k, h + k - n}
    BY Ring
  <2> HIDE DEF x
  <2>2. (x - h) % n \in 0 .. n - 1 /\ (x - h) % n \in {x - h, x - h + n}
    BY <2>1, Ring
  <2>3. QED
    BY <2>1, <2>2 DEF x
<1>2. ASSUME NEW m \in 0 .. n, NEW k \in 0 .. n, m + k <= n
      PROVE  (((h + m) % n) + k) % n = (h + (m + k)) % n
  <2> DEFINE x == (h + m) % n
             y == (h + (m + k)) % n
  <2>1. x \in 0 .. n - 1 /\ x \in {h + m, h + m - n}
    BY Ring
  <2>2. m + k \in 0 .. n
    BY <1>2
  <2>3. y \in 0 .. n - 1 /\ y \in {h + (m + k), h + (m + k) - n}
    BY <2>2, Ring
  <2> HIDE DEF x, y
  <2>4. (x + k) % n \in 0 .. n - 1 /\ (x + k) % n \in {x + k, x + k - n}
    BY <2>1, Ring
  <2>5. (x + k) % n = y
    BY <2>1, <2>3, <2>4
  <2>6. QED
    BY <2>5 DEF x, y
<1>3. ASSUME NEW t \in 0 .. n - 1, NEW m \in 0 .. n - 1, m <= (t - h) % n
      PROVE  (t - ((h + m) % n)) % n = ((t - h) % n) - m
  <2> DEFINE x == (h + m) % n
             l == (t - h) % n
  <2>1. x \in 0 .. n - 1 /\ x \in {h + m, h + m - n}
    <3>1. m \in 0 .. n
      OBVIOUS
    <3>2. QED
      BY <3>1, Ring
  <2>2. l \in 0 .. n - 1 /\ l \in {t - h, t - h + n}
    BY Ring
  <2>3. m <= l
    BY <1>3
  <2> HIDE DEF x, l
  <2>4. (t - x) % n \in 0 .. n - 1 /\ (t - x) % n \in {t - x, t - x + n}
    BY <2>1, Ring
  <2>5. (t - x) % n = l - m
    BY <2>1, <2>2, <2>3, <2>4
  <2>6. QED
    BY <2>5 DEF x, l
<1>4. QED
  BY <1>1, <1>2, <1>3

\* The k-th item from the oldest on, the slot of the number j after the next one, and
\* how many items have not been given back.
Spot(q, k) == (q.itemHead + k) % MaxDataItem
SlotAt(q, j) == (q.slotHead + j) % MaxSlot
Live(q) == (q.itemTail - q.itemHead) % MaxDataItem
Held(q, k) == q.item[Spot(q, k)]

\* The queue of who has all before its startIndex: each item held is another message
\* of the first c, within the window of every item that was there before it; those
\* before startIndex are delivered, not the oldest; the slots lead to the others.
Kept(q, c) ==
  \A k \in 0 .. Live(q) - 1 :
    /\ Held(q, k).package \in 1 .. c /\ Held(q, k).package < q.startIndex + MaxSlot
    /\ Held(q, k).delivered <=> Held(q, k).package < q.startIndex
Apart(q) ==
  \A j, k \in 0 .. Live(q) - 1 : j < k =>
    /\ Held(q, j).package # Held(q, k).package
    /\ Held(q, j).package < Held(q, k).package + MaxSlot
Leads(q) ==
  \A j \in 0 .. MaxSlot - 1 : q.slot[SlotAt(q, j)] # Null =>
    \E k \in 0 .. Live(q) - 1 : q.slot[SlotAt(q, j)] = Spot(q, k) /\ Held(q, k).package = q.startIndex + j
Found(q) ==
  \A k \in 0 .. Live(q) - 1 : Held(q, k).package >= q.startIndex =>
    q.slot[SlotAt(q, Held(q, k).package - q.startIndex)] = Spot(q, k)
OldestWaits(q) == Live(q) > 0 => Held(q, 0).package >= q.startIndex

Ordered(q, c) ==
  /\ q \in OrderingQueue /\ q.startIndex >= 1
  /\ Kept(q, c) /\ Apart(q) /\ Leads(q) /\ Found(q) /\ OldestWaits(q)

LEMMA Sizes == MaxSlot \in Nat \ {0} /\ MaxDataItem \in Nat \ {0} /\ MaxDataItem = 2 * MaxSlot
BY SlotAssumption DEF MaxDataItem

LEMMA Spots ==
  ASSUME NEW q \in OrderingQueue
  PROVE  /\ q.slot \in [0 .. MaxSlot - 1 -> {Null} \union 0 .. MaxDataItem - 1]
         /\ q.item \in [0 .. MaxDataItem - 1 -> [package : Nat, delivered : BOOLEAN]]
         /\ q.slotHead \in 0 .. MaxSlot - 1 /\ q.itemHead \in 0 .. MaxDataItem - 1
         /\ q.itemTail \in 0 .. MaxDataItem - 1 /\ q.startIndex \in Nat
         /\ Live(q) \in 0 .. MaxDataItem - 1 /\ q.itemTail = Spot(q, Live(q))
         /\ \A k \in 0 .. MaxDataItem : Spot(q, k) \in 0 .. MaxDataItem - 1 /\ Spot(q, k) \in {q.itemHead + k, q.itemHead + k - MaxDataItem}
         /\ \A j, k \in 0 .. MaxDataItem - 1 : Spot(q, j) = Spot(q, k) => j = k
         /\ \A j \in 0 .. MaxSlot : SlotAt(q, j) \in 0 .. MaxSlot - 1 /\ SlotAt(q, j) \in {q.slotHead + j, q.slotHead + j - MaxSlot}
         /\ \A j, k \in 0 .. MaxSlot - 1 : SlotAt(q, j) = SlotAt(q, k) => j = k
<1>1. /\ q.slot \in [0 .. MaxSlot - 1 -> {Null} \union 0 .. MaxDataItem - 1]
      /\ q.item \in [0 .. MaxDataItem - 1 -> [package : Nat, delivered : BOOLEAN]]
      /\ q.slotHead \in 0 .. MaxSlot - 1 /\ q.itemHead \in 0 .. MaxDataItem - 1
      /\ q.itemTail \in 0 .. MaxDataItem - 1 /\ q.startIndex \in Nat
  BY DEF OrderingQueue
<1>2. \A k \in 0 .. MaxDataItem : Spot(q, k) \in 0 .. MaxDataItem - 1 /\ Spot(q, k) \in {q.itemHead + k, q.itemHead + k - MaxDataItem}
  BY <1>1, Sizes, Ring DEF Spot
<1>3. Live(q) \in 0 .. MaxDataItem - 1 /\ Live(q) \in {q.itemTail - q.itemHead, q.itemTail - q.itemHead + MaxDataItem}
  BY <1>1, Sizes, Ring DEF Live
<1>4. \A j \in 0 .. MaxSlot : SlotAt(q, j) \in 0 .. MaxSlot - 1 /\ SlotAt(q, j) \in {q.slotHead + j, q.slotHead + j - MaxSlot}
  BY <1>1, Sizes, Ring DEF SlotAt
<1>5. q.itemTail = Spot(q, Live(q))
  <2>1. Live(q) \in 0 .. MaxDataItem
    BY <1>3, Sizes
  <2>2. Spot(q, Live(q)) \in 0 .. MaxDataItem - 1 /\ Spot(q, Live(q)) \in {q.itemHead + Live(q), q.itemHead + Live(q) - MaxDataItem}
    BY <1>2, <2>1
  <2>3. ASSUME NEW n \in Nat, NEW h \in 0 .. n - 1, NEW t \in 0 .. n - 1, NEW l \in 0 .. n - 1, NEW p \in 0 .. n - 1,
               l = t - h \/ l = t - h + n, p = h + l \/ p = h + l - n
        PROVE  t = p
    BY <2>3
  <2>4. QED
    BY <1>1, <1>3, <2>2, <2>3, Sizes
<1>6. ASSUME NEW j \in 0 .. MaxDataItem - 1, NEW k \in 0 .. MaxDataItem - 1, Spot(q, j) = Spot(q, k)
      PROVE  j = k
  <2>1. /\ Spot(q, j) \in {q.itemHead + j, q.itemHead + j - MaxDataItem}
        /\ Spot(q, k) \in {q.itemHead + k, q.itemHead + k - MaxDataItem}
    BY <1>2, Sizes
  <2>2. QED
    BY <1>1, <1>6, <2>1, Sizes
<1>7. ASSUME NEW j \in 0 .. MaxSlot - 1, NEW k \in 0 .. MaxSlot - 1, SlotAt(q, j) = SlotAt(q, k)
      PROVE  j = k
  <2>1. /\ SlotAt(q, j) \in {q.slotHead + j, q.slotHead + j - MaxSlot}
        /\ SlotAt(q, k) \in {q.slotHead + k, q.slotHead + k - MaxSlot}
    BY <1>4, Sizes
  <2>2. QED
    BY <1>1, <1>7, <2>1, Sizes
<1>8. QED
  BY <1>1, <1>2, <1>3, <1>4, <1>5, <1>6, <1>7

\* There is room for another message: what is held are at most the numbers within a
\* window on either side of the oldest, which waits, without the new one.
LEMMA RoomForOne ==
  ASSUME NEW c \in Nat, NEW q, Ordered(q, c), NEW n \in Window(q),
         \A k \in 0 .. Live(q) - 1 : Held(q, k).package # n
  PROVE  Live(q) + 1 < MaxDataItem
<1> DEFINE L == Live(q)
           f == [k \in 0 .. L |-> IF k = L THEN n ELSE Held(q, k).package]
           R == q.startIndex - MaxSlot + 1 .. q.startIndex + MaxSlot - 1
<1>1. L \in Nat /\ q.startIndex \in Nat /\ n \in Nat /\ n >= q.startIndex /\ n < q.startIndex + MaxSlot
  <2>1. q \in OrderingQueue
    BY DEF Ordered
  <2>2. L \in 0 .. MaxDataItem - 1 /\ q.startIndex \in Nat
    BY <2>1, Spots
  <2>3. QED
    BY <2>2, Sizes DEF Window
<1>2. \A k \in 0 .. L - 1 : Held(q, k).package \in Nat
  BY DEF Ordered, Kept
<1>3. \A k \in 0 .. L - 1 : Held(q, k).package \in R
  <2>1. SUFFICES ASSUME NEW k \in 0 .. L - 1 PROVE Held(q, k).package \in R
    OBVIOUS
  <2>2. 0 \in 0 .. L - 1 /\ L > 0
    BY <1>1
  <2>3. Held(q, 0).package >= q.startIndex
    BY <2>2 DEF Ordered, OldestWaits
  <2>4. k # 0 => Held(q, 0).package < Held(q, k).package + MaxSlot
    BY <2>2 DEF Ordered, Apart
  <2>5. Held(q, k).package < q.startIndex + MaxSlot
    BY DEF Ordered, Kept
  <2>6. Held(q, k).package \in Nat /\ Held(q, 0).package \in Nat
    BY <1>2, <2>2
  <2> HIDE DEF L
  <2>7. QED
    BY <1>1, <2>3, <2>4, <2>5, <2>6, Sizes
<1>4. \A j, k \in 0 .. L - 1 : j # k => Held(q, j).package # Held(q, k).package
  BY <1>1 DEF Ordered, Apart
<1> HIDE DEF L, R
<1>5. f \in Injection(0 .. L, R)
  <2>1. n \in R
    BY <1>1, Sizes DEF R
  <2>2. \A k \in 0 .. L : k # L => k \in 0 .. L - 1
    BY <1>1
  <2>3. f \in [0 .. L -> R]
    BY <1>3, <2>1, <2>2
  <2>4. ASSUME NEW j \in 0 .. L, NEW k \in 0 .. L, j # k
        PROVE  f[j] # f[k]
    <3>1. CASE j = L
      BY <2>2, <2>4, <3>1 DEF L
    <3>2. CASE k = L
      BY <2>2, <2>4, <3>2 DEF L
    <3>3. CASE j # L /\ k # L
      BY <1>4, <2>2, <2>4, <3>3
    <3>4. QED
      BY <3>1, <3>2, <3>3
  <2>5. QED
    BY <2>3, <2>4 DEF Injection, IsInjective
<1>6. IsFiniteSet(R) /\ Cardinality(R) = 2 * MaxSlot - 1
  <2>1. q.startIndex - MaxSlot + 1 \in Int /\ q.startIndex + MaxSlot - 1 \in Int
    BY <1>1, Sizes
  <2>2. IsFiniteSet(R) /\ Cardinality(R) = IF q.startIndex - MaxSlot + 1 > q.startIndex + MaxSlot - 1 THEN 0
          ELSE (q.startIndex + MaxSlot - 1) - (q.startIndex - MaxSlot + 1) + 1
    BY <2>1, FS_Interval DEF R
  <2>3. QED
    BY <1>1, <2>2, Sizes
<1>7. Cardinality(0 .. L) = L + 1
  BY <1>1, FS_Interval
<1>8. Cardinality(0 .. L) <= Cardinality(R)
  <2> HIDE DEF f
  <2>1. QED
    BY <1>5, <1>6, FS_Injection
<1>9. QED
  BY <1>1, <1>6, <1>7, <1>8, Sizes DEF L

\* A package that waits for its turn.
LEMMA EnQueueKeeps ==
  ASSUME NEW c \in Nat, NEW q, Ordered(q, c), NEW n \in 1 .. c
  PROVE  Ordered(EnQueue(q, n), c) /\ EnQueue(q, n).startIndex = q.startIndex
<1> DEFINE L == Live(q)
           i == (q.slotHead + n - q.startIndex) % MaxSlot
           p == n - q.startIndex
           new == [package |-> n, delivered |-> FALSE]
           r == EnQueue(q, n)
<1>1. CASE n \notin Window(q) \/ q.slot[i] # Null
  BY <1>1 DEF EnQueue
<1>2. CASE n \in Window(q) /\ q.slot[i] = Null
  <2>1. /\ q \in OrderingQueue /\ Kept(q, c) /\ Apart(q) /\ Leads(q) /\ Found(q) /\ OldestWaits(q)
        /\ q.startIndex >= 1
    BY DEF Ordered
  <2>2. /\ q.slot \in [0 .. MaxSlot - 1 -> {Null} \union 0 .. MaxDataItem - 1]
        /\ q.item \in [0 .. MaxDataItem - 1 -> [package : Nat, delivered : BOOLEAN]]
        /\ q.slotHead \in 0 .. MaxSlot - 1 /\ q.itemHead \in 0 .. MaxDataItem - 1
        /\ q.itemTail \in 0 .. MaxDataItem - 1 /\ q.startIndex \in Nat
        /\ L \in 0 .. MaxDataItem - 1 /\ q.itemTail = Spot(q, L)
        /\ \A k \in 0 .. MaxDataItem : Spot(q, k) \in 0 .. MaxDataItem - 1
        /\ \A j, k \in 0 .. MaxDataItem - 1 : Spot(q, j) = Spot(q, k) => j = k
        /\ \A j \in 0 .. MaxSlot : SlotAt(q, j) \in 0 .. MaxSlot - 1
        /\ \A j, k \in 0 .. MaxSlot - 1 : SlotAt(q, j) = SlotAt(q, k) => j = k
    BY <2>1, Spots
  <2>3. p \in 0 .. MaxSlot - 1 /\ i = SlotAt(q, p) /\ n = q.startIndex + p /\ n >= q.startIndex
    <3>1. n \in Nat /\ n \in q.startIndex .. q.startIndex + MaxSlot - 1
      BY <1>2 DEF Window
    <3>2. q.slotHead + n - q.startIndex = q.slotHead + p
      BY <2>2, <3>1
    <3>3. i = SlotAt(q, p)
      BY <3>2 DEF SlotAt
    <3> HIDE DEF i
    <3>4. q.startIndex \in Nat /\ MaxSlot \in Nat
      BY <2>2, Sizes
    <3>5. p \in 0 .. MaxSlot - 1 /\ n = q.startIndex + p /\ n >= q.startIndex
      BY <3>1, <3>4
    <3>6. QED
      BY <3>3, <3>5
  <2>4. \A k \in 0 .. L - 1 : Held(q, k).package # n
    <3>1. SUFFICES ASSUME NEW k \in 0 .. L - 1, Held(q, k).package = n PROVE FALSE
      OBVIOUS
    <3>2. q.slot[SlotAt(q, p)] = Spot(q, k)
      BY <2>1, <2>3, <3>1 DEF Found
    <3>3. k \in 0 .. MaxDataItem
      BY <2>2, Sizes
    <3>4. Spot(q, k) \in 0 .. MaxDataItem - 1
      BY <2>2, <3>3
    <3> HIDE DEF i, p
    <3>5. QED
      BY <1>2, <2>3, <3>2, <3>4, Sizes DEF Null
  <2>5. L + 1 < MaxDataItem
    BY <1>2, <2>4, RoomForOne
  <2>6. /\ r.slot = [q.slot EXCEPT ![i] = q.itemTail] /\ r.item = [q.item EXCEPT ![q.itemTail] = new]
        /\ r.itemTail = (q.itemTail + 1) % MaxDataItem /\ r.startIndex = q.startIndex
        /\ r.slotHead = q.slotHead /\ r.itemHead = q.itemHead
        /\ r = [q EXCEPT !.slot[i] = q.itemTail, !.item[q.itemTail] = new, !.itemTail = (@ + 1) % MaxDataItem]
    <3>1. r = [q EXCEPT !.slot[i] = q.itemTail, !.item[q.itemTail] = new, !.itemTail = (@ + 1) % MaxDataItem]
      BY <1>2 DEF EnQueue
    <3> HIDE DEF r, i, new
    <3>2. QED
      BY <2>1, <3>1 DEF OrderingQueue
  <2> HIDE DEF r, i, p, new, L
  <2>7. (q.itemTail + 1) % MaxDataItem \in 0 .. MaxDataItem - 1 /\ (q.itemTail + 1) % MaxDataItem \in {q.itemTail + 1, q.itemTail + 1 - MaxDataItem}
    <3>1. 1 \in 0 .. MaxDataItem
      BY Sizes
    <3>2. QED
      BY <2>2, <3>1, Sizes, Ring
  <2>8. r \in OrderingQueue
    <3>1. new \in [package : Nat, delivered : BOOLEAN] /\ i \in 0 .. MaxSlot - 1
      <4>1. p \in 0 .. MaxSlot
        BY <2>3, Sizes
      <4>2. QED
        BY <2>2, <2>3, <4>1 DEF new
    <3>2. r.slot \in [0 .. MaxSlot - 1 -> {Null} \union 0 .. MaxDataItem - 1]
      BY <2>2, <2>6, <3>1
    <3>3. r.item \in [0 .. MaxDataItem - 1 -> [package : Nat, delivered : BOOLEAN]]
      BY <2>2, <2>6, <3>1
    <3>4. r = [q EXCEPT !.slot = r.slot, !.item = r.item, !.itemTail = r.itemTail]
      BY <2>1, <2>6 DEF OrderingQueue
    <3>5. r.itemTail \in 0 .. MaxDataItem - 1
      BY <2>6, <2>7
    <3>6. QED
      BY <2>1, <3>2, <3>3, <3>4, <3>5 DEF OrderingQueue
  <2>19. r.slot[i] = q.itemTail
    <3>1. p \in 0 .. MaxSlot
      BY <2>3, Sizes
    <3>2. i \in 0 .. MaxSlot - 1
      BY <2>2, <2>3, <3>1
    <3>3. i \in DOMAIN q.slot
      BY <2>2, <3>2
    <3>4. QED
      BY <2>6, <3>3
  <2>9. Live(r) = L + 1
    <3>1. /\ Live(r) \in 0 .. MaxDataItem - 1
          /\ Live(r) \in {r.itemTail - q.itemHead, r.itemTail - q.itemHead + MaxDataItem}
      BY <2>2, <2>6, <2>7, Sizes, Ring DEF Live
    <3>2. L \in {q.itemTail - q.itemHead, q.itemTail - q.itemHead + MaxDataItem}
      BY <2>2, Sizes, Ring DEF Live, L
    <3>3. ASSUME NEW m \in Nat, NEW h \in 0 .. m - 1, NEW t \in 0 .. m - 1, NEW l \in 0 .. m - 1, NEW u \in 0 .. m - 1,
                 NEW x \in 0 .. m - 1, l + 1 < m, u = t + 1 \/ u = t + 1 - m,
                 l = t - h \/ l = t - h + m, x = u - h \/ x = u - h + m
          PROVE  x = l + 1
      BY <3>3
    <3>4. /\ MaxDataItem \in Nat /\ q.itemHead \in 0 .. MaxDataItem - 1 /\ q.itemTail \in 0 .. MaxDataItem - 1
          /\ L \in 0 .. MaxDataItem - 1 /\ r.itemTail \in 0 .. MaxDataItem - 1 /\ Live(r) \in 0 .. MaxDataItem - 1
      BY <2>2, <2>6, <2>7, <3>1, Sizes
    <3>5. /\ L + 1 < MaxDataItem /\ (r.itemTail = q.itemTail + 1 \/ r.itemTail = q.itemTail + 1 - MaxDataItem)
          /\ (L = q.itemTail - q.itemHead \/ L = q.itemTail - q.itemHead + MaxDataItem)
          /\ (Live(r) = r.itemTail - q.itemHead \/ Live(r) = r.itemTail - q.itemHead + MaxDataItem)
      BY <2>5, <2>6, <2>7, <3>1, <3>2
    <3>6. QED
      BY <3>3, <3>4, <3>5
  <2>10. /\ \A k : Spot(r, k) = Spot(q, k) /\ SlotAt(r, k) = SlotAt(q, k)
         /\ L \in Nat /\ L \in 0 .. MaxDataItem - 1 /\ L \in 0 .. Live(r) - 1
         /\ \A k \in 0 .. Live(r) - 1 : k = L \/ k \in 0 .. L - 1
         /\ \A k \in 0 .. L - 1 : k \in 0 .. MaxDataItem - 1 /\ k \in 0 .. MaxDataItem /\ k # L /\ k \in 0 .. Live(r) - 1
    <3>1. \A k : Spot(r, k) = Spot(q, k) /\ SlotAt(r, k) = SlotAt(q, k)
      BY <2>6 DEF Spot, SlotAt
    <3>2. L \in Nat /\ L \in 0 .. MaxDataItem - 1 /\ MaxDataItem \in Nat
      BY <2>2, Sizes
    <3>3. QED
      BY <2>9, <3>1, <3>2
  <2>11. Held(r, L) = new /\ new.package = n /\ new.delivered = FALSE /\ \A k \in 0 .. L - 1 : Held(r, k) = Held(q, k)
    <3>1. Held(r, L) = new
      <4>1. Spot(r, L) = q.itemTail
        BY <2>2, <2>10
      <4>2. QED
        BY <2>2, <2>6, <4>1 DEF Held
    <3>2. ASSUME NEW k \in 0 .. L - 1
          PROVE  Held(r, k) = Held(q, k)
      <4>1. Spot(q, k) # q.itemTail /\ Spot(q, k) \in 0 .. MaxDataItem - 1
        BY <2>2, <2>10
      <4>2. QED
        BY <2>2, <2>6, <2>10, <4>1 DEF Held
    <3>3. QED
      BY <3>1, <3>2 DEF new
  <2>12. Kept(r, c)
    <3>1. ASSUME NEW k \in 0 .. Live(r) - 1
          PROVE  /\ Held(r, k).package \in 1 .. c /\ Held(r, k).package < r.startIndex + MaxSlot
                 /\ Held(r, k).delivered <=> Held(r, k).package < r.startIndex
      <4>1. CASE k = L
        BY <2>2, <2>3, <2>6, <2>11, <4>1, Sizes
      <4>2. CASE k \in 0 .. L - 1
        BY <2>1, <2>6, <2>11, <4>2 DEF Kept, L
      <4>3. QED
        BY <2>10, <4>1, <4>2
    <3>2. QED
      BY <3>1 DEF Kept
  <2>13. \A k \in 0 .. L - 1 : Held(q, k).package \in Nat /\ Held(q, k).package < q.startIndex + MaxSlot
    BY <2>1 DEF Kept, L
  <2>14. Apart(r)
    <3>1. ASSUME NEW j \in 0 .. Live(r) - 1, NEW k \in 0 .. Live(r) - 1, j < k
          PROVE  /\ Held(r, j).package # Held(r, k).package
                 /\ Held(r, j).package < Held(r, k).package + MaxSlot
      <4>1. j \in 0 .. L - 1
        BY <2>2, <2>9, <3>1
      <4>2. CASE k = L
        <5>1. Held(r, k).package = n /\ Held(r, j) = Held(q, j) /\ Held(q, j).package # n
          BY <2>4, <2>11, <4>1, <4>2 DEF L
        <5>2. Held(q, j).package \in Nat /\ Held(q, j).package < q.startIndex + MaxSlot
          BY <2>13, <4>1
        <5>3. n \in Nat /\ n >= q.startIndex /\ q.startIndex \in Nat /\ MaxSlot \in Nat
          <6>1. n \in Nat
            OBVIOUS
          <6>2. QED
            BY <2>2, <2>3, <6>1, Sizes
        <5>4. QED
          BY <5>1, <5>2, <5>3
      <4>3. CASE k \in 0 .. L - 1
        BY <2>1, <2>11, <3>1, <4>1, <4>3 DEF Apart, L
      <4>4. QED
        BY <2>10, <4>2, <4>3
    <3>2. QED
      BY <3>1 DEF Apart
  <2>15. Leads(r)
    <3>1. ASSUME NEW j \in 0 .. MaxSlot - 1, r.slot[SlotAt(r, j)] # Null
          PROVE  \E k \in 0 .. Live(r) - 1 : r.slot[SlotAt(r, j)] = Spot(r, k) /\ Held(r, k).package = r.startIndex + j
      <4>1. CASE j = p
        <5>1. SlotAt(r, j) = i /\ i \in 0 .. MaxSlot - 1
          <6>1. j \in 0 .. MaxSlot
            BY Sizes
          <6>2. QED
            BY <2>2, <2>3, <2>10, <4>1, <6>1
        <5>2. r.slot[SlotAt(r, j)] = Spot(r, L)
          <6>1. r.slot[i] = q.itemTail
            BY <2>19
          <6>2. QED
            BY <2>2, <2>10, <5>1, <6>1
        <5>3. Held(r, L).package = r.startIndex + j
          BY <2>3, <2>6, <2>11, <4>1
        <5>4. QED
          BY <2>10, <5>2, <5>3
      <4>2. CASE j # p
        <5>1. SlotAt(q, j) # i /\ SlotAt(q, j) \in 0 .. MaxSlot - 1
          <6>1. j \in 0 .. MaxSlot
            BY Sizes
          <6>2. QED
            BY <2>2, <2>3, <4>2, <6>1
        <5>2. r.slot[SlotAt(r, j)] = q.slot[SlotAt(q, j)]
          BY <2>2, <2>6, <2>10, <5>1
        <5>3. PICK k \in 0 .. L - 1 : q.slot[SlotAt(q, j)] = Spot(q, k) /\ Held(q, k).package = q.startIndex + j
          BY <2>1, <3>1, <5>2 DEF Leads, L
        <5>4. QED
          BY <2>6, <2>10, <2>11, <5>2, <5>3
      <4>3. QED
        BY <4>1, <4>2
    <3>2. QED
      BY <3>1 DEF Leads
  <2>16. Found(r)
    <3>1. ASSUME NEW k \in 0 .. Live(r) - 1, Held(r, k).package >= r.startIndex
          PROVE  r.slot[SlotAt(r, Held(r, k).package - r.startIndex)] = Spot(r, k)
      <4>1. CASE k = L
        <5>1. Held(r, k).package - r.startIndex = p
          BY <2>6, <2>11, <4>1 DEF p
        <5>2. SlotAt(r, p) = i /\ i \in 0 .. MaxSlot - 1
          <6>1. p \in 0 .. MaxSlot
            BY <2>3, Sizes
          <6>2. QED
            BY <2>2, <2>3, <2>10, <6>1
        <5>3. r.slot[i] = Spot(r, L)
          <6>1. r.slot[i] = q.itemTail
            BY <2>19
          <6>2. QED
            BY <2>2, <2>10, <6>1
        <5>4. QED
          BY <4>1, <5>1, <5>2, <5>3
      <4>2. CASE k \in 0 .. L - 1
        <5> DEFINE j == Held(q, k).package - q.startIndex
        <5>1. Held(r, k) = Held(q, k) /\ Held(q, k).package >= q.startIndex
          BY <2>6, <2>11, <3>1, <4>2
        <5>2. q.slot[SlotAt(q, j)] = Spot(q, k)
          BY <2>1, <4>2, <5>1 DEF Found, L
        <5>3. Spot(q, k) # Null
          <6>1. Spot(q, k) \in 0 .. MaxDataItem - 1
            BY <2>2, <2>10, <4>2
          <6>2. QED
            BY <6>1, Sizes DEF Null
        <5>4. SlotAt(q, j) # i
          BY <1>2, <5>2, <5>3 DEF i
        <5>5. j \in 0 .. MaxSlot
          <6>1. Held(q, k).package \in Nat /\ Held(q, k).package < q.startIndex + MaxSlot
            BY <2>13, <4>2
          <6>2. q.startIndex \in Nat /\ MaxSlot \in Nat
            BY <2>2, Sizes
          <6>3. QED
            BY <5>1, <6>1, <6>2
        <5>6. SlotAt(q, j) \in 0 .. MaxSlot - 1
          BY <2>2, <5>5
        <5>7. Held(r, k).package - r.startIndex = j
          BY <2>6, <5>1
        <5> HIDE DEF j
        <5>8. QED
          BY <2>2, <2>6, <2>10, <5>2, <5>4, <5>6, <5>7
      <4>3. QED
        BY <2>10, <4>1, <4>2
    <3>2. QED
      BY <3>1 DEF Found
  <2>17. OldestWaits(r)
    <3>1. 0 = L \/ 0 \in 0 .. L - 1
      BY <2>10
    <3>2. CASE 0 = L
      BY <2>3, <2>6, <2>11, <3>2 DEF OldestWaits
    <3>3. CASE 0 \in 0 .. L - 1
      BY <2>1, <2>6, <2>10, <2>11, <3>3 DEF OldestWaits, L
    <3>4. QED
      BY <3>1, <3>2, <3>3
  <2>18. QED
    BY <2>1, <2>6, <2>8, <2>12, <2>14, <2>15, <2>16, <2>17 DEF Ordered, r
<1>3. QED
  BY <1>1, <1>2

\* What the item of the message that is delivered becomes.
Delivering(q) ==
  IF q.slot[q.slotHead] = Null THEN q ELSE [q EXCEPT !.item[q.slot[q.slotHead]].delivered = TRUE]

\* Delivery of the next message, if there is an item of it.
LEMMA DeliveringMarks ==
  ASSUME NEW c \in Nat, NEW q, Ordered(q, c)
  PROVE  LET d == Delivering(q) IN
         /\ d \in OrderingQueue /\ d.slot = q.slot /\ d.slotHead = q.slotHead /\ d.itemHead = q.itemHead
         /\ d.itemTail = q.itemTail /\ d.startIndex = q.startIndex /\ Live(d) = Live(q)
         /\ \A k : Spot(d, k) = Spot(q, k)
         /\ \A k \in 0 .. Live(q) - 1 : /\ Held(d, k).package = Held(q, k).package
                                        /\ Held(d, k).delivered <=> Held(q, k).package <= q.startIndex
<1> DEFINE L == Live(q)
           i == q.slot[q.slotHead]
           d == Delivering(q)
           Same == /\ d.slot = q.slot /\ d.slotHead = q.slotHead /\ d.itemHead = q.itemHead
                   /\ d.itemTail = q.itemTail /\ d.startIndex = q.startIndex
<1>1. /\ q \in OrderingQueue /\ Kept(q, c) /\ Apart(q) /\ Leads(q) /\ Found(q)
  BY DEF Ordered
<1>2. /\ q.slot \in [0 .. MaxSlot - 1 -> {Null} \union 0 .. MaxDataItem - 1]
      /\ q.item \in [0 .. MaxDataItem - 1 -> [package : Nat, delivered : BOOLEAN]]
      /\ q.slotHead \in 0 .. MaxSlot - 1 /\ q.startIndex \in Nat
      /\ L \in 0 .. MaxDataItem - 1
      /\ \A k \in 0 .. MaxDataItem : Spot(q, k) \in 0 .. MaxDataItem - 1
      /\ \A j, k \in 0 .. MaxDataItem - 1 : Spot(q, j) = Spot(q, k) => j = k
  BY <1>1, Spots
<1>3. SlotAt(q, 0) = q.slotHead /\ 0 \in 0 .. MaxSlot - 1
  <2>1. 0 \in 0 .. MaxSlot /\ 0 \in 0 .. MaxSlot - 1
    BY Sizes
  <2>2. SlotAt(q, 0) \in 0 .. MaxSlot - 1 /\ SlotAt(q, 0) \in {q.slotHead + 0, q.slotHead + 0 - MaxSlot}
    BY <1>1, <2>1, Spots
  <2>3. ASSUME NEW m \in Nat, NEW h \in 0 .. m - 1, NEW x \in 0 .. m - 1, x = h + 0 \/ x = h + 0 - m
        PROVE  x = h
    BY <2>3
  <2>4. MaxSlot \in Nat
    BY Sizes
  <2>5. QED
    BY <1>2, <2>1, <2>2, <2>3, <2>4
<1>4. \A k \in 0 .. L - 1 : /\ k \in 0 .. MaxDataItem /\ k \in 0 .. MaxDataItem - 1
                            /\ Spot(q, k) \in 0 .. MaxDataItem - 1 /\ Spot(q, k) # Null
  <2>1. ASSUME NEW k \in 0 .. L - 1
        PROVE  k \in 0 .. MaxDataItem /\ k \in 0 .. MaxDataItem - 1
    <3>1. L \in 0 .. MaxDataItem - 1 /\ MaxDataItem \in Nat
      BY <1>2, Sizes
    <3> HIDE DEF L
    <3>2. QED
      BY <3>1
  <2>2. \A x \in 0 .. MaxDataItem - 1 : x # Null
    BY Sizes DEF Null
  <2>3. QED
    BY <1>2, <2>1, <2>2
<1>5. \A k \in 0 .. L - 1 : Held(q, k).package \in Nat /\ (Held(q, k).delivered <=> Held(q, k).package < q.startIndex)
  BY <1>1 DEF Kept
<1>6. CASE i = Null
  <2>1. d = q
    BY <1>6 DEF Delivering
  <2>2. ASSUME NEW k \in 0 .. L - 1
        PROVE  Held(q, k).package # q.startIndex
    <3>1. SUFFICES ASSUME Held(q, k).package = q.startIndex PROVE FALSE
      OBVIOUS
    <3>2. Held(q, k).package >= q.startIndex /\ Held(q, k).package - q.startIndex = 0
      BY <1>2, <3>1
    <3>3. q.slot[SlotAt(q, Held(q, k).package - q.startIndex)] = Spot(q, k)
      BY <1>1, <3>2 DEF Found
    <3>4. QED
      BY <1>3, <1>4, <1>6, <3>2, <3>3
  <2>3. \A k \in 0 .. L - 1 : Held(q, k).delivered <=> Held(q, k).package <= q.startIndex
    BY <1>2, <1>5, <2>2
  <2>4. QED
    BY <1>1, <2>1, <2>3
<1>7. CASE i # Null
  <2>1. PICK o \in 0 .. L - 1 : i = Spot(q, o) /\ Held(q, o).package = q.startIndex + 0
    BY <1>1, <1>3, <1>7 DEF Leads
  <2>2. i \in 0 .. MaxDataItem - 1
    BY <1>4, <2>1
  <2>3. d = [q EXCEPT !.item[i].delivered = TRUE]
    BY <1>7 DEF Delivering
  <2> HIDE DEF i, d
  <2>4. Same /\ d.item = [q.item EXCEPT ![i].delivered = TRUE]
    BY <1>1, <2>3 DEF OrderingQueue
  <2>5. d.item \in [0 .. MaxDataItem - 1 -> [package : Nat, delivered : BOOLEAN]]
    <3>1. q.item[i] \in [package : Nat, delivered : BOOLEAN]
      BY <1>2, <2>2
    <3>2. [q.item[i] EXCEPT !.delivered = TRUE] \in [package : Nat, delivered : BOOLEAN]
      BY <3>1
    <3>3. d.item = [q.item EXCEPT ![i] = [q.item[i] EXCEPT !.delivered = TRUE]]
      BY <2>4
    <3>4. QED
      BY <1>2, <2>2, <3>2, <3>3
  <2>6. d \in OrderingQueue
    <3>1. d = [q EXCEPT !.item = d.item]
      BY <1>1, <2>3, <2>4 DEF OrderingQueue
    <3>2. QED
      BY <1>1, <2>5, <3>1 DEF OrderingQueue
  <2>7. Live(d) = Live(q) /\ \A k : Spot(d, k) = Spot(q, k)
    BY <2>4 DEF Live, Spot
  <2>8. ASSUME NEW k \in 0 .. L - 1
        PROVE  /\ Held(d, k).package = Held(q, k).package
               /\ Held(d, k).delivered <=> Held(q, k).package <= q.startIndex
    <3>1. Held(d, k) = d.item[Spot(q, k)] /\ Held(q, k) = q.item[Spot(q, k)]
      BY <2>7 DEF Held
    <3>2. Held(q, k).package \in Nat /\ (Held(q, k).delivered <=> Held(q, k).package < q.startIndex)
      BY <1>5
    <3>3. CASE k = o
      <4>1. Held(d, k) = [Held(q, k) EXCEPT !.delivered = TRUE]
        BY <1>2, <2>1, <2>2, <2>4, <3>1, <3>3
      <4>2. Held(q, k) \in [package : Nat, delivered : BOOLEAN]
        <5>1. Spot(q, k) \in 0 .. MaxDataItem - 1
          BY <1>4
        <5>2. \A x \in 0 .. MaxDataItem - 1 : q.item[x] \in [package : Nat, delivered : BOOLEAN]
          BY <1>2
        <5>3. QED
          BY <3>1, <5>1, <5>2
      <4>3. Held(q, k).package = q.startIndex
        BY <1>2, <2>1, <3>3
      <4>4. Held(d, k).delivered /\ Held(d, k).package = Held(q, k).package
        BY <4>1, <4>2
      <4>5. QED
        BY <1>2, <4>3, <4>4
    <3>4. CASE k # o
      <4>1. Spot(q, k) # i
        <5>1. k \in 0 .. MaxDataItem - 1 /\ o \in 0 .. MaxDataItem - 1
          BY <1>4
        <5>2. QED
          BY <1>2, <2>1, <3>4, <5>1
      <4>2. Held(d, k) = Held(q, k)
        BY <1>2, <1>4, <2>2, <2>4, <3>1, <4>1
      <4>3. Held(q, k).package # Held(q, o).package
        <5>1. k < o \/ o < k
          BY <1>2, <3>4
        <5>2. QED
          BY <1>1, <5>1 DEF Apart
      <4>4. QED
        BY <1>2, <2>1, <3>2, <4>2, <4>3
    <3>5. QED
      BY <3>3, <3>4
  <2>9. QED
    BY <2>4, <2>6, <2>7, <2>8 DEF d
<1>8. QED
  BY <1>6, <1>7

\* The memory of the delivered items in front is given back.
LEMMA GivenBack ==
  ASSUME NEW d \in OrderingQueue
  PROVE  \E m \in 0 .. Live(d) : /\ \A k \in 0 .. m - 1 : Held(d, k).delivered
                                 /\ m = Live(d) \/ ~Held(d, m).delivered
                                 /\ Cardinality(Releasable(d)) = m
<1> DEFINE L == Live(d)
           T == {k \in 0 .. L : k = L \/ ~Held(d, k).delivered}
<1>1. L \in Nat
  <2>1. L \in 0 .. MaxDataItem - 1
    BY Spots
  <2>2. QED
    BY <2>1
<1> HIDE DEF L
<1>2. T \subseteq Nat /\ L \in T
  BY <1>1
<1>3. PICK m \in T : \A k \in T : m <= k
  BY <1>2, Least
<1>4. m \in 0 .. L /\ m \in Nat /\ (m = L \/ ~Held(d, m).delivered)
  BY <1>2, <1>3
<1>5. \A k \in 0 .. m - 1 : Held(d, k).delivered
  BY <1>1, <1>3, <1>4
<1>6. Releasable(d) = 0 .. m - 1
  <2>1. Releasable(d) = {k \in 0 .. L - 1 : \A j \in 0 .. k : Held(d, j).delivered}
    BY DEF Releasable, Held, Spot, L, Live
  <2>2. ASSUME NEW k \in 0 .. L - 1, \A j \in 0 .. k : Held(d, j).delivered
        PROVE  k \in 0 .. m - 1
    <3>1. ~(m \in 0 .. k)
      BY <1>1, <1>4, <2>2
    <3>2. QED
      BY <1>1, <1>4, <3>1
  <2>3. ASSUME NEW k \in 0 .. m - 1
        PROVE  k \in 0 .. L - 1 /\ \A j \in 0 .. k : Held(d, j).delivered
    BY <1>1, <1>4, <1>5
  <2>4. QED
    BY <2>1, <2>2, <2>3
<1>7. Cardinality(0 .. m - 1) = m
  BY <1>4, FS_Interval
<1>8. QED
  BY <1>4, <1>5, <1>6, <1>7 DEF L

\* The next message has come: it is delivered, the window goes on by one.
LEMMA DeQueueKeeps ==
  ASSUME NEW c \in Nat, NEW q, Ordered(q, c)
  PROVE  Ordered(DeQueue(q), c) /\ DeQueue(q).startIndex = q.startIndex + 1
<1> DEFINE L == Live(q)
           d == Delivering(q)
           r == DeQueue(q)
<1>1. /\ q \in OrderingQueue /\ Kept(q, c) /\ Apart(q) /\ Leads(q) /\ Found(q) /\ OldestWaits(q)
      /\ q.startIndex >= 1
  BY DEF Ordered
<1>2. /\ q.slotHead \in 0 .. MaxSlot - 1 /\ q.itemHead \in 0 .. MaxDataItem - 1
      /\ q.itemTail \in 0 .. MaxDataItem - 1 /\ q.startIndex \in Nat
      /\ L \in 0 .. MaxDataItem - 1
      /\ \A k \in 0 .. MaxDataItem : Spot(q, k) \in 0 .. MaxDataItem - 1
      /\ \A j, k \in 0 .. MaxDataItem - 1 : Spot(q, j) = Spot(q, k) => j = k
      /\ \A j \in 0 .. MaxSlot : SlotAt(q, j) \in 0 .. MaxSlot - 1
      /\ \A j, k \in 0 .. MaxSlot - 1 : SlotAt(q, j) = SlotAt(q, k) => j = k
  BY <1>1, Spots
<1>3. /\ d \in OrderingQueue /\ d.slot = q.slot /\ d.slotHead = q.slotHead /\ d.itemHead = q.itemHead
      /\ d.itemTail = q.itemTail /\ d.startIndex = q.startIndex /\ Live(d) = L
      /\ \A k : Spot(d, k) = Spot(q, k)
      /\ \A k \in 0 .. L - 1 : /\ Held(d, k).package = Held(q, k).package
                               /\ Held(d, k).delivered <=> Held(q, k).package <= q.startIndex
  BY DeliveringMarks
<1>4. PICK m \in 0 .. L : /\ \A k \in 0 .. m - 1 : Held(d, k).delivered
                          /\ m = L \/ ~Held(d, m).delivered
                          /\ Cardinality(Releasable(d)) = m
  BY <1>3, GivenBack
<1> DEFINE left == [j \in DOMAIN d.item |-> IF (j - d.itemHead) % MaxDataItem < m THEN Free ELSE d.item[j]]
<1>5. r = [d EXCEPT !.slot[q.slotHead] = Null, !.slotHead = (@ + 1) % MaxSlot, !.item = left,
                    !.itemHead = (@ + m) % MaxDataItem, !.startIndex = @ + 1]
  BY <1>4 DEF DeQueue, Delivering
<1> HIDE DEF r, d
<1>6. /\ r.slot = [q.slot EXCEPT ![q.slotHead] = Null] /\ r.slotHead = (q.slotHead + 1) % MaxSlot /\ r.item = left
      /\ r.itemHead = (q.itemHead + m) % MaxDataItem /\ r.itemTail = q.itemTail /\ r.startIndex = q.startIndex + 1
  <2> HIDE DEF left
  <2>1. QED
    BY <1>3, <1>5 DEF OrderingQueue
<1> HIDE DEF L
<1>7. L \in Nat /\ L < MaxDataItem /\ m \in Nat /\ m <= L /\ m \in 0 .. MaxDataItem /\ m \in 0 .. MaxDataItem - 1
      /\ MaxDataItem \in Nat \ {0} /\ MaxSlot \in Nat \ {0}
  BY <1>2, Sizes
<1>8. /\ d.slot \in [0 .. MaxSlot - 1 -> {Null} \union 0 .. MaxDataItem - 1]
      /\ d.item \in [0 .. MaxDataItem - 1 -> [package : Nat, delivered : BOOLEAN]]
  BY <1>3, Spots
<1>9. r \in OrderingQueue
  <2>1. r.slot \in [0 .. MaxSlot - 1 -> {Null} \union 0 .. MaxDataItem - 1]
    <3>1. q.slot \in [0 .. MaxSlot - 1 -> {Null} \union 0 .. MaxDataItem - 1]
      BY <1>3, <1>8
    <3>2. QED
      BY <1>6, <3>1
  <2>2. r.item \in [0 .. MaxDataItem - 1 -> [package : Nat, delivered : BOOLEAN]]
    <3>1. Free \in [package : Nat, delivered : BOOLEAN]
      BY DEF Free
    <3>2. DOMAIN d.item = 0 .. MaxDataItem - 1
      BY <1>8
    <3>3. \A j \in 0 .. MaxDataItem - 1 : d.item[j] \in [package : Nat, delivered : BOOLEAN]
      BY <1>8
    <3>4. left \in [0 .. MaxDataItem - 1 -> [package : Nat, delivered : BOOLEAN]]
      BY <3>1, <3>2, <3>3
    <3>5. QED
      BY <1>6, <3>4
  <2>3. r.slotHead \in 0 .. MaxSlot - 1
    <3>1. 1 \in 0 .. MaxSlot
      BY <1>7
    <3>2. QED
      BY <1>2, <1>6, <1>7, <3>1, Ring
  <2>4. r.itemHead \in 0 .. MaxDataItem - 1
    BY <1>2, <1>6, <1>7, Ring
  <2>5. r.itemTail \in 0 .. MaxDataItem - 1 /\ r.startIndex \in Nat
    BY <1>2, <1>6
  <2>6. r = [slot |-> r.slot, slotHead |-> r.slotHead, item |-> r.item, itemHead |-> r.itemHead,
             itemTail |-> r.itemTail, startIndex |-> r.startIndex]
    <3> HIDE DEF left
    <3>1. QED
      BY <1>3, <1>5 DEF OrderingQueue
  <2>7. QED
    BY <2>1, <2>2, <2>3, <2>4, <2>5, <2>6 DEF OrderingQueue
<1>30. /\ MaxDataItem \in Nat \ {0} /\ q.itemHead \in 0 .. MaxDataItem - 1 /\ q.itemTail \in 0 .. MaxDataItem - 1
       /\ MaxSlot \in Nat \ {0} /\ q.slotHead \in 0 .. MaxSlot - 1
  BY <1>2, <1>7
<1>31. /\ \A k \in 0 .. MaxDataItem - 1 : (((q.itemHead + k) % MaxDataItem) - q.itemHead) % MaxDataItem = k
       /\ \A x \in 0 .. MaxDataItem, k \in 0 .. MaxDataItem : x + k <= MaxDataItem =>
            (((q.itemHead + x) % MaxDataItem) + k) % MaxDataItem = (q.itemHead + (x + k)) % MaxDataItem
       /\ \A t \in 0 .. MaxDataItem - 1, x \in 0 .. MaxDataItem - 1 : x <= (t - q.itemHead) % MaxDataItem =>
            (t - ((q.itemHead + x) % MaxDataItem)) % MaxDataItem = ((t - q.itemHead) % MaxDataItem) - x
  BY <1>30, RingSum
<1>32. \A x \in 0 .. MaxSlot, k \in 0 .. MaxSlot : x + k <= MaxSlot =>
         (((q.slotHead + x) % MaxSlot) + k) % MaxSlot = (q.slotHead + (x + k)) % MaxSlot
  BY <1>30, RingSum
<1>10. Live(r) = L - m
  <2>1. m <= (q.itemTail - q.itemHead) % MaxDataItem
    BY <1>7 DEF L, Live
  <2>2. (q.itemTail - ((q.itemHead + m) % MaxDataItem)) % MaxDataItem = ((q.itemTail - q.itemHead) % MaxDataItem) - m
    BY <1>7, <1>30, <1>31, <2>1
  <2>3. Live(r) = (q.itemTail - ((q.itemHead + m) % MaxDataItem)) % MaxDataItem
    <3>1. r.itemTail = q.itemTail /\ r.itemHead = (q.itemHead + m) % MaxDataItem
      BY <1>6
    <3>2. Live(r) = (r.itemTail - r.itemHead) % MaxDataItem
      BY DEF Live
    <3>3. QED
      BY <3>1, <3>2
  <2>4. L = (q.itemTail - q.itemHead) % MaxDataItem
    BY DEF L, Live
  <2>5. QED
    BY <2>2, <2>3, <2>4
<1>11. \A k \in 0 .. L - m : Spot(r, k) = Spot(q, m + k)
  <2>1. SUFFICES ASSUME NEW k \in 0 .. L - m PROVE Spot(r, k) = Spot(q, m + k)
    OBVIOUS
  <2>2. k \in 0 .. MaxDataItem /\ m + k <= MaxDataItem
    BY <1>7
  <2>3. (((q.itemHead + m) % MaxDataItem) + k) % MaxDataItem = (q.itemHead + (m + k)) % MaxDataItem
    BY <1>7, <1>31, <2>2
  <2>4. QED
    BY <1>6, <2>3 DEF Spot
<1>12. \A k \in 0 .. Live(r) - 1 : /\ k \in 0 .. L - m /\ k \in Nat /\ m + k \in 0 .. L - 1
                                   /\ m + k \in 0 .. MaxDataItem /\ m + k \in 0 .. MaxDataItem - 1
  BY <1>7, <1>10
<1>13. \A k \in 0 .. Live(r) - 1 : Held(r, k) = Held(d, m + k)
  <2>1. SUFFICES ASSUME NEW k \in 0 .. Live(r) - 1 PROVE Held(r, k) = Held(d, m + k)
    OBVIOUS
  <2>2. Spot(r, k) = Spot(q, m + k) /\ Spot(q, m + k) \in 0 .. MaxDataItem - 1
    BY <1>2, <1>11, <1>12
  <2>3. (Spot(q, m + k) - q.itemHead) % MaxDataItem = m + k
    <3>1. m + k \in 0 .. MaxDataItem - 1
      BY <1>12
    <3>2. QED
      BY <1>31, <3>1 DEF Spot
  <2>4. ~(m + k < m)
    BY <1>7, <1>12
  <2>5. r.item[Spot(q, m + k)] = d.item[Spot(q, m + k)]
    <3> DEFINE x == Spot(q, m + k)
    <3>1. x \in DOMAIN d.item
      BY <1>8, <2>2
    <3>2. ~((x - d.itemHead) % MaxDataItem < m)
      BY <1>3, <2>3, <2>4
    <3>3. left[x] = d.item[x]
      <4> HIDE DEF x
      <4>1. QED
        BY <3>1, <3>2
    <3> HIDE DEF x, left
    <3>4. QED
      BY <1>6, <3>3 DEF x
  <2>6. QED
    BY <1>3, <2>2, <2>5 DEF Held
<1> HIDE DEF left
<1>14. \A j \in 0 .. MaxSlot - 1 : SlotAt(r, j) = SlotAt(q, 1 + j)
  <2>1. SUFFICES ASSUME NEW j \in 0 .. MaxSlot - 1 PROVE SlotAt(r, j) = SlotAt(q, 1 + j)
    OBVIOUS
  <2>2. 1 \in 0 .. MaxSlot /\ j \in 0 .. MaxSlot /\ 1 + j <= MaxSlot
    BY <1>7
  <2>3. (((q.slotHead + 1) % MaxSlot) + j) % MaxSlot = (q.slotHead + (1 + j)) % MaxSlot
    BY <1>32, <2>2
  <2>4. QED
    BY <1>6, <2>3 DEF SlotAt
<1>15. SlotAt(q, 0) = q.slotHead /\ SlotAt(q, MaxSlot) = q.slotHead
  <2>1. 0 \in 0 .. MaxSlot /\ MaxSlot \in 0 .. MaxSlot
    BY <1>7
  <2>2. /\ SlotAt(q, 0) \in 0 .. MaxSlot - 1 /\ SlotAt(q, 0) \in {q.slotHead + 0, q.slotHead + 0 - MaxSlot}
        /\ SlotAt(q, MaxSlot) \in 0 .. MaxSlot - 1 /\ SlotAt(q, MaxSlot) \in {q.slotHead + MaxSlot, q.slotHead + MaxSlot - MaxSlot}
    BY <1>1, <2>1, Spots
  <2>3. ASSUME NEW n \in Nat, NEW h \in 0 .. n - 1, NEW x \in 0 .. n - 1, NEW y \in 0 .. n - 1,
               x = h + 0 \/ x = h + 0 - n, y = h + n \/ y = h + n - n
        PROVE  x = h /\ y = h
    BY <2>3
  <2>4. QED
    BY <1>2, <1>7, <2>2, <2>3
<1>16. \A j \in 0 .. MaxSlot - 1 :
         r.slot[SlotAt(r, j)] = IF j = MaxSlot - 1 THEN Null ELSE q.slot[SlotAt(q, 1 + j)]
  <2>1. SUFFICES ASSUME NEW j \in 0 .. MaxSlot - 1
                 PROVE  r.slot[SlotAt(r, j)] = IF j = MaxSlot - 1 THEN Null ELSE q.slot[SlotAt(q, 1 + j)]
    OBVIOUS
  <2>2. CASE j = MaxSlot - 1
    <3>1. 1 + j = MaxSlot
      BY <1>7, <2>2
    <3>2. SlotAt(r, j) = q.slotHead
      BY <1>14, <1>15, <3>1
    <3>3. QED
      BY <1>2, <1>3, <1>6, <1>8, <2>2, <3>2
  <2>3. CASE j # MaxSlot - 1
    <3>1. 1 + j \in 0 .. MaxSlot - 1 /\ 1 + j \in 0 .. MaxSlot /\ 0 \in 0 .. MaxSlot - 1 /\ 1 + j # 0
      BY <1>7, <2>3
    <3>2. SlotAt(q, 1 + j) # SlotAt(q, 0) /\ SlotAt(q, 1 + j) \in 0 .. MaxSlot - 1
      BY <1>2, <3>1
    <3>3. SlotAt(r, j) # q.slotHead /\ SlotAt(r, j) = SlotAt(q, 1 + j)
      BY <1>14, <1>15, <3>2
    <3>4. QED
      BY <1>3, <1>6, <1>8, <2>3, <3>2, <3>3
  <2>4. QED
    BY <2>2, <2>3
<1>17. \A k \in 0 .. Live(r) - 1 :
         /\ m + k \in 0 .. L - 1 /\ Held(r, k).package = Held(q, m + k).package
         /\ Held(r, k).delivered <=> Held(q, m + k).package <= q.startIndex
  BY <1>3, <1>12, <1>13
<1>18. Kept(r, c)
  <2>1. ASSUME NEW k \in 0 .. Live(r) - 1
        PROVE  /\ Held(r, k).package \in 1 .. c /\ Held(r, k).package < r.startIndex + MaxSlot
               /\ Held(r, k).delivered <=> Held(r, k).package < r.startIndex
    <3>1. Held(q, m + k).package \in 1 .. c /\ Held(q, m + k).package < q.startIndex + MaxSlot
      BY <1>1, <1>17 DEF Kept, L
    <3>2. QED
      BY <1>2, <1>6, <1>7, <1>17, <3>1
  <2>2. QED
    BY <2>1 DEF Kept
<1>19. Apart(r)
  <2>1. ASSUME NEW j \in 0 .. Live(r) - 1, NEW k \in 0 .. Live(r) - 1, j < k
        PROVE  /\ Held(r, j).package # Held(r, k).package
               /\ Held(r, j).package < Held(r, k).package + MaxSlot
    <3>1. m + j < m + k
      BY <1>7, <1>12, <2>1
    <3>2. QED
      BY <1>1, <1>17, <3>1 DEF Apart, L
  <2>2. QED
    BY <2>1 DEF Apart
<1>20. Leads(r)
  <2>1. ASSUME NEW j \in 0 .. MaxSlot - 1, r.slot[SlotAt(r, j)] # Null
        PROVE  \E k \in 0 .. Live(r) - 1 : r.slot[SlotAt(r, j)] = Spot(r, k) /\ Held(r, k).package = r.startIndex + j
    <3>1. j # MaxSlot - 1 /\ r.slot[SlotAt(r, j)] = q.slot[SlotAt(q, 1 + j)]
      BY <1>16, <2>1
    <3>2. 1 + j \in 0 .. MaxSlot - 1
      BY <1>7, <3>1
    <3>3. PICK k \in 0 .. L - 1 : q.slot[SlotAt(q, 1 + j)] = Spot(q, k) /\ Held(q, k).package = q.startIndex + (1 + j)
      BY <1>1, <2>1, <3>1, <3>2 DEF Leads, L
    <3>4. ~Held(d, k).delivered
      <4>1. ~(Held(q, k).package <= q.startIndex)
        BY <1>2, <3>2, <3>3
      <4>2. QED
        BY <1>3, <4>1
    <3>5. ~(k \in 0 .. m - 1)
      BY <1>4, <3>4
    <3>6. k - m \in 0 .. Live(r) - 1 /\ m + (k - m) = k /\ k - m \in 0 .. L - m
      BY <1>7, <1>10, <3>5
    <3>7. Spot(r, k - m) = Spot(q, k) /\ Held(r, k - m).package = Held(q, k).package
      BY <1>11, <1>17, <3>6
    <3>8. Held(r, k - m).package = r.startIndex + j
      BY <1>2, <1>6, <3>3, <3>7
    <3>9. QED
      BY <3>1, <3>3, <3>6, <3>7, <3>8
  <2>2. QED
    BY <2>1 DEF Leads
<1>21. Found(r)
  <2>1. ASSUME NEW k \in 0 .. Live(r) - 1, Held(r, k).package >= r.startIndex
        PROVE  r.slot[SlotAt(r, Held(r, k).package - r.startIndex)] = Spot(r, k)
    <3> DEFINE j == Held(r, k).package - r.startIndex
    <3>1. /\ m + k \in 0 .. L - 1 /\ Held(r, k).package = Held(q, m + k).package
          /\ Held(q, m + k).package \in Nat /\ Held(q, m + k).package < q.startIndex + MaxSlot
      BY <1>1, <1>17 DEF Kept, L
    <3>2. /\ j \in 0 .. MaxSlot - 1 /\ j # MaxSlot - 1 /\ Held(q, m + k).package - q.startIndex = 1 + j
          /\ Held(q, m + k).package >= q.startIndex
      BY <1>2, <1>6, <1>7, <2>1, <3>1
    <3> HIDE DEF j
    <3>3. q.slot[SlotAt(q, 1 + j)] = Spot(q, m + k)
      <4>1. q.slot[SlotAt(q, Held(q, m + k).package - q.startIndex)] = Spot(q, m + k)
        BY <1>1, <3>1, <3>2 DEF Found, L
      <4>2. QED
        BY <3>2, <4>1
    <3>4. r.slot[SlotAt(r, j)] = q.slot[SlotAt(q, 1 + j)]
      BY <1>16, <3>2
    <3>5. Spot(r, k) = Spot(q, m + k)
      BY <1>11, <1>12
    <3>6. QED
      BY <3>3, <3>4, <3>5 DEF j
  <2>2. QED
    BY <2>1 DEF Found
<1>22. OldestWaits(r)
  <2>1. ASSUME Live(r) > 0
        PROVE  Held(r, 0).package >= r.startIndex
    <3>1. 0 \in 0 .. Live(r) - 1 /\ m # L /\ m \in 0 .. L - 1 /\ m + 0 = m
      BY <1>7, <1>10, <2>1
    <3>2. ~(Held(q, m).package <= q.startIndex)
      BY <1>3, <1>4, <3>1
    <3>3. Held(r, 0).package = Held(q, m).package /\ Held(q, m).package \in Nat
      BY <1>1, <1>17, <3>1 DEF Kept, L
    <3>4. QED
      BY <1>2, <1>6, <3>2, <3>3
  <2>2. QED
    BY <2>1 DEF OldestWaits
<1>23. r.startIndex = q.startIndex + 1 /\ r.startIndex >= 1
  BY <1>2, <1>6
<1>24. QED
  BY <1>9, <1>18, <1>19, <1>20, <1>21, <1>22, <1>23 DEF Ordered, r

\* The queue and the number received of who has all of the first c messages that have
\* come in order.
InOrderUpTo(p, c) == Ordered(p[1], c) /\ p[2] = p[1].startIndex - 1 /\ p[2] \in 0 .. c

\* What waits in front of the queue is the next message.
LEMMA FrontIsNext ==
  ASSUME NEW c \in Nat, NEW q, Ordered(q, c), QueueFront(q) # 0
  PROVE  QueueFront(q) = q.startIndex /\ q.startIndex \in 1 .. c
<1>1. /\ q \in OrderingQueue /\ Kept(q, c) /\ Leads(q) /\ q.startIndex >= 1
  BY DEF Ordered
<1>2. q.slot[q.slotHead] # Null /\ QueueFront(q) = q.item[q.slot[q.slotHead]].package
  BY DEF QueueFront
<1>3. SlotAt(q, 0) = q.slotHead /\ 0 \in 0 .. MaxSlot - 1
  <2>1. 0 \in 0 .. MaxSlot /\ 0 \in 0 .. MaxSlot - 1 /\ MaxSlot \in Nat
    BY Sizes
  <2>2. /\ SlotAt(q, 0) \in 0 .. MaxSlot - 1 /\ SlotAt(q, 0) \in {q.slotHead + 0, q.slotHead + 0 - MaxSlot}
        /\ q.slotHead \in 0 .. MaxSlot - 1
    BY <1>1, <2>1, Spots
  <2>3. ASSUME NEW n \in Nat, NEW h \in 0 .. n - 1, NEW x \in 0 .. n - 1, x = h + 0 \/ x = h + 0 - n
        PROVE  x = h
    BY <2>3
  <2>4. QED
    BY <2>1, <2>2, <2>3
<1>4. PICK k \in 0 .. Live(q) - 1 : q.slot[q.slotHead] = Spot(q, k) /\ Held(q, k).package = q.startIndex + 0
  BY <1>1, <1>2, <1>3 DEF Leads
<1>5. QueueFront(q) = Held(q, k).package /\ Held(q, k).package \in 1 .. c
  BY <1>1, <1>2, <1>4 DEF Held, Kept
<1>6. q.startIndex \in Nat
  BY <1>1, Spots
<1>7. QED
  BY <1>4, <1>5, <1>6

\* The message that comes next, and all that have been waiting for it, are delivered.
LEMMA DrainedKeeps ==
  ASSUME NEW c \in Nat, NEW q, Ordered(q, c), q.startIndex \in 1 .. c, NEW r, r = q.startIndex - 1
  PROVE  InOrderUpTo(Drained(q, r), c)
<1> DEFINE b == <<DeQueue(q), Delivery(r, q.startIndex)>>
           Step(p) == LET n == QueueFront(p[1]) IN IF n = 0 THEN p ELSE <<DeQueue(p[1]), Delivery(p[2], n)>>
           F(h, n) == h = [k \in 0 .. n |-> IF k = 0 THEN b ELSE Step(h[k - 1])]
           T == {n \in Nat : \E h : F(h, n)}
<1>1. 0 \in T
  <2> DEFINE g == [k \in 0 .. 0 |-> b]
  <2>1. F(g, 0)
    <3> HIDE DEF b, Step
    <3>1. \A k \in 0 .. 0 : k = 0
      OBVIOUS
    <3>2. QED
      BY <3>1
  <2> HIDE DEF g, F
  <2>2. QED
    BY <2>1
<1>2. ASSUME NEW n \in Nat, n \in T
      PROVE  n + 1 \in T
  <2>1. PICK h : F(h, n)
    BY <1>2
  <2> DEFINE g == [k \in 0 .. n + 1 |-> IF k = n + 1 THEN Step(h[n]) ELSE h[k]]
  <2> HIDE DEF b, Step
  <2>2. ASSUME NEW k \in 0 .. n + 1
        PROVE  g[k] = IF k = 0 THEN b ELSE Step(g[k - 1])
    <3>1. \A i \in 0 .. n : h[i] = IF i = 0 THEN b ELSE Step(h[i - 1])
      BY <2>1
    <3>2. CASE k = n + 1
      <4>1. k # 0 /\ k - 1 = n /\ n \in 0 .. n + 1 /\ n # n + 1
        BY <3>2
      <4>2. QED
        BY <3>2, <4>1
    <3>3. CASE k # n + 1
      <4>1. k \in 0 .. n /\ (k # 0 => k - 1 \in 0 .. n + 1 /\ k - 1 # n + 1)
        BY <3>3
      <4>2. QED
        BY <3>1, <3>3, <4>1
    <3>4. QED
      BY <3>2, <3>3
  <2>3. F(g, n + 1)
    <3>1. g = [k \in 0 .. n + 1 |-> g[k]]
      OBVIOUS
    <3> HIDE DEF g
    <3>2. QED
      BY <2>2, <3>1
  <2> HIDE DEF g, F
  <2>4. QED
    BY <2>3
<1>3. Nat \subseteq T
  <2> HIDE DEF T
  <2>1. QED
    BY <1>1, <1>2, Induction
<1>4. PICK h : F(h, MaxSlot)
  BY <1>3, Sizes
<1> DEFINE f == CHOOSE g : F(g, MaxSlot)
<1>5. F(f, MaxSlot)
  <2> HIDE DEF F
  <2>1. QED
    BY <1>4
<1>6. Drained(q, r) = f[MaxSlot]
  BY DEF Drained
<1> HIDE DEF f
<1>7. f[0] = b /\ \A k \in 0 .. MaxSlot : k # 0 => f[k] = Step(f[k - 1])
  <2> HIDE DEF b, Step
  <2>1. 0 \in 0 .. MaxSlot
    BY Sizes
  <2>2. QED
    BY <1>5, <2>1
<1> DEFINE U == {n \in Nat : n <= MaxSlot => InOrderUpTo(f[n], c)}
<1>8. 0 \in U
  <2>1. Ordered(DeQueue(q), c) /\ DeQueue(q).startIndex = q.startIndex + 1
    BY DeQueueKeeps
  <2>2. q.startIndex \in Nat
    OBVIOUS
  <2>3. Delivery(r, q.startIndex) = q.startIndex
    BY <2>2 DEF Delivery
  <2>4. b[1] = DeQueue(q) /\ b[2] = q.startIndex
    BY <2>3
  <2> HIDE DEF b
  <2>5. InOrderUpTo(b, c)
    BY <2>1, <2>2, <2>4 DEF InOrderUpTo
  <2>6. QED
    BY <1>7, <2>5
<1>9. ASSUME NEW n \in Nat, n \in U
      PROVE  n + 1 \in U
  <2>1. SUFFICES ASSUME n + 1 <= MaxSlot PROVE InOrderUpTo(f[n + 1], c)
    OBVIOUS
  <2> DEFINE p == f[n]
  <2>2. InOrderUpTo(p, c)
    BY <1>9, <2>1, Sizes
  <2>3. f[n + 1] = Step(p)
    <3>1. n + 1 \in 0 .. MaxSlot /\ n + 1 # 0 /\ n + 1 - 1 = n
      BY <2>1, Sizes
    <3> HIDE DEF Step
    <3>2. QED
      BY <1>7, <3>1
  <2> HIDE DEF p
  <2>4. CASE QueueFront(p[1]) = 0
    BY <2>2, <2>3, <2>4
  <2>5. CASE QueueFront(p[1]) # 0
    <3>1. Ordered(p[1], c) /\ p[2] = p[1].startIndex - 1
      BY <2>2 DEF InOrderUpTo
    <3>2. QueueFront(p[1]) = p[1].startIndex /\ p[1].startIndex \in 1 .. c
      BY <2>5, <3>1, FrontIsNext
    <3>3. Ordered(DeQueue(p[1]), c) /\ DeQueue(p[1]).startIndex = p[1].startIndex + 1
      BY <3>1, DeQueueKeeps
    <3>4. p[1].startIndex \in Nat
      BY <3>2
    <3>5. Delivery(p[2], QueueFront(p[1])) = p[1].startIndex
      BY <3>1, <3>2, <3>4 DEF Delivery
    <3>6. Step(p) = <<DeQueue(p[1]), p[1].startIndex>>
      BY <2>5, <3>5
    <3>7. Step(p)[1] = DeQueue(p[1]) /\ Step(p)[2] = p[1].startIndex
      BY <3>6
    <3> HIDE DEF Step
    <3>8. InOrderUpTo(Step(p), c)
      BY <3>2, <3>3, <3>4, <3>7 DEF InOrderUpTo
    <3>9. QED
      BY <2>3, <3>8
  <2>6. QED
    BY <2>4, <2>5
<1>10. Nat \subseteq U
  <2> HIDE DEF U
  <2>1. QED
    BY <1>8, <1>9, Induction
<1>11. MaxSlot \in U /\ MaxSlot <= MaxSlot
  <2>1. MaxSlot \in Nat /\ MaxSlot <= MaxSlot
    BY Sizes
  <2> HIDE DEF U
  <2>2. QED
    BY <1>10, <2>1
<1>12. QED
  BY <1>6, <1>11

\* A queue that begins anew.
LEMMA FreshOrdered ==
  ASSUME NEW c \in Nat, NEW n \in Nat \ {0}
  PROVE  Ordered(SetStartIndex(n), c) /\ SetStartIndex(n).startIndex = n
<1> DEFINE q == SetStartIndex(n)
<1>1. /\ q.slot = [i \in 0 .. MaxSlot - 1 |-> Null] /\ q.itemHead = 0 /\ q.itemTail = 0 /\ q.startIndex = n
      /\ q.slotHead = 0
  BY DEF SetStartIndex
<1>2. q \in OrderingQueue
  <2>1. Free \in [package : Nat, delivered : BOOLEAN] /\ 0 \in 0 .. MaxSlot - 1 /\ 0 \in 0 .. MaxDataItem - 1
    BY Sizes DEF Free
  <2>2. QED
    BY <2>1 DEF SetStartIndex, OrderingQueue
<1> HIDE DEF q
<1>3. Live(q) = 0
  <2>1. (0 - 0) % MaxDataItem \in 0 .. MaxDataItem - 1 /\ (0 - 0) % MaxDataItem \in {0 - 0, 0 - 0 + MaxDataItem}
    <3>1. 0 \in 0 .. MaxDataItem - 1
      BY Sizes
    <3>2. QED
      BY <3>1, Sizes, Ring
  <2>2. (0 - 0) % MaxDataItem = 0
    BY <2>1, Sizes
  <2>3. QED
    BY <1>1, <2>2 DEF Live
<1>4. 0 .. Live(q) - 1 = {}
  BY <1>3
<1>5. Kept(q, c) /\ Apart(q) /\ Found(q) /\ OldestWaits(q)
  BY <1>3, <1>4 DEF Kept, Apart, Found, OldestWaits
<1>6. Leads(q)
  <2>1. \A j \in 0 .. MaxSlot - 1 : q.slot[SlotAt(q, j)] = Null
    <3>1. SUFFICES ASSUME NEW j \in 0 .. MaxSlot - 1 PROVE q.slot[SlotAt(q, j)] = Null
      OBVIOUS
    <3>2. j \in 0 .. MaxSlot
      BY Sizes
    <3>3. SlotAt(q, j) \in 0 .. MaxSlot - 1
      BY <1>2, <3>2, Spots
    <3>4. QED
      BY <1>1, <3>3
  <2>2. QED
    BY <2>1 DEF Leads
<1>7. QED
  BY <1>1, <1>2, <1>5, <1>6 DEF Ordered, q

\* A message more in the flow changes nothing here.
LEMMA OrderedGrows ==
  ASSUME NEW c \in Nat, NEW q, Ordered(q, c)
  PROVE  Ordered(q, c + 1)
<1>1. \A k \in 0 .. Live(q) - 1 : Held(q, k).package \in 1 .. c => Held(q, k).package \in 1 .. c + 1
  OBVIOUS
<1>2. QED
  BY <1>1 DEF Ordered, Kept

LEMMA OrderedSlots ==
  ASSUME NEW c \in Nat, NEW q, Ordered(q, c)
  PROVE  SlotsRight(q)
<1>1. /\ q \in OrderingQueue /\ Kept(q, c) /\ Leads(q) /\ q.startIndex \in Nat
  BY Spots DEF Ordered
<1>2. ASSUME NEW j \in 0 .. MaxSlot - 1, q.slot[SlotAt(q, j)] # Null
      PROVE  q.item[q.slot[SlotAt(q, j)]] = [package |-> q.startIndex + j, delivered |-> FALSE]
  <2>1. PICK k \in 0 .. Live(q) - 1 : q.slot[SlotAt(q, j)] = Spot(q, k) /\ Held(q, k).package = q.startIndex + j
    BY <1>1, <1>2 DEF Leads
  <2>2. Held(q, k) \in [package : Nat, delivered : BOOLEAN]
    <3>1. /\ \A x \in 0 .. MaxDataItem - 1 : q.item[x] \in [package : Nat, delivered : BOOLEAN]
          /\ Live(q) \in 0 .. MaxDataItem - 1 /\ \A x \in 0 .. MaxDataItem : Spot(q, x) \in 0 .. MaxDataItem - 1
      BY <1>1, Spots
    <3>2. k \in 0 .. MaxDataItem
      BY <3>1, Sizes
    <3>3. QED
      BY <3>1, <3>2 DEF Held
  <2>3. ~(Held(q, k).package < q.startIndex)
    BY <1>1, <2>1
  <2>4. Held(q, k).delivered = FALSE
    <3>1. Held(q, k).delivered <=> Held(q, k).package < q.startIndex
      BY <1>1 DEF Kept
    <3>2. QED
      BY <2>2, <2>3, <3>1
  <2>5. Held(q, k) = [package |-> q.startIndex + j, delivered |-> FALSE]
    BY <2>1, <2>2, <2>4
  <2>6. QED
    BY <2>1, <2>5 DEF Held
<1>3. QED
  BY <1>2 DEF SlotsRight, SlotAt

-----------------------------------------------------------------------------
(* The ports of a publisher.  A port serves the set On of subscribers.     *)

LEMMA Removed ==
  ASSUME NEW S, NEW q \in Seq(S), NEW i \in 1 .. Len(q)
  PROVE  /\ RemoveAt(q, i) \in Seq(S) /\ Len(RemoveAt(q, i)) = Len(q) - 1 /\ Len(q) \in Nat
         /\ \A k \in 1 .. Len(q) - 1 : RemoveAt(q, i)[k] = q[IF k < i THEN k ELSE k + 1]
<1> DEFINE n == Len(q)
           a == SubSeq(q, 1, i - 1)
           b == SubSeq(q, i + 1, n)
<1>1. n \in Nat /\ \A k \in 1 .. n : q[k] \in S
  BY LenProperties, ElementOfSeq
<1> HIDE DEF n
<1>2. /\ a \in Seq(S) /\ Len(a) = i - 1 /\ \A k \in 1 .. i - 1 : a[k] = q[k]
  <2>1. 1 \in Int /\ i - 1 \in Int /\ \A k \in 1 .. i - 1 : q[k] \in S
    BY <1>1 DEF n
  <2>2. /\ SubSeq(q, 1, i - 1) \in Seq(S) /\ Len(SubSeq(q, 1, i - 1)) = IF 1 <= i - 1 THEN i - 1 - 1 + 1 ELSE 0
        /\ \A k \in 1 .. i - 1 - 1 + 1 : SubSeq(q, 1, i - 1)[k] = q[1 + k - 1]
    BY <2>1, SubSeqProperties
  <2>3. QED
    BY <1>1, <2>2 DEF n
<1>3. /\ b \in Seq(S) /\ Len(b) = n - i /\ \A k \in 1 .. n - i : b[k] = q[i + k]
  <2>1. i + 1 \in Int /\ n \in Int /\ \A k \in i + 1 .. n : q[k] \in S
    BY <1>1 DEF n
  <2>2. /\ SubSeq(q, i + 1, n) \in Seq(S) /\ Len(SubSeq(q, i + 1, n)) = IF i + 1 <= n THEN n - (i + 1) + 1 ELSE 0
        /\ \A k \in 1 .. n - (i + 1) + 1 : SubSeq(q, i + 1, n)[k] = q[i + 1 + k - 1]
    BY <2>1, SubSeqProperties
  <2>3. QED
    BY <1>1, <2>2 DEF n
<1>4. RemoveAt(q, i) = a \o b
  BY DEF RemoveAt, n
<1> HIDE DEF a, b
<1>5. /\ a \o b \in Seq(S) /\ Len(a \o b) = Len(a) + Len(b)
      /\ \A k \in 1 .. Len(a) + Len(b) : (a \o b)[k] = IF k <= Len(a) THEN a[k] ELSE b[k - Len(a)]
  BY <1>2, <1>3, ConcatProperties
<1>6. Len(a) + Len(b) = n - 1
  BY <1>1, <1>2, <1>3
<1>7. ASSUME NEW k \in 1 .. n - 1
      PROVE  (a \o b)[k] = q[IF k < i THEN k ELSE k + 1]
  <2>1. (a \o b)[k] = IF k <= i - 1 THEN a[k] ELSE b[k - (i - 1)]
    BY <1>2, <1>5, <1>6
  <2>2. CASE k < i
    <3>1. k <= i - 1 /\ k \in 1 .. i - 1
      BY <1>1, <2>2 DEF n
    <3>2. QED
      BY <1>2, <2>1, <2>2, <3>1
  <2>3. CASE ~(k < i)
    <3>1. ~(k <= i - 1) /\ k - (i - 1) \in 1 .. n - i /\ i + (k - (i - 1)) = k + 1
      BY <1>1, <2>3 DEF n
    <3>2. QED
      BY <1>3, <2>1, <2>3, <3>1
  <2>4. QED
    BY <2>2, <2>3
<1>8. QED
  BY <1>1, <1>4, <1>5, <1>6, <1>7 DEF n

LEMMA FirstIn ==
  ASSUME NEW S, S \subseteq Nat, S # {}
  PROVE  First(S) \in S
<1>1. \E i \in S : \A j \in S : i <= j
  BY Least
<1>2. QED
  BY <1>1 DEF First

On(p) == {p.subscribers[k] : k \in DOMAIN p.subscribers}
Distinct(q) == \A k, l \in DOMAIN q : q[k] = q[l] => k = l

\* Everybody is served once: the ports' sets are disjoint, and no port lists twice.
Parted(ps) ==
  /\ ps \in Seq(Port)
  /\ \A i \in DOMAIN ps : Distinct(ps[i].subscribers)
  /\ \A i, j \in DOMAIN ps : i # j => On(ps[i]) \intersect On(ps[j]) = {}

LEMMA PartedFacts ==
  ASSUME NEW ps, Parted(ps)
  PROVE  /\ ps \in Seq(Port) /\ Len(ps) \in Nat /\ DOMAIN ps = 1 .. Len(ps)
         /\ \A i \in 1 .. Len(ps) : ps[i] \in Port /\ Distinct(ps[i].subscribers) /\ On(ps[i]) \subseteq Subscriber
         /\ \A i, j \in 1 .. Len(ps) : i # j => On(ps[i]) \intersect On(ps[j]) = {}
         /\ \A s : Serving(ps, s) = {i \in 1 .. Len(ps) : s \in On(ps[i])}
<1>1. ps \in Seq(Port) /\ Len(ps) \in Nat /\ DOMAIN ps = 1 .. Len(ps)
  BY LenProperties DEF Parted
<1>2. \A i \in 1 .. Len(ps) : ps[i] \in Port
  BY <1>1, ElementOfSeq
<1>3. ASSUME NEW p \in Port
      PROVE  On(p) \subseteq Subscriber
  <2>1. p.subscribers \in Seq(Subscriber)
    BY DEF Port
  <2>2. \A k \in DOMAIN p.subscribers : p.subscribers[k] \in Subscriber
    BY <2>1, LenProperties
  <2>3. QED
    BY <2>2 DEF On
<1>4. \A s : Serving(ps, s) = {i \in 1 .. Len(ps) : s \in On(ps[i])}
  BY <1>1 DEF Serving, Serves, On
<1>5. QED
  BY <1>1, <1>2, <1>3, <1>4 DEF Parted

LEMMA Added ==
  ASSUME NEW p \in Port, Distinct(p.subscribers), NEW s \in Subscriber, s \notin On(p)
  PROVE  /\ AddSubscriber(p, s) \in Port /\ Distinct(AddSubscriber(p, s).subscribers)
         /\ On(AddSubscriber(p, s)) = On(p) \union {s}
<1> DEFINE q == p.subscribers
           t == Append(q, s)
<1>1. q \in Seq(Subscriber) /\ p.next \in 0 .. MaxPublished
  BY DEF Port
<1>2. Len(q) \in Nat /\ DOMAIN q = 1 .. Len(q)
  BY <1>1, LenProperties
<1>3. /\ t \in Seq(Subscriber) /\ Len(t) = Len(q) + 1 /\ t[Len(q) + 1] = s
      /\ \A k \in 1 .. Len(q) : t[k] = q[k]
  BY <1>1, AppendProperties
<1>4. DOMAIN t = 1 .. Len(q) + 1
  BY <1>3, LenProperties
<1>5. AddSubscriber(p, s) = [p EXCEPT !.subscribers = t]
  BY DEF AddSubscriber
<1> HIDE DEF t
<1>6. AddSubscriber(p, s) \in Port /\ AddSubscriber(p, s).subscribers = t
  BY <1>3, <1>5 DEF Port
<1> HIDE DEF q
<1>7. \A k \in DOMAIN q : q[k] # s
  BY DEF On, q
<1>8. Distinct(t)
  <2>1. SUFFICES ASSUME NEW k \in DOMAIN t, NEW l \in DOMAIN t, t[k] = t[l] PROVE k = l
    BY DEF Distinct
  <2>2. /\ k = Len(q) + 1 \/ k \in DOMAIN q
        /\ l = Len(q) + 1 \/ l \in DOMAIN q
    BY <1>2, <1>4
  <2>3. \A x, y \in DOMAIN q : q[x] = q[y] => x = y
    BY DEF Distinct, q
  <2>4. QED
    BY <1>2, <1>3, <1>7, <2>1, <2>2, <2>3
<1>9. {t[k] : k \in DOMAIN t} = {q[k] : k \in DOMAIN q} \union {s}
  <2>1. \A k \in DOMAIN q : k \in DOMAIN t /\ t[k] = q[k]
    BY <1>2, <1>3, <1>4
  <2>2. \A k \in DOMAIN t : k = Len(q) + 1 \/ k \in DOMAIN q
    BY <1>2, <1>4
  <2>3. Len(q) + 1 \in DOMAIN t
    BY <1>2, <1>4
  <2>4. QED
    BY <1>3, <2>1, <2>2, <2>3
<1>10. QED
  BY <1>6, <1>8, <1>9 DEF On, q

LEMMA Deleted ==
  ASSUME NEW p \in Port, Distinct(p.subscribers), NEW s \in On(p)
  PROVE  /\ DelSubscriber(p, s) \in Port /\ Distinct(DelSubscriber(p, s).subscribers)
         /\ On(DelSubscriber(p, s)) = On(p) \ {s}
<1> DEFINE q == p.subscribers
           S == {i \in DOMAIN q : q[i] = s}
           f == First(S)
           t == RemoveAt(q, f)
<1>1. q \in Seq(Subscriber) /\ p.next \in 0 .. MaxPublished
  BY DEF Port
<1>2. Len(q) \in Nat /\ DOMAIN q = 1 .. Len(q)
  BY <1>1, LenProperties
<1>3. DelSubscriber(p, s) = [p EXCEPT !.subscribers = t]
  BY DEF DelSubscriber
<1>4. S \subseteq Nat /\ S # {}
  <2>1. \E i \in DOMAIN q : q[i] = s
    BY DEF On
  <2>2. QED
    BY <1>2, <2>1
<1>5. f \in DOMAIN q /\ q[f] = s
  <2>1. f \in S
    <3> HIDE DEF S
    <3>1. QED
      BY <1>4, FirstIn
  <2>2. QED
    BY <2>1
<1> HIDE DEF f
<1>6. /\ t \in Seq(Subscriber) /\ Len(t) = Len(q) - 1
      /\ \A k \in 1 .. Len(q) - 1 : t[k] = q[IF k < f THEN k ELSE k + 1]
  BY <1>1, <1>2, <1>5, Removed
<1>7. DOMAIN t = 1 .. Len(q) - 1
  <2> HIDE DEF t
  <2>1. QED
    BY <1>6, LenProperties
<1> HIDE DEF t
<1>8. DelSubscriber(p, s) \in Port /\ DelSubscriber(p, s).subscribers = t
  BY <1>3, <1>6 DEF Port
<1>9. \A x, y \in DOMAIN q : q[x] = q[y] => x = y
  BY DEF Distinct
<1> HIDE DEF q
<1> DEFINE g(k) == IF k < f THEN k ELSE k + 1
<1>10. /\ \A k \in DOMAIN t : g(k) \in DOMAIN q /\ g(k) # f /\ t[k] = q[g(k)]
       /\ \A k, l \in DOMAIN t : g(k) = g(l) => k = l
  BY <1>2, <1>5, <1>6, <1>7
<1>11. \A x \in DOMAIN q : x # f => \E k \in DOMAIN t : g(k) = x
  <2>1. SUFFICES ASSUME NEW x \in DOMAIN q, x # f PROVE \E k \in DOMAIN t : g(k) = x
    OBVIOUS
  <2>2. CASE x < f
    <3>1. x \in DOMAIN t /\ g(x) = x
      BY <1>2, <1>5, <1>7, <2>1, <2>2
    <3>2. QED
      BY <3>1
  <2>3. CASE ~(x < f)
    <3>1. x - 1 \in DOMAIN t /\ g(x - 1) = x
      BY <1>2, <1>5, <1>7, <2>1, <2>3
    <3>2. QED
      BY <3>1
  <2>4. QED
    BY <2>2, <2>3
<1> HIDE DEF g
<1>12. Distinct(t)
  BY <1>9, <1>10 DEF Distinct
<1>13. {t[k] : k \in DOMAIN t} = {q[k] : k \in DOMAIN q} \ {s}
  <2>1. ASSUME NEW k \in DOMAIN t
        PROVE  t[k] \in {q[x] : x \in DOMAIN q} \ {s}
    BY <1>5, <1>9, <1>10
  <2>2. ASSUME NEW x \in DOMAIN q, q[x] # s
        PROVE  q[x] \in {t[k] : k \in DOMAIN t}
    <3>1. PICK k \in DOMAIN t : g(k) = x
      BY <1>5, <1>11, <2>2
    <3>2. QED
      BY <1>10, <3>1
  <2>3. QED
    BY <2>1, <2>2
<1>14. QED
  BY <1>8, <1>12, <1>13 DEF On, q

LEMMA Joint ==
  ASSUME NEW p \in Port, NEW o \in Port, Distinct(p.subscribers), Distinct(o.subscribers),
         On(p) \intersect On(o) = {},
         NEW u, u = [p EXCEPT !.subscribers = p.subscribers \o o.subscribers]
  PROVE  u \in Port /\ Distinct(u.subscribers) /\ On(u) = On(p) \union On(o)
<1> DEFINE a == p.subscribers
           b == o.subscribers
           t == a \o b
<1>1. a \in Seq(Subscriber) /\ b \in Seq(Subscriber)
  BY DEF Port
<1>2. Len(a) \in Nat /\ DOMAIN a = 1 .. Len(a) /\ Len(b) \in Nat /\ DOMAIN b = 1 .. Len(b)
  BY <1>1, LenProperties
<1>3. /\ t \in Seq(Subscriber) /\ Len(t) = Len(a) + Len(b)
      /\ \A i \in 1 .. Len(a) + Len(b) : t[i] = IF i <= Len(a) THEN a[i] ELSE b[i - Len(a)]
  BY <1>1, ConcatProperties
<1>4. DOMAIN t = 1 .. Len(a) + Len(b)
  <2> HIDE DEF t
  <2>1. QED
    BY <1>3, LenProperties
<1> HIDE DEF t
<1>5. u \in Port /\ u.subscribers = t
  BY <1>3 DEF Port, t
<1>6. /\ \A x, y \in DOMAIN a : a[x] = a[y] => x = y
      /\ \A x, y \in DOMAIN b : b[x] = b[y] => x = y
      /\ \A x \in DOMAIN a, y \in DOMAIN b : a[x] # b[y]
  BY DEF Distinct, On
<1> HIDE DEF a, b
<1>7. \A i \in DOMAIN t : \/ i \in DOMAIN a /\ t[i] = a[i]
                          \/ i > Len(a) /\ i - Len(a) \in DOMAIN b /\ t[i] = b[i - Len(a)]
  BY <1>2, <1>3, <1>4
<1>8. Distinct(t)
  <2>1. SUFFICES ASSUME NEW k \in DOMAIN t, NEW l \in DOMAIN t, t[k] = t[l] PROVE k = l
    BY DEF Distinct
  <2>2. k \in Int /\ l \in Int /\ Len(a) \in Int
    BY <1>2, <1>4
  <2>3. CASE k \in DOMAIN a /\ t[k] = a[k]
    BY <1>6, <1>7, <2>1, <2>3
  <2>4. CASE k > Len(a) /\ k - Len(a) \in DOMAIN b /\ t[k] = b[k - Len(a)]
    <3>1. l - Len(a) \in DOMAIN b /\ t[l] = b[l - Len(a)]
      BY <1>6, <1>7, <2>1, <2>4
    <3>2. k - Len(a) = l - Len(a)
      BY <1>6, <2>1, <2>4, <3>1
    <3>3. QED
      BY <2>2, <3>2
  <2>5. QED
    BY <1>7, <2>3, <2>4
<1>9. {t[k] : k \in DOMAIN t} = {a[k] : k \in DOMAIN a} \union {b[k] : k \in DOMAIN b}
  <2>1. ASSUME NEW k \in DOMAIN t
        PROVE  t[k] \in {a[x] : x \in DOMAIN a} \union {b[x] : x \in DOMAIN b}
    BY <1>7
  <2>2. ASSUME NEW x \in DOMAIN a
        PROVE  a[x] \in {t[k] : k \in DOMAIN t}
    <3>1. x \in DOMAIN t /\ t[x] = a[x]
      BY <1>2, <1>3, <1>4
    <3>2. QED
      BY <3>1
  <2>3. ASSUME NEW x \in DOMAIN b
        PROVE  b[x] \in {t[k] : k \in DOMAIN t}
    <3>1. Len(a) + x \in DOMAIN t /\ Len(a) + x - Len(a) = x /\ ~(Len(a) + x <= Len(a))
      BY <1>2, <1>4
    <3>2. t[Len(a) + x] = b[x]
      BY <1>3, <1>4, <3>1
    <3>3. QED
      BY <3>1, <3>2
  <2>4. QED
    BY <2>1, <2>2, <2>3
<1>10. QED
  BY <1>5, <1>8, <1>9 DEF On, a, b

Replaced(ps, i, p) == [ps EXCEPT ![i] = p]

LEMMA PartedReplace ==
  ASSUME NEW ps, Parted(ps), NEW i \in 1 .. Len(ps), NEW p \in Port, Distinct(p.subscribers),
         \A s \in On(p) : s \in On(ps[i]) \/ Serving(ps, s) = {}
  PROVE  /\ Parted(Replaced(ps, i, p)) /\ Len(Replaced(ps, i, p)) = Len(ps)
         /\ Replaced(ps, i, p)[i] = p /\ \A j \in 1 .. Len(ps) : j # i => Replaced(ps, i, p)[j] = ps[j]
<1> DEFINE t == Replaced(ps, i, p)
<1>1. /\ ps \in Seq(Port) /\ Len(ps) \in Nat /\ DOMAIN ps = 1 .. Len(ps)
      /\ \A j \in 1 .. Len(ps) : Distinct(ps[j].subscribers)
      /\ \A j, k \in 1 .. Len(ps) : j # k => On(ps[j]) \intersect On(ps[k]) = {}
      /\ \A s : Serving(ps, s) = {j \in 1 .. Len(ps) : s \in On(ps[j])}
  BY PartedFacts
<1>2. /\ t \in Seq(Port) /\ Len(t) = Len(ps)
      /\ \A j \in 1 .. Len(ps) : t[j] = IF j = i THEN p ELSE ps[j]
  BY <1>1, ExceptSeq DEF Replaced
<1> HIDE DEF t
<1>3. DOMAIN t = 1 .. Len(ps)
  BY <1>2, LenProperties
<1>4. ASSUME NEW j \in DOMAIN t
      PROVE  Distinct(t[j].subscribers)
  BY <1>1, <1>2, <1>3
<1>5. ASSUME NEW j \in 1 .. Len(ps), j # i
      PROVE  On(p) \intersect On(ps[j]) = {}
  <2>1. SUFFICES ASSUME NEW s \in On(p), s \in On(ps[j]) PROVE FALSE
    OBVIOUS
  <2>2. j \in Serving(ps, s)
    BY <1>1, <2>1
  <2>3. s \in On(ps[i])
    BY <2>1, <2>2
  <2>4. QED
    BY <1>1, <1>5, <2>1, <2>3
<1>6. ASSUME NEW j \in DOMAIN t, NEW k \in DOMAIN t, j # k
      PROVE  On(t[j]) \intersect On(t[k]) = {}
  <2>1. CASE j = i
    <3>1. t[j] = p /\ t[k] = ps[k] /\ k # i /\ k \in 1 .. Len(ps)
      BY <1>2, <1>3, <1>6, <2>1
    <3>2. QED
      BY <1>5, <3>1
  <2>2. CASE k = i
    <3>1. t[k] = p /\ t[j] = ps[j] /\ j # i /\ j \in 1 .. Len(ps)
      BY <1>2, <1>3, <1>6, <2>2
    <3>2. QED
      BY <1>5, <3>1
  <2>3. CASE j # i /\ k # i
    BY <1>1, <1>2, <1>3, <1>6, <2>3
  <2>4. QED
    BY <2>1, <2>2, <2>3
<1>7. Parted(t) /\ Len(t) = Len(ps) /\ t[i] = p /\ \A j \in 1 .. Len(ps) : j # i => t[j] = ps[j]
  BY <1>2, <1>4, <1>6 DEF Parted
<1>8. QED
  BY <1>7 DEF t

LEMMA PartedReindex ==
  ASSUME NEW ps, Parted(ps), NEW n \in Nat, NEW f \in [1 .. n -> 1 .. Len(ps)],
         \A j, k \in 1 .. n : f[j] = f[k] => j = k,
         NEW t \in Seq(Port), Len(t) = n, \A k \in 1 .. n : t[k] = ps[f[k]]
  PROVE  Parted(t)
<1>1. DOMAIN t = 1 .. n
  BY LenProperties
<1>2. /\ \A j \in 1 .. Len(ps) : Distinct(ps[j].subscribers)
      /\ \A j, k \in 1 .. Len(ps) : j # k => On(ps[j]) \intersect On(ps[k]) = {}
  BY PartedFacts
<1>3. ASSUME NEW j \in DOMAIN t
      PROVE  Distinct(t[j].subscribers)
  BY <1>1, <1>2
<1>4. ASSUME NEW j \in DOMAIN t, NEW k \in DOMAIN t, j # k
      PROVE  On(t[j]) \intersect On(t[k]) = {}
  <2>1. f[j] \in 1 .. Len(ps) /\ f[k] \in 1 .. Len(ps) /\ f[j] # f[k] /\ t[j] = ps[f[j]] /\ t[k] = ps[f[k]]
    BY <1>1, <1>4
  <2>2. QED
    BY <1>2, <2>1
<1>5. QED
  BY <1>3, <1>4 DEF Parted

LEMMA PartedRemoved ==
  ASSUME NEW ps, Parted(ps), NEW i \in 1 .. Len(ps)
  PROVE  /\ Parted(RemoveAt(ps, i)) /\ Len(RemoveAt(ps, i)) = Len(ps) - 1
         /\ \A k \in 1 .. Len(ps) - 1 : RemoveAt(ps, i)[k] = ps[IF k < i THEN k ELSE k + 1]
         /\ \A s : s \in On(ps[i]) => Serving(RemoveAt(ps, i), s) = {}
<1> DEFINE t == RemoveAt(ps, i)
           f == [k \in 1 .. Len(ps) - 1 |-> IF k < i THEN k ELSE k + 1]
<1>1. ps \in Seq(Port) /\ Len(ps) \in Nat
  BY PartedFacts
<1>2. /\ t \in Seq(Port) /\ Len(t) = Len(ps) - 1
      /\ \A k \in 1 .. Len(ps) - 1 : t[k] = ps[IF k < i THEN k ELSE k + 1]
  BY <1>1, Removed
<1> HIDE DEF t
<1>3. /\ f \in [1 .. Len(ps) - 1 -> 1 .. Len(ps)]
      /\ \A k \in 1 .. Len(ps) - 1 : f[k] = (IF k < i THEN k ELSE k + 1) /\ f[k] # i
  BY <1>1
<1> HIDE DEF f
<1>4. \A j, k \in 1 .. Len(ps) - 1 : f[j] = f[k] => j = k
  BY <1>1, <1>3
<1>5. \A k \in 1 .. Len(ps) - 1 : t[k] = ps[f[k]]
  BY <1>2, <1>3
<1>6. Len(ps) - 1 \in Nat
  BY <1>1
<1>7. Parted(t)
  BY <1>2, <1>3, <1>4, <1>5, <1>6, PartedReindex
<1>8. ASSUME NEW s, s \in On(ps[i])
      PROVE  Serving(t, s) = {}
  <2>1. Serving(t, s) = {k \in 1 .. Len(ps) - 1 : s \in On(t[k])}
    BY <1>2, <1>7, PartedFacts
  <2>2. ASSUME NEW k \in 1 .. Len(ps) - 1, s \in On(t[k])
        PROVE  FALSE
    <3>1. f[k] \in 1 .. Len(ps) /\ f[k] # i /\ t[k] = ps[f[k]]
      BY <1>3, <1>5
    <3>2. On(ps[f[k]]) \intersect On(ps[i]) = {}
      BY <3>1, PartedFacts
    <3>3. QED
      BY <1>8, <2>2, <3>1, <3>2
  <2>3. QED
    BY <2>1, <2>2
<1>9. QED
  BY <1>2, <1>7, <1>8 DEF t

LEMMA PartedAppend ==
  ASSUME NEW ps, Parted(ps), NEW p \in Port, Distinct(p.subscribers),
         \A s \in On(p) : Serving(ps, s) = {}
  PROVE  Parted(Append(ps, p)) /\ Len(Append(ps, p)) = Len(ps) + 1
<1> DEFINE t == Append(ps, p)
<1>1. /\ ps \in Seq(Port) /\ Len(ps) \in Nat
      /\ \A j \in 1 .. Len(ps) : Distinct(ps[j].subscribers)
      /\ \A j, k \in 1 .. Len(ps) : j # k => On(ps[j]) \intersect On(ps[k]) = {}
      /\ \A s : Serving(ps, s) = {j \in 1 .. Len(ps) : s \in On(ps[j])}
  BY PartedFacts
<1>2. /\ t \in Seq(Port) /\ Len(t) = Len(ps) + 1 /\ t[Len(ps) + 1] = p
      /\ \A j \in 1 .. Len(ps) : t[j] = ps[j]
  BY <1>1, AppendProperties
<1> HIDE DEF t
<1>3. DOMAIN t = 1 .. Len(ps) + 1
  BY <1>2, LenProperties
<1>4. \A j \in DOMAIN t : j = Len(ps) + 1 \/ j \in 1 .. Len(ps)
  BY <1>1, <1>3
<1>5. \A j \in 1 .. Len(ps) : On(p) \intersect On(ps[j]) = {}
  BY <1>1
<1>6. ASSUME NEW j \in DOMAIN t
      PROVE  Distinct(t[j].subscribers)
  BY <1>1, <1>2, <1>4
<1>7. ASSUME NEW j \in DOMAIN t, NEW k \in DOMAIN t, j # k
      PROVE  On(t[j]) \intersect On(t[k]) = {}
  BY <1>1, <1>2, <1>4, <1>5, <1>7
<1>8. QED
  BY <1>2, <1>6, <1>7 DEF Parted, t

\* Among the ports before a number, or from it on, one is nearest.
LEMMA NearestPort ==
  ASSUME NEW ps \in Seq(Port), NEW id \in Nat, Len(ps) # 0
  PROVE  Behind(ps, id) # {} \/ Ahead(ps, id) # {}
<1>1. Len(ps) \in Nat /\ DOMAIN ps = 1 .. Len(ps) /\ 1 \in DOMAIN ps
  BY LenProperties
<1>2. \A j \in DOMAIN ps : ps[j].next \in Nat
  <2>1. \A j \in DOMAIN ps : ps[j] \in Port
    BY <1>1, ElementOfSeq
  <2>2. MaxPublished \in Nat
    BY MulticastBounds
  <2>3. QED
    BY <2>1, <2>2 DEF Port
<1>3. CASE \E j \in DOMAIN ps : ps[j].next < id
  <2> DEFINE T == {id - ps[j].next : j \in {i \in DOMAIN ps : ps[i].next < id}}
  <2>1. T \subseteq Nat /\ T # {}
    BY <1>2, <1>3
  <2>2. PICK n \in T : \A m \in T : n <= m
    BY <2>1, Least
  <2>3. PICK i \in DOMAIN ps : ps[i].next < id /\ n = id - ps[i].next
    BY <2>2
  <2>4. \A j \in DOMAIN ps : ps[j].next < id => ps[j].next <= ps[i].next
    <3>1. SUFFICES ASSUME NEW j \in DOMAIN ps, ps[j].next < id PROVE ps[j].next <= ps[i].next
      OBVIOUS
    <3>2. id - ps[j].next \in T
      BY <3>1
    <3>3. id - ps[i].next <= id - ps[j].next
      BY <2>2, <2>3, <3>2
    <3>4. QED
      BY <1>2, <3>3
  <2>5. QED
    BY <2>3, <2>4 DEF Behind
<1>4. CASE ~\E j \in DOMAIN ps : ps[j].next < id
  <2> DEFINE T == {ps[j].next : j \in DOMAIN ps}
  <2>1. T \subseteq Nat /\ T # {}
    BY <1>1, <1>2
  <2>2. PICK n \in T : \A m \in T : n <= m
    BY <2>1, Least
  <2>3. PICK i \in DOMAIN ps : n = ps[i].next
    BY <2>2
  <2>4. ps[i].next >= id /\ \A j \in DOMAIN ps : ps[j].next >= ps[i].next
    BY <1>2, <1>4, <2>2, <2>3
  <2>5. QED
    BY <2>4 DEF Ahead
<1>5. QED
  BY <1>3, <1>4

LEMMA MovedPort ==
  ASSUME NEW p \in Port, NEW id \in 0 .. MaxPublished
  PROVE  MoveTo(p, id) \in Port /\ MoveTo(p, id).subscribers = p.subscribers /\ On(MoveTo(p, id)) = On(p)
BY DEF MoveTo, Port, On

LEMMA JoinedParted ==
  ASSUME NEW ps, Parted(ps), Len(ps) <= MaxPorts, NEW s \in Subscriber, Serving(ps, s) = {},
         NEW id \in 0 .. MaxPublished
  PROVE  Parted(Joined(ps, s, id)) /\ Len(Joined(ps, s, id)) <= MaxPorts
<1> DEFINE back == Behind(ps, id)
           front == Ahead(ps, id)
           nearBack == back # {} /\ id - ps[First(back)].next <= Distance
           nearFront == front # {} /\ ps[First(front)].next - id <= Distance
           toBack == nearBack \/ (~nearFront /\ Full(ps) /\ back # {})
           toFront == ~toBack /\ (nearFront \/ Full(ps))
           x == First(back)
           y == First(front)
<1>1. /\ ps \in Seq(Port) /\ Len(ps) \in Nat /\ DOMAIN ps = 1 .. Len(ps)
      /\ \A i \in 1 .. Len(ps) : ps[i] \in Port /\ Distinct(ps[i].subscribers)
      /\ Serving(ps, s) = {i \in 1 .. Len(ps) : s \in On(ps[i])}
  BY PartedFacts
<1>2. \A i \in 1 .. Len(ps) : s \notin On(ps[i])
  BY <1>1
<1>3. back # {} => x \in 1 .. Len(ps)
  <2>1. back \subseteq 1 .. Len(ps) /\ back \subseteq Nat
    BY <1>1 DEF Behind
  <2> HIDE DEF back
  <2>2. QED
    BY <2>1, FirstIn
<1>4. front # {} => y \in 1 .. Len(ps)
  <2>1. front \subseteq 1 .. Len(ps) /\ front \subseteq Nat
    BY <1>1 DEF Ahead
  <2> HIDE DEF front
  <2>2. QED
    BY <2>1, FirstIn
<1>5. MaxPorts \in Nat \ {0} /\ id \in Nat
  <2>1. MaxPublished \in Nat
    BY MulticastBounds
  <2>2. QED
    BY MulticastBounds
<1>6. Joined(ps, s, id) = IF toBack THEN [ps EXCEPT ![x] = AddSubscriber(@, s)]
                          ELSE IF toFront THEN [ps EXCEPT ![y] = MoveTo(AddSubscriber(@, s), id)]
                          ELSE Append(ps, [next |-> id, subscribers |-> <<s>>])
  BY DEF Joined
<1>7. toBack => back # {}
  OBVIOUS
<1>8. toFront => front # {}
  <2>1. Full(ps) => Len(ps) # 0
    BY <1>1, <1>5 DEF Full
  <2>2. Len(ps) # 0 => back # {} \/ front # {}
    BY <1>1, <1>5, NearestPort
  <2>3. QED
    BY <2>1, <2>2
<1>9. ~toBack /\ ~toFront => Len(ps) < MaxPorts
  BY <1>1, <1>5 DEF Full
<1> HIDE DEF back, front, x, y, toBack, toFront
<1>10. CASE toBack
  <2> DEFINE p == AddSubscriber(ps[x], s)
  <2>1. x \in 1 .. Len(ps)
    BY <1>3, <1>7, <1>10
  <2>2. p \in Port /\ Distinct(p.subscribers) /\ On(p) = On(ps[x]) \union {s}
    BY <1>1, <1>2, <2>1, Added
  <2>3. Joined(ps, s, id) = Replaced(ps, x, p)
    BY <1>6, <1>10 DEF Replaced
  <2> HIDE DEF p
  <2>6. \A u \in On(p) : u \in On(ps[x]) \/ Serving(ps, u) = {}
    BY <2>2
  <2>4. Parted(Joined(ps, s, id)) /\ Len(Joined(ps, s, id)) = Len(ps)
    BY <2>1, <2>2, <2>3, <2>6, PartedReplace
  <2>5. QED
    BY <2>4
<1>11. CASE toFront /\ ~toBack
  <2> DEFINE o == AddSubscriber(ps[y], s)
             p == MoveTo(o, id)
  <2>1. y \in 1 .. Len(ps)
    BY <1>4, <1>8, <1>11
  <2>2. o \in Port /\ Distinct(o.subscribers) /\ On(o) = On(ps[y]) \union {s}
    BY <1>1, <1>2, <2>1, Added
  <2>3. Joined(ps, s, id) = Replaced(ps, y, p)
    BY <1>6, <1>11 DEF Replaced
  <2> HIDE DEF o
  <2>4. p \in Port /\ Distinct(p.subscribers) /\ On(p) = On(ps[y]) \union {s}
    BY <2>2, MovedPort
  <2> HIDE DEF p
  <2>7. \A u \in On(p) : u \in On(ps[y]) \/ Serving(ps, u) = {}
    BY <2>4
  <2>5. Parted(Joined(ps, s, id)) /\ Len(Joined(ps, s, id)) = Len(ps)
    BY <2>1, <2>3, <2>4, <2>7, PartedReplace
  <2>6. QED
    BY <2>5
<1>12. CASE ~toBack /\ ~toFront
  <2> DEFINE p == [next |-> id, subscribers |-> <<s>>]
  <2>1. p \in Port /\ Distinct(p.subscribers) /\ On(p) = {s}
    BY DEF Port, Distinct, On
  <2>2. Joined(ps, s, id) = Append(ps, p)
    BY <1>6, <1>12
  <2> HIDE DEF p
  <2>3. Parted(Joined(ps, s, id)) /\ Len(Joined(ps, s, id)) = Len(ps) + 1
    BY <2>1, <2>2, PartedAppend
  <2>4. QED
    BY <1>1, <1>5, <1>9, <1>12, <2>3
<1>13. QED
  BY <1>10, <1>11, <1>12

LEMMA ServedBy ==
  ASSUME NEW ps, Parted(ps), NEW s, Serving(ps, s) # {}
  PROVE  /\ First(Serving(ps, s)) \in 1 .. Len(ps) /\ s \in On(ps[First(Serving(ps, s))])
         /\ ps[First(Serving(ps, s))] \in Port /\ Distinct(ps[First(Serving(ps, s))].subscribers) /\ s \in Subscriber
<1>1. Serving(ps, s) = {i \in 1 .. Len(ps) : s \in On(ps[i])} /\ Len(ps) \in Nat
  BY PartedFacts
<1>2. Serving(ps, s) \subseteq Nat
  BY <1>1
<1>3. First(Serving(ps, s)) \in Serving(ps, s)
  BY <1>2, FirstIn
<1>4. First(Serving(ps, s)) \in 1 .. Len(ps) /\ s \in On(ps[First(Serving(ps, s))])
  BY <1>1, <1>3
<1>5. QED
  BY <1>4, PartedFacts

\* Whoever is taken off its port is served by none.
LEMMA PartedDelete ==
  ASSUME NEW ps, Parted(ps), NEW i \in 1 .. Len(ps), NEW s \in On(ps[i])
  PROVE  LET t == [ps EXCEPT ![i] = DelSubscriber(@, s)] IN
         /\ Parted(t) /\ Len(t) = Len(ps) /\ Serving(t, s) = {}
         /\ t[i] = DelSubscriber(ps[i], s) /\ \A j \in 1 .. Len(ps) : j # i => t[j] = ps[j]
<1> DEFINE p == DelSubscriber(ps[i], s)
           t == [ps EXCEPT ![i] = DelSubscriber(@, s)]
<1>1. ps[i] \in Port /\ Distinct(ps[i].subscribers)
  BY PartedFacts
<1>2. p \in Port /\ Distinct(p.subscribers) /\ On(p) = On(ps[i]) \ {s}
  BY <1>1, Deleted
<1>3. t = Replaced(ps, i, p)
  BY DEF Replaced
<1> HIDE DEF p
<1>4. \A u \in On(p) : u \in On(ps[i]) \/ Serving(ps, u) = {}
  BY <1>2
<1>5. /\ Parted(t) /\ Len(t) = Len(ps)
      /\ t[i] = p /\ \A j \in 1 .. Len(ps) : j # i => t[j] = ps[j]
  <2> HIDE DEF t
  <2>1. QED
    BY <1>2, <1>3, <1>4, PartedReplace
<1> HIDE DEF t
<1>6. Serving(t, s) = {}
  <2>1. Serving(t, s) = {j \in 1 .. Len(ps) : s \in On(t[j])}
    BY <1>5, PartedFacts
  <2>2. ASSUME NEW j \in 1 .. Len(ps), s \in On(t[j])
        PROVE  FALSE
    <3>1. CASE j = i
      BY <1>2, <1>5, <2>2, <3>1
    <3>2. CASE j # i
      <4>1. On(ps[j]) \intersect On(ps[i]) = {}
        BY <3>2, PartedFacts
      <4>2. QED
        BY <1>5, <2>2, <3>2, <4>1
    <3>3. QED
      BY <3>1, <3>2
  <2>3. QED
    BY <2>1, <2>2
<1>7. QED
  BY <1>5, <1>6 DEF p, t

LEMMA AfterNakParted ==
  ASSUME NEW ps, Parted(ps), Len(ps) <= MaxPorts, NEW s \in Subscriber, NEW id \in 0 .. MaxPublished
  PROVE  Parted(AfterNak(ps, s, id)) /\ Len(AfterNak(ps, s, id)) <= MaxPorts
<1> DEFINE i == First(Serving(ps, s))
           alone == Len(ps[i].subscribers) <= 1 \/ Near(ps[i].next - id)
           p == MoveTo(ps[i], id)
           t == [ps EXCEPT ![i] = DelSubscriber(@, s)]
<1>1. AfterNak(ps, s, id) = IF Serving(ps, s) = {} THEN Joined(ps, s, id)
                            ELSE IF alone THEN [ps EXCEPT ![i] = MoveTo(@, id)]
                            ELSE Joined(t, s, id)
  BY DEF AfterNak
<1>2. CASE Serving(ps, s) = {}
  BY <1>1, <1>2, JoinedParted
<1>3. CASE Serving(ps, s) # {}
  <2>1. i \in 1 .. Len(ps) /\ s \in On(ps[i]) /\ ps[i] \in Port /\ Distinct(ps[i].subscribers)
    BY <1>3, ServedBy
  <2> HIDE DEF i, alone
  <2>2. CASE alone
    <3>1. p \in Port /\ Distinct(p.subscribers) /\ On(p) = On(ps[i])
      BY <2>1, MovedPort
    <3>2. AfterNak(ps, s, id) = Replaced(ps, i, p)
      BY <1>1, <1>3, <2>2 DEF Replaced
    <3> HIDE DEF p
    <3>3. \A u \in On(p) : u \in On(ps[i]) \/ Serving(ps, u) = {}
      BY <3>1
    <3>4. Parted(AfterNak(ps, s, id)) /\ Len(AfterNak(ps, s, id)) = Len(ps)
      BY <2>1, <3>1, <3>2, <3>3, PartedReplace
    <3>5. QED
      BY <3>4
  <2>3. CASE ~alone
    <3>1. Parted(t) /\ Len(t) = Len(ps) /\ Serving(t, s) = {}
      BY <2>1, PartedDelete
    <3>2. AfterNak(ps, s, id) = Joined(t, s, id)
      BY <1>1, <1>3, <2>3
    <3> HIDE DEF t
    <3>3. QED
      BY <3>1, <3>2, JoinedParted
  <2>4. QED
    BY <2>2, <2>3
<1>4. QED
  BY <1>2, <1>3

LEMMA AfterAckParted ==
  ASSUME NEW ps, Parted(ps), NEW s \in Subscriber, NEW id \in 0 .. MaxPublished
  PROVE  Parted(AfterAck(ps, s, id)) /\ Len(AfterAck(ps, s, id)) = Len(ps)
<1> DEFINE i == First(Serving(ps, s))
           none == Serving(ps, s) = {} \/ id <= ps[i].next
           passed == i < Len(ps) /\ 2 * (id - ps[i + 1].next) > Distance
           alone == Len(ps[i].subscribers) <= 1
           p == MoveTo(ps[i], id)
           t == [ps EXCEPT ![i] = DelSubscriber(@, s)]
           q == AddSubscriber(ps[i + 1], s)
<1>1. AfterAck(ps, s, id) = IF none THEN ps
                            ELSE IF passed THEN [ps EXCEPT ![i] = DelSubscriber(@, s), ![i + 1] = AddSubscriber(@, s)]
                            ELSE IF alone THEN [ps EXCEPT ![i] = MoveTo(@, id)]
                            ELSE ps
  BY DEF AfterAck
<1>2. CASE none
  BY <1>1, <1>2
<1>3. CASE ~none
  <2>1. i \in 1 .. Len(ps) /\ s \in On(ps[i]) /\ ps[i] \in Port /\ Distinct(ps[i].subscribers) /\ Len(ps) \in Nat
    BY <1>3, ServedBy, PartedFacts
  <2>2. passed => i < Len(ps)
    OBVIOUS
  <2> HIDE DEF i, alone, none, passed
  <2>3. CASE passed
    <3>1. Parted(t) /\ Len(t) = Len(ps) /\ Serving(t, s) = {} /\ \A j \in 1 .. Len(ps) : j # i => t[j] = ps[j]
      BY <2>1, PartedDelete
    <3>2. i + 1 \in 1 .. Len(ps) /\ i + 1 # i
      BY <2>1, <2>2, <2>3
    <3>3. t[i + 1] = ps[i + 1] /\ ps[i + 1] \in Port /\ Distinct(ps[i + 1].subscribers)
      BY <3>1, <3>2, PartedFacts
    <3>4. s \notin On(ps[i + 1])
      BY <2>1, <3>2, PartedFacts
    <3>5. q \in Port /\ Distinct(q.subscribers) /\ On(q) = On(ps[i + 1]) \union {s}
      BY <3>3, <3>4, Added
    <3>6. AfterAck(ps, s, id) = Replaced(t, i + 1, q)
      <4>1. AfterAck(ps, s, id) = [ps EXCEPT ![i] = DelSubscriber(@, s), ![i + 1] = AddSubscriber(@, s)]
        BY <1>1, <1>3, <2>3
      <4>2. [ps EXCEPT ![i] = DelSubscriber(@, s), ![i + 1] = AddSubscriber(@, s)] = [t EXCEPT ![i + 1] = AddSubscriber(t[i + 1], s)]
        <5>1. ps \in Seq(Port) /\ DOMAIN ps = 1 .. Len(ps)
          BY PartedFacts
        <5>2. ps = [j \in 1 .. Len(ps) |-> ps[j]]
          BY <5>1
        <5>3. QED
          BY <2>1, <3>2, <3>3, <5>2
      <4>3. QED
        BY <3>3, <4>1, <4>2 DEF Replaced
    <3> HIDE DEF t, q
    <3>7. \A u \in On(q) : u \in On(t[i + 1]) \/ Serving(t, u) = {}
      BY <3>1, <3>3, <3>5
    <3>8. i + 1 \in 1 .. Len(t)
      BY <3>1, <3>2
    <3>9. Parted(AfterAck(ps, s, id)) /\ Len(AfterAck(ps, s, id)) = Len(t)
      BY <3>1, <3>5, <3>6, <3>7, <3>8, PartedReplace
    <3>10. QED
      BY <3>1, <3>9
  <2>4. CASE ~passed /\ alone
    <3>1. p \in Port /\ Distinct(p.subscribers) /\ On(p) = On(ps[i])
      BY <2>1, MovedPort
    <3>2. AfterAck(ps, s, id) = Replaced(ps, i, p)
      BY <1>1, <1>3, <2>4 DEF Replaced
    <3> HIDE DEF p
    <3>3. \A u \in On(p) : u \in On(ps[i]) \/ Serving(ps, u) = {}
      BY <3>1
    <3>4. QED
      BY <2>1, <3>1, <3>2, <3>3, PartedReplace
  <2>5. CASE ~passed /\ ~alone
    BY <1>1, <1>3, <2>5
  <2>6. QED
    BY <2>3, <2>4, <2>5
<1>4. QED
  BY <1>2, <1>3

LEMMA TimedOutParted ==
  ASSUME NEW ps, Parted(ps), NEW s, Serving(ps, s) # {}
  PROVE  Parted(TimedOut(ps, s)) /\ Len(TimedOut(ps, s)) <= Len(ps)
<1> DEFINE i == First(Serving(ps, s))
           t == [ps EXCEPT ![i] = DelSubscriber(@, s)]
<1>1. TimedOut(ps, s) = IF t[i].subscribers = <<>> THEN RemoveAt(t, i) ELSE t
  BY DEF TimedOut
<1>2. i \in 1 .. Len(ps) /\ s \in On(ps[i]) /\ Len(ps) \in Nat
  BY ServedBy, PartedFacts
<1> HIDE DEF i
<1>3. Parted(t) /\ Len(t) = Len(ps)
  BY <1>2, PartedDelete
<1> HIDE DEF t
<1>4. i \in 1 .. Len(t)
  BY <1>2, <1>3
<1>5. Parted(RemoveAt(t, i)) /\ Len(RemoveAt(t, i)) = Len(t) - 1
  BY <1>3, <1>4, PartedRemoved
<1>6. QED
  BY <1>1, <1>2, <1>3, <1>5

LEMMA OneToOneOnto ==
  ASSUME NEW n \in Nat, NEW f \in [1 .. n -> 1 .. n], \A i, j \in 1 .. n : f[i] = f[j] => i = j
  PROVE  \A k \in 1 .. n : \E i \in 1 .. n : f[i] = k
<1>1. f \in Injection(1 .. n, 1 .. n)
  BY DEF Injection, IsInjective
<1>2. IsFiniteSet(1 .. n)
  BY FS_Interval
<1>3. f \in Surjection(1 .. n, 1 .. n)
  BY <1>1, <1>2, FS_Injection
<1>4. QED
  BY <1>3 DEF Surjection

\* Sorting is a rearrangement of the ports.
LEMMA SortedParted ==
  ASSUME NEW ps, Parted(ps), NEW q \in Sorted(ps)
  PROVE  /\ Parted(q) /\ Len(q) = Len(ps)
         /\ \A s : Serving(ps, s) # {} => Serving(q, s) # {}
<1> DEFINE D == 1 .. Len(ps)
<1>1. ps \in Seq(Port) /\ Len(ps) \in Nat /\ DOMAIN ps = D /\ \A i \in D : ps[i] \in Port
  BY PartedFacts
<1>2. PICK g \in Injection(D, D) : q = [k \in D |-> ps[g[k]]]
  BY <1>1 DEF Sorted
<1>3. g \in [D -> D] /\ \A j, k \in D : g[j] = g[k] => j = k
  BY DEF Injection, IsInjective
<1>4. q \in Seq(Port) /\ Len(q) = Len(ps) /\ \A k \in D : q[k] = ps[g[k]]
  <2>1. q \in [D -> Port] /\ DOMAIN q = D
    BY <1>1, <1>2, <1>3
  <2>2. q \in Seq(Port) /\ Len(q) = Len(ps)
    BY <1>1, <2>1, IsASeq, LenProperties
  <2>3. QED
    BY <1>2, <2>2
<1>5. Parted(q)
  <2>1. PICK n \in Nat : n = Len(ps)
    BY <1>1
  <2>2. /\ g \in [1 .. n -> 1 .. Len(ps)] /\ q \in Seq(Port) /\ Len(q) = n
        /\ \A j, k \in 1 .. n : g[j] = g[k] => j = k
        /\ \A k \in 1 .. n : q[k] = ps[g[k]]
    BY <1>3, <1>4, <2>1
  <2> HIDE DEF D
  <2>3. QED
    BY <2>2, PartedReindex
<1>6. ASSUME NEW s, Serving(ps, s) # {}
      PROVE  Serving(q, s) # {}
  <2>1. PICK i \in D : s \in On(ps[i])
    BY <1>6, PartedFacts
  <2>2. \A k \in D : \E j \in D : g[j] = k
    BY <1>1, <1>3, OneToOneOnto
  <2>3. PICK k \in D : g[k] = i
    BY <2>2
  <2>4. s \in On(q[k])
    BY <1>4, <2>1, <2>3
  <2>5. Serving(q, s) = {j \in D : s \in On(q[j])}
    BY <1>4, <1>5, PartedFacts
  <2>6. QED
    BY <2>4, <2>5
<1>7. QED
  BY <1>4, <1>5, <1>6

\* Nobody is lost when ports become one.
LEMMA MergedParted ==
  ASSUME NEW q, Parted(q)
  PROVE  /\ Parted(Merged(q)) /\ Len(Merged(q)) <= Len(q)
         /\ \A s : Serving(q, s) # {} => Serving(Merged(q), s) # {}
<1> DEFINE n == Len(q)
           close == {i \in 1 .. n - 1 : 2 * (q[i + 1].next - q[i].next) < Distance}
           i == CHOOSE j \in close : \A k \in close : k <= j
           u == [q[i] EXCEPT !.subscribers = q[i].subscribers \o q[i + 1].subscribers]
           t == Replaced(q, i, u)
           r == RemoveAt(q, i + 1)
<1>1. Parted(q) /\ n \in Nat
  BY PartedFacts
<1>2. Merged(q) = IF close = {} THEN q ELSE RemoveAt(t, i + 1)
  BY DEF Merged, Replaced
<1>3. close \subseteq 1 .. n - 1
  OBVIOUS
<1> HIDE DEF close
<1>4. CASE close = {}
  BY <1>1, <1>2, <1>4
<1>5. CASE close # {}
  <2>1. i \in 1 .. n - 1
    <3> DEFINE T == {n - j : j \in close}
    <3> HIDE DEF n
    <3>1. T \subseteq Nat /\ T # {}
      <4>1. \A j \in close : n - j \in Nat
        BY <1>1, <1>3
      <4>2. QED
        BY <1>5, <4>1
    <3>2. PICK x \in T : \A y \in T : x <= y
      <4> HIDE DEF T
      <4>1. QED
        BY <3>1, Least
    <3>3. PICK j \in close : x = n - j
      BY <3>2
    <3>4. ASSUME NEW k \in close
          PROVE  k <= j
      <4>1. n - k \in T /\ k \in Int /\ j \in Int /\ n \in Int
        BY <1>1, <1>3
      <4>2. n - j <= n - k
        BY <3>2, <3>3, <4>1
      <4>3. QED
        BY <4>1, <4>2
    <3>5. i \in close
      BY <3>4
    <3>6. QED
      BY <1>3, <3>5
  <2> HIDE DEF i
  <2>2. i \in 1 .. n /\ i + 1 \in 1 .. n /\ i # i + 1
    BY <1>1, <2>1
  <2>3. /\ q[i] \in Port /\ Distinct(q[i].subscribers) /\ q[i + 1] \in Port /\ Distinct(q[i + 1].subscribers)
        /\ On(q[i]) \intersect On(q[i + 1]) = {} /\ q \in Seq(Port)
    BY <1>1, <2>2, PartedFacts
  <2>4. u \in Port /\ Distinct(u.subscribers) /\ On(u) = On(q[i]) \union On(q[i + 1])
    BY <2>3, Joint
  <2> HIDE DEF u
  <2>5. /\ Parted(r) /\ Len(r) = n - 1
        /\ \A k \in 1 .. n - 1 : r[k] = q[IF k < i + 1 THEN k ELSE k + 1]
        /\ \A s : s \in On(q[i + 1]) => Serving(r, s) = {}
    BY <1>1, <2>2, PartedRemoved
  <2>6. i \in 1 .. Len(r) /\ r[i] = q[i]
    BY <1>1, <2>1, <2>5
  <2>7. \A s \in On(u) : s \in On(r[i]) \/ Serving(r, s) = {}
    BY <2>4, <2>5, <2>6
  <2>8. /\ Parted(Replaced(r, i, u)) /\ Len(Replaced(r, i, u)) = n - 1
        /\ Replaced(r, i, u)[i] = u /\ \A j \in 1 .. n - 1 : j # i => Replaced(r, i, u)[j] = r[j]
    <3> HIDE DEF r
    <3>1. QED
      BY <2>4, <2>5, <2>6, <2>7, PartedReplace
  <2>9. t \in Seq(Port) /\ Len(t) = n /\ \A j \in 1 .. n : t[j] = IF j = i THEN u ELSE q[j]
    BY <2>2, <2>3, <2>4, ExceptSeq DEF Replaced
  <2>10. /\ RemoveAt(t, i + 1) \in Seq(Port) /\ Len(RemoveAt(t, i + 1)) = n - 1
         /\ \A k \in 1 .. n - 1 : RemoveAt(t, i + 1)[k] = t[IF k < i + 1 THEN k ELSE k + 1]
    <3> HIDE DEF t, n
    <3>1. QED
      BY <2>2, <2>9, Removed
  <2> HIDE DEF t, r
  <2>11. ASSUME NEW k \in 1 .. n - 1
         PROVE  RemoveAt(t, i + 1)[k] = Replaced(r, i, u)[k]
    <3> DEFINE g == IF k < i + 1 THEN k ELSE k + 1
    <3>1. g \in 1 .. n /\ (g = i <=> k = i)
      <4> HIDE DEF n
      <4>1. QED
        BY <1>1, <2>1
    <3>2. RemoveAt(t, i + 1)[k] = t[g] /\ r[k] = q[g]
      BY <2>5, <2>10
    <3> HIDE DEF g
    <3>3. QED
      BY <2>8, <2>9, <3>1, <3>2
  <2>12. Replaced(r, i, u) \in Seq(Port)
    BY <2>8 DEF Parted
  <2>13. RemoveAt(t, i + 1) = Replaced(r, i, u)
    BY <2>8, <2>10, <2>11, <2>12, SeqEqual
  <2>14. ASSUME NEW s, Serving(q, s) # {}
         PROVE  Serving(Replaced(r, i, u), s) # {}
    <3> DEFINE x == Replaced(r, i, u)
    <3> SUFFICES Serving(x, s) # {}
      OBVIOUS
    <3>1. PICK j \in 1 .. n : s \in On(q[j])
      BY <1>1, <2>14, PartedFacts
    <3>2. Serving(x, s) = {k \in 1 .. n - 1 : s \in On(x[k])}
      BY <2>8, PartedFacts
    <3>3. x[i] = u /\ \A k \in 1 .. n - 1 : k # i => x[k] = q[IF k < i + 1 THEN k ELSE k + 1]
      BY <2>5, <2>8
    <3> HIDE DEF x, n
    <3>4. CASE j = i \/ j = i + 1
      BY <2>1, <2>4, <3>1, <3>2, <3>3, <3>4
    <3>5. CASE j < i
      <4>1. j \in 1 .. n - 1 /\ j # i /\ j < i + 1
        BY <1>1, <2>1, <3>5
      <4>2. QED
        BY <3>1, <3>2, <3>3, <4>1
    <3>6. CASE j > i + 1
      <4>1. j - 1 \in 1 .. n - 1 /\ j - 1 # i /\ ~(j - 1 < i + 1) /\ j - 1 + 1 = j
        BY <1>1, <2>1, <3>6
      <4>2. x[j - 1] = q[j]
        BY <3>3, <4>1
      <4>3. QED
        BY <3>1, <3>2, <4>1, <4>2
    <3>7. j < i \/ j = i \/ j = i + 1 \/ j > i + 1
      BY <1>1, <2>1
    <3>8. QED
      BY <3>4, <3>5, <3>6, <3>7
  <2>15. QED
    BY <1>1, <1>2, <1>5, <2>8, <2>13, <2>14
<1>6. QED
  BY <1>4, <1>5

LEMMA CastBounds == MaxPublished \in Nat /\ MaxPorts \in Nat \ {0} /\ Batch \in Nat \ {0} /\ MaxLeaves \in Nat
BY MulticastBounds

\* A port never sends what is not in the flow.
LEMMA BatchedPort ==
  ASSUME issued \in 0 .. MaxPublished, NEW p \in Port
  PROVE  /\ Batched(p) \in Port /\ Batched(p).subscribers = p.subscribers /\ On(Batched(p)) = On(p)
         /\ Batched(p).next <= issued
<1>1. p.next \in Nat
  BY CastBounds DEF Port
<1>2. (IF p.next + Batch < issued THEN p.next + Batch ELSE issued) \in 0 .. issued
  BY <1>1, CastBounds
<1>3. Batched(p) \in Port /\ Batched(p).subscribers = p.subscribers /\ Batched(p).next <= issued
  BY <1>2, CastBounds DEF Batched, Port
<1>4. QED
  BY <1>3 DEF On

\* What a subscriber is owed: its queue and the flow agree on the number that is next.
InTurn(s) == Ordered(queue[s], issued) /\ queue[s].startIndex = received[s] + 1

CastInv == CastTypeOK /\ Parted(ports) /\ \A s \in Subscriber : InTurn(s)

LEMMA AfterTimerParted ==
  ASSUME CastInv, NEW ps \in AfterTimer
  PROVE  /\ Parted(ps) /\ Len(ps) <= MaxPorts /\ Len(ps) \in Nat
         /\ \A s : Serving(ports, s) # {} => Serving(ps, s) # {}
<1> DEFINE t == [i \in DOMAIN ports |-> Batched(ports[i])]
           n == Len(ports)
           g == [i \in 1 .. n |-> i]
<1>1. /\ ports \in Seq(Port) /\ n \in Nat /\ n <= MaxPorts /\ DOMAIN ports = 1 .. n
      /\ \A i \in 1 .. n : ports[i] \in Port /\ Distinct(ports[i].subscribers)
      /\ \A i, j \in 1 .. n : i # j => On(ports[i]) \intersect On(ports[j]) = {}
      /\ issued \in 0 .. MaxPublished
  BY PartedFacts DEF CastInv, CastTypeOK
<1>2. \A i \in 1 .. n : /\ t[i] \in Port /\ t[i].subscribers = ports[i].subscribers
                        /\ On(t[i]) = On(ports[i])
  BY <1>1, BatchedPort
<1>3. t \in Seq(Port) /\ Len(t) = n /\ DOMAIN t = 1 .. n
  <2>1. t \in [1 .. n -> Port] /\ DOMAIN t = 1 .. n
    BY <1>1, <1>2
  <2> HIDE DEF t
  <2>2. QED
    BY <1>1, <2>1, IsASeq, LenProperties
<1> HIDE DEF t
<1>4. Parted(t)
  BY <1>1, <1>2, <1>3 DEF Parted
<1>5. PICK q \in Sorted(t) : ps = Merged(q)
  BY DEF AfterTimer, t
<1>6. /\ Parted(ps) /\ Len(ps) <= n /\ Len(ps) \in Nat
      /\ \A s : Serving(t, s) # {} => Serving(ps, s) # {}
  <2>1. Parted(q) /\ Len(q) = n /\ \A s : Serving(t, s) # {} => Serving(q, s) # {}
    BY <1>3, <1>4, SortedParted
  <2>2. /\ Parted(Merged(q)) /\ Len(Merged(q)) <= Len(q)
        /\ \A s : Serving(q, s) # {} => Serving(Merged(q), s) # {}
    BY <2>1, MergedParted
  <2>3. QED
    BY <1>5, <2>1, <2>2, PartedFacts
<1>7. ASSUME NEW s
      PROVE  Serving(t, s) = Serving(ports, s)
  <2>1. Parted(ports)
    BY DEF CastInv
  <2>2. Serving(ports, s) = {i \in 1 .. n : s \in On(ports[i])}
    BY <2>1, PartedFacts
  <2>3. Serving(t, s) = {i \in 1 .. n : s \in On(t[i])}
    BY <1>3, <1>4, PartedFacts
  <2>4. QED
    BY <1>2, <2>2, <2>3
<1>8. QED
  BY <1>1, <1>6, <1>7, CastBounds

LEMMA HearingsKnown ==
  ASSUME CastInv, NEW h \in Hearings
  PROVE  h \in [Subscriber -> 0 .. issued]
<1>1. /\ \A i \in DOMAIN ports : ports[i] \in Port
      /\ issued \in 0 .. MaxPublished /\ air \in [Subscriber -> 0 .. issued] /\ issued \in Nat
  BY PartedFacts, CastBounds DEF CastInv, CastTypeOK
<1>2. Data \subseteq 1 .. issued
  <2>1. ASSUME NEW i \in DOMAIN ports
        PROVE  ports[i].next + 1 .. Batched(ports[i]).next \subseteq 1 .. issued
    <3>1. ports[i].next \in Nat /\ Batched(ports[i]).next \in Nat /\ Batched(ports[i]).next <= issued
      <4>1. Batched(ports[i]) \in Port /\ ports[i] \in Port /\ Batched(ports[i]).next <= issued
        BY <1>1, BatchedPort
      <4>2. QED
        BY <4>1, CastBounds DEF Port
    <3>2. QED
      BY <1>1, <3>1
  <2>2. QED
    BY <2>1 DEF Data
<1>3. ASSUME NEW s \in Subscriber
      PROVE  h[s] \in 0 .. issued
  <2>1. h[s] = air[s] \/ h[s] \in Data
    BY DEF Hearings, Heard
  <2>2. air[s] \in 0 .. issued
    BY <1>1
  <2>3. 1 .. issued \subseteq 0 .. issued
    BY <1>1
  <2>4. QED
    BY <1>2, <2>1, <2>2, <2>3
<1>4. h \in [Subscriber -> {0} \union Number]
  BY DEF Hearings
<1>5. QED
  BY <1>3, <1>4

LEMMA CastInitially ==
  ASSUME CastInit
  PROVE  CastInv
<1>1. issued = 0 /\ ports = <<>> /\ active = {} /\ control = {} /\ leaves = 0
  BY DEF CastInit
<1>2. ports \in Seq(Port) /\ Len(ports) = 0 /\ DOMAIN ports = {}
  BY <1>1, EmptySeq
<1>3. Parted(ports)
  BY <1>2 DEF Parted
<1>4. \A s \in Subscriber : queue[s] = SetStartIndex(1) /\ received[s] = 0
  BY DEF CastInit
<1>5. Ordered(SetStartIndex(1), 0) /\ SetStartIndex(1).startIndex = 1
  BY FreshOrdered
<1>6. \A s \in Subscriber : InTurn(s)
  BY <1>1, <1>4, <1>5 DEF InTurn
<1>7. SetStartIndex(1) \in OrderingQueue
  BY <1>5 DEF Ordered
<1>8. CastTypeOK
  BY <1>1, <1>2, <1>7, CastBounds DEF CastInit, CastTypeOK
<1>9. QED
  BY <1>3, <1>6, <1>8 DEF CastInv

\* The next number of a subscriber is one of the flow's or the one after the last.
LEMMA Owed ==
  ASSUME CastInv, NEW s \in Subscriber
  PROVE  /\ Ordered(queue[s], issued) /\ queue[s].startIndex = received[s] + 1
         /\ received[s] \in 0 .. issued /\ Have(s) = received[s] /\ received[s] \in 0 .. MaxPublished
         /\ issued \in Nat /\ air[s] \in 0 .. issued /\ queue[s] \in OrderingQueue
         /\ Subscribe(s, received[s]) \in Control /\ Ack(s, received[s]) \in Control
<1>1. InTurn(s) /\ received[s] \in 0 .. issued /\ issued \in 0 .. MaxPublished /\ air[s] \in 0 .. issued
  BY DEF CastInv, CastTypeOK
<1>2. received[s] \in 0 .. MaxPublished /\ issued \in Nat
  BY <1>1, CastBounds
<1>3. Subscribe(s, received[s]) \in Control /\ Ack(s, received[s]) \in Control
  BY <1>2 DEF Control, Subscribe, Ack
<1>4. queue[s] \in OrderingQueue /\ Ordered(queue[s], issued) /\ queue[s].startIndex = received[s] + 1
  BY <1>1 DEF InTurn, Ordered
<1>5. Have(s) = received[s]
  BY <1>2, <1>4 DEF Have
<1>6. QED
  BY <1>1, <1>2, <1>3, <1>4, <1>5

LEMMA SentControl ==
  ASSUME control \subseteq Control, NEW m \in Control, control' \in Sent(m)
  PROVE  control' \subseteq Control
BY DEF Sent

LEMMA PublishKeeps ==
  ASSUME CastInv, Publish
  PROVE  CastInv'
<1>1. /\ issued < MaxPublished /\ issued' = issued + 1 /\ UNCHANGED <<ports, active, received, queue, disorder, air, control, leaves>>
      /\ issued \in Nat
  BY CastBounds DEF Publish, subscribers, CastInv, CastTypeOK
<1>2. \A s \in Subscriber : InTurn(s)'
  <2>1. SUFFICES ASSUME NEW s \in Subscriber PROVE InTurn(s)'
    OBVIOUS
  <2>2. Ordered(queue[s], issued) /\ queue[s].startIndex = received[s] + 1
    BY Owed
  <2>3. Ordered(queue[s], issued + 1)
    BY <1>1, <2>2, OrderedGrows
  <2>4. Ordered(queue[s], issued)'
    BY <1>1, <2>3 DEF Ordered, Kept, Apart, Leads, Found, OldestWaits
  <2>5. QED
    BY <1>1, <2>2, <2>4 DEF InTurn
<1>3. 0 .. issued \subseteq 0 .. issued'
  BY <1>1
<1>4. CastTypeOK'
  <2>1. issued' \in 0 .. MaxPublished
    BY <1>1, CastBounds
  <2>2. received' \in [Subscriber -> 0 .. issued'] /\ air' \in [Subscriber -> 0 .. issued']
    BY <1>1, <1>3 DEF CastInv, CastTypeOK
  <2>3. QED
    BY <1>1, <2>1, <2>2 DEF CastInv, CastTypeOK
<1>5. Parted(ports)'
  BY <1>1 DEF CastInv
<1>6. QED
  BY <1>2, <1>4, <1>5 DEF CastInv

\* What the steps do that leave the flow alone: it is enough to look at one subscriber.
LEMMA SubscriberKeeps ==
  ASSUME CastInv, NEW s \in Subscriber, UNCHANGED <<issued, ports>>,
         NEW q, queue' = [queue EXCEPT ![s] = q], Ordered(q, issued),
         NEW r \in 0 .. issued, received' = [received EXCEPT ![s] = r], q.startIndex = r + 1,
         active' \subseteq Subscriber, disorder' \in [Subscriber -> BOOLEAN],
         air' \in [Subscriber -> 0 .. issued], control' \subseteq Control, leaves' \in 0 .. MaxLeaves
  PROVE  CastInv'
<1>1. CastTypeOK /\ Parted(ports) /\ issued' = issued /\ ports' = ports
  BY DEF CastInv
<1>2. q \in OrderingQueue
  BY DEF Ordered
<1>3. queue' \in [Subscriber -> OrderingQueue] /\ received' \in [Subscriber -> 0 .. issued]
  BY <1>1, <1>2 DEF CastTypeOK
<1>4. CastTypeOK'
  BY <1>1, <1>3 DEF CastTypeOK
<1>5. ASSUME NEW t \in Subscriber
      PROVE  InTurn(t)'
  <2>1. Ordered(queue[t], issued) /\ queue[t].startIndex = received[t] + 1
    BY Owed
  <2>2. /\ queue'[t] = IF t = s THEN q ELSE queue[t]
        /\ received'[t] = IF t = s THEN r ELSE received[t]
    BY <1>1 DEF CastTypeOK
  <2>3. Ordered(queue'[t], issued) /\ queue'[t].startIndex = received'[t] + 1
    BY <2>1, <2>2
  <2>4. Ordered(queue[t], issued)'
    BY <1>1, <2>3 DEF Ordered, Kept, Apart, Leads, Found, OldestWaits
  <2>5. QED
    BY <2>3, <2>4 DEF InTurn
<1>6. Parted(ports)'
  BY <1>1
<1>7. QED
  BY <1>4, <1>5, <1>6 DEF CastInv

\* A step that neither delivers nor takes a package in.
LEMMA QueuesAlone ==
  ASSUME CastInv, UNCHANGED <<issued, queue, received>>, Parted(ports)', Len(ports') <= MaxPorts,
         active' \subseteq Subscriber, disorder' \in [Subscriber -> BOOLEAN],
         air' \in [Subscriber -> 0 .. issued], control' \subseteq Control, leaves' \in 0 .. MaxLeaves
  PROVE  CastInv'
<1>1. CastTypeOK /\ issued' = issued /\ queue' = queue /\ received' = received
  BY DEF CastInv
<1>2. ports' \in Seq(Port)
  BY DEF Parted
<1>3. CastTypeOK'
  BY <1>1, <1>2 DEF CastTypeOK
<1>4. ASSUME NEW t \in Subscriber
      PROVE  InTurn(t)'
  <2>1. InTurn(t)
    BY DEF CastInv
  <2>2. QED
    BY <1>1, <2>1 DEF InTurn, Ordered, Kept, Apart, Leads, Found, OldestWaits
<1>5. QED
  BY <1>3, <1>4 DEF CastInv

LEMMA RegisterKeeps ==
  ASSUME CastInv, NEW s \in Subscriber, RegisterSubscriber(s)
  PROVE  CastInv'
<1> DEFINE q == SetStartIndex(received[s] + 1)
           r == received[s]
<1>1. /\ r \in 0 .. issued /\ issued \in Nat /\ Subscribe(s, r) \in Control
      /\ CastTypeOK
  BY Owed DEF CastInv
<1>2. r + 1 \in Nat \ {0}
  BY <1>1
<1>3. Ordered(q, issued) /\ q.startIndex = r + 1
  BY <1>1, <1>2, FreshOrdered
<1>4. control' \subseteq Control
  BY <1>1, SentControl DEF RegisterSubscriber, CastTypeOK
<1>5. queue' = [queue EXCEPT ![s] = q] /\ UNCHANGED <<issued, ports>> /\ received' = received
  BY DEF RegisterSubscriber, publisher
<1>6. received' = [received EXCEPT ![s] = r]
  BY <1>1, <1>5 DEF CastTypeOK
<1>7. /\ active' \subseteq Subscriber /\ disorder' \in [Subscriber -> BOOLEAN]
      /\ air' \in [Subscriber -> 0 .. issued] /\ leaves' \in 0 .. MaxLeaves
  BY <1>1 DEF RegisterSubscriber, CastTypeOK
<1> HIDE DEF q, r
<1>8. QED
  BY <1>1, <1>3, <1>4, <1>5, <1>6, <1>7, SubscriberKeeps

LEMMA UnRegisterKeeps ==
  ASSUME CastInv, NEW s \in Subscriber, UnRegisterSubscriber(s)
  PROVE  CastInv'
<1>1. CastTypeOK /\ Parted(ports) /\ UnSubscribe \in Control
  BY DEF CastInv, UnSubscribe, Control
<1>2. control' \subseteq Control
  BY <1>1, SentControl DEF UnRegisterSubscriber, CastTypeOK
<1>3. leaves' \in 0 .. MaxLeaves
  BY <1>1, CastBounds DEF UnRegisterSubscriber, CastTypeOK
<1>4. /\ UNCHANGED <<issued, queue, received, ports, disorder, air>> /\ active' = active \ {s}
  BY DEF UnRegisterSubscriber, publisher
<1>5. /\ Parted(ports)' /\ Len(ports') <= MaxPorts /\ active' \subseteq Subscriber
      /\ disorder' \in [Subscriber -> BOOLEAN] /\ air' \in [Subscriber -> 0 .. issued]
  BY <1>1, <1>4 DEF CastTypeOK
<1>6. QED
  BY <1>2, <1>3, <1>4, <1>5, QueuesAlone

LEMMA PackageKeeps ==
  ASSUME CastInv, NEW s \in Subscriber, NEW n, HandlePackage(s, n)
  PROVE  CastInv'
<1> DEFINE q == queue[s]
           r == received[s]
<1>1. CastTypeOK /\ Parted(ports) /\ UNCHANGED <<issued, ports, active, leaves>>
  BY DEF CastInv, HandlePackage, publisher
<1>2. /\ Ordered(q, issued) /\ q.startIndex = r + 1 /\ r \in 0 .. issued /\ issued \in Nat
      /\ Have(s) = r /\ Subscribe(s, r) \in Control /\ air[s] \in 0 .. issued
  BY Owed
<1>3. n \in 1 .. issued /\ n = air[s]
  BY <1>2 DEF HandlePackage
<1>4. air' \in [Subscriber -> 0 .. issued]
  <2>1. PICK again \in {0, n} : air' = [air EXCEPT ![s] = again]
    BY DEF HandlePackage
  <2>2. again \in 0 .. issued
    BY <1>2, <1>3
  <2>3. QED
    BY <1>1, <2>1, <2>2 DEF CastTypeOK
<1>5. CASE n < q.startIndex /\ UNCHANGED <<received, queue, disorder, control>>
  BY <1>1, <1>4, <1>5, QueuesAlone DEF CastTypeOK
<1>6. CASE /\ n > q.startIndex
           /\ IF disorder[s] THEN UNCHANGED control ELSE control' \in Sent(Subscribe(s, Have(s)))
           /\ disorder' = [disorder EXCEPT ![s] = TRUE]
           /\ queue' = [queue EXCEPT ![s] = EnQueue(q, n)]
           /\ UNCHANGED received
  <2>1. Ordered(EnQueue(q, n), issued) /\ EnQueue(q, n).startIndex = r + 1
    BY <1>2, <1>3, EnQueueKeeps
  <2>2. control' \subseteq Control
    <3>1. control \subseteq Control
      BY <1>1 DEF CastTypeOK
    <3>2. CASE UNCHANGED control
      BY <3>1, <3>2
    <3>3. CASE control' \in Sent(Subscribe(s, r))
      BY <1>2, <3>1, <3>3, SentControl
    <3>4. QED
      BY <1>2, <1>6, <3>2, <3>3
  <2>3. received' = [received EXCEPT ![s] = r]
    BY <1>1, <1>6 DEF CastTypeOK
  <2>4. disorder' \in [Subscriber -> BOOLEAN] /\ active' \subseteq Subscriber /\ leaves' \in 0 .. MaxLeaves
    BY <1>1, <1>6 DEF CastTypeOK
  <2> HIDE DEF q, r
  <2>5. queue' = [queue EXCEPT ![s] = EnQueue(q, n)]
    BY <1>6
  <2>6. QED
    BY <1>1, <1>2, <1>4, <2>1, <2>2, <2>3, <2>4, <2>5, SubscriberKeeps
<1>7. CASE /\ n = q.startIndex
           /\ queue' = [queue EXCEPT ![s] = Drained(q, r)[1]]
           /\ received' = [received EXCEPT ![s] = Drained(q, r)[2]]
           /\ disorder' = [disorder EXCEPT ![s] = FALSE]
           /\ UNCHANGED control
  <2> DEFINE p == Drained(q, r)
  <2>1. r = q.startIndex - 1 /\ q.startIndex \in 1 .. issued
    BY <1>2, <1>3, <1>7
  <2>2. InOrderUpTo(p, issued)
    <3> HIDE DEF q, r
    <3>1. QED
      BY <1>2, <2>1, DrainedKeeps
  <2>3. Ordered(p[1], issued) /\ p[2] \in 0 .. issued /\ p[1].startIndex = p[2] + 1
    <3>1. Ordered(p[1], issued) /\ p[2] = p[1].startIndex - 1 /\ p[2] \in 0 .. issued
      BY <2>2 DEF InOrderUpTo
    <3>2. p[1].startIndex \in Nat
      BY <3>1 DEF Ordered, OrderingQueue
    <3> HIDE DEF p
    <3>3. QED
      BY <1>2, <3>1, <3>2
  <2>4. /\ disorder' \in [Subscriber -> BOOLEAN] /\ active' \subseteq Subscriber /\ leaves' \in 0 .. MaxLeaves
        /\ control' \subseteq Control
    BY <1>1, <1>7 DEF CastTypeOK
  <2>5. queue' = [queue EXCEPT ![s] = p[1]] /\ received' = [received EXCEPT ![s] = p[2]]
    BY <1>7
  <2> HIDE DEF p
  <2>6. QED
    BY <1>1, <1>4, <2>3, <2>4, <2>5, SubscriberKeeps
<1>8. QED
  BY <1>5, <1>6, <1>7 DEF HandlePackage

\* Silence, what is asked for and acknowledged, and heartbeats.
LEMMA AskingKeeps ==
  ASSUME CastInv, NEW s \in Subscriber, Silence(s) \/ SendNak(s) \/ SendAck(s) \/ OnHeartBeat(s)
  PROVE  CastInv'
<1>1. CastTypeOK /\ Parted(ports)
  BY DEF CastInv
<1>2. /\ Have(s) = received[s] /\ queue[s].startIndex - 1 = received[s]
      /\ Subscribe(s, received[s]) \in Control /\ Ack(s, received[s]) \in Control
  BY Owed DEF Have
<1>3. UNCHANGED <<issued, ports, queue, received, active, air, leaves>>
  BY DEF Silence, SendNak, SendAck, Ask, OnHeartBeat, publisher, subscribers
<1>4. disorder' \in [Subscriber -> BOOLEAN]
  BY <1>1 DEF Silence, SendNak, SendAck, Ask, OnHeartBeat, subscribers, CastTypeOK
<1>5. control' \subseteq Control
  <2>1. control \subseteq Control
    BY <1>1 DEF CastTypeOK
  <2>2. CASE control' = control
    BY <2>1, <2>2
  <2>3. CASE SendNak(s)
    BY <1>2, <2>1, <2>3, SentControl DEF SendNak, Ask
  <2>4. CASE SendAck(s)
    BY <1>2, <2>1, <2>4, SentControl DEF SendAck, Ask
  <2>5. QED
    BY <2>2, <2>3, <2>4 DEF Silence, OnHeartBeat
<1>6. /\ Parted(ports)' /\ Len(ports') <= MaxPorts /\ active' \subseteq Subscriber
      /\ air' \in [Subscriber -> 0 .. issued] /\ leaves' \in 0 .. MaxLeaves
  BY <1>1, <1>3 DEF CastTypeOK
<1>7. QED
  BY <1>3, <1>4, <1>5, <1>6, QueuesAlone

LEMMA NoPorts == Parted(<<>>) /\ Len(<<>>) = 0
<1>1. <<>> \in Seq(Port) /\ Len(<<>>) = 0
  BY EmptySeq
<1>2. DOMAIN <<>> = {}
  BY <1>1, LenProperties
<1>3. QED
  BY <1>1, <1>2 DEF Parted

LEMMA ControlKeeps ==
  ASSUME CastInv, NEW m \in Control, OnControl(m)
  PROVE  CastInv'
<1>1. CastTypeOK /\ Parted(ports) /\ Len(ports) <= MaxPorts /\ Len(ports) \in Nat
  BY PartedFacts DEF CastInv, CastTypeOK
<1>2. control' \subseteq Control /\ UNCHANGED <<issued, active, received, queue, disorder, air, leaves>>
  BY <1>1 DEF OnControl, subscribers, CastTypeOK
<1>3. Parted(ports') /\ Len(ports') <= MaxPorts
  <2>1. CASE m.type = "subscribe"
    <3>1. m.from \in Subscriber /\ m.id \in 0 .. MaxPublished /\ ports' = AfterNak(ports, m.from, m.id)
      BY <2>1 DEF OnControl, Control
    <3>2. QED
      BY <1>1, <3>1, AfterNakParted
  <2>2. CASE m.type = "ack"
    <3>1. m.from \in Subscriber /\ m.id \in 0 .. MaxPublished /\ ports' = AfterAck(ports, m.from, m.id)
      BY <2>2 DEF OnControl, Control
    <3>2. Parted(AfterAck(ports, m.from, m.id)) /\ Len(AfterAck(ports, m.from, m.id)) = Len(ports)
      BY <1>1, <3>1, AfterAckParted
    <3>3. QED
      BY <1>1, <3>1, <3>2
  <2>3. CASE m.type = "unsubscribe"
    <3>1. ports' = <<>>
      BY <2>3 DEF OnControl
    <3>2. QED
      BY <3>1, NoPorts, CastBounds
  <2>4. m.type \in {"subscribe", "ack", "unsubscribe"}
    BY DEF Control
  <2>5. QED
    BY <2>1, <2>2, <2>3, <2>4
<1>4. Parted(ports)'
  BY <1>3 DEF Parted, Distinct, On
<1>5. /\ active' \subseteq Subscriber /\ disorder' \in [Subscriber -> BOOLEAN]
      /\ air' \in [Subscriber -> 0 .. issued] /\ leaves' \in 0 .. MaxLeaves
  BY <1>1, <1>2 DEF CastTypeOK
<1>6. QED
  BY <1>2, <1>3, <1>4, <1>5, QueuesAlone

LEMMA DriveKeeps ==
  ASSUME CastInv, Drive
  PROVE  CastInv'
<1>1. Parted(ports') /\ Len(ports') <= MaxPorts
  BY AfterTimerParted DEF Drive
<1>2. Parted(ports)'
  BY <1>1 DEF Parted, Distinct, On
<1>3. air' \in [Subscriber -> 0 .. issued]
  BY HearingsKnown DEF Drive
<1>4. /\ UNCHANGED <<issued, queue, received>> /\ active' \subseteq Subscriber
      /\ disorder' \in [Subscriber -> BOOLEAN] /\ control' \subseteq Control /\ leaves' \in 0 .. MaxLeaves
  BY DEF Drive, subscribers, CastInv, CastTypeOK
<1>5. QED
  BY <1>1, <1>2, <1>3, <1>4, QueuesAlone

\* The timer may make one port of two before it takes a subscriber off; the
\* subscriber is still served by one.
LEMMA TimeoutKeeps ==
  ASSUME CastInv, NEW s \in Subscriber, DriveTimeout(s)
  PROVE  CastInv'
<1>1. PICK ps \in AfterTimer : ports' = TimedOut(ps, s)
  BY DEF DriveTimeout
<1>2. Parted(ps) /\ Len(ps) <= MaxPorts /\ Len(ps) \in Nat /\ Serving(ps, s) # {}
  BY AfterTimerParted DEF DriveTimeout
<1>3. Parted(TimedOut(ps, s)) /\ Len(TimedOut(ps, s)) <= Len(ps)
  BY <1>2, TimedOutParted
<1>4. Len(TimedOut(ps, s)) \in Nat
  BY <1>3, PartedFacts
<1>5. Parted(ports') /\ Len(ports') <= MaxPorts
  BY <1>1, <1>2, <1>3, <1>4, CastBounds
<1>6. Parted(ports)'
  BY <1>5 DEF Parted, Distinct, On
<1>7. air' \in [Subscriber -> 0 .. issued]
  BY HearingsKnown DEF DriveTimeout
<1>8. leaves' \in 0 .. MaxLeaves
  BY CastBounds DEF DriveTimeout, CastInv, CastTypeOK
<1>9. /\ UNCHANGED <<issued, queue, received>> /\ active' \subseteq Subscriber
      /\ disorder' \in [Subscriber -> BOOLEAN] /\ control' \subseteq Control
  BY DEF DriveTimeout, subscribers, CastInv, CastTypeOK
<1>10. QED
  BY <1>5, <1>6, <1>7, <1>8, <1>9, QueuesAlone

LEMMA CastStutters ==
  ASSUME CastInv, UNCHANGED castVars
  PROVE  CastInv'
<1>1. /\ Parted(ports)' /\ Len(ports') <= MaxPorts
  BY DEF castVars, publisher, CastInv, CastTypeOK
<1>2. /\ UNCHANGED <<issued, queue, received>> /\ active' \subseteq Subscriber
      /\ disorder' \in [Subscriber -> BOOLEAN] /\ control' \subseteq Control
      /\ air' \in [Subscriber -> 0 .. issued] /\ leaves' \in 0 .. MaxLeaves
  BY DEF castVars, publisher, subscribers, CastInv, CastTypeOK
<1>3. QED
  BY <1>1, <1>2, QueuesAlone

(* The inductive invariant of the flow over datagrams: nobody is in two      *)
(* ports, and every subscriber's queue is a window of the flow.              *)
THEOREM CastHolds == CastSpec => []CastInv
<1>1. CastInit => CastInv
  BY CastInitially
<1>2. CastInv /\ [CastNext]_castVars => CastInv'
  <2>1. ASSUME CastInv, CastNext
        PROVE  CastInv'
    <3>1. CASE Publish
      BY <2>1, <3>1, PublishKeeps
    <3>2. ASSUME NEW s \in Subscriber,
                 \/ RegisterSubscriber(s) \/ UnRegisterSubscriber(s)
                 \/ HandlePackage(s, air[s])
                 \/ Silence(s) \/ SendNak(s) \/ SendAck(s) \/ OnHeartBeat(s)
                 \/ DriveTimeout(s)
          PROVE  CastInv'
      BY <2>1, <3>2, RegisterKeeps, UnRegisterKeeps, PackageKeeps, AskingKeeps, TimeoutKeeps
    <3>3. ASSUME NEW m \in Control, OnControl(m)
          PROVE  CastInv'
      BY <2>1, <3>3, ControlKeeps
    <3>4. CASE Drive
      BY <2>1, <3>4, DriveKeeps
    <3>5. QED
      BY <2>1, <3>1, <3>2, <3>3, <3>4 DEF CastNext
  <2>2. QED
    BY <2>1, CastStutters
<1>3. QED
  BY <1>1, <1>2, PTL DEF CastSpec

(* The order of a subscriber is never lost (COrderingQ, CXTPSubEndPoint):    *)
(* whatever is lost, repeated or overtaken, the queue and the flow agree on  *)
(* the next number and a package is found under its own.                     *)
THEOREM OrderKept == CastSpec => []InStep
<1>1. CastInv => InStep
  <2>1. SUFFICES ASSUME CastInv PROVE InStep
    OBVIOUS
  <2>2. ASSUME NEW s \in active
        PROVE  queue[s].startIndex = received[s] + 1 /\ SlotsRight(queue[s])
    <3>1. s \in Subscriber
      BY <2>1 DEF CastInv, CastTypeOK
    <3>2. Ordered(queue[s], issued) /\ queue[s].startIndex = received[s] + 1 /\ issued \in Nat
      BY <2>1, <3>1, Owed
    <3>3. QED
      BY <3>2, OrderedSlots
  <2>3. QED
    BY <2>1, <2>2 DEF InStep, CastInv
<1>2. QED
  BY <1>1, CastHolds, PTL

LEMMA AtMostOne ==
  ASSUME NEW S, \A x, y \in S : x = y
  PROVE  Cardinality(S) <= 1
<1>1. CASE S = {}
  <2>1. Cardinality(S) = 0
    BY <1>1, FS_EmptySet
  <2>2. QED
    BY <2>1
<1>2. CASE S # {}
  <2>1. PICK x \in S : TRUE
    BY <1>2
  <2>2. S = {x}
    BY <2>1
  <2>3. Cardinality(S) = 1
    BY <2>2, FS_Singleton
  <2>4. QED
    BY <2>3
<1>3. QED
  BY <1>1, <1>2

(* Nobody is served twice (CXTPPubEndPoint): not by two ports and not twice  *)
(* by one, through moves, merges, leaves and timeouts.                       *)
THEOREM NobodyServedTwice == CastSpec => []ServedOnce
<1>1. CastInv => ServedOnce
  <2>1. SUFFICES ASSUME CastInv PROVE ServedOnce
    OBVIOUS
  <2>2. Parted(ports)
    BY <2>1 DEF CastInv
  <2>3. ASSUME NEW s \in Subscriber
        PROVE  Cardinality(Serving(ports, s)) <= 1
    <3>1. \A i, j \in Serving(ports, s) : i = j
      <4>1. Serving(ports, s) = {i \in 1 .. Len(ports) : s \in On(ports[i])}
        BY <2>2, PartedFacts
      <4>2. \A i, j \in 1 .. Len(ports) : i # j => On(ports[i]) \intersect On(ports[j]) = {}
        BY <2>2, PartedFacts
      <4>3. QED
        BY <4>1, <4>2
    <3>2. QED
      BY <3>1, AtMostOne
  <2>4. ASSUME NEW s \in Subscriber, NEW i \in DOMAIN ports
        PROVE  Cardinality({k \in DOMAIN ports[i].subscribers : ports[i].subscribers[k] = s}) <= 1
    <3> DEFINE S == {k \in DOMAIN ports[i].subscribers : ports[i].subscribers[k] = s}
    <3>1. \A k, l \in S : k = l
      BY <2>2 DEF Parted, Distinct
    <3> HIDE DEF S
    <3>2. Cardinality(S) <= 1
      BY <3>1, AtMostOne
    <3>3. QED
      BY <3>2 DEF S
  <2>5. QED
    BY <2>3, <2>4 DEF ServedOnce
<1>2. QED
  BY <1>1, CastHolds, PTL

-----------------------------------------------------------------------------
(* The published flow in memory (PubFlow).                                   *)

USE BaseAssumption, BoundAssumption

(* The length of the result flow at any point of the series is a natural    *)
(* number that does not decrease along the series.                          *)
LEMMA ResultsAtMonotone ==
  ASSUME TypeOK, ProducedInv, NEW s \in Int, NEW t \in Int, s <= t
  PROVE  /\ ResultsAt(s) \in Nat
         /\ ResultsAt(s) <= ResultsAt(t)
         /\ ResultsAt(t) <= Results
         /\ Results \in Nat
<1>1. produced \in Seq(Nat) /\ Len(produced) \in Nat
  BY DEF TypeOK
<1>2. \A i \in 1 .. Len(produced) : produced[i] \in Nat
  BY <1>1
<1>3. /\ \A i \in 1 .. Len(produced) : BaseResults <= produced[i]
      /\ \A i, j \in 1 .. Len(produced) : i <= j => produced[i] <= produced[j]
  BY DEF ProducedInv
<1>4. Results = IF Len(produced) = 0 THEN BaseResults
                                     ELSE produced[Len(produced)]
  BY <1>1 DEF Results
<1> HIDE DEF Results
<1>5. Results \in Nat /\ BaseResults <= Results
  BY <1>1, <1>2, <1>3, <1>4
<1>6. \A i \in 1 .. Len(produced) : produced[i] <= Results
  BY <1>1, <1>3, <1>4
<1>7. QED
  BY <1>1, <1>2, <1>3, <1>5, <1>6 DEF ResultsAt

LEMMA PubFlowInit == Init => PubFlowInv
<1> SUFFICES ASSUME Init PROVE PubFlowInv
  OBVIOUS
<1> USE DEF Init
<1>1. TypeOK
  <2>1. produced \in Seq(Nat)
    OBVIOUS
  <2>2. kpc \in KernelPC /\ cpc \in SequencerPC
    BY DEF KernelPC, SequencerPC
  <2>3. /\ ack \in Int /\ published \in Nat
        /\ noAckSeries \in Int /\ noAckResult \in Int
        /\ count \in Nat /\ confirmed \in Int
    BY BaseAssumption
  <2>4. QED
    BY <2>1, <2>2, <2>3 DEF TypeOK
<1>2. ProducedInv
  BY DEF ProducedInv
<1>3. StartingInv /\ ConfirmedInv /\ PendingInv /\ ReleasedInv
  BY DEF StartingInv, ConfirmedInv, PendingInv, ReleasedInv
<1>4. QED
  BY <1>1, <1>2, <1>3 DEF PubFlowInv

LEMMA FirstReDoInv ==
  ASSUME PubFlowInv, FirstReDo PROVE PubFlowInv'
<1> USE DEF PubFlowInv, FirstReDo, Kernel, flow
<1>1. TypeOK'
  BY DEF TypeOK, KernelPC, SequencerPC
<1>2. ProducedInv'
  BY DEF ProducedInv, TypeOK
<1>3. StartingInv' /\ ConfirmedInv'
  BY DEF StartingInv, ConfirmedInv, TypeOK
<1>4. \A s \in Int : ResultsAt(s)' = ResultsAt(s)
  BY DEF ResultsAt, Results
<1>5. PendingInv'
  BY <1>4 DEF StartingInv, ConfirmedInv, PendingInv, TypeOK, Registered
<1>6. ReleasedInv'
  BY <1>4 DEF StartingInv, ConfirmedInv, PendingInv, ReleasedInv, TypeOK, Released, Registered
<1>7. QED
  BY <1>1, <1>2, <1>3, <1>5, <1>6

LEMMA AppendMessageInv ==
  ASSUME PubFlowInv, AppendMessage PROVE PubFlowInv'
<1> USE DEF PubFlowInv, AppendMessage, Kernel, flow
<1>1. TypeOK'
  BY DEF TypeOK, KernelPC, SequencerPC
<1>2. ProducedInv'
  BY DEF ProducedInv, TypeOK
<1>3. StartingInv' /\ ConfirmedInv'
  BY DEF StartingInv, ConfirmedInv, TypeOK
<1>4. \A s \in Int : ResultsAt(s)' = ResultsAt(s)
  BY DEF ResultsAt, Results
<1>5. PendingInv'
  BY <1>4 DEF StartingInv, ConfirmedInv, PendingInv, TypeOK, Registered
<1>6. ReleasedInv'
  BY <1>4 DEF StartingInv, ConfirmedInv, PendingInv, ReleasedInv, TypeOK, Released, Registered
<1>7. QED
  BY <1>1, <1>2, <1>3, <1>5, <1>6

LEMMA SpinWhilePendingInv ==
  ASSUME PubFlowInv, SpinWhilePending PROVE PubFlowInv'
<1> USE DEF PubFlowInv, SpinWhilePending, Kernel, flow
<1>1. TypeOK'
  BY DEF TypeOK, KernelPC, SequencerPC
<1>2. ProducedInv'
  BY DEF ProducedInv, TypeOK
<1>3. StartingInv' /\ ConfirmedInv'
  BY DEF StartingInv, ConfirmedInv, TypeOK
<1>4. \A s \in Int : ResultsAt(s)' = ResultsAt(s)
  BY DEF ResultsAt, Results
<1>5. PendingInv'
  BY <1>4 DEF StartingInv, ConfirmedInv, PendingInv, TypeOK, Registered
<1>6. ReleasedInv'
  BY <1>4 DEF StartingInv, ConfirmedInv, PendingInv, ReleasedInv, TypeOK, Released, Registered
<1>7. QED
  BY <1>1, <1>2, <1>3, <1>5, <1>6

LEMMA CheckAckInv ==
  ASSUME PubFlowInv, CheckAck PROVE PubFlowInv'
<1> USE DEF PubFlowInv, CheckAck, Kernel, flow
<1>1. TypeOK'
  BY DEF TypeOK, KernelPC, SequencerPC
<1>2. ProducedInv'
  BY DEF ProducedInv, TypeOK
<1>3. StartingInv' /\ ConfirmedInv'
  BY DEF StartingInv, ConfirmedInv, TypeOK
<1>4. \A s \in Int : ResultsAt(s)' = ResultsAt(s)
  BY DEF ResultsAt, Results
<1>5. PendingInv'
  BY <1>4 DEF StartingInv, ConfirmedInv, PendingInv, TypeOK, Registered
<1>6. ReleasedInv'
  BY <1>4 DEF StartingInv, ConfirmedInv, PendingInv, ReleasedInv, TypeOK, Released, Registered
<1>7. QED
  BY <1>1, <1>2, <1>3, <1>5, <1>6

LEMMA PublishNowInv ==
  ASSUME PubFlowInv, PublishNow PROVE PubFlowInv'
<1> USE DEF PubFlowInv, PublishNow, Kernel, flow
<1>0. Results \in Nat
  BY ResultsAtMonotone
<1>1. TypeOK'
  BY <1>0 DEF TypeOK, KernelPC, SequencerPC
<1>2. ProducedInv'
  BY DEF ProducedInv, TypeOK
<1>3. StartingInv' /\ ConfirmedInv'
  BY DEF StartingInv, ConfirmedInv, TypeOK
<1>4. \A s \in Int : ResultsAt(s)' = ResultsAt(s)
  BY DEF ResultsAt, Results
<1>5. PendingInv'
  BY <1>4 DEF StartingInv, ConfirmedInv, PendingInv, TypeOK, Registered
<1>8. ~started /\ count = Base /\ noAckSeries = -1 /\ confirmed = Base - 1
  BY DEF StartingInv, ConfirmedInv, TypeOK
<1>9. Len(produced) = 0
  BY <1>8 DEF ProducedInv
<1>10. produced = <<>>
  BY <1>9 DEF TypeOK
<1>11. Results = ResultsAt(Base)
  BY <1>10 DEF Results, ResultsAt
<1>6. ReleasedInv'
  BY <1>4, <1>8, <1>11 DEF StartingInv, ConfirmedInv, PendingInv, ReleasedInv, TypeOK, Released, Registered
<1>7. QED
  BY <1>1, <1>2, <1>3, <1>5, <1>6

LEMMA StoreSeriesInv ==
  ASSUME PubFlowInv, StoreSeries PROVE PubFlowInv'
<1> USE DEF PubFlowInv, StoreSeries, Kernel, flow
<1>1. TypeOK'
  BY DEF TypeOK, KernelPC, SequencerPC
<1>2. ProducedInv'
  BY DEF ProducedInv, TypeOK
<1>3. StartingInv' /\ ConfirmedInv'
  BY DEF StartingInv, ConfirmedInv, TypeOK
<1>4. \A s \in Int : ResultsAt(s)' = ResultsAt(s)
  BY DEF ResultsAt, Results
<1>5. PendingInv'
  BY <1>4 DEF StartingInv, ConfirmedInv, PendingInv, TypeOK, Registered
<1>6. ReleasedInv'
  BY <1>4 DEF StartingInv, ConfirmedInv, PendingInv, ReleasedInv, TypeOK, Released, Registered
<1>7. QED
  BY <1>1, <1>2, <1>3, <1>5, <1>6

LEMMA StoreResultInv ==
  ASSUME PubFlowInv, StoreResult PROVE PubFlowInv'
<1> USE DEF PubFlowInv, StoreResult, Kernel, flow
<1>0. Results \in Nat
  BY ResultsAtMonotone
<1>1. TypeOK'
  BY <1>0 DEF TypeOK, KernelPC, SequencerPC
<1>2. ProducedInv'
  BY DEF ProducedInv, TypeOK
<1>3. StartingInv' /\ ConfirmedInv'
  BY DEF StartingInv, ConfirmedInv, TypeOK
<1>4. \A s \in Int : ResultsAt(s)' = ResultsAt(s)
  BY DEF ResultsAt, Results
<1>8. started /\ count > Base /\ Len(produced) = count - Base
  BY DEF StartingInv, ConfirmedInv, ProducedInv, TypeOK
<1>9. Results = ResultsAt(count)
  BY <1>8 DEF Results, ResultsAt, TypeOK
<1>5. PendingInv'
  BY <1>4, <1>8, <1>9 DEF StartingInv, ConfirmedInv, PendingInv, TypeOK, Registered
<1>6. ReleasedInv'
  BY <1>4 DEF StartingInv, ConfirmedInv, PendingInv, ReleasedInv, TypeOK, Released, Registered
<1>7. QED
  BY <1>1, <1>2, <1>3, <1>5, <1>6

LEMMA TestPendingInv ==
  ASSUME PubFlowInv, TestPending PROVE PubFlowInv'
<1> USE DEF PubFlowInv, TestPending, Sequencer, flow
<1>1. TypeOK'
  BY DEF TypeOK, KernelPC, SequencerPC
<1>2. ProducedInv'
  BY DEF ProducedInv, TypeOK
<1>3. StartingInv' /\ ConfirmedInv'
  BY DEF StartingInv, ConfirmedInv, TypeOK
<1>4. \A s \in Int : ResultsAt(s)' = ResultsAt(s)
  BY DEF ResultsAt, Results
<1>5. PendingInv'
  BY <1>4 DEF StartingInv, ConfirmedInv, PendingInv, TypeOK, Registered
<1>6. ReleasedInv'
  BY <1>4 DEF StartingInv, ConfirmedInv, PendingInv, ReleasedInv, TypeOK, Released, Registered
<1>7. QED
  BY <1>1, <1>2, <1>3, <1>5, <1>6

LEMMA TestKeyInv ==
  ASSUME PubFlowInv, TestKey PROVE PubFlowInv'
<1> USE DEF PubFlowInv, TestKey, Sequencer, flow
<1>1. TypeOK'
  BY DEF TypeOK, KernelPC, SequencerPC
<1>2. ProducedInv'
  BY DEF ProducedInv, TypeOK
<1>3. StartingInv' /\ ConfirmedInv'
  BY DEF StartingInv, ConfirmedInv, TypeOK
<1>4. \A s \in Int : ResultsAt(s)' = ResultsAt(s)
  BY DEF ResultsAt, Results
<1>5. PendingInv'
  BY <1>4 DEF StartingInv, ConfirmedInv, PendingInv, TypeOK, Registered
<1>6. ReleasedInv'
  BY <1>4 DEF StartingInv, ConfirmedInv, PendingInv, ReleasedInv, TypeOK, Released, Registered
<1>7. QED
  BY <1>1, <1>2, <1>3, <1>5, <1>6

LEMMA PublishPendingInv ==
  ASSUME PubFlowInv, PublishPending PROVE PubFlowInv'
<1> USE DEF PubFlowInv, PublishPending, Sequencer, flow
<1>0. noAckResult \in Nat
  <2>1. started /\ noAckSeries # -1 /\ kpc # "storeResult"
    BY DEF StartingInv, PendingInv
  <2>2. noAckResult = ResultsAt(noAckSeries)
    BY <2>1 DEF PendingInv
  <2>3. noAckSeries \in Int
    BY DEF TypeOK
  <2>4. QED
    BY <2>2, <2>3, ResultsAtMonotone
<1>1. TypeOK'
  BY <1>0 DEF TypeOK, KernelPC, SequencerPC
<1>2. ProducedInv'
  BY DEF ProducedInv, TypeOK
<1>3. StartingInv' /\ ConfirmedInv'
  BY DEF StartingInv, ConfirmedInv, TypeOK
<1>4. \A s \in Int : ResultsAt(s)' = ResultsAt(s)
  BY DEF ResultsAt, Results
<1>5. PendingInv'
  BY <1>4 DEF StartingInv, ConfirmedInv, PendingInv, TypeOK, Registered
<1>6. ReleasedInv'
  BY <1>4 DEF StartingInv, ConfirmedInv, PendingInv, ReleasedInv, TypeOK, Released, Registered
<1>7. QED
  BY <1>1, <1>2, <1>3, <1>5, <1>6

LEMMA ClearResultInv ==
  ASSUME PubFlowInv, ClearResult PROVE PubFlowInv'
<1> USE DEF PubFlowInv, ClearResult, Sequencer, flow
<1>1. TypeOK'
  BY DEF TypeOK, KernelPC, SequencerPC
<1>2. ProducedInv'
  BY DEF ProducedInv, TypeOK
<1>3. StartingInv' /\ ConfirmedInv'
  BY DEF StartingInv, ConfirmedInv, TypeOK
<1>4. \A s \in Int : ResultsAt(s)' = ResultsAt(s)
  BY DEF ResultsAt, Results
<1>5. PendingInv'
  BY <1>4 DEF StartingInv, ConfirmedInv, PendingInv, TypeOK, Registered
<1>6. ReleasedInv'
  BY <1>4 DEF StartingInv, ConfirmedInv, PendingInv, ReleasedInv, TypeOK, Released, Registered
<1>7. QED
  BY <1>1, <1>2, <1>3, <1>5, <1>6

LEMMA ClearSeriesInv ==
  ASSUME PubFlowInv, ClearSeries PROVE PubFlowInv'
<1> USE DEF PubFlowInv, ClearSeries, Sequencer, flow
<1>1. TypeOK'
  BY DEF TypeOK, KernelPC, SequencerPC
<1>2. ProducedInv'
  BY DEF ProducedInv, TypeOK
<1>3. StartingInv' /\ ConfirmedInv'
  BY DEF StartingInv, ConfirmedInv, TypeOK
<1>4. \A s \in Int : ResultsAt(s)' = ResultsAt(s)
  BY DEF ResultsAt, Results
<1>5. PendingInv'
  BY <1>4 DEF StartingInv, ConfirmedInv, PendingInv, TypeOK, Registered
<1>6. ReleasedInv'
  BY <1>4 DEF StartingInv, ConfirmedInv, PendingInv, ReleasedInv, TypeOK, Released, Registered
<1>7. QED
  BY <1>1, <1>2, <1>3, <1>5, <1>6

(* One more result count is appended to `produced'; the earlier ones, which *)
(* are the ones a waiting entry or `published' can name, keep their place.   *)
LEMMA HandleMessageInv ==
  ASSUME PubFlowInv, HandleMessage PROVE PubFlowInv'
<1> USE DEF PubFlowInv, HandleMessage, Kernel, flow
<1>1. PICK n \in 0 .. MaxResults : produced' = Append(produced, Results + n)
  OBVIOUS
<1>2. /\ Results \in Nat
      /\ n \in Nat
      /\ produced \in Seq(Nat)
      /\ Len(produced) = count - Base - 1
  BY ResultsAtMonotone DEF ProducedInv, TypeOK
<1>3. started /\ count > Base
  BY DEF StartingInv, ConfirmedInv
<1>4. /\ produced' \in Seq(Nat)
      /\ Len(produced') = Len(produced) + 1
      /\ \A i \in 1 .. Len(produced) : produced'[i] = produced[i]
      /\ produced'[Len(produced) + 1] = Results + n
  BY <1>1, <1>2
<1>5. TypeOK'
  BY <1>4 DEF TypeOK, KernelPC, SequencerPC
<1>6. ProducedInv'
  <2>1. \A i \in 1 .. Len(produced) : /\ produced[i] \in Nat
                                      /\ BaseResults <= produced[i]
                                      /\ produced[i] <= Results
    BY <1>2 DEF ProducedInv, Results
  <2>2. BaseResults <= Results
    BY <1>2 DEF ProducedInv, Results
  <2>3. Len(produced') = (count - Base - (IF kpc = "handle" THEN 1 ELSE 0))'
    BY <1>2, <1>4 DEF TypeOK
  <2>4. \A i \in 1 .. Len(produced') : BaseResults <= produced'[i]
    BY <1>2, <1>4, <2>1, <2>2
  <2>5. \A i, j \in 1 .. Len(produced') :
           i <= j => produced'[i] <= produced'[j]
    <3>1. \A i, j \in 1 .. Len(produced) :
             i <= j => produced'[i] <= produced'[j]
      BY <1>4 DEF ProducedInv
    <3>2. \A i \in 1 .. Len(produced) :
             produced'[i] <= produced'[Len(produced) + 1]
      BY <1>2, <1>4, <2>1
    <3>3. produced'[Len(produced) + 1] \in Nat
      BY <1>2, <1>4
    <3>4. QED
      BY <1>2, <1>4, <3>1, <3>2, <3>3
  <2>6. QED
    BY <2>3, <2>4, <2>5 DEF ProducedInv
<1>7. StartingInv' /\ ConfirmedInv'
  BY <1>3 DEF StartingInv, ConfirmedInv, TypeOK
<1>8. \A s \in Int : s < count => ResultsAt(s)' = ResultsAt(s)
  BY <1>2, <1>4, BaseAssumption DEF ResultsAt, TypeOK
<1>9. PendingInv'
  BY <1>3, <1>8 DEF PendingInv, TypeOK, Registered
<1>10. ReleasedInv'
  BY <1>3, <1>8 DEF PendingInv, ReleasedInv, TypeOK, Released, Registered
<1>11. QED
  BY <1>5, <1>6, <1>7, <1>9, <1>10

LEMMA ConfirmAnyInv ==
  ASSUME PubFlowInv, ConfirmAny PROVE PubFlowInv'
<1> USE DEF PubFlowInv, ConfirmQueued, Sequencer, flow
<1>1. PICK key \in confirmed + 1 .. count - 1 : ConfirmQueued(key)
  BY DEF ConfirmAny
<1>2. key \in Int /\ confirmed < key /\ key < count /\ started
  BY <1>1 DEF TypeOK
<1>3. TypeOK'
  BY <1>1, <1>2 DEF TypeOK, KernelPC, SequencerPC
<1>4. ProducedInv'
  BY <1>1 DEF ProducedInv, TypeOK
<1>5. StartingInv' /\ ConfirmedInv'
  BY <1>1, <1>2 DEF StartingInv, ConfirmedInv, TypeOK
<1>6. \A s \in Int : ResultsAt(s)' = ResultsAt(s)
  BY <1>1 DEF ResultsAt, Results
<1>7. PendingInv'
  BY <1>1, <1>2, <1>6 DEF ConfirmedInv, PendingInv, TypeOK, Registered
<1>8. ReleasedInv'
  BY <1>1, <1>2, <1>6 DEF ConfirmedInv, PendingInv, ReleasedInv, TypeOK,
                          Released, Registered
<1>9. QED
  BY <1>3, <1>4, <1>5, <1>7, <1>8

LEMMA PubFlowNext == PubFlowInv /\ [Next]_vars => PubFlowInv'
<1> SUFFICES ASSUME PubFlowInv, [Next]_vars PROVE PubFlowInv'
  OBVIOUS
<1>1. CASE MatchingThread
  BY <1>1, FirstReDoInv, AppendMessageInv, HandleMessageInv,
     SpinWhilePendingInv, CheckAckInv, PublishNowInv, StoreSeriesInv,
     StoreResultInv DEF MatchingThread
<1>2. CASE SequencerThread
  BY <1>2, ConfirmAnyInv, TestPendingInv, TestKeyInv, PublishPendingInv,
     ClearResultInv, ClearSeriesInv DEF SequencerThread
<1>3. CASE UNCHANGED vars
  <2>1. TypeOK'
    BY <1>3 DEF PubFlowInv, vars, TypeOK, KernelPC, SequencerPC
  <2>2. ProducedInv' /\ StartingInv' /\ ConfirmedInv'
    BY <1>3 DEF PubFlowInv, vars, ProducedInv, StartingInv, ConfirmedInv
  <2>3. PendingInv' /\ ReleasedInv'
    BY <1>3 DEF PubFlowInv, vars, PendingInv, ReleasedInv, Released,
                Registered, ResultsAt, Results
  <2>4. QED
    BY <2>1, <2>2, <2>3 DEF PubFlowInv
<1>4. QED
  BY <1>1, <1>2, <1>3 DEF Next

-----------------------------------------------------------------------------
(* The inductive invariant holds in every reachable state: at every point of *)
(* CPubFlow::ConfirmQueued and SetSIDAndRID the published length is exactly  *)
(* that of the last entry released.                                          *)
THEOREM PubFlowInvariance == Spec => []PubFlowInv
<1>1. Init => PubFlowInv
  BY PubFlowInit
<1>2. PubFlowInv /\ [Next]_vars => PubFlowInv'
  BY PubFlowNext
<1>3. QED
  BY <1>1, <1>2, PTL DEF Spec

(* Every word of CPubFlow keeps its type; in particular the published length *)
(* is never the -1 of a cleared entry.                                       *)
THEOREM TypeCorrect == Spec => []TypeOK
<1>1. PubFlowInv => TypeOK
  BY DEF PubFlowInv
<1>2. QED
  BY <1>1, PubFlowInvariance, PTL

(* What CPubFlow::GetCount returns covers only messages the standby has      *)
(* confirmed, for every interleaving of the two threads.                     *)
THEOREM OnlyConfirmedIsPublished == Spec => []PublishedOnlyConfirmed
<1>1. PubFlowInv => PublishedOnlyConfirmed
  <2> SUFFICES ASSUME PubFlowInv, started
               PROVE  published <= ResultsAt(confirmed + 1)
    BY DEF PublishedOnlyConfirmed
  <2>1. TypeOK /\ ProducedInv
    BY DEF PubFlowInv
  <2>2. /\ published = ResultsAt(Released)
        /\ Released \in Int
        /\ confirmed + 1 \in Int
        /\ Released <= confirmed + 1
    BY <2>1 DEF PubFlowInv, ReleasedInv, ConfirmedInv, TypeOK, Released, Registered
  <2>3. QED
    BY <2>1, <2>2, ResultsAtMonotone
<1>2. QED
  BY <1>1, PubFlowInvariance, PTL

(* While ConfirmQueued gives an entry back, SetSIDAndRID does not write one. *)
THEOREM EntryHandedOver == Spec => []HandedOver
<1>1. PubFlowInv => HandedOver
  BY DEF PubFlowInv, HandedOver, TypeOK, KernelPC, SequencerPC, StartingInv,
         ConfirmedInv, PendingInv
<1>2. QED
  BY <1>1, PubFlowInvariance, PTL

(* An entry that no longer waits has been published: no result is dropped    *)
(* between SetSIDAndRID and ConfirmQueued.                                   *)
THEOREM NoResultForgotten == Spec => []NothingForgotten
<1>1. PubFlowInv => NothingForgotten
  <2> SUFFICES ASSUME PubFlowInv, started, kpc = "append", cpc = "idle",
                      noAckSeries < 0
               PROVE  published = Results
    BY DEF NothingForgotten
  <2>1. TypeOK /\ ProducedInv /\ ConfirmedInv /\ PendingInv /\ ReleasedInv
    BY DEF PubFlowInv
  <2>2. noAckSeries = -1 /\ published = ResultsAt(count)
    BY <2>1, BaseAssumption DEF TypeOK, PendingInv, ReleasedInv, Released, Registered
  <2>3. Len(produced) = count - Base /\ produced \in Seq(Nat) /\ count \in Nat
    BY <2>1 DEF TypeOK, ProducedInv
  <2>4. CASE count <= Base
    <3>1. produced = <<>>
      BY <2>3, <2>4, BaseAssumption
    <3>2. QED
      BY <2>2, <2>4, <3>1 DEF ResultsAt, Results
  <2>5. CASE count > Base
    BY <2>2, <2>3, <2>5, BaseAssumption DEF ResultsAt, Results
  <2>6. QED
    BY <2>3, <2>4, <2>5, BaseAssumption
<1>2. QED
  BY <1>1, PubFlowInvariance, PTL

(* The published flow never shrinks under its readers.                       *)
THEOREM PublishedNeverShrinks == Spec => PublishedMonotone
<1>1. PubFlowInv /\ PubFlowInv' /\ [Next]_vars => [published' >= published]_published
  <2> SUFFICES ASSUME PubFlowInv, PubFlowInv', [Next]_vars,
                      published' # published
               PROVE  published' >= published
    OBVIOUS
  <2>1. PublishNow \/ PublishPending
    BY DEF Next, MatchingThread, SequencerThread, FirstReDo, AppendMessage,
       HandleMessage, SpinWhilePending, CheckAck, StoreSeries, StoreResult,
       ConfirmAny, ConfirmQueued, TestPending, TestKey, ClearResult,
       ClearSeries, flow, vars
  <2>2. CASE PublishNow
    <3>1. published = 0 /\ published' \in Nat
      BY <2>2 DEF PublishNow, Kernel, PubFlowInv, TypeOK, StartingInv, ConfirmedInv
    <3>2. QED
      BY <3>1
  <2>3. CASE PublishPending
    <3>1. /\ started /\ noAckSeries # -1 /\ kpc # "storeResult"
          /\ noAckResult = ResultsAt(noAckSeries)
      BY <2>3 DEF PublishPending, Sequencer, PubFlowInv, StartingInv, PendingInv
    <3>2. noAckSeries = Registered /\ published = ResultsAt(Registered - 1)
      BY <2>3, <3>1 DEF PublishPending, Sequencer, PubFlowInv, PendingInv,
                        ReleasedInv, Released
    <3>3. Registered \in Int
      BY DEF Registered, PubFlowInv, TypeOK
    <3>4. ResultsAt(Registered - 1) <= ResultsAt(Registered)
      BY <3>3, ResultsAtMonotone DEF PubFlowInv
    <3>5. QED
      BY <2>3, <3>1, <3>2, <3>4, <3>3, ResultsAtMonotone
         DEF PublishPending, PubFlowInv
  <2>4. QED
    BY <2>1, <2>2, <2>3
<1>2. QED
  BY <1>1, PubFlowInvariance, PTL DEF PublishedMonotone, Spec
=============================================================================
