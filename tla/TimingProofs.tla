----------------------------- MODULE TimingProofs -----------------------------
(***************************************************************************)
(* Proofs about the timers of a reactor, for any intervals, any width of   *)
(* the clock and any length of the day of the heap that TimerBounds allows,*)
(* and about the heartbeats of a session, for any timeouts and delays that *)
(* HeartbeatBounds allows.                                                 *)
(***************************************************************************)
EXTENDS TimerHeap, Heartbeat, SequenceTheorems, TLAPS

-----------------------------------------------------------------------------
(* The clock goes round.                                                   *)

LEMMA DivMod ==
  ASSUME NEW n \in Int, NEW w \in Nat \ {0}
  PROVE  n = w * (n \div w) + (n % w) /\ n % w \in 0 .. w - 1 /\ n \div w \in Int
  OBVIOUS

\* Two numbers that are closer than a round have the same quotient.
LEMMA OneRound ==
  ASSUME NEW w \in Nat \ {0}, NEW m \in Int, -w < w * m, w * m < w
  PROVE  m = 0
<1>1. m >= 1 => w * m >= w
  OBVIOUS
<1>2. m <= -1 => w * m <= -w
  OBVIOUS
<1>3. QED
  BY <1>1, <1>2

LEMMA ModUnique ==
  ASSUME NEW w \in Nat \ {0}, NEW k \in Int, NEW d \in 0 .. w - 1
  PROVE  (w * k + d) % w = d
<1> DEFINE x == w * k + d
           q == x \div w
<1>1. x \in Int
  OBVIOUS
<1>2. x = w * q + (x % w) /\ x % w \in 0 .. w - 1 /\ q \in Int
  BY <1>1, DivMod
<1>3. w * (k - q) = (x % w) - d
  <2>1. w * (k - q) = w * k - w * q
    BY <1>2
  <2>2. QED
    BY <2>1, <1>2
<1> HIDE DEF q, x
<1>4. k - q = 0
  BY <1>2, <1>3, OneRound
<1>5. x % w = d
  BY <1>2, <1>3, <1>4
<1>6. QED
  BY <1>5 DEF x

\* What CTimerHeap::SyncTime computes from the reactor's clock, in 32 bits, is the
\* time that has passed since m_nClockAlter, if that is less than a round.
LEMMA TimePassed ==
  ASSUME NEW w \in Nat \ {0}, NEW n \in Nat, NEW a \in Nat, a <= n, n - a < w
  PROVE  ((n % w) - a) % w = n - a /\ n % w <= n
<1> DEFINE q == n \div w
<1>1. n = w * q + (n % w) /\ n % w \in 0 .. w - 1 /\ q \in Int
  BY DivMod
<1> HIDE DEF q
<1>2. w * (-q) = -(w * q)
  BY <1>1
<1>3. (n % w) - a = w * (-q) + (n - a)
  BY <1>1, <1>2
<1>4. n - a \in 0 .. w - 1 /\ -q \in Int
  BY <1>1
<1>5. (w * (-q) + (n - a)) % w = n - a
  BY <1>4, ModUnique
<1>6. q >= 0
  <2>1. q <= -1 => w * q <= -w
    BY <1>1
  <2>2. QED
    BY <1>1, <2>1
<1>7. w * q >= 0
  BY <1>1, <1>6
<1>8. QED
  BY <1>1, <1>3, <1>5, <1>7

-----------------------------------------------------------------------------
(* The inductive invariant.                                                *)

\* The heap's clock shows the time of the last call of Expire, from which the
\* reactor's clock is less than a round away.
ClockRight ==
  /\ now - checked <= MaxGap
  /\ ~jumped => alter + clock = checked

\* The loop of Expire leaves no timer that is due.
NoneDue == ~expiring => \A t \in Timer : elapse[t] > 0 => expire[t] > clock

\* A timer expires when its interval has passed, or it is overdue since before
\* the heap began its day.
ExpiryRight ==
  ~jumped => \A t \in Timer : elapse[t] > 0 =>
    \/ expire[t] + alter = base[t] + elapse[t]
    \/ expire[t] = 0 /\ base[t] + elapse[t] <= alter

TimerInv == TypeOK /\ ClockRight /\ NoneDue /\ ExpiryRight

LEMMA Numbers ==
  /\ Wrap \in Nat \ {0} /\ MaxTimeout \in Nat /\ MaxJump \in Nat /\ MaxGap \in Nat
  /\ MaxTime \in Nat /\ 2 * MaxTimeout + MaxGap < Wrap
  /\ \A e \in Elapses : e \in Nat /\ 1 <= e /\ e <= MaxTimeout
<1>1. /\ Wrap \in Nat /\ MaxTimeout \in Nat /\ MaxJump \in Nat /\ MaxGap \in Nat /\ MaxTime \in Nat
      /\ 2 * MaxTimeout + MaxGap < Wrap
  BY TimerBounds
<1>2. \A e \in Elapses : e \in 1 .. MaxTimeout
  BY TimerBounds
<1>3. QED
  BY <1>1, <1>2

LEMMA Words ==
  ASSUME TypeOK
  PROVE  /\ now \in Nat /\ checked \in Nat /\ checked <= now
         /\ clock \in Nat /\ clock <= MaxTimeout /\ alter \in Nat
         /\ \A t \in Timer : /\ elapse[t] \in Nat /\ elapse[t] <= MaxTimeout
                             /\ expire[t] \in Nat /\ expire[t] <= 2 * MaxTimeout
                             /\ base[t] \in Nat
<1>1. now \in Nat /\ checked \in 0 .. now /\ clock \in 0 .. MaxTimeout /\ alter \in Nat
  BY DEF TypeOK
<1>2. /\ elapse \in [Timer -> Elapses \union {0}]
      /\ expire \in [Timer -> 0 .. 2 * MaxTimeout] /\ base \in [Timer -> Nat]
  BY DEF TypeOK
<1>3. \A t \in Timer : elapse[t] \in Elapses \union {0} /\ expire[t] \in 0 .. 2 * MaxTimeout
                       /\ base[t] \in Nat
  BY <1>2
<1>4. \A e \in Elapses \union {0} : e \in Nat /\ e <= MaxTimeout
  BY Numbers
<1>5. \A t \in Timer : elapse[t] \in Nat /\ elapse[t] <= MaxTimeout
  BY <1>3, <1>4
<1>6. QED
  BY <1>1, <1>3, <1>5, Numbers

-----------------------------------------------------------------------------
(* Types.                                                                  *)

LEMMA TypeNext ==
  ASSUME TypeOK, [Next]_vars
  PROVE  TypeOK'
<1>1. /\ now \in Nat /\ checked \in Nat /\ checked <= now
      /\ clock \in Nat /\ clock <= MaxTimeout /\ alter \in Nat
      /\ \A t \in Timer : /\ elapse[t] \in Nat /\ elapse[t] <= MaxTimeout
                          /\ expire[t] \in Nat /\ expire[t] <= 2 * MaxTimeout
                          /\ base[t] \in Nat
  BY Words
<1>2. /\ elapse \in [Timer -> Elapses \union {0}]
      /\ expire \in [Timer -> 0 .. 2 * MaxTimeout] /\ base \in [Timer -> Nat]
  BY DEF TypeOK
<1>3. now % Wrap \in Nat /\ Elapsed \in Nat
  <2>1. now % Wrap \in 0 .. Wrap - 1
    BY <1>1, Numbers, DivMod
  <2>2. (now % Wrap) - alter \in Int
    BY <1>1, <2>1, Numbers
  <2>3. Elapsed \in 0 .. Wrap - 1
    BY <2>2, Numbers, DivMod DEF Elapsed
  <2>4. QED
    BY <2>1, <2>3, Numbers
<1>4. {expiring', jumped'} \subseteq BOOLEAN
  BY DEF TypeOK, Next, Tick, SyncTime, ExpireDone, Fire, KillTimer, SetTimer, vars
<1>5. now' \in Nat /\ checked' \in 0 .. now'
  BY <1>1 DEF Next, Tick, SyncTime, ExpireDone, Fire, KillTimer, SetTimer, vars
<1>6. clock' \in 0 .. MaxTimeout /\ alter' \in Nat
  BY <1>1, <1>3, Numbers DEF Next, Tick, SyncTime, ExpireDone, Fire, KillTimer, SetTimer, vars
<1>7. base' \in [Timer -> Nat]
  BY <1>1, <1>2 DEF Next, Tick, SyncTime, ExpireDone, Fire, KillTimer, SetTimer, vars
<1>8. elapse' \in [Timer -> Elapses \union {0}]
  BY <1>2 DEF Next, Tick, SyncTime, ExpireDone, Fire, KillTimer, SetTimer, vars
<1>9. expire' \in [Timer -> 0 .. 2 * MaxTimeout]
  <2>1. CASE expire' = Rebased
    <3>1. \A t \in Timer : (IF expire[t] <= Elapsed THEN 0 ELSE expire[t] - Elapsed)
                             \in 0 .. 2 * MaxTimeout
      BY <1>1, <1>3, Numbers
    <3>2. QED
      BY <2>1, <3>1 DEF Rebased
  <2>2. ASSUME NEW t \in Timer, NEW n \in 0 .. 2 * MaxTimeout, expire' = [expire EXCEPT ![t] = n]
        PROVE  expire' \in [Timer -> 0 .. 2 * MaxTimeout]
    BY <1>2, <2>2
  <2>3. ASSUME NEW t \in Timer, Fire(t)
        PROVE  expire' \in [Timer -> 0 .. 2 * MaxTimeout]
    <3>1. clock + elapse[t] \in 0 .. 2 * MaxTimeout
      BY <1>1, Numbers
    <3>2. QED
      BY <2>2, <2>3, <3>1 DEF Fire
  <2>4. ASSUME NEW t \in Timer, KillTimer(t)
        PROVE  expire' \in [Timer -> 0 .. 2 * MaxTimeout]
    <3>1. 0 \in 0 .. 2 * MaxTimeout
      BY Numbers
    <3>2. QED
      BY <2>2, <2>4, <3>1 DEF KillTimer
  <2>5. ASSUME NEW t \in Timer, NEW e \in Elapses, SetTimer(t, e)
        PROVE  expire' \in [Timer -> 0 .. 2 * MaxTimeout]
    <3>1. clock + e \in 0 .. 2 * MaxTimeout
      BY <1>1, Numbers
    <3>2. QED
      BY <2>2, <2>5, <3>1 DEF SetTimer
  <2>6. CASE expire' = expire
    BY <1>2, <2>6
  <2>7. QED
    BY <2>1, <2>3, <2>4, <2>5, <2>6 DEF Next, Tick, SyncTime, ExpireDone, vars
<1>10. QED
  BY <1>4, <1>5, <1>6, <1>7, <1>8, <1>9 DEF TypeOK

-----------------------------------------------------------------------------
(* One action at a time.                                                   *)

\* Where the time stands when SyncTime looks at it.
LEMMA Synchronised ==
  ASSUME TypeOK, ClockRight, ~jumped
  PROVE  /\ Elapsed = now - alter
         /\ now - checked <= MaxJump => ~TooFar
<1>1. /\ now \in Nat /\ checked \in Nat /\ checked <= now
      /\ clock \in Nat /\ clock <= MaxTimeout /\ alter \in Nat
  BY Words
<1>2. alter <= now /\ now - alter < Wrap
  BY <1>1, Numbers DEF ClockRight
<1>3. Elapsed = now - alter /\ now % Wrap <= now
  BY <1>1, <1>2, Numbers, TimePassed DEF Elapsed
<1>4. now % Wrap \in Int
  BY <1>1, Numbers, DivMod
<1>5. now - checked <= MaxJump => ~((now % Wrap) - alter - clock > MaxJump)
  BY <1>1, <1>3, <1>4, Numbers DEF ClockRight
<1>6. QED
  BY <1>3, <1>5 DEF TooFar

LEMMA ClockNext ==
  ASSUME TypeOK, ClockRight, [Next]_vars
  PROVE  ClockRight'
<1>1. /\ now \in Nat /\ checked \in Nat /\ checked <= now
      /\ clock \in Nat /\ clock <= MaxTimeout /\ alter \in Nat
  BY Words
<1>2. CASE SyncTime
  <2>1. now' - checked' <= MaxGap
    BY <1>1, <1>2, Numbers DEF SyncTime
  <2>2. ASSUME ~jumped'
        PROVE  alter' + clock' = checked'
    <3>1. ~jumped /\ ~(now - checked > MaxJump)
      BY <1>2, <2>2 DEF SyncTime
    <3>2. ~TooFar /\ Elapsed = now - alter
      BY <1>1, <3>1, Numbers, Synchronised
    <3>3. QED
      BY <1>1, <1>2, <3>2 DEF SyncTime
  <2>3. QED
    BY <2>1, <2>2 DEF ClockRight
<1>3. CASE Tick
  BY <1>1, <1>3, Numbers DEF Tick, ClockRight
<1>4. CASE UNCHANGED <<now, checked, clock, alter, jumped>>
  BY <1>4 DEF ClockRight
<1>5. QED
  BY <1>2, <1>3, <1>4 DEF Next, ExpireDone, Fire, KillTimer, SetTimer, vars

\* A timer is armed to expire after e.
LEMMA Armedly ==
  ASSUME TypeOK, ClockRight, NoneDue, ExpiryRight, NEW t \in Timer, NEW e \in Nat,
         expire' = [expire EXCEPT ![t] = clock + e], base' = [base EXCEPT ![t] = checked],
         elapse' = [elapse EXCEPT ![t] = e],
         UNCHANGED <<clock, alter, jumped, expiring>>
  PROVE  NoneDue' /\ ExpiryRight'
<1>1. /\ clock \in Nat /\ alter \in Nat /\ checked \in Nat
      /\ \A u \in Timer : elapse[u] \in Nat /\ expire[u] \in Nat /\ base[u] \in Nat
  BY Words
<1>2. /\ expire'[t] = clock + e /\ base'[t] = checked /\ elapse'[t] = e
      /\ \A u \in Timer : u # t =>
           expire'[u] = expire[u] /\ base'[u] = base[u] /\ elapse'[u] = elapse[u]
  BY DEF TypeOK
<1>3. NoneDue'
  BY <1>1, <1>2 DEF NoneDue
<1>4. ~jumped => expire'[t] + alter = base'[t] + elapse'[t]
  BY <1>1, <1>2 DEF ClockRight
<1>5. ExpiryRight'
  BY <1>2, <1>4 DEF ExpiryRight
<1>6. QED
  BY <1>3, <1>5

LEMMA TimersNext ==
  ASSUME TypeOK, ClockRight, NoneDue, ExpiryRight, [Next]_vars
  PROVE  NoneDue' /\ ExpiryRight'
<1>1. /\ now \in Nat /\ checked \in Nat /\ checked <= now
      /\ clock \in Nat /\ clock <= MaxTimeout /\ alter \in Nat
      /\ \A t \in Timer : elapse[t] \in Nat /\ expire[t] \in Nat /\ base[t] \in Nat
  BY Words
<1>2. CASE Tick
  BY <1>2 DEF Tick, NoneDue, ExpiryRight
<1>3. CASE SyncTime
  <2>1. NoneDue'
    BY <1>3 DEF SyncTime, NoneDue
  <2>2. ASSUME ~jumped', NEW t \in Timer, elapse'[t] > 0
        PROVE  \/ expire'[t] + alter' = base'[t] + elapse'[t]
               \/ expire'[t] = 0 /\ base'[t] + elapse'[t] <= alter'
    <3>1. ~jumped /\ ~(now - checked > MaxJump)
      BY <1>3, <2>2 DEF SyncTime
    <3>2. ~TooFar /\ Elapsed = now - alter
      BY <1>1, <3>1, Numbers, Synchronised
    <3>3. elapse'[t] = elapse[t] /\ base'[t] = base[t]
      BY <1>3 DEF SyncTime
    <3>4. \/ expire[t] + alter = base[t] + elapse[t]
          \/ expire[t] = 0 /\ base[t] + elapse[t] <= alter
      BY <2>2, <3>1, <3>3 DEF ExpiryRight
    <3>5. CASE UNCHANGED <<alter, expire>>
      BY <3>3, <3>4, <3>5
    <3>6. CASE expire' = Rebased /\ alter' = alter + Elapsed
      <4>1. expire'[t] = IF expire[t] <= Elapsed THEN 0 ELSE expire[t] - Elapsed
        BY <3>6 DEF Rebased
      <4>2. alter' = now /\ Elapsed \in Int /\ alter <= now
        BY <1>1, <3>1, <3>2, <3>6 DEF ClockRight
      <4>3. CASE expire[t] <= Elapsed
        BY <1>1, <3>2, <3>3, <3>4, <4>1, <4>2, <4>3
      <4>4. CASE ~(expire[t] <= Elapsed)
        BY <1>1, <3>2, <3>3, <3>4, <4>1, <4>2, <4>4
      <4>5. QED
        BY <4>3, <4>4
    <3>7. QED
      BY <1>3, <3>2, <3>5, <3>6 DEF SyncTime
  <2>3. QED
    BY <2>1, <2>2 DEF ExpiryRight
<1>4. CASE ExpireDone
  <2>1. \A t \in Timer : elapse[t] > 0 => expire[t] > clock
    BY <1>1, <1>4 DEF ExpireDone, Due, Armed
  <2>2. QED
    BY <1>4, <2>1 DEF ExpireDone, NoneDue, ExpiryRight
<1>5. ASSUME NEW t \in Timer, Fire(t)
      PROVE  NoneDue' /\ ExpiryRight'
  <2>1. elapse' = [elapse EXCEPT ![t] = elapse[t]]
    BY <1>5 DEF Fire, TypeOK
  <2>2. elapse[t] \in Nat
    BY <1>1
  <2>3. QED
    BY <1>5, <2>1, <2>2, Armedly DEF Fire
<1>6. ASSUME NEW t \in Timer, KillTimer(t)
      PROVE  NoneDue' /\ ExpiryRight'
  <2>1. /\ elapse'[t] = 0
        /\ \A u \in Timer : u # t =>
             expire'[u] = expire[u] /\ base'[u] = base[u] /\ elapse'[u] = elapse[u]
    BY <1>6 DEF KillTimer, TypeOK
  <2>2. QED
    BY <1>6, <2>1 DEF KillTimer, NoneDue, ExpiryRight
<1>7. ASSUME NEW t \in Timer, NEW e \in Elapses, SetTimer(t, e)
      PROVE  NoneDue' /\ ExpiryRight'
  BY <1>7, Armedly, Numbers DEF SetTimer
<1>8. CASE UNCHANGED vars
  BY <1>8 DEF vars, NoneDue, ExpiryRight
<1>9. QED
  BY <1>2, <1>3, <1>4, <1>5, <1>6, <1>7, <1>8 DEF Next

-----------------------------------------------------------------------------
(* The theorems.                                                           *)

LEMMA InvInit ==
  ASSUME Init
  PROVE  TimerInv
<1>1. now \in Nat
  BY Numbers DEF Init
<1>2. {expiring, jumped} \subseteq BOOLEAN
  BY DEF Init
<1>3. /\ elapse \in [Timer -> Elapses \union {0}]
      /\ expire \in [Timer -> 0 .. 2 * MaxTimeout] /\ base \in [Timer -> Nat]
  <2>1. 0 \in 0 .. 2 * MaxTimeout
    BY Numbers
  <2>2. QED
    BY <2>1 DEF Init
<1>4. TypeOK
  BY <1>1, <1>2, <1>3, Numbers DEF TypeOK, Init
<1>5. ClockRight
  BY <1>1, Numbers DEF ClockRight, Init
<1>6. NoneDue /\ ExpiryRight
  BY DEF NoneDue, ExpiryRight, Init
<1>7. QED
  BY <1>4, <1>5, <1>6 DEF TimerInv

\* The heap's clock is right and every timer's expiry time is, as long as no call
\* of Expire came too late.
THEOREM TimersHold == Spec => []TimerInv
<1>1. Init => TimerInv
  BY InvInit
<1>2. TimerInv /\ [Next]_vars => TimerInv'
  BY TypeNext, ClockNext, TimersNext DEF TimerInv
<1>3. QED
  BY <1>1, <1>2, PTL DEF Spec

\* CTimerHeap::Expire calls OnTimer only when the interval has passed, across the
\* wraps of the reactor's clock and the days of the heap.
THEOREM NoneEarly == Spec => []NeverEarly
<1>1. ASSUME TimerInv
      PROVE  NeverEarly
  <2>1. TypeOK
    BY <1>1 DEF TimerInv
  <2>2. /\ clock \in Nat /\ alter \in Nat /\ checked \in Nat
        /\ \A t \in Timer : elapse[t] \in Nat /\ expire[t] \in Nat /\ base[t] \in Nat
    BY <2>1, Words
  <2>3. ASSUME ~jumped, NEW t \in Due
        PROVE  checked - base[t] >= elapse[t]
    <3>1. t \in Timer /\ elapse[t] > 0 /\ expire[t] <= clock
      BY <2>3 DEF Due, Armed
    <3>2. \/ expire[t] + alter = base[t] + elapse[t]
          \/ expire[t] = 0 /\ base[t] + elapse[t] <= alter
      BY <1>1, <2>3, <3>1 DEF TimerInv, ExpiryRight
    <3>3. alter + clock = checked
      BY <1>1, <2>3 DEF TimerInv, ClockRight
    <3>4. QED
      BY <2>2, <3>1, <3>2, <3>3
  <2>4. QED
    BY <2>1, <2>3 DEF NeverEarly
<1>2. QED
  BY <1>1, TimersHold, PTL

\* When the loop of CTimerHeap::Expire ends, no timer is overdue.
THEOREM AllOnTime == Spec => []OnTime
<1>1. ASSUME TimerInv
      PROVE  OnTime
  <2>1. TypeOK
    BY <1>1 DEF TimerInv
  <2>2. /\ clock \in Nat /\ alter \in Nat /\ checked \in Nat
        /\ \A t \in Timer : elapse[t] \in Nat /\ expire[t] \in Nat /\ base[t] \in Nat
    BY <2>1, Words
  <2>3. ASSUME ~expiring, ~jumped, NEW t \in Armed
        PROVE  checked - base[t] < elapse[t]
    <3>1. t \in Timer /\ elapse[t] > 0
      BY <2>3 DEF Armed
    <3>2. expire[t] > clock
      BY <1>1, <2>3, <3>1 DEF TimerInv, NoneDue
    <3>3. \/ expire[t] + alter = base[t] + elapse[t]
          \/ expire[t] = 0 /\ base[t] + elapse[t] <= alter
      BY <1>1, <2>3, <3>1 DEF TimerInv, ExpiryRight
    <3>4. alter + clock = checked
      BY <1>1, <2>3 DEF TimerInv, ClockRight
    <3>5. QED
      BY <2>2, <3>1, <3>2, <3>3, <3>4
  <2>4. QED
    BY <2>3 DEF OnTime
<1>2. QED
  BY <1>1, TimersHold, PTL

-----------------------------------------------------------------------------
(* The inductive invariant of the heartbeats.                              *)

Package == [age : 0 .. Delay, timeout : Nat]

\* Position k of s is the last write timeout an end is told.
Told(s, k) == s[k].timeout > 0 /\ \A j \in DOMAIN s : j > k => s[j].timeout = 0

\* A package reaches an end before it gives up: what it has been sent arrives in
\* time, or the other end, which has sent i seconds ago and has looked in this second
\* if f, will send in time.  s is on its way to the sender, r to the receiver, whose
\* read timeout R and silence q are.  A sender that knows its write timeout w sends
\* when that is over; one that is about to be told, a second after that at the latest.
Timely(s, r, q, R, w, i, f) ==
  /\ r # <<>> => q + Delay - r[1].age <= R
  /\ \/ /\ \A k \in DOMAIN s : s[k].timeout = 0
        /\ w + Delay <= R
        /\ r = <<>> => /\ q + Delay + (IF f THEN 1 ELSE 0) <= R
                       /\ q + w - i + Delay <= R
     \/ \E k \in DOMAIN s :
          /\ Told(s, k) /\ s[k].timeout + Delay <= R
          /\ r = <<>> => /\ q + Delay - s[k].age + 1 + Delay <= R
                         /\ q + s[k].timeout - i + Delay <= R

Promised(x) ==
  LET y == Other(x)
  IN  Timely(wire[x], wire[y], quiet[y], readTimeout[y], writeTimeout[x], idle[x], fired[x])

Watching ==
  \A e \in End : Alive(e) => /\ quiet[e] <= readTimeout[e] + 1
                             /\ fired[e] => quiet[e] <= readTimeout[e]

BeatInv ==
  /\ BeatTypeOK /\ Watching
  /\ up = End \/ \E e \in End : up = {e}
  /\ closed \subseteq up
  /\ up = End => closed = {} /\ \A x \in End : Promised(x)

-----------------------------------------------------------------------------
(* What can happen between a sender and a receiver.                        *)

LEMMA Ends ==
  ASSUME NEW e \in End
  PROVE  /\ Other(e) \in End /\ Other(e) # e /\ Other(Other(e)) = e
         /\ \A f \in End : f = e \/ f = Other(e)
BY DEF End, Other

LEMMA Delays ==
  /\ Delay \in Nat /\ MinRead \in Nat /\ MinRead >= 4 /\ 2 * Delay + 1 <= MinRead
  /\ DefaultRead \in Nat /\ DefaultWrite \in Nat \ {0} /\ DefaultRead >= MinRead
  /\ 2 * DefaultWrite <= DefaultRead
  /\ \A t \in Timeouts : t \in Nat /\ t >= 1
<1>1. /\ Delay \in Nat /\ MinRead \in Nat /\ DefaultRead \in Nat /\ DefaultWrite \in Nat
      /\ MinRead >= 4 /\ 2 * Delay + 1 <= MinRead /\ DefaultWrite >= 1
      /\ DefaultRead >= 2 * DefaultWrite /\ DefaultRead >= MinRead
  BY HeartbeatBounds
<1>2. \A t \in Timeouts : t \in Nat /\ t >= 1
  BY HeartbeatBounds
<1>3. QED
  BY <1>1, <1>2

LEMMA Packages ==
  ASSUME NEW s \in Seq(Package)
  PROVE  /\ Len(s) \in Nat /\ DOMAIN s = 1 .. Len(s) /\ (s # <<>> <=> Len(s) >= 1)
         /\ \A k \in 1 .. Len(s) : s[k] \in Package
         /\ \A k \in 1 .. Len(s) : s[k].age \in Nat /\ s[k].age <= Delay /\ s[k].timeout \in Nat
<1>1. Len(s) \in Nat /\ DOMAIN s = 1 .. Len(s) /\ (s # <<>> <=> Len(s) >= 1)
  BY LenProperties, EmptySeq
<1>2. \A k \in 1 .. Len(s) : s[k] \in Package
  BY ElementOfSeq
<1>3. \A p \in Package : p.age \in Nat /\ p.age <= Delay /\ p.timeout \in Nat
  BY Delays DEF Package
<1>4. QED
  BY <1>1, <1>2, <1>3

LEMMA Sending ==
  ASSUME NEW s \in Seq(Package), NEW p \in Package
  PROVE  /\ Append(s, p) \in Seq(Package) /\ Len(Append(s, p)) = Len(s) + 1
         /\ \A k \in 1 .. Len(s) : Append(s, p)[k] = s[k]
         /\ Append(s, p)[Len(s) + 1] = p
         /\ DOMAIN Append(s, p) = 1 .. Len(s) + 1 /\ Append(s, p) # <<>>
<1>1. /\ Append(s, p) \in Seq(Package) /\ Len(Append(s, p)) = Len(s) + 1
      /\ \A k \in 1 .. Len(s) : Append(s, p)[k] = s[k]
      /\ Append(s, p)[Len(s) + 1] = p
  BY AppendProperties
<1>2. QED
  BY <1>1, Packages

LEMMA Receiving ==
  ASSUME NEW s \in Seq(Package), s # <<>>
  PROVE  /\ Tail(s) \in Seq(Package) /\ Len(Tail(s)) = Len(s) - 1 /\ Head(s) = s[1]
         /\ \A k \in 1 .. Len(s) - 1 : Tail(s)[k] = s[k + 1]
         /\ DOMAIN Tail(s) = 1 .. Len(s) - 1
<1>1. /\ Tail(s) \in Seq(Package) /\ Len(Tail(s)) = Len(s) - 1 /\ Head(s) = s[1]
      /\ \A k \in 1 .. Len(s) - 1 : Tail(s)[k] = s[k + 1]
  BY HeadTailProperties
<1>2. QED
  BY <1>1, Packages

\* The sender sends anything.
LEMMA TimelySend ==
  ASSUME NEW s \in Seq(Package), NEW r \in Seq(Package), NEW q \in Nat, NEW R \in Nat,
         NEW w \in Nat, NEW i \in Nat, NEW f, NEW p \in Package, p.age = 0,
         Timely(s, r, q, R, w, i, f), NEW g
  PROVE  Timely(s, Append(r, p), q, R, w, 0, g)
<1>1. /\ Append(r, p) # <<>> /\ Append(r, p)[1] = IF r = <<>> THEN p ELSE r[1]
  BY Sending, Packages
<1>2. \A k \in DOMAIN s : s[k].age \in Nat /\ s[k].age <= Delay
  BY Packages
<1>3. r = <<>> => q + Delay <= R
  BY <1>2, Delays DEF Timely
<1>4. q + Delay - Append(r, p)[1].age <= R
  BY <1>1, <1>3, Delays DEF Timely
<1>5. QED
  BY <1>1, <1>4 DEF Timely

\* The sender looks, and it is not yet time.
LEMMA TimelyWait ==
  ASSUME NEW s, NEW r, NEW q \in Nat, NEW R \in Nat, NEW w \in Nat, NEW i \in Nat, i < w,
         Timely(s, r, q, R, w, i, FALSE)
  PROVE  Timely(s, r, q, R, w, i, TRUE)
BY Delays DEF Timely

\* The receiver receives anything.
LEMMA TimelyReceive ==
  ASSUME NEW s \in Seq(Package), NEW r \in Seq(Package), r # <<>>, NEW q \in Nat, NEW R \in Nat,
         NEW w \in Nat, NEW i \in Nat, NEW f,
         Timely(s, r, q, R, w, i, f), R >= MinRead
  PROVE  Timely(s, Tail(r), 0, R, w, i, f)
<1>1. Tail(r) # <<>> => Tail(r)[1].age \in Nat
  BY Receiving, Packages
<1>2. \A k \in DOMAIN s : /\ s[k].age \in Nat /\ s[k].timeout \in Nat
  BY Packages
<1>3. Tail(r) # <<>> => 0 + Delay - Tail(r)[1].age <= R
  BY <1>1, Delays
<1>4. CASE /\ \A k \in DOMAIN s : s[k].timeout = 0
           /\ w + Delay <= R
  BY <1>3, <1>4, Delays DEF Timely
<1>5. CASE \E k \in DOMAIN s : Told(s, k) /\ s[k].timeout + Delay <= R
  <2>1. PICK k \in DOMAIN s : Told(s, k) /\ s[k].timeout + Delay <= R
    BY <1>5
  <2>2. /\ 0 + Delay - s[k].age + 1 + Delay <= R
        /\ 0 + s[k].timeout - i + Delay <= R
    BY <1>2, <2>1, Delays
  <2>3. QED
    BY <1>3, <2>1, <2>2 DEF Timely
<1>6. QED
  BY <1>4, <1>5 DEF Timely

\* The sender receives, and may be told its write timeout.
LEMMA TimelyLearn ==
  ASSUME NEW s \in Seq(Package), s # <<>>, NEW r \in Seq(Package), NEW q \in Nat, NEW R \in Nat,
         NEW w \in Nat, NEW i \in Nat, NEW f,
         Timely(s, r, q, R, w, i, f),
         NEW v, v = IF s[1].timeout > 0 THEN s[1].timeout ELSE w
  PROVE  Timely(Tail(s), r, q, R, v, i, f)
<1>1. /\ Len(s) \in Nat /\ Len(s) >= 1 /\ DOMAIN s = 1 .. Len(s) /\ DOMAIN Tail(s) = 1 .. Len(s) - 1
      /\ \A k \in 1 .. Len(s) - 1 : Tail(s)[k] = s[k + 1]
      /\ \A k \in 1 .. Len(s) : s[k].age \in Nat /\ s[k].age <= Delay /\ s[k].timeout \in Nat
  BY Receiving, Packages
<1>2. CASE \A k \in DOMAIN s : s[k].timeout = 0
  <2>1. \A k \in DOMAIN Tail(s) : Tail(s)[k].timeout = 0
    BY <1>1, <1>2
  <2>2. v = w
    BY <1>1, <1>2
  <2>3. ~ \E k \in DOMAIN s : Told(s, k)
    BY <1>2 DEF Told
  <2>4. QED
    BY <2>1, <2>2, <2>3 DEF Timely
<1>3. CASE ~ \A k \in DOMAIN s : s[k].timeout = 0
  <2>1. PICK k \in DOMAIN s :
          /\ Told(s, k) /\ s[k].timeout + Delay <= R
          /\ r = <<>> => /\ q + Delay - s[k].age + 1 + Delay <= R
                         /\ q + s[k].timeout - i + Delay <= R
    BY <1>3 DEF Timely
  <2>2. CASE k = 1
    <3>1. v = s[1].timeout
      BY <2>1, <2>2 DEF Told
    <3>2. \A j \in DOMAIN Tail(s) : Tail(s)[j].timeout = 0
      BY <1>1, <2>1, <2>2 DEF Told
    <3>3. s[1].age \in Nat /\ s[1].age <= Delay /\ v \in Nat
      BY <1>1, <3>1
    <3>4. v + Delay <= R /\ (r = <<>> => q + Delay + 1 <= R /\ q + v - i + Delay <= R)
      <4>1. \A a \in Nat : a <= Delay /\ q + Delay - a + 1 + Delay <= R => q + Delay + 1 <= R
        BY Delays
      <4>2. QED
        BY <2>1, <2>2, <3>1, <3>3, <4>1
    <3>5. r # <<>> => q + Delay - r[1].age <= R
      BY DEF Timely
    <3>6. QED
      <4> HIDE DEF Told
      <4>1. r = <<>> => q + Delay + (IF f THEN 1 ELSE 0) <= R
        BY <3>4, Delays
      <4>2. QED
        BY <3>2, <3>4, <3>5, <4>1 DEF Timely
  <2>3. CASE k # 1
    <3>1. k - 1 \in DOMAIN Tail(s) /\ Tail(s)[k - 1] = s[k]
      BY <1>1, <2>3
    <3>2. Told(Tail(s), k - 1)
      <4>1. \A j \in DOMAIN Tail(s) : j > k - 1 => s[j + 1].timeout = 0
        BY <1>1, <2>1 DEF Told
      <4>2. QED
        BY <1>1, <2>1, <3>1, <4>1 DEF Told
    <3>3. QED
      BY <2>1, <3>1, <3>2 DEF Timely
  <2>4. QED
    BY <2>2, <2>3
<1>4. QED
  BY <1>2, <1>3

\* The receiver has heard something just now, and tells its read timeout.
LEMMA TimelyTell ==
  ASSUME NEW s \in Seq(Package), NEW r \in Seq(Package), NEW R \in Nat, R >= MinRead,
         NEW w \in Nat, NEW i \in Nat, NEW f
  PROVE  Timely(Append(s, [age |-> 0, timeout |-> WriteWithin(R)]), r, 0, R, w, i, f)
<1> DEFINE v == WriteWithin(R)
           p == [age |-> 0, timeout |-> v]
           t == Append(s, p)
           k == Len(s) + 1
<1>1. v \in Nat /\ v > 0 /\ 3 * v <= R - 1
  BY Delays DEF WriteWithin
<1>2. p \in Package
  BY <1>1, Delays DEF Package
<1> HIDE DEF v
<1>3. k \in DOMAIN t /\ t[k] = p /\ DOMAIN t = 1 .. k /\ k \in Nat
  BY <1>2, Sending, Packages
<1> HIDE DEF t, k
<1>4. Told(t, k)
  BY <1>1, <1>3 DEF Told
<1>5. r # <<>> => r[1].age \in Nat
  BY Packages
<1>6. v + Delay <= R
  BY <1>1, Delays
<1>7. /\ t[k].timeout + Delay <= R
      /\ 0 + Delay - t[k].age + 1 + Delay <= R
      /\ 0 + t[k].timeout - i + Delay <= R
  BY <1>1, <1>3, <1>6, Delays
<1>8. r # <<>> => 0 + Delay - r[1].age <= R
  BY <1>5, Delays
<1>9. Timely(t, r, 0, R, w, i, f)
  BY <1>3, <1>4, <1>7, <1>8 DEF Timely
<1>10. QED
  BY <1>9 DEF t, v

\* The receiver sends something else.
LEMMA TimelyOther ==
  ASSUME NEW s \in Seq(Package), NEW r, NEW q, NEW R, NEW w, NEW i, NEW f,
         Timely(s, r, q, R, w, i, f)
  PROVE  Timely(Append(s, [age |-> 0, timeout |-> 0]), r, q, R, w, i, f)
<1> DEFINE p == [age |-> 0, timeout |-> 0]
           t == Append(s, p)
<1>1. p \in Package
  BY Delays DEF Package
<1>2. /\ Len(s) \in Nat /\ DOMAIN s = 1 .. Len(s) /\ DOMAIN t = 1 .. Len(s) + 1
      /\ \A k \in DOMAIN s : t[k] = s[k]
      /\ t[Len(s) + 1].timeout = 0
  BY <1>1, Sending, Packages
<1> HIDE DEF t
<1>3. (\A k \in DOMAIN s : s[k].timeout = 0) => (\A k \in DOMAIN t : t[k].timeout = 0)
  BY <1>2
<1>4. \A k \in DOMAIN s : k \in DOMAIN t /\ t[k] = s[k] /\ (Told(s, k) => Told(t, k))
  BY <1>2 DEF Told
<1>5. Timely(t, r, q, R, w, i, f)
  BY <1>3, <1>4 DEF Timely
<1>6. QED
  BY <1>5 DEF t

\* A second passes.
Older(s) == [k \in DOMAIN s |-> [s[k] EXCEPT !.age = @ + 1]]

LEMMA OlderPackages ==
  ASSUME NEW s \in Seq(Package), \A k \in DOMAIN s : s[k].age < Delay
  PROVE  /\ Older(s) \in Seq(Package) /\ DOMAIN Older(s) = DOMAIN s
         /\ Older(s) = <<>> <=> s = <<>>
         /\ \A k \in DOMAIN s : /\ Older(s)[k].age = s[k].age + 1
                                /\ Older(s)[k].timeout = s[k].timeout
<1>1. Len(s) \in Nat /\ DOMAIN s = 1 .. Len(s) /\ \A k \in DOMAIN s : s[k] \in Package
  BY Packages
<1>2. ASSUME NEW k \in DOMAIN s
      PROVE  /\ Older(s)[k] \in Package /\ Older(s)[k].age = s[k].age + 1
             /\ Older(s)[k].timeout = s[k].timeout
  <2>1. s[k] \in [age : 0 .. Delay, timeout : Nat] /\ s[k].age < Delay
    BY <1>1 DEF Package
  <2>2. Older(s)[k] = [s[k] EXCEPT !.age = @ + 1]
    BY DEF Older
  <2>3. s[k] = [age |-> s[k].age, timeout |-> s[k].timeout]
        /\ s[k].age \in 0 .. Delay /\ s[k].timeout \in Nat
    BY <2>1
  <2>4. Older(s)[k] = [age |-> s[k].age + 1, timeout |-> s[k].timeout]
    BY <2>2, <2>3
  <2>5. s[k].age + 1 \in 0 .. Delay
    BY <2>1, <2>3, Delays
  <2>6. QED
    BY <2>3, <2>4, <2>5 DEF Package
<1>3. DOMAIN Older(s) = 1 .. Len(s) /\ Older(s) = [k \in 1 .. Len(s) |-> Older(s)[k]]
  BY <1>1 DEF Older
<1>4. Older(s) \in Seq(Package) /\ Len(Older(s)) = Len(s)
  BY <1>1, <1>2, <1>3, IsASeq, LenProperties
<1>5. Older(s) = <<>> <=> s = <<>>
  BY <1>4, Packages
<1>6. QED
  BY <1>1, <1>2, <1>3, <1>4, <1>5

LEMMA TimelyLater ==
  ASSUME NEW s \in Seq(Package), NEW r \in Seq(Package), NEW q \in Nat, NEW R \in Nat,
         NEW w \in Nat, NEW i \in Nat, Timely(s, r, q, R, w, i, TRUE),
         \A k \in DOMAIN s : s[k].age < Delay, \A k \in DOMAIN r : r[k].age < Delay
  PROVE  Timely(Older(s), Older(r), q + 1, R, w, i + 1, FALSE)
<1>1. /\ DOMAIN Older(s) = DOMAIN s
      /\ Older(r) = <<>> <=> r = <<>>
      /\ \A k \in DOMAIN s : /\ Older(s)[k].age = s[k].age + 1
                             /\ Older(s)[k].timeout = s[k].timeout
  BY OlderPackages
<1>2. \A k \in DOMAIN s : s[k].age \in Nat /\ s[k].timeout \in Nat
  BY Packages
<1>3. r # <<>> => Older(r)[1].age = r[1].age + 1 /\ r[1].age \in Nat
  BY OlderPackages, Packages
<1>4. Older(r) # <<>> => q + 1 + Delay - Older(r)[1].age <= R
  BY <1>1, <1>3, Delays DEF Timely
<1>5. CASE \A k \in DOMAIN s : s[k].timeout = 0
  <2>1. ~ \E k \in DOMAIN s : Told(s, k)
    BY <1>5 DEF Told
  <2>2. /\ w + Delay <= R
        /\ r = <<>> => q + Delay + 1 <= R /\ q + w - i + Delay <= R
    BY <1>5, <2>1 DEF Timely
  <2>3. r = <<>> => /\ q + 1 + Delay + 0 <= R /\ q + 1 + w - (i + 1) + Delay <= R
    BY <2>2, Delays
  <2>4. QED
    BY <1>1, <1>4, <1>5, <2>2, <2>3 DEF Timely
<1>6. CASE ~ \A k \in DOMAIN s : s[k].timeout = 0
  <2>1. PICK k \in DOMAIN s :
          /\ Told(s, k) /\ s[k].timeout + Delay <= R
          /\ r = <<>> => /\ q + Delay - s[k].age + 1 + Delay <= R
                         /\ q + s[k].timeout - i + Delay <= R
    BY <1>6 DEF Timely
  <2>2. Told(Older(s), k)
    BY <1>1, <2>1 DEF Told
  <2>3. r = <<>> => /\ (q + 1) + Delay - Older(s)[k].age + 1 + Delay <= R
                    /\ (q + 1) + Older(s)[k].timeout - (i + 1) + Delay <= R
    <3>1. /\ Older(s)[k].age = s[k].age + 1 /\ Older(s)[k].timeout = s[k].timeout
          /\ s[k].age \in Nat /\ s[k].timeout \in Nat
      BY <1>1, <1>2, <2>1
    <3>2. \A a, t \in Nat :
            /\ (q + 1) + Delay - (a + 1) + 1 + Delay = q + Delay - a + 1 + Delay
            /\ (q + 1) + t - (i + 1) + Delay = q + t - i + Delay
      BY Delays
    <3>3. QED
      BY <2>1, <3>1, <3>2
  <2>4. QED
    BY <1>1, <1>4, <2>1, <2>2, <2>3 DEF Timely
<1>7. QED
  BY <1>5, <1>6

-----------------------------------------------------------------------------
(* The steps of the two ends.                                              *)

LEMMA BeatTypes ==
  ASSUME BeatTypeOK, NEW e \in End
  PROVE  /\ wire[e] \in Seq(Package) /\ readTimeout[e] \in Nat /\ readTimeout[e] >= MinRead
         /\ writeTimeout[e] \in Nat /\ writeTimeout[e] > 0
         /\ quiet[e] \in Nat /\ idle[e] \in Nat /\ fired[e] \in BOOLEAN
<1>1. /\ wire \in [End -> Seq(Package)] /\ fired \in [End -> BOOLEAN]
      /\ readTimeout \in [End -> Nat] /\ writeTimeout \in [End -> Nat \ {0}]
      /\ readTimeout[e] >= MinRead
      /\ quiet \in [End -> Nat] /\ idle \in [End -> Nat]
  BY DEF BeatTypeOK, Package
<1>2. writeTimeout[e] \in Nat \ {0}
  BY <1>1
<1>3. writeTimeout[e] \in Nat /\ writeTimeout[e] > 0
  BY <1>2
<1>4. QED
  BY <1>1, <1>3

LEMMA BeatStart ==
  ASSUME BeatInit
  PROVE  BeatInv
<1>1. BeatTypeOK
  BY Delays, EmptySeq DEF BeatInit, BeatTypeOK, End
<1>2. ASSUME NEW x \in End
      PROVE  Promised(x)
  <2> DEFINE y == Other(x)
  <2>1. y \in End
    BY Ends
  <2>2. /\ wire[x] = <<>> /\ wire[y] = <<>> /\ quiet[y] = 0 /\ readTimeout[y] = DefaultRead
        /\ writeTimeout[x] = DefaultWrite /\ idle[x] = 0 /\ fired[x] = FALSE
    BY <2>1 DEF BeatInit
  <2>3. DefaultWrite + Delay <= DefaultRead /\ 0 + DefaultWrite - 0 + Delay <= DefaultRead
        /\ 0 + Delay + 0 <= DefaultRead
    BY Delays
  <2>4. Timely(<<>>, <<>>, 0, DefaultRead, DefaultWrite, 0, FALSE)
    BY <2>3, EmptySeq DEF Timely
  <2>5. QED
    BY <2>2, <2>4 DEF Promised
<1>3. Watching
  BY <1>1, Delays DEF BeatInit, Watching, BeatTypeOK
<1>4. QED
  BY <1>1, <1>2, <1>3 DEF BeatInv, BeatInit

LEMMA Telling ==
  ASSUME NEW R \in Nat, R >= MinRead
  PROVE  /\ WriteWithin(R) \in Nat /\ WriteWithin(R) > 0
         /\ [age |-> 0, timeout |-> WriteWithin(R)] \in Package
         /\ [age |-> 0, timeout |-> 0] \in Package
<1>1. WriteWithin(R) \in Nat /\ WriteWithin(R) > 0
  BY Delays DEF WriteWithin
<1>2. QED
  BY <1>1, Delays DEF Package

LEMMA Reading ==
  ASSUME NEW t \in Nat
  PROVE  ReadWithin(t) \in Nat /\ ReadWithin(t) >= MinRead
BY Delays DEF ReadWithin

\* What an end sends.
LEMMA WireSent ==
  ASSUME BeatTypeOK, NEW e \in End, NEW n, [age |-> 0, timeout |-> n] \in Package,
         wire' = [wire EXCEPT ![Other(e)] = Sent(e, n)]
  PROVE  /\ wire' \in [End -> Seq(Package)] /\ wire'[e] = wire[e]
         /\ wire'[Other(e)] = Append(wire[Other(e)], [age |-> 0, timeout |-> n])
<1>1. Other(e) \in End /\ Other(e) # e /\ wire \in [End -> Seq(Package)]
  BY Ends DEF BeatTypeOK, Package
<1>2. Append(wire[Other(e)], [age |-> 0, timeout |-> n]) \in Seq(Package)
  BY <1>1, Sending
<1>3. QED
  BY <1>1, <1>2 DEF Sent

\* What an end takes off the wire, and what a slave answers.
LEMMA WireTaken ==
  ASSUME BeatTypeOK, NEW e \in End, wire[e] # <<>>, wire' = Rest(e)
  PROVE  /\ wire' \in [End -> Seq(Package)] /\ wire'[e] = Tail(wire[e])
         /\ wire'[Other(e)] = wire[Other(e)]
<1>1. Other(e) \in End /\ Other(e) # e /\ wire \in [End -> Seq(Package)]
  BY Ends DEF BeatTypeOK, Package
<1>2. Tail(wire[e]) \in Seq(Package)
  BY <1>1, Receiving
<1>3. QED
  BY <1>1, <1>2 DEF Rest

LEMMA WireAnswered ==
  ASSUME BeatTypeOK, NEW e \in End, wire[e] # <<>>, NEW n, [age |-> 0, timeout |-> n] \in Package,
         wire' = [Rest(e) EXCEPT ![Other(e)] = Sent(e, n)]
  PROVE  /\ wire' \in [End -> Seq(Package)] /\ wire'[e] = Tail(wire[e])
         /\ wire'[Other(e)] = Append(wire[Other(e)], [age |-> 0, timeout |-> n])
<1>1. Other(e) \in End /\ Other(e) # e /\ wire \in [End -> Seq(Package)]
  BY Ends DEF BeatTypeOK, Package
<1>2. /\ Tail(wire[e]) \in Seq(Package)
      /\ Append(wire[Other(e)], [age |-> 0, timeout |-> n]) \in Seq(Package)
  BY <1>1, Receiving, Sending
<1>3. QED
  BY <1>1, <1>2 DEF Rest, Sent

\* What an end sends keeps its promise, and leaves the other one's alone.
LEMMA PromisedSending ==
  ASSUME BeatTypeOK, NEW e \in End, NEW n, [age |-> 0, timeout |-> n] \in Package, Promised(e),
         wire' = [wire EXCEPT ![Other(e)] = Sent(e, n)], idle'[e] = 0,
         writeTimeout' = writeTimeout, quiet' = quiet,
         readTimeout'[Other(e)] = readTimeout[Other(e)]
  PROVE  Promised(e)'
<1> DEFINE y == Other(e)
           p == [age |-> 0, timeout |-> n]
<1>1. /\ y \in End /\ p \in Package /\ p.age = 0
      /\ wire'[e] = wire[e] /\ wire'[y] = Append(wire[y], p)
  BY WireSent, Ends
<1>2. /\ wire[e] \in Seq(Package) /\ wire[y] \in Seq(Package) /\ quiet[y] \in Nat
      /\ readTimeout[y] \in Nat /\ writeTimeout[e] \in Nat /\ idle[e] \in Nat
  BY <1>1, BeatTypes
<1>3. Timely(wire[e], wire[y], quiet[y], readTimeout[y], writeTimeout[e], idle[e], fired[e])
  BY DEF Promised
<1>4. Timely(wire[e], Append(wire[y], p), quiet[y], readTimeout[y], writeTimeout[e], 0, fired'[e])
  <2> HIDE DEF p
  <2>1. QED
    BY <1>1, <1>2, <1>3, TimelySend
<1>5. QED
  BY <1>1, <1>4 DEF Promised

LEMMA PromisedReceiving ==
  ASSUME BeatTypeOK, NEW e \in End, Promised(Other(e)),
         wire' = [wire EXCEPT ![Other(e)] = Sent(e, 0)],
         UNCHANGED <<readTimeout, writeTimeout, quiet>>,
         idle'[Other(e)] = idle[Other(e)], fired'[Other(e)] = fired[Other(e)]
  PROVE  Promised(Other(e))'
<1> DEFINE y == Other(e)
<1>1. /\ y \in End /\ Other(y) = e
      /\ wire'[e] = wire[e] /\ wire'[y] = Append(wire[y], [age |-> 0, timeout |-> 0])
  <2>1. [age |-> 0, timeout |-> 0] \in Package
    BY Delays DEF Package
  <2>2. QED
    BY <2>1, WireSent, Ends
<1>2. Timely(wire[y], wire[e], quiet[e], readTimeout[e], writeTimeout[y], idle[y], fired[y])
  BY <1>1 DEF Promised
<1>3. Timely(wire'[y], wire[e], quiet[e], readTimeout[e], writeTimeout[y], idle[y], fired[y])
  BY <1>1, <1>2, BeatTypes, TimelyOther
<1>4. QED
  BY <1>1, <1>3 DEF Promised

\* What a step does to two ends that run.
LEMMA PushKeeps ==
  ASSUME BeatTypeOK, NEW e \in End, Push(e), \A x \in End : Promised(x)
  PROVE  \A x \in End : Promised(x)'
<1> DEFINE y == Other(e)
<1>1. y \in End /\ y # e /\ \A x \in End : x = e \/ x = y
  BY Ends
<1>2. /\ [age |-> 0, timeout |-> 0] \in Package /\ wire' = [wire EXCEPT ![y] = Sent(e, 0)]
      /\ idle'[e] = 0 /\ idle'[y] = idle[y]
      /\ UNCHANGED <<readTimeout, writeTimeout, quiet, fired>>
  BY <1>1, Delays DEF Push, timeouts, BeatTypeOK, Package
<1>3. Promised(e)'
  BY <1>1, <1>2, PromisedSending
<1>4. Promised(y)'
  BY <1>1, <1>2, PromisedReceiving
<1>5. QED
  BY <1>1, <1>3, <1>4

LEMMA SetHeartbeatTimeoutKeeps ==
  ASSUME BeatTypeOK, NEW e \in End, NEW t \in Timeouts, SetHeartbeatTimeout(e, t),
         \A x \in End : Promised(x)
  PROVE  \A x \in End : Promised(x)'
<1> DEFINE y == Other(e)
           R == ReadWithin(t)
           n == WriteWithin(R)
<1>1. y \in End /\ y # e /\ Other(y) = e /\ \A x \in End : x = e \/ x = y
  BY Ends
<1>2. R \in Nat /\ R >= MinRead /\ [age |-> 0, timeout |-> n] \in Package
  BY Delays, Reading, Telling
<1>3. /\ wire' = [wire EXCEPT ![y] = Sent(e, n)] /\ readTimeout' = [readTimeout EXCEPT ![e] = R]
      /\ idle' = [idle EXCEPT ![e] = 0] /\ quiet[e] = 0
      /\ UNCHANGED <<writeTimeout, quiet, fired>>
  BY DEF SetHeartbeatTimeout
<1>4. /\ idle'[e] = 0 /\ idle'[y] = idle[y]
      /\ readTimeout'[e] = R /\ readTimeout'[y] = readTimeout[y]
  BY <1>1, <1>3 DEF BeatTypeOK
<1>5. /\ wire'[e] = wire[e] /\ wire'[y] = Append(wire[y], [age |-> 0, timeout |-> n])
  BY <1>2, <1>3, WireSent
<1>6. Promised(e)'
  BY <1>1, <1>2, <1>3, <1>4, PromisedSending
<1>7. Promised(y)'
  <2>1. /\ wire[y] \in Seq(Package) /\ wire[e] \in Seq(Package)
        /\ writeTimeout[y] \in Nat /\ idle[y] \in Nat
    BY <1>1, BeatTypes
  <2>2. Timely(wire'[y], wire[e], 0, R, writeTimeout[y], idle[y], fired[y])
    <3> HIDE DEF R
    <3>1. QED
      BY <1>2, <1>5, <2>1, TimelyTell
  <2>3. QED
    BY <1>1, <1>3, <1>4, <1>5, <2>2 DEF Promised
<1>8. QED
  BY <1>1, <1>6, <1>7

LEMMA PopKeeps ==
  ASSUME BeatTypeOK, NEW e \in End, Pop(e), \A x \in End : Promised(x)
  PROVE  \A x \in End : Promised(x)'
<1> DEFINE y == Other(e)
<1>1. y \in End /\ y # e /\ Other(y) = e /\ \A x \in End : x = e \/ x = y
  BY Ends
<1>2. /\ wire[e] # <<>> /\ Head(wire[e]).timeout = 0 /\ wire' = Rest(e)
      /\ quiet' = [quiet EXCEPT ![e] = 0]
      /\ UNCHANGED <<readTimeout, writeTimeout, idle, fired>>
  BY DEF Pop, timeouts
<1>3. quiet'[e] = 0 /\ quiet'[y] = quiet[y]
  BY <1>1, <1>2 DEF BeatTypeOK
<1>4. wire'[e] = Tail(wire[e]) /\ wire'[y] = wire[y]
  BY <1>2, WireTaken
<1>5. \A x \in End : /\ wire[x] \in Seq(Package) /\ quiet[x] \in Nat /\ readTimeout[x] \in Nat
                     /\ readTimeout[x] >= MinRead /\ writeTimeout[x] \in Nat /\ idle[x] \in Nat
  BY BeatTypes
<1>6. Promised(e)'
  <2>1. Timely(wire[e], wire[y], quiet[y], readTimeout[y], writeTimeout[e], idle[e], fired[e])
    BY DEF Promised
  <2>2. wire[e][1].timeout = 0
    BY <1>2, <1>5, Receiving
  <2>3. Timely(Tail(wire[e]), wire[y], quiet[y], readTimeout[y], writeTimeout[e], idle[e], fired[e])
    <3>1. writeTimeout[e] = IF wire[e][1].timeout > 0 THEN wire[e][1].timeout ELSE writeTimeout[e]
      BY <2>2
    <3>2. QED
      BY <1>1, <1>2, <1>5, <2>1, <3>1, TimelyLearn
  <2>4. QED
    BY <1>2, <1>3, <1>4, <2>3 DEF Promised
<1>7. Promised(y)'
  <2>1. Timely(wire[y], wire[e], quiet[e], readTimeout[e], writeTimeout[y], idle[y], fired[y])
    BY <1>1 DEF Promised
  <2>2. Timely(wire[y], Tail(wire[e]), 0, readTimeout[e], writeTimeout[y], idle[y], fired[y])
    BY <1>1, <1>2, <1>5, <2>1, TimelyReceive
  <2>3. QED
    BY <1>1, <1>2, <1>3, <1>4, <2>2 DEF Promised
<1>8. QED
  BY <1>1, <1>6, <1>7

LEMMA PopTimeoutKeeps ==
  ASSUME BeatTypeOK, NEW e \in End, PopTimeout(e), \A x \in End : Promised(x)
  PROVE  \A x \in End : Promised(x)'
<1> DEFINE y == Other(e)
           w == Head(wire[e]).timeout
           R == ReadWithin(Following(w))
           n == WriteWithin(R)
           p == [age |-> 0, timeout |-> n]
<1>1. y \in End /\ y # e /\ Other(y) = e /\ \A x \in End : x = e \/ x = y
  BY Ends
<1>2. /\ wire[e] # <<>> /\ w > 0 /\ writeTimeout' = [writeTimeout EXCEPT ![e] = w]
      /\ quiet' = [quiet EXCEPT ![e] = 0] /\ fired' = fired
      /\ \/ /\ readTimeout' = [readTimeout EXCEPT ![e] = R]
            /\ wire' = [Rest(e) EXCEPT ![y] = Sent(e, n)]
            /\ idle' = [idle EXCEPT ![e] = 0]
         \/ wire' = Rest(e) /\ UNCHANGED <<readTimeout, idle>>
  BY DEF PopTimeout
<1>3. \A x \in End : /\ wire[x] \in Seq(Package) /\ quiet[x] \in Nat /\ readTimeout[x] \in Nat
                     /\ readTimeout[x] >= MinRead /\ writeTimeout[x] \in Nat /\ idle[x] \in Nat
  BY BeatTypes
<1>4. /\ quiet'[e] = 0 /\ quiet'[y] = quiet[y]
      /\ writeTimeout'[e] = w /\ writeTimeout'[y] = writeTimeout[y]
  BY <1>1, <1>2 DEF BeatTypeOK
<1>5. w \in Nat /\ wire[e][1].timeout = w /\ Tail(wire[e]) \in Seq(Package)
  BY <1>2, <1>3, Receiving, Packages
<1>6. R \in Nat /\ R >= MinRead /\ p \in Package
  <2>1. Following(w) \in Nat
    BY <1>5 DEF Following
  <2>2. QED
    BY <2>1, Reading, Telling
<1>7. Timely(Tail(wire[e]), wire[y], quiet[y], readTimeout[y], w, idle[e], fired[e])
  <2>1. Timely(wire[e], wire[y], quiet[y], readTimeout[y], writeTimeout[e], idle[e], fired[e])
    BY DEF Promised
  <2>2. w = IF wire[e][1].timeout > 0 THEN wire[e][1].timeout ELSE writeTimeout[e]
    BY <1>2, <1>5
  <2> HIDE DEF w
  <2>3. QED
    BY <1>1, <1>2, <1>3, <2>1, <2>2, TimelyLearn
<1>8. Timely(wire[y], wire[e], quiet[e], readTimeout[e], writeTimeout[y], idle[y], fired[y])
  BY <1>1 DEF Promised
<1>9. CASE /\ readTimeout' = [readTimeout EXCEPT ![e] = R]
           /\ wire' = [Rest(e) EXCEPT ![y] = Sent(e, n)]
           /\ idle' = [idle EXCEPT ![e] = 0]
  <2>1. /\ readTimeout'[e] = R /\ readTimeout'[y] = readTimeout[y]
        /\ idle'[e] = 0 /\ idle'[y] = idle[y]
    BY <1>1, <1>9 DEF BeatTypeOK
  <2>2. wire'[e] = Tail(wire[e]) /\ wire'[y] = Append(wire[y], p)
    BY <1>2, <1>6, <1>9, WireAnswered
  <2>3. Timely(Tail(wire[e]), Append(wire[y], p), quiet[y], readTimeout[y], w, 0, fired[e])
    <3>1. p \in Package /\ p.age = 0
      BY <1>6
    <3> HIDE DEF p, w
    <3>2. QED
      BY <1>1, <1>3, <1>5, <1>7, <3>1, TimelySend
  <2>4. Promised(e)'
    BY <1>2, <1>4, <2>1, <2>2, <2>3 DEF Promised
  <2>5. Timely(Append(wire[y], p), Tail(wire[e]), 0, R, writeTimeout[y], idle[y], fired[y])
    <3> HIDE DEF R
    <3>1. QED
      BY <1>1, <1>3, <1>5, <1>6, TimelyTell
  <2>6. Promised(y)'
    BY <1>1, <1>2, <1>4, <2>1, <2>2, <2>5 DEF Promised
  <2>7. QED
    BY <1>1, <2>4, <2>6
<1>10. CASE wire' = Rest(e) /\ UNCHANGED <<readTimeout, idle>>
  <2>1. wire'[e] = Tail(wire[e]) /\ wire'[y] = wire[y]
    BY <1>2, <1>10, WireTaken
  <2>2. Promised(e)'
    BY <1>2, <1>4, <1>7, <1>10, <2>1 DEF Promised
  <2>3. Timely(wire[y], Tail(wire[e]), 0, readTimeout[e], writeTimeout[y], idle[y], fired[y])
    BY <1>1, <1>2, <1>3, <1>8, TimelyReceive
  <2>4. Promised(y)'
    BY <1>1, <1>2, <1>4, <1>10, <2>1, <2>3 DEF Promised
  <2>5. QED
    BY <1>1, <2>2, <2>4
<1>11. QED
  BY <1>2, <1>9, <1>10

\* An end that is promised a package in time is not overdue.
LEMMA InTime ==
  ASSUME BeatTypeOK, NEW e \in End, \A x \in End : Promised(x)
  PROVE  quiet[e] <= readTimeout[e]
<1> DEFINE y == Other(e)
<1>1. y \in End /\ Other(y) = e
  BY Ends
<1>2. /\ wire[y] \in Seq(Package) /\ wire[e] \in Seq(Package) /\ quiet[e] \in Nat
      /\ readTimeout[e] \in Nat
  BY <1>1, BeatTypes
<1>3. Timely(wire[y], wire[e], quiet[e], readTimeout[e], writeTimeout[y], idle[y], fired[y])
  BY <1>1 DEF Promised
<1>4. CASE wire[e] # <<>>
  <2>1. wire[e][1].age \in Nat /\ wire[e][1].age <= Delay
    BY <1>2, <1>4, Packages
  <2>2. quiet[e] + Delay - wire[e][1].age <= readTimeout[e]
    BY <1>3, <1>4 DEF Timely
  <2>3. \A a \in Nat : a <= Delay /\ quiet[e] + Delay - a <= readTimeout[e]
                         => quiet[e] <= readTimeout[e]
    BY <1>2, Delays
  <2>4. QED
    BY <2>1, <2>2, <2>3
<1>5. CASE wire[e] = <<>>
  <2>1. \A k \in DOMAIN wire[y] : wire[y][k].age \in Nat /\ wire[y][k].age <= Delay
    BY <1>2, Packages
  <2>2. \A a \in Nat : a <= Delay /\ quiet[e] + Delay - a + 1 + Delay <= readTimeout[e]
                         => quiet[e] <= readTimeout[e]
    BY <1>2, Delays
  <2>3. quiet[e] + Delay + (IF fired[y] THEN 1 ELSE 0) <= readTimeout[e]
          => quiet[e] <= readTimeout[e]
    BY <1>2, Delays
  <2>4. QED
    BY <1>3, <1>5, <2>1, <2>2, <2>3 DEF Timely
<1>6. QED
  BY <1>4, <1>5

LEMMA OnTimerKeeps ==
  ASSUME BeatTypeOK, NEW e \in End, OnTimer(e), \A x \in End : Promised(x)
  PROVE  closed' = closed /\ \A x \in End : Promised(x)'
<1> DEFINE y == Other(e)
<1>1. y \in End /\ y # e /\ Other(y) = e /\ \A x \in End : x = e \/ x = y
  BY Ends
<1>2. /\ ~ Overdue(e) /\ ~fired[e] /\ fired' = [fired EXCEPT ![e] = TRUE] /\ closed' = closed
      /\ UNCHANGED <<readTimeout, writeTimeout, quiet>>
  BY InTime, BeatTypes DEF OnTimer, Overdue, timeouts
<1>3. fired'[e] = TRUE /\ fired'[y] = fired[y]
  BY <1>1, <1>2 DEF BeatTypeOK
<1>4. CASE /\ wire' = [wire EXCEPT ![y] = Sent(e, 0)]
           /\ idle' = [idle EXCEPT ![e] = 0]
  <2>1. idle'[e] = 0 /\ idle'[y] = idle[y] /\ [age |-> 0, timeout |-> 0] \in Package
    BY <1>1, <1>4, Delays DEF BeatTypeOK, Package
  <2>2. Promised(e)'
    BY <1>1, <1>2, <1>4, <2>1, PromisedSending
  <2>3. Promised(y)'
    BY <1>1, <1>2, <1>3, <1>4, <2>1, PromisedReceiving
  <2>4. QED
    BY <1>1, <1>2, <2>2, <2>3
<1>5. CASE idle[e] < writeTimeout[e] /\ UNCHANGED <<idle, wire>>
  <2>1. Promised(e)'
    <3>1. Timely(wire[e], wire[y], quiet[y], readTimeout[y], writeTimeout[e], idle[e], FALSE)
      <4>1. fired[e] = FALSE
        BY <1>2, BeatTypes
      <4>2. QED
        BY <4>1 DEF Promised
    <3>2. Timely(wire[e], wire[y], quiet[y], readTimeout[y], writeTimeout[e], idle[e], TRUE)
      BY <1>1, <1>5, <3>1, BeatTypes, TimelyWait
    <3>3. QED
      BY <1>2, <1>3, <1>5, <3>2 DEF Promised
  <2>2. Promised(y)'
    BY <1>1, <1>2, <1>3, <1>5 DEF Promised
  <2>3. QED
    BY <1>1, <1>2, <2>1, <2>2
<1>6. QED
  BY <1>2, <1>4, <1>5 DEF OnTimer

LEMMA SecondKeeps ==
  ASSUME BeatTypeOK, Second, up = End, closed = {}, \A x \in End : Promised(x)
  PROVE  \A x \in End : Promised(x)'
<1>1. ASSUME NEW x \in End
      PROVE  /\ fired[x] /\ fired'[x] = FALSE /\ quiet'[x] = quiet[x] + 1
             /\ idle'[x] = idle[x] + 1 /\ wire'[x] = Older(wire[x])
             /\ \A k \in DOMAIN wire[x] : wire[x][k].age < Delay
  BY DEF Second, Alive, Older
<1>2. SUFFICES ASSUME NEW x \in End PROVE Promised(x)'
  OBVIOUS
<1> DEFINE y == Other(x)
<1>3. y \in End
  BY Ends
<1>4. fired[x] = TRUE
  BY <1>1, BeatTypes
<1>5. Timely(wire[x], wire[y], quiet[y], readTimeout[y], writeTimeout[x], idle[x], TRUE)
  BY <1>4 DEF Promised
<1>6. Timely(Older(wire[x]), Older(wire[y]), quiet[y] + 1, readTimeout[y], writeTimeout[x],
             idle[x] + 1, FALSE)
  BY <1>1, <1>3, <1>5, BeatTypes, TimelyLater
<1>7. UNCHANGED <<readTimeout, writeTimeout>>
  BY DEF Second, timeouts
<1>8. QED
  BY <1>1, <1>3, <1>6, <1>7 DEF Promised

LEMMA BeatTypeNext ==
  ASSUME BeatTypeOK, [BeatNext]_beatVars
  PROVE  BeatTypeOK'
<1>1. /\ slave \subseteq End /\ up \subseteq End /\ closed \subseteq End
      /\ readTimeout \in [End -> Nat] /\ writeTimeout \in [End -> Nat \ {0}]
      /\ \A e \in End : readTimeout[e] >= MinRead
      /\ quiet \in [End -> Nat] /\ idle \in [End -> Nat] /\ fired \in [End -> BOOLEAN]
      /\ wire \in [End -> Seq(Package)]
  BY DEF BeatTypeOK, Package
<1> DEFINE Sound == /\ slave' \subseteq End /\ up' \subseteq End /\ closed' \subseteq End
                    /\ readTimeout' \in [End -> Nat] /\ writeTimeout' \in [End -> Nat \ {0}]
                    /\ \A e \in End : readTimeout'[e] >= MinRead
                    /\ quiet' \in [End -> Nat] /\ idle' \in [End -> Nat]
                    /\ fired' \in [End -> BOOLEAN] /\ wire' \in [End -> Seq(Package)]
<1>2. ASSUME NEW e \in End, Push(e)
      PROVE  Sound
  <2>1. wire' \in [End -> Seq(Package)]
    <3>1. [age |-> 0, timeout |-> 0] \in Package
      BY Delays DEF Package
    <3>2. QED
      BY <1>2, <3>1, WireSent DEF Push
  <2>2. QED
    BY <1>1, <1>2, <2>1 DEF Push, timeouts
<1>3. ASSUME NEW e \in End, NEW t \in Timeouts, SetHeartbeatTimeout(e, t)
      PROVE  Sound
  <2>1. ReadWithin(t) \in Nat /\ ReadWithin(t) >= MinRead
    BY Delays, Reading
  <2>2. wire' \in [End -> Seq(Package)]
    BY <1>3, <2>1, Telling, WireSent DEF SetHeartbeatTimeout
  <2>3. readTimeout' = [readTimeout EXCEPT ![e] = ReadWithin(t)]
    BY <1>3 DEF SetHeartbeatTimeout
  <2>4. readTimeout' \in [End -> Nat] /\ \A f \in End : readTimeout'[f] >= MinRead
    BY <1>1, <2>1, <2>3
  <2>5. QED
    BY <1>1, <1>3, <2>2, <2>4 DEF SetHeartbeatTimeout
<1>4. ASSUME NEW e \in End, Pop(e)
      PROVE  Sound
  <2>1. wire' \in [End -> Seq(Package)]
    BY <1>4, WireTaken DEF Pop
  <2>2. QED
    BY <1>1, <1>4, <2>1 DEF Pop, timeouts
<1>5. ASSUME NEW e \in End, PopTimeout(e)
      PROVE  Sound
  <2> DEFINE w == Head(wire[e]).timeout
             R == ReadWithin(Following(w))
             n == WriteWithin(R)
  <2>1. wire[e] # <<>> /\ w > 0 /\ w \in Nat
    BY <1>5, BeatTypes, Receiving, Packages DEF PopTimeout
  <2>2. R \in Nat /\ R >= MinRead /\ [age |-> 0, timeout |-> n] \in Package
    <3>1. Following(w) \in Nat
      BY <2>1 DEF Following
    <3>2. QED
      BY <3>1, Reading, Telling
  <2>3. /\ writeTimeout' = [writeTimeout EXCEPT ![e] = w] /\ quiet' = [quiet EXCEPT ![e] = 0]
        /\ UNCHANGED <<slave, fired, up, closed>>
        /\ \/ /\ readTimeout' = [readTimeout EXCEPT ![e] = R]
              /\ wire' = [Rest(e) EXCEPT ![Other(e)] = Sent(e, n)]
              /\ idle' = [idle EXCEPT ![e] = 0]
           \/ wire' = Rest(e) /\ UNCHANGED <<readTimeout, idle>>
    BY <1>5 DEF PopTimeout
  <2> HIDE DEF w, R, n
  <2>4. wire' \in [End -> Seq(Package)]
    BY <2>1, <2>2, <2>3, WireTaken, WireAnswered
  <2>5. readTimeout' \in [End -> Nat] /\ \A f \in End : readTimeout'[f] >= MinRead
    BY <1>1, <2>2, <2>3
  <2>6. writeTimeout' \in [End -> Nat \ {0}] /\ quiet' \in [End -> Nat] /\ idle' \in [End -> Nat]
    BY <1>1, <2>1, <2>3
  <2>7. QED
    BY <1>1, <2>3, <2>4, <2>5, <2>6
<1>6. ASSUME NEW e \in End, OnTimer(e)
      PROVE  Sound
  <2>1. [age |-> 0, timeout |-> 0] \in Package
    BY Delays DEF Package
  <2>2. wire' \in [End -> Seq(Package)]
    BY <1>1, <1>6, <2>1, WireSent DEF OnTimer
  <2>3. /\ fired' = [fired EXCEPT ![e] = TRUE]
        /\ UNCHANGED <<slave, readTimeout, writeTimeout, quiet, up>>
        /\ closed' = closed \/ closed' = closed \union {e}
        /\ idle' = idle \/ idle' = [idle EXCEPT ![e] = 0]
    BY <1>6 DEF OnTimer, timeouts
  <2>4. fired' \in [End -> BOOLEAN]
    BY <1>1, <2>3
  <2>5. closed' \subseteq End
    BY <1>1, <2>3
  <2>6. idle' \in [End -> Nat]
    <3>1. [idle EXCEPT ![e] = 0] \in [End -> Nat]
      BY <1>1
    <3>2. QED
      BY <1>1, <2>3, <3>1
  <2>7. QED
    BY <1>1, <2>2, <2>3, <2>4, <2>5, <2>6
<1>7. ASSUME Second
      PROVE  Sound
  <2>1. \A e \in End : wire'[e] = IF Alive(e) THEN Older(wire[e]) ELSE <<>>
    BY <1>7 DEF Second, Older
  <2>2. \A e \in End : wire'[e] \in Seq(Package)
    <3>1. \A e \in End : Alive(e) => Older(wire[e]) \in Seq(Package)
      BY <1>1, <1>7, OlderPackages DEF Second
    <3>2. <<>> \in Seq(Package)
      BY EmptySeq
    <3>3. QED
      BY <2>1, <3>1, <3>2
  <2>3. wire' \in [End -> Seq(Package)]
    BY <1>7, <2>2 DEF Second
  <2>4. quiet' \in [End -> Nat] /\ idle' \in [End -> Nat] /\ fired' \in [End -> BOOLEAN]
    BY <1>1, <1>7 DEF Second
  <2>5. UNCHANGED <<slave, readTimeout, writeTimeout, up, closed>>
    BY <1>7 DEF Second, timeouts
  <2>6. QED
    BY <1>1, <2>3, <2>4, <2>5
<1>8. ASSUME NEW e \in End, Vanish(e)
      PROVE  Sound
  BY <1>1, <1>8 DEF Vanish, clocks, timeouts
<1>9. ASSUME UNCHANGED beatVars
      PROVE  Sound
  <2>1. UNCHANGED <<slave, readTimeout, writeTimeout, quiet, idle, fired, wire, up, closed>>
    BY <1>9 DEF beatVars, clocks, timeouts
  <2>2. QED
    BY <1>1, <2>1
<1>10. Sound
  <2> HIDE DEF Sound
  <2>1. QED
    BY <1>2, <1>3, <1>4, <1>5, <1>6, <1>7, <1>8, <1>9 DEF BeatNext
<1>11. QED
  BY <1>10 DEF BeatTypeOK, Package

\* An end that is running and has looked in this second has heard in time.
LEMMA WatchingNext ==
  ASSUME BeatTypeOK, Watching, [BeatNext]_beatVars
  PROVE  Watching'
<1>1. \A e \in End : /\ quiet[e] \in Nat /\ readTimeout[e] \in Nat /\ readTimeout[e] >= MinRead
                     /\ fired[e] \in BOOLEAN
                     /\ quiet'[e] \in Nat /\ readTimeout'[e] \in Nat /\ readTimeout'[e] >= MinRead
  BY BeatTypeNext, BeatTypes DEF BeatTypeOK
<1>2. SUFFICES ASSUME NEW x \in End, Alive(x)'
               PROVE  /\ quiet'[x] <= readTimeout'[x] + 1
                      /\ fired'[x] => quiet'[x] <= readTimeout'[x]
  BY DEF Watching
<1>3. CASE Alive(x) /\ fired'[x] = fired[x] /\ quiet'[x] = quiet[x] /\ readTimeout'[x] = readTimeout[x]
  BY <1>3 DEF Watching
<1>4. CASE quiet'[x] = 0
  BY <1>1, <1>4, Delays
<1>5. ASSUME NEW e \in End, Push(e) \/ Vanish(e)
      PROVE  Alive(x) /\ fired'[x] = fired[x] /\ quiet'[x] = quiet[x] /\ readTimeout'[x] = readTimeout[x]
  BY <1>2, <1>5 DEF Push, Vanish, Alive, clocks, timeouts
<1>6. ASSUME NEW e \in End, NEW t \in Timeouts, SetHeartbeatTimeout(e, t)
      PROVE  \/ quiet'[x] = 0
             \/ Alive(x) /\ fired'[x] = fired[x] /\ quiet'[x] = quiet[x] /\ readTimeout'[x] = readTimeout[x]
  <2>1. readTimeout' = [readTimeout EXCEPT ![e] = ReadWithin(t)] /\ quiet[e] = 0
        /\ UNCHANGED <<quiet, fired, up, closed>>
    BY <1>6 DEF SetHeartbeatTimeout
  <2>2. QED
    BY <1>2, <2>1 DEF Alive, BeatTypeOK
<1>7. ASSUME NEW e \in End, Pop(e) \/ PopTimeout(e)
      PROVE  \/ quiet'[x] = 0
             \/ Alive(x) /\ fired'[x] = fired[x] /\ quiet'[x] = quiet[x] /\ readTimeout'[x] = readTimeout[x]
  <2>1. /\ quiet' = [quiet EXCEPT ![e] = 0] /\ UNCHANGED <<fired, up, closed>>
        /\ \/ readTimeout' = readTimeout
           \/ \E R : readTimeout' = [readTimeout EXCEPT ![e] = R]
    BY <1>7 DEF Pop, PopTimeout, timeouts
  <2>2. QED
    BY <1>2, <2>1 DEF Alive, BeatTypeOK
<1>8. ASSUME NEW e \in End, OnTimer(e)
      PROVE  quiet'[x] <= readTimeout'[x] + 1 /\ (fired'[x] => quiet'[x] <= readTimeout'[x])
  <2>1. UNCHANGED <<readTimeout, quiet, up>> /\ fired' = [fired EXCEPT ![e] = TRUE]
        /\ (Overdue(e) => e \in closed') /\ closed \subseteq closed'
    BY <1>8 DEF OnTimer, timeouts
  <2>2. CASE x = e
    BY <1>1, <1>2, <2>1, <2>2 DEF Alive, Overdue
  <2>3. CASE x # e
    BY <1>2, <2>1, <2>3 DEF Watching, Alive, BeatTypeOK
  <2>4. QED
    BY <2>2, <2>3
<1>9. ASSUME Second
      PROVE  quiet'[x] <= readTimeout'[x] + 1 /\ (fired'[x] => quiet'[x] <= readTimeout'[x])
  <2>1. Alive(x) /\ fired[x] /\ quiet'[x] = quiet[x] + 1 /\ readTimeout' = readTimeout
        /\ fired'[x] = FALSE
    BY <1>2, <1>9 DEF Second, Alive, timeouts
  <2>2. quiet[x] <= readTimeout[x]
    BY <2>1 DEF Watching
  <2>3. QED
    BY <1>1, <2>1, <2>2
<1>10. CASE UNCHANGED beatVars
  BY <1>2, <1>3, <1>10 DEF beatVars, clocks, timeouts, Alive
<1>11. QED
  BY <1>3, <1>4, <1>5, <1>6, <1>7, <1>8, <1>9, <1>10 DEF BeatNext

LEMMA BeatStep ==
  ASSUME BeatInv, [BeatNext]_beatVars
  PROVE  BeatInv'
<1>1. BeatTypeOK' /\ Watching'
  BY BeatTypeNext, WatchingNext DEF BeatInv
<1>2. (up = End \/ \E e \in End : up = {e})' /\ (closed \subseteq up)'
  <2>1. CASE \E e \in End : Vanish(e)
    <3>1. PICK e \in End : Vanish(e)
      BY <2>1
    <3>2. Other(e) \in End /\ up = End /\ up' = End \ {e} /\ closed' = closed /\ closed = {}
      BY <3>1, Ends DEF Vanish, BeatInv
    <3>3. up' = {Other(e)}
      BY <3>2, Ends
    <3>4. QED
      BY <3>2, <3>3
  <2>2. CASE ~ \E e \in End : Vanish(e)
    BY <2>2 DEF BeatNext, beatVars, BeatInv, Second, Push, Pop, PopTimeout, OnTimer,
                SetHeartbeatTimeout, Alive
  <2>3. QED
    BY <2>1, <2>2
<1>3. ASSUME up' = End
      PROVE  closed' = {} /\ \A x \in End : Promised(x)'
  <2>1. up = End /\ ~ \E e \in End : Vanish(e)
    <3>1. \A e \in End : Vanish(e) => e \in up /\ up' = up \ {e}
      BY DEF Vanish, Alive
    <3>2. ~ \E e \in End : Vanish(e)
      BY <1>3, <3>1
    <3>3. up' = up
      BY <3>2 DEF BeatNext, beatVars, Second, Push, Pop, PopTimeout, OnTimer, SetHeartbeatTimeout
    <3>4. QED
      BY <1>3, <3>2, <3>3
  <2>2. BeatTypeOK /\ closed = {} /\ \A x \in End : Promised(x)
    BY <2>1 DEF BeatInv
  <2>3. ASSUME NEW e \in End, Push(e)
        PROVE  closed' = {} /\ \A x \in End : Promised(x)'
    BY <2>2, <2>3, PushKeeps DEF Push
  <2>4. ASSUME NEW e \in End, NEW t \in Timeouts, SetHeartbeatTimeout(e, t)
        PROVE  closed' = {} /\ \A x \in End : Promised(x)'
    BY <2>2, <2>4, SetHeartbeatTimeoutKeeps DEF SetHeartbeatTimeout
  <2>5. ASSUME NEW e \in End, Pop(e)
        PROVE  closed' = {} /\ \A x \in End : Promised(x)'
    BY <2>2, <2>5, PopKeeps DEF Pop
  <2>6. ASSUME NEW e \in End, PopTimeout(e)
        PROVE  closed' = {} /\ \A x \in End : Promised(x)'
    BY <2>2, <2>6, PopTimeoutKeeps DEF PopTimeout
  <2>7. ASSUME NEW e \in End, OnTimer(e)
        PROVE  closed' = {} /\ \A x \in End : Promised(x)'
    BY <2>2, <2>7, OnTimerKeeps
  <2>8. ASSUME Second
        PROVE  closed' = {} /\ \A x \in End : Promised(x)'
    BY <2>1, <2>2, <2>8, SecondKeeps DEF Second
  <2>9. CASE UNCHANGED beatVars
    BY <2>2, <2>9 DEF beatVars, clocks, timeouts, Promised
  <2>10. QED
    BY <2>1, <2>3, <2>4, <2>5, <2>6, <2>7, <2>8, <2>9 DEF BeatNext
<1>4. QED
  BY <1>1, <1>2, <1>3 DEF BeatInv

\* The two ends of a session keep what they owe one another: each of them either has
\* a package on its way that comes in time, or knows, or is being told, how soon to
\* send one.
THEOREM BeatsHold == BeatSpec => []BeatInv
<1>1. BeatInit => BeatInv
  BY BeatStart
<1>2. BeatInv /\ [BeatNext]_beatVars => BeatInv'
  BY BeatStep
<1>3. QED
  BY <1>1, <1>2, PTL DEF BeatSpec

\* No end gives up an end that runs, whatever timeouts are set and told while
\* heartbeats are under way, if packages travel no longer than Delay.
THEOREM NeverGivenUp == BeatSpec => []NoFalseAlarm
<1>1. BeatInv => NoFalseAlarm
  <2>1. ASSUME BeatInv, NEW e \in closed
        PROVE  Other(e) \notin up
    BY <2>1, Ends DEF BeatInv, BeatTypeOK
  <2>2. QED
    BY <2>1 DEF NoFalseAlarm, BeatInv
<1>2. QED
  BY <1>1, BeatsHold, PTL

\* An end notices that the other one is silent within a second of its timeout,
\* whatever it sends itself.
THEOREM SilenceIsNoticed == BeatSpec => []SilenceNoticed
<1>1. BeatInv => SilenceNoticed
  BY DEF BeatInv, Watching, SilenceNoticed
<1>2. QED
  BY <1>1, BeatsHold, PTL
=============================================================================
