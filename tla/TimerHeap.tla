------------------------------- MODULE TimerHeap -------------------------------
(***************************************************************************)
(* The timers of a reactor (CTimerHeap).  The clock of the reactor is in   *)
(* milliseconds and 32 bits wide; the heap counts its own time from        *)
(* m_nClockAlter, ignores a jump of more than five minutes, and starts     *)
(* again from 0 after a day.                                               *)
(***************************************************************************)
EXTENDS Integers

CONSTANTS
  Timer,        (* handlers with the id of a timer                         *)
  Elapses,      (* the intervals timers are set to                         *)
  Wrap,         (* 2^32                                                    *)
  MaxTimeout,   (* MAX_TIMER_HEAP_TIMEOUT: a day                           *)
  MaxJump,      (* five minutes                                            *)
  MaxGap,       (* bound: time between two calls of Expire                 *)
  MaxTime       (* bound: end of time                                      *)

\* No timer runs longer than a day; no loop of the reactor takes 48.
ASSUME TimerBounds ==
  /\ {Wrap, MaxTimeout, MaxJump, MaxGap, MaxTime} \subseteq Nat
  /\ Elapses \subseteq 1 .. MaxTimeout
  /\ 2 * MaxTimeout + MaxGap < Wrap

VARIABLES
  now,       (* the time; the reactor's clock is now % Wrap                *)
  clock,     (* m_nClock                                                   *)
  alter,     (* m_nClockAlter                                              *)
  elapse,    (* elapse[t]: nElapse of the node of t, 0 if there is none    *)
  expire,    (* expire[t]: nExpire                                         *)
  expiring,  (* the loop of Expire is under way                            *)
  checked,   (* when Expire was called last                                *)
  base,      (* history: checked when t was set or fired last              *)
  jumped     (* history: MaxJump passed between two calls of Expire        *)

vars == <<now, clock, alter, elapse, expire, expiring, checked, base, jumped>>

Init ==
  /\ now \in 0 .. Wrap - 1
  /\ clock = 0 /\ alter = now
  /\ elapse = [t \in Timer |-> 0] /\ expire = [t \in Timer |-> 0]
  /\ expiring = FALSE
  /\ checked = now /\ base = [t \in Timer |-> 0]
  /\ jumped = FALSE

Armed == {t \in Timer : elapse[t] > 0}

Tick ==
  /\ now < MaxTime /\ now - checked < MaxGap
  /\ now' = now + 1
  /\ UNCHANGED <<clock, alter, elapse, expire, expiring, checked, base, jumped>>

TooFar == (now % Wrap) - alter - clock > MaxJump

Elapsed == ((now % Wrap) - alter) % Wrap

\* Mutant: the expiry times are left as they are.
RebasedForgotten == expire
\* Mutant: every timer is due at once.
RebasedToZero == [t \in Timer |-> 0]
Rebased == [t \in Timer |-> IF expire[t] <= Elapsed THEN 0 ELSE expire[t] - Elapsed]

\* Expire begins with SyncTime.
SyncTime ==
  /\ ~expiring
  /\ expiring' = TRUE
  /\ checked' = now
  /\ jumped' = (jumped \/ now - checked > MaxJump)
  /\ \/ TooFar /\ UNCHANGED <<clock, alter, expire>>
     \/ /\ ~TooFar /\ Elapsed <= MaxTimeout
        /\ clock' = Elapsed
        /\ UNCHANGED <<alter, expire>>
     \/ /\ ~TooFar /\ Elapsed > MaxTimeout
        /\ expire' = Rebased
        /\ alter' = alter + Elapsed
        /\ clock' = 0
  /\ UNCHANGED <<now, elapse, base>>

Due == {t \in Armed : expire[t] <= clock}

\* The node at the top is pushed again, then OnTimer is called.
Fire(t) ==
  /\ expiring
  /\ t \in Due /\ \A u \in Due : expire[t] <= expire[u]
  /\ expire' = [expire EXCEPT ![t] = clock + elapse[t]]
  /\ base' = [base EXCEPT ![t] = checked]
  /\ UNCHANGED <<now, clock, alter, elapse, expiring, checked, jumped>>

ExpireDone ==
  /\ expiring /\ Due = {}
  /\ expiring' = FALSE
  /\ UNCHANGED <<now, clock, alter, elapse, expire, checked, base, jumped>>

\* By OnTimer or any other handler of the reactor, at any time:
\* RegisterTimer, which removes t first.
SetTimer(t, e) ==
  /\ elapse' = [elapse EXCEPT ![t] = e]
  /\ expire' = [expire EXCEPT ![t] = clock + e]
  /\ base' = [base EXCEPT ![t] = checked]
  /\ UNCHANGED <<now, clock, alter, expiring, checked, jumped>>

\* RemoveTimer: the node stays, without a handler, and is dropped when due.
KillTimer(t) ==
  /\ t \in Armed
  /\ elapse' = [elapse EXCEPT ![t] = 0]
  /\ expire' = [expire EXCEPT ![t] = 0]
  /\ base' = [base EXCEPT ![t] = 0]
  /\ UNCHANGED <<now, clock, alter, expiring, checked, jumped>>

Next ==
  \/ Tick
  \/ SyncTime
  \/ ExpireDone
  \/ \E t \in Timer : Fire(t) \/ KillTimer(t) \/ \E e \in Elapses : SetTimer(t, e)

Spec == Init /\ [][Next]_vars

-----------------------------------------------------------------------------
(* Properties.                                                             *)

TypeOK ==
  /\ now \in Nat /\ checked \in 0 .. now
  /\ clock \in 0 .. MaxTimeout /\ alter \in Nat
  /\ elapse \in [Timer -> Elapses \union {0}]
  /\ expire \in [Timer -> 0 .. 2 * MaxTimeout]
  /\ base \in [Timer -> Nat]
  /\ {expiring, jumped} \subseteq BOOLEAN

\* Until five minutes pass between two calls of Expire, no timer fires before its
\* interval has passed, counted from the last call of Expire before it was set,
\* whatever wraps or begins again in between.  After such a pause the heap stands
\* still for a time, and what it has missed comes at once.
NeverEarly == TypeOK /\ (~jumped => \A t \in Due : checked - base[t] >= elapse[t])

\* Until then no timer is overdue when CheckTimer returns: the heap ignores the
\* time only after such a pause, in whatever round of the reactor's clock.
OnTime == (~expiring /\ ~jumped) => \A t \in Armed : checked - base[t] < elapse[t]
=============================================================================
