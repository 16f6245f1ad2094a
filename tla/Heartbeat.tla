------------------------------ MODULE Heartbeat ------------------------------
(***************************************************************************)
(* The heartbeats of a session (CXMPProtocol).  Once a second an end sees  *)
(* whether it has heard from the other one lately, and sends a heartbeat   *)
(* when it has itself been silent.  Setting the read timeout of an end     *)
(* tells the other one how often to write; a slave follows with its own.   *)
(***************************************************************************)
EXTENDS Integers, Sequences

CONSTANTS
  Timeouts,      (* read timeouts that are set                             *)
  DefaultWrite,  (* WRITE_TIMEOUT_DEFAULT                                  *)
  DefaultRead,   (* READ_TIMEOUT_DEFAULT                                   *)
  MinRead,       (* the shortest read timeout, 4                           *)
  Delay,         (* seconds a package travels at most                      *)
  MaxWire        (* bound: packages on their way to an end                 *)

ASSUME HeartbeatBounds ==
  /\ {DefaultWrite, DefaultRead, MinRead, Delay, MaxWire} \subseteq Nat
  /\ Timeouts \subseteq Nat \ {0} /\ MinRead >= 4 /\ 2 * Delay + 1 <= MinRead
  /\ DefaultWrite >= 1 /\ DefaultRead >= 2 * DefaultWrite /\ DefaultRead >= MinRead

End == {"a", "b"}
Other(e) == IF e = "a" THEN "b" ELSE "a"

VARIABLES
  slave,         (* the ends in XMPHBT_SLAVE_MODE                          *)
  readTimeout,   (* m_dwReadTimeout                                        *)
  writeTimeout,  (* m_dwWriteTimeout                                       *)
  quiet,         (* Time() - m_LastReadTime                                *)
  idle,          (* Time() - m_LastWriteTime                               *)
  fired,         (* OnTimer has run in this second                         *)
  wire,          (* packages on their way to an end: age and the write     *)
                 (* timeout they carry, 0 for any other package            *)
  up,            (* the ends that run                                      *)
  closed         (* the ends that have disconnected for want of heartbeats *)

clocks == <<quiet, idle, fired>>
timeouts == <<readTimeout, writeTimeout>>
beatVars == <<slave, timeouts, clocks, wire, up, closed>>

BeatInit ==
  /\ slave \in {{}, {"b"}}
  /\ readTimeout = [e \in End |-> DefaultRead]
  /\ writeTimeout = [e \in End |-> DefaultWrite]
  /\ quiet = [e \in End |-> 0] /\ idle = [e \in End |-> 0]
  /\ fired = [e \in End |-> FALSE]
  /\ wire = [e \in End |-> <<>>]
  /\ up = End /\ closed = {}

Alive(e) == e \in up /\ e \notin closed

\* Push and the other senders set m_LastWriteTime.
Sent(e, timeout) == Append(wire[Other(e)], [age |-> 0, timeout |-> timeout])

\* A package of the session's user, a request or a result.
Push(e) ==
  /\ Alive(e) /\ Len(wire[Other(e)]) < MaxWire
  /\ wire' = [wire EXCEPT ![Other(e)] = Sent(e, 0)]
  /\ idle' = [idle EXCEPT ![e] = 0]
  /\ UNCHANGED <<slave, timeouts, quiet, fired, up, closed>>

\* Mutant: the other end may be silent as long as the timeout.
WriteWithinWhole(t) == t
WriteWithin(t) == (t - 1) \div 3

ReadWithin(t) == IF t < MinRead THEN MinRead ELSE t

\* SetHeartbeatTimeout, by the session's user: once, when the session is made or
\* has just brought its login.
SetHeartbeatTimeout(e, t) ==
  /\ Alive(e) /\ e \notin slave /\ quiet[e] = 0 /\ readTimeout[e] = DefaultRead
  /\ Len(wire[Other(e)]) < MaxWire
  /\ readTimeout' = [readTimeout EXCEPT ![e] = ReadWithin(t)]
  /\ wire' = [wire EXCEPT ![Other(e)] = Sent(e, WriteWithin(ReadWithin(t)))]
  /\ idle' = [idle EXCEPT ![e] = 0]
  /\ UNCHANGED <<slave, writeTimeout, quiet, fired, up, closed>>

\* What a slave sets its read timeout to.
Following(w) == w * 3 + 1 + 3

Rest(e) == [wire EXCEPT ![e] = Tail(@)]

\* Pop of a package, which says that the other end was alive.
Pop(e) ==
  /\ Alive(e) /\ wire[e] # <<>> /\ Head(wire[e]).timeout = 0
  /\ quiet' = [quiet EXCEPT ![e] = 0]
  /\ wire' = Rest(e)
  /\ UNCHANGED <<slave, timeouts, idle, fired, up, closed>>

\* SetWriteTimeout; a slave answers, unless its timeout is the same already.
PopTimeout(e) ==
  /\ Alive(e) /\ wire[e] # <<>> /\ Head(wire[e]).timeout > 0
  /\ LET w == Head(wire[e]).timeout
         t == Following(w)
     IN  /\ writeTimeout' = [writeTimeout EXCEPT ![e] = w]
         /\ quiet' = [quiet EXCEPT ![e] = 0]
         /\ IF e \in slave /\ t # readTimeout[e]
            THEN /\ readTimeout' = [readTimeout EXCEPT ![e] = ReadWithin(t)]
                 /\ wire' = [Rest(e) EXCEPT ![Other(e)] = Sent(e, WriteWithin(ReadWithin(t)))]
                 /\ idle' = [idle EXCEPT ![e] = 0]
            ELSE wire' = Rest(e) /\ UNCHANGED <<readTimeout, idle>>
  /\ UNCHANGED <<slave, fired, up, closed>>

\* Mutant: whoever has something to send does not look.
OverdueIfSilent(e) == quiet[e] > readTimeout[e] /\ idle[e] >= writeTimeout[e]
Overdue(e) == quiet[e] > readTimeout[e]

\* OnTimer: Disconnect, or a heartbeat if it is time for one.
OnTimer(e) ==
  /\ Alive(e) /\ ~fired[e]
  /\ fired' = [fired EXCEPT ![e] = TRUE]
  /\ \/ Overdue(e) /\ closed' = closed \union {e} /\ UNCHANGED <<idle, wire>>
     \/ /\ ~Overdue(e) /\ idle[e] >= writeTimeout[e]
        /\ wire' = [wire EXCEPT ![Other(e)] = Sent(e, 0)]
        /\ idle' = [idle EXCEPT ![e] = 0]
        /\ UNCHANGED closed
     \/ ~Overdue(e) /\ idle[e] < writeTimeout[e] /\ UNCHANGED <<idle, wire, closed>>
  /\ UNCHANGED <<slave, timeouts, quiet, up>>

\* A second passes: the timers of the ends that run have fired in it, and what
\* has travelled long enough has arrived.  What is sent to an end that does not
\* run, or by one, is of no interest, nor what follows a disconnection.
Second ==
  /\ closed = {}
  /\ \A e \in End : Alive(e) => /\ fired[e]
                                /\ \A i \in DOMAIN wire[e] : wire[e][i].age < Delay
  /\ quiet' = [e \in End |-> IF Alive(e) THEN quiet[e] + 1 ELSE 0]
  /\ idle' = [e \in End |-> IF Alive(e) THEN idle[e] + 1 ELSE 0]
  /\ fired' = [e \in End |-> FALSE]
  /\ wire' = [e \in End |-> IF Alive(e) THEN [i \in DOMAIN wire[e] |-> [wire[e][i] EXCEPT !.age = @ + 1]] ELSE <<>>]
  /\ UNCHANGED <<slave, timeouts, up, closed>>

\* The other machine stops, and its end of the connection says nothing.
Vanish(e) ==
  /\ Alive(e) /\ up = End
  /\ up' = up \ {e}
  /\ UNCHANGED <<slave, timeouts, clocks, wire, closed>>

BeatNext ==
  \/ Second
  \/ \E e \in End :
       \/ Push(e) \/ Pop(e) \/ PopTimeout(e) \/ OnTimer(e) \/ Vanish(e)
       \/ \E t \in Timeouts : SetHeartbeatTimeout(e, t)

BeatSpec == BeatInit /\ [][BeatNext]_beatVars

-----------------------------------------------------------------------------
(* Properties.                                                             *)

BeatTypeOK ==
  /\ slave \subseteq End /\ up \subseteq End /\ closed \subseteq End
  /\ readTimeout \in [End -> Nat] /\ writeTimeout \in [End -> Nat \ {0}]
  /\ \A e \in End : readTimeout[e] >= MinRead
  /\ quiet \in [End -> Nat] /\ idle \in [End -> Nat]
  /\ fired \in [End -> BOOLEAN]
  /\ wire \in [End -> Seq([age : 0 .. Delay, timeout : Nat])]

\* No end gives up an end that runs, as long as packages are not late: whatever
\* timeouts are set and told while heartbeats are under way.
NoFalseAlarm == BeatTypeOK /\ \A e \in closed : Other(e) \notin up \/ Other(e) \in closed

\* Silence is noticed within a second of the timeout, whatever an end itself
\* sends meanwhile: an end that vanishes is given up, for nothing else tells.
SilenceNoticed == \A e \in End : Alive(e) => quiet[e] <= readTimeout[e] + 1
=============================================================================
