------------------------------ MODULE InputPath ------------------------------
(***************************************************************************)
(* The way of a message into the series: links and fronts append to their  *)
(* one-time flows, CLinkManager::GetNextMessage picks the next message     *)
(* from one link after the other, and RealDo copies it from where the      *)
(* pointer leads into m_pPreSeries (CachedFlow), from where it is          *)
(* persisted, shipped and read.                                            *)
(***************************************************************************)
EXTENDS CachedFlow, OneTimeFlow

CONSTANTS
  Links,      (* the links, numbered from 1                                *)
  Responder,  (* the links with a flow of responses beside the series      *)
  Quota       (* messages taken from a link before the next one's turn (32)*)

ASSUME LinkBounds ==
  /\ Links \in Nat \ {0} /\ Responder \subseteq 1 .. Links /\ Quota \in Nat \ {0}

VARIABLES
  turn,      (* m_iCurrLinkItem; 0 where the iterator is at the end        *)
  taken,     (* m_nCurrCount                                               *)
  begun,     (* begun[l]: m_bBeginSeries                                   *)
  held,      (* the message m_pubPackage points to: flow and number        *)
  fetched    (* RealDo has the message and has not yet appended it         *)

linking == <<turn, taken, begun, held, fetched>>
pathVars == <<vars, onetime, linking>>

\* The flows of a link, m_pRspFlow first.
Rsp(l) == 2 * l
Series(l) == 2 * l - 1
LinkFlows == {Series(l) : l \in 1 .. Links} \union {Rsp(l) : l \in Responder}
FlowMessage == UNION {{q} \X (0 .. MaxProduced[q] - 1) : q \in LinkFlows}

\* What links hand over and what was persisted before are messages.
ASSUME LinkMessages ==
  /\ LinkFlows \subseteq Flow
  /\ FlowMessage \union ({0} \X (1 .. MaxMessages)) \subseteq Message

\* setLinkApi: a link without responses begins at once.
PathInit ==
  /\ \E n \in 0 .. MaxPersisted : Start([i \in 1 .. n |-> <<0, i>>])
  /\ OneTimeInit
  /\ turn = 1 /\ taken = 0
  /\ begun = [l \in 1 .. Links |-> l \notin Responder]
  /\ held = <<0, 0>>
  /\ fetched = FALSE

\* Links and fronts, each a thread of its own.
Provide(q) ==
  /\ Produce(q) \/ Trim(q)
  /\ UNCHANGED <<vars, linking>>

\* setLinkInitOver, by a request of the application.
BeginSeries(l) ==
  /\ ~begun[l]
  /\ begun' = [begun EXCEPT ![l] = TRUE]
  /\ UNCHANGED <<vars, onetime, turn, taken, held, fetched>>

Waiting == role # "secondary" /\ pc["kernel"] = "idle" /\ ~fetched

\* GetLinkMessage: responses come before the series.
Offers(l, q) ==
  \/ q = Rsp(l) /\ l \in Responder /\ Available(q)
  \/ /\ q = Series(l) /\ begun[l] /\ Available(q)
     /\ ~(l \in Responder /\ Available(Rsp(l)))

\* GetNextMessage finds a message at the link whose turn it is.
Fetch(q) ==
  /\ Waiting
  /\ turn # 0 /\ taken < Quota /\ Offers(turn, q)
  /\ GetPointer(q)
  /\ held' = <<q, readId[q]>>
  /\ fetched' = TRUE
  /\ taken' = taken + 1
  /\ UNCHANGED <<vars, turn, begun>>

\* Mutant: the iterator stays at the end.
NextTurnStuck == IF turn = 0 THEN 0 ELSE IF turn < Links THEN turn + 1 ELSE 0
NextTurn == IF turn = 0 THEN 1 ELSE IF turn < Links THEN turn + 1 ELSE 0

\* ... or it has had its share, or offers nothing: the next one's turn.
Rotate ==
  /\ Waiting
  /\ turn = 0 \/ taken >= Quota \/ \A q \in LinkFlows : ~Offers(turn, q)
  /\ turn' = NextTurn
  /\ taken' = 0
  /\ UNCHANGED <<vars, onetime, begun, held, fetched>>

\* RealDo appends what it has fetched.
TakeIn ==
  /\ fetched
  /\ BeginAppend(Dereference(held[1], held[2]))
  /\ fetched' = FALSE
  /\ UNCHANGED <<onetime, turn, taken, begun, held>>

\* A SECONDARY appends what its primary ships.
Shipped ==
  /\ role = "secondary"
  /\ BeginAppend(<<0, count + 1>>)
  /\ UNCHANGED <<onetime, linking>>

FlowStep ==
  /\ Shift \/ Push \/ Confirmation \/ Reading
  /\ UNCHANGED <<onetime, linking>>

Kernel == TakeIn \/ Rotate \/ \E q \in LinkFlows : Fetch(q)

PathNext ==
  \/ \E q \in LinkFlows : Provide(q)
  \/ \E l \in Responder : BeginSeries(l)
  \/ Kernel
  \/ Shipped
  \/ FlowStep

PathSpec == PathInit /\ [][PathNext]_pathVars

\* The matching thread runs, the standby is sent everything and answers.
FairPath == PathSpec /\ WF_pathVars(Kernel) /\ WF_pathVars(FlowStep)

-----------------------------------------------------------------------------
(* Properties.                                                             *)

PathTypeOK ==
  /\ turn \in 0 .. Links /\ taken \in 0 .. Quota
  /\ begun \in [1 .. Links -> BOOLEAN] /\ fetched \in BOOLEAN
  /\ held \in FlowMessage \union {<<0, 0>>}
  /\ \A q \in LinkFlows : readId[q] \in 0 .. Produced(q) /\ Produced(q) <= MaxProduced[q]

\* What m_pubPackage points to stays in place until RealDo fetches the next
\* message, whatever the links and fronts append meanwhile: handleMessage and
\* the callback use it long after the lock is released.
HeldIntact == PathTypeOK /\ (held[1] # 0 => Dereference(held[1], held[2]) = held)

\* Of flow q, log holds the messages 0 to n - 1, each once and in order.
InOrder(log, q, n) ==
  LET Mine == {i \in 1 .. Len(log) : log[i][1] = q}
  IN  /\ \A k \in 0 .. n - 1 : \E i \in Mine : log[i][2] = k
      /\ \A i \in Mine : log[i][2] \in 0 .. n - 1
      /\ \A i, j \in Mine : i < j => log[i][2] < log[j][2]

\* Of every flow the series holds the messages from the first on, each once and
\* in order, none skipped: up to the reader's number, but for the one RealDo
\* has in its hands.
Mid == {m \in FlowMessage : \/ fetched /\ m = held
                            \/ Locked /\ m = adding}
TakenInOrder ==
  ~raced => \A q \in LinkFlows :
    InOrder(Contents, q, readId[q] - (IF \E m \in Mid : m[1] = q THEN 1 ELSE 0))

\* Whatever a link hands over enters the series, however the turns go and
\* however often the thread waits for the standby (unless SyncUnderFlow has
\* read the window while it moved: then a message may be lost).
EventuallyTaken ==
  \A q \in LinkFlows : \A n \in 0 .. MaxProduced[q] - 1 :
    (role # "secondary" /\ Produced(q) > n /\ \A l \in 1 .. Links : begun[l]) ~>
      raced \/ \E i \in 1 .. Len(Contents) : Contents[i] = <<q, n>>
=============================================================================
