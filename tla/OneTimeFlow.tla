----------------------------- MODULE OneTimeFlow -----------------------------
(***************************************************************************)
(* The COneTimeFlows through which links and fronts hand messages to the   *)
(* matching thread.  A flow has one thread that appends and one reader.    *)
(* The reader is given a pointer into the flow's cache and uses it without *)
(* a lock; an Append drops what is older than the message asked for last.  *)
(***************************************************************************)
EXTENDS Integers, Sequences

CONSTANTS
  Flow,          (* the flows                                              *)
  Dangling,      (* what is found under a pointer to what was dropped      *)
  MaxProduced    (* bound: MaxProduced[q], messages appended to flow q     *)

ASSUME OneTimeBounds == MaxProduced \in [Flow -> Nat]

VARIABLES
  head,      (* head[q]: m_nFirstID, id of the oldest message kept         *)
  items,     (* items[q]: m_NodeQueue with the messages                    *)
  haveGet,   (* haveGet[q]: m_iHaveGetID                                   *)
  readId,    (* readId[q]: m_nNextId of the reader                         *)
  trimming   (* trimming[q]: an Append is between its two locks            *)

onetime == <<head, items, haveGet, readId, trimming>>

Produced(q) == head[q] + Len(items[q])

OneTimeInit ==
  /\ head = [q \in Flow |-> 0]
  /\ items = [q \in Flow |-> <<>>]
  /\ haveGet = [q \in Flow |-> -1]
  /\ readId = [q \in Flow |-> 0]
  /\ trimming = [q \in Flow |-> FALSE]

\* CCachedFlow::Append; message n of flow q is the pair <<q, n>>.
Produce(q) ==
  /\ ~trimming[q]
  /\ Produced(q) < MaxProduced[q]
  /\ items' = [items EXCEPT ![q] = Append(@, <<q, Produced(q)>>)]
  /\ trimming' = [trimming EXCEPT ![q] = TRUE]
  /\ UNCHANGED <<head, haveGet, readId>>

\* Mutant: the message asked for last is dropped as well.
TrimHeld(q) ==
  /\ trimming[q]
  /\ trimming' = [trimming EXCEPT ![q] = FALSE]
  /\ LET n == IF haveGet[q] >= head[q] THEN haveGet[q] + 1 - head[q] ELSE 0 IN
       /\ head' = [head EXCEPT ![q] = @ + n]
       /\ items' = [items EXCEPT ![q] = SubSeq(@, n + 1, Len(@))]
  /\ UNCHANGED <<haveGet, readId>>

\* The rest of Append: PopFront while m_nFirstID < m_iHaveGetID.
Trim(q) ==
  /\ trimming[q]
  /\ trimming' = [trimming EXCEPT ![q] = FALSE]
  /\ LET n == IF haveGet[q] > head[q] THEN haveGet[q] - head[q] ELSE 0 IN
       /\ head' = [head EXCEPT ![q] = @ + n]
       /\ items' = [items EXCEPT ![q] = SubSeq(@, n + 1, Len(@))]
  /\ UNCHANGED <<haveGet, readId>>

\* CFlowReader::GetNext has something to return.
Available(q) == readId[q] < Produced(q)

\* Mutant: the reader's number stays.
GetPointerAgain(q) ==
  /\ Available(q)
  /\ haveGet' = [haveGet EXCEPT ![q] = readId[q]]
  /\ UNCHANGED <<head, items, readId, trimming>>

\* GetPointer and SetId: the reader now holds message readId[q].
GetPointer(q) ==
  /\ Available(q)
  /\ haveGet' = [haveGet EXCEPT ![q] = readId[q]]
  /\ readId' = [readId EXCEPT ![q] = @ + 1]
  /\ UNCHANGED <<head, items, trimming>>

\* What is found now under the pointer to message n of flow q.
Dereference(q, n) ==
  IF n \in head[q] .. Produced(q) - 1 THEN items[q][n - head[q] + 1] ELSE Dangling
=============================================================================
