------------------------------ MODULE OrderingQ ------------------------------
(***************************************************************************)
(* COrderingQ: a window of packages that have arrived before their turn.   *)
(* A ring of slots, one for each number of the window, points into a ring  *)
(* of items in the order of arrival, twice as large.  The memory of the    *)
(* items is given back from the oldest on.                                 *)
(*                                                                         *)
(* A package is its number.                                                *)
(***************************************************************************)
EXTENDS Integers, FiniteSets

CONSTANT MaxSlot   (* m_nMaxSlot (4000)                                    *)

ASSUME SlotAssumption == MaxSlot \in Nat \ {0}

MaxDataItem == 2 * MaxSlot
Null == -1
Free == [package |-> 0, delivered |-> FALSE]

OrderingQueue ==
  [slot : [0 .. MaxSlot - 1 -> {Null} \union 0 .. MaxDataItem - 1], slotHead : 0 .. MaxSlot - 1,
   item : [0 .. MaxDataItem - 1 -> [package : Nat, delivered : BOOLEAN]],
   itemHead : 0 .. MaxDataItem - 1, itemTail : 0 .. MaxDataItem - 1, startIndex : Nat]

SetStartIndex(n) ==
  [slot |-> [i \in 0 .. MaxSlot - 1 |-> Null], slotHead |-> 0,
   item |-> [i \in 0 .. MaxDataItem - 1 |-> Free], itemHead |-> 0, itemTail |-> 0, startIndex |-> n]

\* Mutant: one number too many.
WindowWide(q) == q.startIndex .. q.startIndex + MaxSlot
Window(q) == q.startIndex .. q.startIndex + MaxSlot - 1

EnQueue(q, n) ==
  LET i == (q.slotHead + n - q.startIndex) % MaxSlot
  IN  IF n \notin Window(q) \/ q.slot[i] # Null THEN q
      ELSE [q EXCEPT !.slot[i] = q.itemTail,
                     !.item[q.itemTail] = [package |-> n, delivered |-> FALSE],
                     !.itemTail = (@ + 1) % MaxDataItem]

\* What QueueFront points to, 0 if nothing.
QueueFront(q) == IF q.slot[q.slotHead] = Null THEN 0 ELSE q.item[q.slot[q.slotHead]].package

\* The items from the oldest on that have been delivered.
Releasable(q) ==
  LET live == (q.itemTail - q.itemHead) % MaxDataItem
  IN  {k \in 0 .. live - 1 : \A j \in 0 .. k : q.item[(q.itemHead + j) % MaxDataItem].delivered}

DeQueue(q) ==
  LET i == q.slot[q.slotHead]
      d == IF i = Null THEN q ELSE [q EXCEPT !.item[i].delivered = TRUE]
      k == Cardinality(Releasable(d))
  IN  [d EXCEPT !.slot[q.slotHead] = Null, !.slotHead = (@ + 1) % MaxSlot,
                !.item = [j \in DOMAIN @ |-> IF (j - d.itemHead) % MaxDataItem < k THEN Free ELSE @[j]],
                !.itemHead = (@ + k) % MaxDataItem, !.startIndex = @ + 1]

\* Every slot leads to the package of its number, which has not been given back.
SlotsRight(q) ==
  \A j \in 0 .. MaxSlot - 1 :
    LET i == q.slot[(q.slotHead + j) % MaxSlot]
    IN  i # Null => q.item[i] = [package |-> q.startIndex + j, delivered |-> FALSE]
=============================================================================
