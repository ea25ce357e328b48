------------------------------- MODULE WeightLedger -------------------------------
(***************************************************************************)
(* What the weight index promises its callers, free of the tree it is kept  *)
(* in: one weight per slot, a LIFO stack of recycled slots, a high-water    *)
(* mark and the running total, which must fit a word.  A ledger is a record *)
(*     [leaf, free, high, total].                                           *)
(* Every operation of state/weight_index.rs that fails (WeightIndexFull,    *)
(* WeightDesync) aborts the transaction, so its condition is a guard.       *)
(***************************************************************************)
EXTENDS Integers, Sequences

CONSTANTS
  Capacity,  \* leaves of the tree
  MaxWord    \* the largest value of a u64
ASSUME CapacityAssumption == Capacity \in Nat \ {0}
ASSUME WordAssumption == MaxWord \in Nat

Slots == 0 .. Capacity - 1
Words == 0..MaxWord

\* The free stack holds slots, the mark at most all of them.
LedgerType == [leaf: [Slots -> Nat], free: Seq(Slots), high: 0..Capacity, total: Words]

EmptyLedger == [leaf |-> [s \in Slots |-> 0], free |-> << >>, high |-> 0, total |-> 0]

\* Variant: the free list read at its other end.
OldestFreeSlot(l) == IF l.free # << >> THEN l.free[1] ELSE l.high

\* slot_alloc: the most recently recycled slot, else the next untouched one.
NextSlot(l) == IF l.free # << >> THEN l.free[Len(l.free)] ELSE l.high
CanAlloc(l) ==
  /\ l.free = << >> => l.high < Capacity
  /\ NextSlot(l) \in Slots
  /\ l.leaf[NextSlot(l)] = 0

\* Variant: the high-water mark moves for a recycled slot too.
InsertRaisesMark(l, w) ==
  [leaf  |-> [l.leaf EXCEPT ![NextSlot(l)] = w],
   free  |-> IF l.free # << >> THEN SubSeq(l.free, 1, Len(l.free) - 1) ELSE l.free,
   high  |-> l.high + 1,
   total |-> l.total + w]

\* The checked addition or subtraction of a weight leaves a word, the one the
\* caller has just written to w_real and narrowed.
Lands(total, expected) == total \in Words /\ total = expected

CanInsert(l, w, expected) == CanAlloc(l) /\ Lands(l.total + w, expected)
Insert(l, w) ==
  [leaf  |-> [l.leaf EXCEPT ![NextSlot(l)] = w],
   free  |-> IF l.free # << >> THEN SubSeq(l.free, 1, Len(l.free) - 1) ELSE l.free,
   high  |-> IF l.free # << >> THEN l.high ELSE l.high + 1,
   total |-> l.total + w]

\* remove reads the leaf back and refuses a weight it does not hold.
CanRemove(l, s, w, expected) ==
  /\ s \in Slots
  /\ l.leaf[s] = w
  /\ Len(l.free) < Capacity
  /\ Lands(l.total - w, expected)
Remove(l, s, w) ==
  [leaf  |-> [l.leaf EXCEPT ![s] = 0],
   free  |-> Append(l.free, s),
   high  |-> l.high,
   total |-> l.total - w]

\* Variant: the new weight is added and the old one forgotten.
UpdateAdds(l, s, old, new) == [l EXCEPT !.leaf[s] = new, !.total = l.total + new]

\* update moves a leaf in place from the weight it must hold to another.
CanUpdate(l, s, old, new, expected) ==
  /\ s \in Slots
  /\ l.leaf[s] = old
  /\ Lands(l.total + new - old, expected)
Update(l, s, old, new) ==
  [l EXCEPT !.leaf[s] = new, !.total = l.total + new - old]
=================================================================================
