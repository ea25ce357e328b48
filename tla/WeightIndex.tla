------------------------------- MODULE WeightIndex -------------------------------
(***************************************************************************)
(* state/weight_index.rs: the Fenwick range-sum tree over the slots' weights,*)
(* with its LIFO stack of recycled slots.  Nodes and leaves are numbered     *)
(* from 1, slots from 0.  Callers are arbitrary: they may name any slot, any *)
(* weight and any expected total, and a refused call changes nothing.        *)
(***************************************************************************)
EXTENDS Integers, Sequences

CONSTANTS
  Capacity,  \* leaves of the tree
  Weights,   \* weights a leaf may carry
  MaxWord    \* the largest value of a u64
ASSUME WeightIndexAssumption ==
  Capacity \in Nat \ {0} /\ Weights \subseteq Nat \ {0} /\ MaxWord \in Nat

VARIABLES
  tree,          \* [1..Capacity -> 0..MaxWord]; node i sums LowBit(i) leaves up to i
  free_stack,    \* the first free_count entries of the array
  high_water,
  total_weight

vars == <<tree, free_stack, high_water, total_weight>>

Nodes == 1..Capacity
Slots == 0 .. Capacity - 1
Words == 0..MaxWord

\* i & -i: the largest power of two that divides i.
LowBit(i) ==
  LET bit[j \in Nodes] == IF j % 2 = 1 THEN 1 ELSE 2 * bit[j \div 2]
  IN  bit[i]

\* Variant: the walk stops before the last node.
PathUpShort(i) ==
  LET up[j \in 1 .. 2 * Capacity] ==
        IF j >= Capacity THEN {} ELSE {j} \cup up[j + LowBit(j)]
  IN  up[i]

\* The nodes an addition at leaf i visits on its way up.
PathUp(i) ==
  LET up[j \in 1 .. 2 * Capacity] ==
        IF j > Capacity THEN {} ELSE {j} \cup up[j + LowBit(j)]
  IN  up[i]

\* fenwick_add and fenwick_sub, with their checked arithmetic.
Shifted(i, delta) == [j \in Nodes |-> IF j \in PathUp(i) THEN tree[j] + delta ELSE tree[j]]

\* fenwick_prefix: the sum of leaves 1..i.
Prefix(i) ==
  LET sum[j \in 0..Capacity] == IF j = 0 THEN 0 ELSE tree[j] + sum[j - LowBit(j)]
  IN  sum[i]
Leaf(i) == Prefix(i) - Prefix(i - 1)

\* Variant: the descent stops at a boundary instead of passing it.
PassesStrictly(next, left) == next <= Capacity /\ tree[next] < left

\* A node is passed when it exists and all of its weight lies at or below r.
Passes(next, left) == next <= Capacity /\ tree[next] <= left

\* 1 << capacity.ilog2(): the largest power of two that fits.
TopStep ==
  LET top[n \in Nodes] == IF n = 1 THEN 1 ELSE 2 * top[n \div 2]
  IN  top[Capacity]

\* fenwick_find: descend by halving steps, consuming r on the way.
Find(r) ==
  LET Descend[step \in 0..TopStep] == [p \in (0..Capacity) \X Words |->
        LET at == p[1]   left == p[2]   next == at + step
        IN  IF step = 0 THEN at
            ELSE IF Passes(next, left) THEN Descend[step \div 2][<<next, left - tree[next]>>]
            ELSE Descend[step \div 2][p]]
  IN  Descend[TopStep][<<0, r>>]

\* ops_prefix_search: the slot whose interval of the cumulative weight holds r.
CanSearch(r) == r < total_weight
PrefixSearch(r) == Find(r)

Init ==
  /\ tree = [i \in Nodes |-> 0]
  /\ free_stack = << >> /\ high_water = 0 /\ total_weight = 0

\* Variants: the oldest recycled slot; a stack never popped; a mark always raised.
AllocatedOldest == IF free_stack # << >> THEN free_stack[1] ELSE high_water
AllocateKeeping == UNCHANGED free_stack /\
  high_water' = IF free_stack # << >> THEN high_water ELSE high_water + 1
AllocateRaising == high_water' = high_water + 1 /\
  free_stack' = IF free_stack # << >> THEN SubSeq(free_stack, 1, Len(free_stack) - 1)
                ELSE free_stack

\* slot_alloc: the last recycled slot, else the first never used; it must be empty.
Recycling == free_stack # << >>
Allocated == IF Recycling THEN free_stack[Len(free_stack)] ELSE high_water
CanAllocate ==
  /\ ~Recycling => high_water < Capacity
  /\ Leaf(Allocated + 1) = 0
Allocate ==
  IF Recycling
  THEN free_stack' = SubSeq(free_stack, 1, Len(free_stack) - 1) /\ UNCHANGED high_water
  ELSE high_water' = high_water + 1 /\ UNCHANGED free_stack

\* The total is a u64 of its own, checked before the nodes are touched, and
\* must land on what the caller has just written to w_real.
TotalFits(total) == total \in Words
TotalBecomes(total, expected) ==
  /\ TotalFits(total) /\ total = expected
  /\ total_weight' = total

IndexInsert(w, expected) ==
  /\ CanAllocate
  /\ TotalBecomes(total_weight + w, expected)
  /\ tree' = Shifted(Allocated + 1, w)
  /\ Allocate

IndexRemove(slot, w, expected) ==
  /\ slot + 1 <= Capacity
  /\ Leaf(slot + 1) = w
  /\ Len(free_stack) < Capacity
  /\ TotalBecomes(total_weight - w, expected)
  /\ tree' = Shifted(slot + 1, -w)
  /\ free_stack' = Append(free_stack, slot)
  /\ UNCHANGED high_water

IndexUpdate(slot, old, new, expected) ==
  /\ slot + 1 <= Capacity
  /\ Leaf(slot + 1) = old
  /\ TotalBecomes(total_weight + new - old, expected)
  /\ tree' = Shifted(slot + 1, new - old)
  /\ UNCHANGED <<free_stack, high_water>>

Next ==
  \E w, old \in Weights, slot \in 0..Capacity, expected \in Words :
    \/ IndexInsert(w, expected)
    \/ IndexRemove(slot, w, expected)
    \/ IndexUpdate(slot, old, w, expected)

Spec == Init /\ [][Next]_vars
---------------------------------------------------------------------------------
(* The index as the ledger its callers see. *)

LeafOf == [s \in Slots |-> Leaf(s + 1)]
LedgerView == [leaf |-> LeafOf, free |-> free_stack, high |-> high_water,
               total |-> total_weight]
L == INSTANCE Ledger WITH ledger <- LedgerView

\* Every step of the tree is a step of the ledger: the tree implements it.
ImplementsLedger == L!LedgerSpec

\* The tree refuses nothing the ledger grants: with a slot to take and a total that
\* fits a word, the ledger's two conditions, a call cannot fail on a stale node, a
\* dirty recycled leaf or a full free stack, whatever calls came before.
GrantsWhatTheLedgerGrants ==
  /\ \A w \in Weights : L!CanAlloc(LedgerView) /\ TotalFits(total_weight + w)
       => ENABLED IndexInsert(w, total_weight + w)
  /\ \A s \in Slots : LeafOf[s] > 0 => ENABLED IndexRemove(s, LeafOf[s], total_weight - LeafOf[s])

\* No node exceeds a word or falls below zero, so no checked addition of
\* fenwick_add, fenwick_sub or fenwick_prefix panics: the total, checked first,
\* bounds every one of them.
NodesFit ==
  /\ \A i \in Nodes : tree[i] \in Words
  /\ \A i \in 0..Capacity : Prefix(i) \in 0..total_weight
  /\ Prefix(Capacity) = total_weight

\* A draw r below the total lands in exactly one occupied slot, the one whose
\* half-open interval of the cumulative weight holds r, at every boundary and
\* however slots were freed and reused.
SearchFindsTheInterval ==
  \A r \in Words :
    CanSearch(r) => LET s == PrefixSearch(r)
                    IN  /\ s \in Slots /\ LeafOf[s] > 0
                        /\ Prefix(s) <= r /\ r < Prefix(s + 1)

\* A slot is either occupied, or recycled exactly once, or never used.
SlotsPartition ==
  /\ \A i, j \in 1..Len(free_stack) : free_stack[i] = free_stack[j] => i = j
  /\ \A s \in Slots :
       LeafOf[s] = 0 <=> s >= high_water \/ \E i \in 1..Len(free_stack) : free_stack[i] = s
=================================================================================
