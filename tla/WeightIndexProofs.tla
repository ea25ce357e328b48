---------------------------- MODULE WeightIndexProofs ----------------------------
(***************************************************************************)
(* The range-sum tree, for every capacity, set of weights and word: its      *)
(* nodes fit, its search finds the one interval that holds a draw, its slots *)
(* are owned once, and it implements the ledger its callers see.             *)
(***************************************************************************)
EXTENDS WeightIndex, WellFoundedInduction, SequenceTheorems, FiniteSetTheorems, TLAPS

\* A set of naturals has a least element: the first place where a table goes wrong.
LEMMA LeastNatural ==
  ASSUME NEW T, T \subseteq Nat, T # {}
  PROVE  \E m \in T : \A n \in T : m <= n
<1> DEFINE Less == {ss \in Nat \X Nat : ss[1] < ss[2]}
<1>1. OpToRel(<, Nat) = Less
  BY Zenon DEF OpToRel
<1>2. IsWellFoundedOn(Less, Nat)
  BY Zenon, <1>1, NatLessThanWellFounded
<1>3. PICK m \in T : \A n \in T : <<n, m>> \notin Less
  BY Zenon, <1>2, WFMin
<1>4. ASSUME NEW n \in T PROVE m <= n
  <2>1. ~(n < m)
    BY <1>3
  <2> QED
    BY <2>1
<1> QED
  BY <1>4

\* A rule for the rows of a table, each filled from the rows before it.
Rules(N, V) == [0..N -> [[0..N -> V] -> V]]
ReadsBelow(N, V, H) ==
  \A n \in 0..N : \A f, g \in [0..N -> V] :
    (\A m \in 0..n - 1 : f[m] = g[m]) => H[n][f] = H[n][g]
HasTable(N, V, H) == \E f \in [0..N -> V] : \A n \in 0..N : f[n] = H[n][f]

\* Such a rule has a table: the first row that could not be filled has all its
\* predecessors.
LEMMA TableExists ==
  ASSUME NEW N \in Nat, NEW V, NEW v \in V, NEW H \in Rules(N, V), ReadsBelow(N, V, H)
  PROVE  HasTable(N, V, H)
<1> USE DEF Rules, ReadsBelow, HasTable
<1> DEFINE Filled(n) == \E f \in [0..N -> V] : \A m \in 0..n : f[m] = H[m][f]
           T == {n \in 0..N : ~Filled(n)}
<1>1. SUFFICES ASSUME T # {} PROVE FALSE
  <2>1. N \in 0..N
    OBVIOUS
  <2>2. T = {} => Filled(N)
    <3> HIDE DEF Filled
    <3> QED
      BY <2>1
  <2> QED
    BY <2>1, <2>2
<1>2. PICK n \in T : \A m \in T : n <= m
  <2>1. T \subseteq Nat
    OBVIOUS
  <2> HIDE DEF T
  <2> QED
    BY <1>1, <2>1, LeastNatural
<1>3. n \in 0..N /\ n \in Nat /\ ~Filled(n)
  OBVIOUS
<1>4. PICK f \in [0..N -> V] : \A m \in 0..n - 1 : f[m] = H[m][f]
  <2>1. CASE n = 0
    <3>1. [m \in 0..N |-> v] \in [0..N -> V] /\ 0..n - 1 = {}
      BY <2>1
    <3> QED
      BY <3>1
  <2>2. CASE n # 0
    <3>1. n - 1 \in 0..N /\ ~(n <= n - 1)
      BY <1>3, <2>2
    <3>2. Filled(n - 1)
      BY <1>2, <3>1
    <3> QED
      BY <3>2
  <2> QED
    BY <2>1, <2>2
<1> DEFINE g == [f EXCEPT ![n] = H[n][f]]
<1>5. H[n][f] \in V /\ g \in [0..N -> V]
  BY <1>3
<1>6. \A m \in 0..n - 1 : m \in 0..N /\ g[m] = f[m]
  BY <1>3
<1>7. g[n] = H[n][f]
  BY <1>3
<1> HIDE DEF g
<1>8. ASSUME NEW m \in 0..n PROVE g[m] = H[m][g]
  <2>1. \A k \in 0..m - 1 : k \in 0..n - 1
    BY <1>3
  <2>2. m \in 0..N /\ H[m][g] = H[m][f]
    <3>1. m \in 0..N /\ \A k \in 0..m - 1 : g[k] = f[k]
      BY <1>3, <1>6, <2>1
    <3> QED
      BY <1>5, <3>1
  <2>3. CASE m = n
    BY <1>7, <2>2, <2>3
  <2>4. CASE m # n
    <3>1. m \in 0..n - 1
      BY <1>3, <2>4
    <3> QED
      BY <1>4, <1>6, <2>2, <3>1
  <2> QED
    BY <2>3, <2>4
<1> QED
  BY <1>3, <1>5, <1>8

---------------------------------------------------------------------------------
(* Powers of two. *)

BitTable(f) == f = [j \in Nodes |-> IF j % 2 = 1 THEN 1 ELSE 2 * f[j \div 2]]

LEMMA LowBitStep ==
  \A j \in Nodes : LowBit(j) = IF j % 2 = 1 THEN 1 ELSE 2 * LowBit(j \div 2)
<1> DEFINE S == 0..Capacity
           H == [n \in S |-> [f \in [S -> Nat] |->
                  IF n % 2 = 1 \/ n = 0 THEN 1 ELSE 2 * f[n \div 2]]]
<1>0. Capacity \in Nat /\ Nodes \subseteq S /\ \A j \in Nodes : j \in Nat /\ j # 0
  BY WeightIndexAssumption DEF Nodes
<1>h. \A n \in S : n \in Nat /\ (n = 0 \/ n \div 2 \in 0..n - 1) /\ n \div 2 \in S
  BY <1>0
<1>1. \E f : BitTable(f)
  <2>1. H \in [S -> [[S -> Nat] -> Nat]]
    <3>1. ASSUME NEW n \in S
          PROVE  [f \in [S -> Nat] |-> IF n % 2 = 1 \/ n = 0 THEN 1 ELSE 2 * f[n \div 2]]
                   \in [[S -> Nat] -> Nat]
      <4>1. n \div 2 \in S
        BY <1>h
      <4> HIDE DEF S
      <4>2. \A f \in [S -> Nat] : f[n \div 2] \in Nat
        BY <4>1
      <4>3. \A f \in [S -> Nat] : 2 * f[n \div 2] \in Nat
        BY <4>2
      <4> QED
        BY <4>3
    <3> HIDE DEF S
    <3> QED
      BY <3>1
  <2>2. ASSUME NEW n \in S, NEW f \in [S -> Nat], NEW g \in [S -> Nat],
               \A m \in 0..n - 1 : f[m] = g[m]
        PROVE  H[n][f] = H[n][g]
    BY <1>h, <2>2
  <2>3. \E f \in [S -> Nat] : \A n \in S : f[n] = H[n][f]
    <3>1. ReadsBelow(Capacity, Nat, H)
      <4> HIDE DEF H
      <4> QED
        BY <2>2 DEF ReadsBelow
    <3>2. H \in Rules(Capacity, Nat)
      <4> HIDE DEF H
      <4> QED
        BY <2>1 DEF Rules
    <3> HIDE DEF H
    <3>3. HasTable(Capacity, Nat, H)
      BY <1>0, <3>1, <3>2, TableExists
    <3> QED
      BY <3>3 DEF HasTable
  <2>4. PICK f \in [S -> Nat] : \A n \in S : f[n] = H[n][f]
    BY <2>3
  <2> DEFINE t == [j \in Nodes |-> f[j]]
  <2>5. ASSUME NEW j \in Nodes
        PROVE  t[j] = IF j % 2 = 1 THEN 1 ELSE 2 * t[j \div 2]
    <3>1. t[j] = f[j] /\ j \in S /\ j \in Nat /\ j # 0
      BY <1>0
    <3>2. f[j] = IF j % 2 = 1 THEN 1 ELSE 2 * f[j \div 2]
      BY <2>4, <3>1
    <3>3. j % 2 # 1 => j \div 2 \in Nodes
      BY <1>0, <3>1 DEF Nodes
    <3> QED
      BY <3>1, <3>2, <3>3
  <2>6. t = [j \in Nodes |-> IF j % 2 = 1 THEN 1 ELSE 2 * t[j \div 2]]
    <3>1. t = [j \in Nodes |-> t[j]]
      OBVIOUS
    <3> HIDE DEF t
    <3> QED
      BY <2>5, <3>1
  <2> HIDE DEF t
  <2> QED
    BY <2>6 DEF BitTable
<1> DEFINE B == CHOOSE f : BitTable(f)
<1>2. BitTable(B)
  BY <1>1
<1>3. \A j : LowBit(j) = B[j]
  BY Zenon DEF LowBit, BitTable
<1> HIDE DEF B
<1>4. \A j \in Nodes : B[j] = IF j % 2 = 1 THEN 1 ELSE 2 * B[j \div 2]
  BY <1>2 DEF BitTable
<1> QED
  BY <1>3, <1>4
\* The lowest bit by halving: one for an odd number, else twice that of its half.
LEMMA Halving ==
  ASSUME NEW j \in Nodes
  PROVE  /\ j \in Nat /\ j # 0
         /\ j % 2 = 1 => LowBit(j) = 1 /\ \E m \in Nat : j = 2 * m + 1
         /\ j % 2 # 1 => \E m \in Nodes : j = 2 * m /\ m < j /\ LowBit(j) = 2 * LowBit(m)
<1>1. j \in Nat /\ j # 0 /\ j <= Capacity /\ Capacity \in Nat
  BY WeightIndexAssumption DEF Nodes
<1>2. CASE j % 2 = 1
  <2>1. j = 2 * (j \div 2) + 1 /\ j \div 2 \in Nat
    BY <1>1, <1>2
  <2> QED
    BY <1>1, <1>2, <2>1, LowBitStep
<1>3. CASE j % 2 # 1
  <2>1. j = 2 * (j \div 2) /\ j \div 2 \in Nat /\ j \div 2 < j /\ j \div 2 # 0
    BY <1>1, <1>3
  <2>2. j \div 2 \in Nodes
    BY <1>1, <2>1 DEF Nodes
  <2> QED
    BY <1>1, <1>3, <2>1, <2>2, LowBitStep
<1> QED
  BY <1>2, <1>3

\* Doubling a node doubles its lowest bit.
LEMMA Doubling ==
  /\ \A m \in Nodes : 2 * m <= Capacity => 2 * m \in Nodes /\ LowBit(2 * m) = 2 * LowBit(m)
  /\ \A m \in Nat : 2 * m + 1 <= Capacity => 2 * m + 1 \in Nodes /\ LowBit(2 * m + 1) = 1
<1>0. Capacity \in Nat
  BY WeightIndexAssumption
<1>1. ASSUME NEW m \in Nodes, 2 * m <= Capacity
      PROVE  2 * m \in Nodes /\ LowBit(2 * m) = 2 * LowBit(m)
  <2>1. m \in Nat /\ 2 * m \in Nodes /\ (2 * m) % 2 # 1 /\ (2 * m) \div 2 = m
    BY <1>0, <1>1 DEF Nodes
  <2> QED
    BY <2>1, LowBitStep
<1>2. ASSUME NEW m \in Nat, 2 * m + 1 <= Capacity
      PROVE  2 * m + 1 \in Nodes /\ LowBit(2 * m + 1) = 1
  <2>1. 2 * m + 1 \in Nodes /\ (2 * m + 1) % 2 = 1
    BY <1>0, <1>2 DEF Nodes
  <2> QED
    BY <2>1, LowBitStep
<1> QED
  BY <1>1, <1>2

\* A node covers itself and no more leaves than there are up to it.
LEMMA LowBitRange == \A j \in Nodes : LowBit(j) \in Nat /\ 1 <= LowBit(j) /\ LowBit(j) <= j
<1> DEFINE Good(j) == LowBit(j) \in Nat /\ 1 <= LowBit(j) /\ LowBit(j) <= j
           T == {j \in Nodes : ~Good(j)}
<1>1. SUFFICES ASSUME T # {} PROVE FALSE
  OBVIOUS
<1>2. PICK j \in T : \A m \in T : j <= m
  <2>1. T \subseteq Nat
    BY DEF Nodes
  <2> HIDE DEF T
  <2> QED
    BY <1>1, <2>1, LeastNatural
<1>3. CASE j % 2 = 1
  BY <1>3, Halving
<1>4. CASE j % 2 # 1
  <2>1. PICK m \in Nodes : j = 2 * m /\ m < j /\ LowBit(j) = 2 * LowBit(m)
    BY <1>4, Halving
  <2>2. m \in Nat /\ j \in Nat
    BY DEF Nodes
  <2>3. Good(m)
    BY <1>2, <2>1, <2>2
  <2>4. Good(j)
    BY <2>1, <2>2, <2>3
  <2> QED
    BY <2>4
<1> QED
  BY <1>3, <1>4

\* The ranges of two nodes are nested or apart: a node strictly inside the range of
\* another begins no earlier, and its parent reaches no further.
LEMMA RangesNest ==
  \A j \in Nodes : \A i \in Nodes :
    j - LowBit(j) < i /\ i < j
      => i + LowBit(i) <= j /\ j - LowBit(j) <= i - LowBit(i)
<1> DEFINE Good(j) == \A i \in Nodes : j - LowBit(j) < i /\ i < j
                        => i + LowBit(i) <= j /\ j - LowBit(j) <= i - LowBit(i)
           T == {j \in Nodes : ~Good(j)}
<1>1. SUFFICES ASSUME T # {} PROVE FALSE
  OBVIOUS
<1>2. PICK j \in T : \A m \in T : j <= m
  <2>1. T \subseteq Nat
    BY DEF Nodes
  <2> HIDE DEF T
  <2> QED
    BY <1>1, <2>1, LeastNatural
<1>3. PICK i \in Nodes : /\ j - LowBit(j) < i /\ i < j
                         /\ ~(i + LowBit(i) <= j /\ j - LowBit(j) <= i - LowBit(i))
  OBVIOUS
<1>4. i \in Nat /\ j \in Nat /\ j \in Nodes
  BY DEF Nodes
<1>5. CASE j % 2 = 1
  BY <1>3, <1>4, <1>5, Halving
<1>6. CASE j % 2 # 1
  <2>1. PICK m \in Nodes : j = 2 * m /\ m < j /\ LowBit(j) = 2 * LowBit(m)
    BY <1>4, <1>6, Halving
  <2>2. m \in Nat /\ LowBit(m) \in Nat /\ LowBit(m) <= m
    BY LowBitRange DEF Nodes
  <2>3. Good(m)
    BY <1>2, <1>4, <2>1, <2>2
  <2>4. CASE i % 2 = 1
    <3>1. PICK k \in Nat : i = 2 * k + 1 /\ LowBit(i) = 1
      BY <2>4, Halving
    <3> QED
      BY <1>3, <2>1, <2>2, <3>1
  <2>5. CASE i % 2 # 1
    <3>1. PICK k \in Nodes : i = 2 * k /\ LowBit(i) = 2 * LowBit(k)
      BY <2>5, Halving
    <3>2. k \in Nat /\ LowBit(k) \in Nat
      BY LowBitRange DEF Nodes
    <3>3. m - LowBit(m) < k /\ k < m
      BY <1>3, <2>1, <2>2, <3>1, <3>2
    <3>4. k + LowBit(k) <= m /\ m - LowBit(m) <= k - LowBit(k)
      BY <2>3, <3>3
    <3> QED
      BY <1>3, <2>1, <2>2, <3>1, <3>2, <3>4
  <2> QED
    BY <2>4, <2>5
<1> QED
  BY <1>5, <1>6

\* A parent covers more than its child.
LEMMA ParentsCoverMore ==
  \A j \in Nodes : j + LowBit(j) \in Nodes => LowBit(j) < LowBit(j + LowBit(j))
<1> DEFINE Good(j) == j + LowBit(j) \in Nodes => LowBit(j) < LowBit(j + LowBit(j))
           T == {j \in Nodes : ~Good(j)}
<1>1. SUFFICES ASSUME T # {} PROVE FALSE
  OBVIOUS
<1>2. PICK j \in T : \A m \in T : j <= m
  <2>1. T \subseteq Nat
    BY DEF Nodes
  <2> HIDE DEF T
  <2> QED
    BY <1>1, <2>1, LeastNatural
<1>3. /\ j \in Nodes /\ j \in Nat /\ LowBit(j) \in Nat
      /\ j + LowBit(j) \in Nodes /\ j + LowBit(j) <= Capacity /\ Capacity \in Nat
  BY LowBitRange, WeightIndexAssumption DEF Nodes
<1>4. CASE j % 2 = 1
  <2>1. PICK m \in Nat : j = 2 * m + 1 /\ LowBit(j) = 1
    BY <1>3, <1>4, Halving
  <2>2. m + 1 \in Nodes /\ j + LowBit(j) = 2 * (m + 1)
    BY <1>3, <2>1 DEF Nodes
  <2>3. LowBit(j + LowBit(j)) = 2 * LowBit(m + 1) /\ LowBit(m + 1) \in Nat /\ 1 <= LowBit(m + 1)
    BY <1>3, <2>2, Doubling, LowBitRange
  <2> QED
    BY <2>1, <2>3
<1>5. CASE j % 2 # 1
  <2>1. PICK m \in Nodes : j = 2 * m /\ m < j /\ LowBit(j) = 2 * LowBit(m)
    BY <1>3, <1>5, Halving
  <2>2. m \in Nat /\ LowBit(m) \in Nat
    BY LowBitRange DEF Nodes
  <2>3. m + LowBit(m) \in Nodes /\ j + LowBit(j) = 2 * (m + LowBit(m))
    BY <1>3, <2>1, <2>2 DEF Nodes
  <2>4. LowBit(m) < LowBit(m + LowBit(m))
    BY <1>2, <1>3, <2>1, <2>2, <2>3
  <2>5. LowBit(j + LowBit(j)) = 2 * LowBit(m + LowBit(m)) /\ LowBit(m + LowBit(m)) \in Nat
    BY <1>3, <2>3, Doubling, LowBitRange
  <2> QED
    BY <2>1, <2>2, <2>4, <2>5
<1> QED
  BY <1>4, <1>5
---------------------------------------------------------------------------------
(* Adding on the way up. *)

\* The nodes whose range holds leaf i.
Covers(i) == {k \in Nodes : k - LowBit(k) < i /\ i <= k}

LEMMA CoversStep ==
  ASSUME NEW i \in Nodes
  PROVE  Covers(i) = {i} \cup (IF i + LowBit(i) > Capacity THEN {} ELSE Covers(i + LowBit(i)))
<1> DEFINE p == i + LowBit(i)
<1>1. /\ i \in Nat /\ LowBit(i) \in Nat /\ 1 <= LowBit(i) /\ p \in Nat /\ i < p
      /\ Capacity \in Nat /\ (p <= Capacity => p \in Nodes)
  BY LowBitRange, WeightIndexAssumption DEF Nodes
<1>2. ASSUME NEW k \in Covers(i), k # i PROVE p <= Capacity /\ k \in Covers(p)
  <2>1. /\ k \in Nodes /\ k \in Nat /\ k <= Capacity /\ LowBit(k) \in Nat
        /\ k - LowBit(k) < i /\ i < k
    BY <1>1, <1>2, LowBitRange DEF Covers, Nodes
  <2>2. p <= k
    BY <2>1, RangesNest
  <2> QED
    BY <1>1, <2>1, <2>2 DEF Covers
<1>3. ASSUME NEW k \in Covers(p), p <= Capacity PROVE k \in Covers(i)
  <2>1. /\ k \in Nodes /\ k \in Nat /\ LowBit(k) \in Nat
        /\ k - LowBit(k) < p /\ p <= k
    BY LowBitRange DEF Covers, Nodes
  <2>2. p \in Nodes /\ LowBit(i) < LowBit(p) /\ LowBit(p) \in Nat
    BY <1>1, <1>3, ParentsCoverMore, LowBitRange
  <2>3. k # p => k - LowBit(k) <= p - LowBit(p)
    BY <2>1, <2>2, <1>1, RangesNest
  <2>4. k - LowBit(k) <= p - LowBit(p)
    BY <2>3, <2>1
  <2> HIDE DEF p
  <2>5. k - LowBit(k) < i
    BY <1>1, <2>1, <2>2, <2>4 DEF p
  <2> QED
    BY <1>1, <2>1, <2>5 DEF Covers
<1>4. i \in Covers(i)
  BY <1>1 DEF Covers
<1> QED
  BY <1>1, <1>2, <1>3, <1>4

UpTable(f) ==
  f = [j \in 1 .. 2 * Capacity |->
        IF j > Capacity THEN {} ELSE {j} \cup f[j + LowBit(j)]]

\* The walk from leaf i visits exactly the nodes whose range holds it.
LEMMA PathUpCovers == \A i \in Nodes : PathUp(i) = Covers(i)
<1> DEFINE S == 1 .. 2 * Capacity
           c == [j \in S |-> IF j > Capacity THEN {} ELSE Covers(j)]
<1>0. Capacity \in Nat /\ 2 * Capacity \in Nat
  BY WeightIndexAssumption
<1>1. \A j \in S : j \in Nat /\ (j <= Capacity => j \in Nodes /\ j + LowBit(j) \in S)
  BY <1>0, LowBitRange DEF Nodes
<1>2. \E f : UpTable(f)
  <2>1. ASSUME NEW j \in S
        PROVE  c[j] = IF j > Capacity THEN {} ELSE {j} \cup c[j + LowBit(j)]
    <3>1. CASE j > Capacity
      BY <3>1
    <3>2. CASE ~(j > Capacity)
      <4>1. j \in Nodes /\ j + LowBit(j) \in S
        BY <1>0, <1>1, <3>2
      <4>2. c[j] = Covers(j)
        BY <3>2
      <4>3. c[j + LowBit(j)] = IF j + LowBit(j) > Capacity THEN {} ELSE Covers(j + LowBit(j))
        BY <4>1
      <4> HIDE DEF c, S
      <4> QED
        BY <3>2, <4>1, <4>2, <4>3, CoversStep
    <3> QED
      BY <3>1, <3>2
  <2>2. c = [j \in S |-> c[j]]
    OBVIOUS
  <2> HIDE DEF c
  <2>3. UpTable(c)
    BY <2>1, <2>2 DEF UpTable
  <2> QED
    BY <2>3
<1> DEFINE U == CHOOSE f : UpTable(f)
<1>3. UpTable(U)
  BY <1>2
<1>4. \A i : PathUp(i) = U[i]
  BY Zenon DEF PathUp, UpTable
<1> HIDE DEF U
<1>5. \A j \in S : U[j] = IF j > Capacity THEN {} ELSE {j} \cup U[j + LowBit(j)]
  BY <1>3 DEF UpTable
<1> DEFINE T == {n \in Nat : n <= Capacity /\ Capacity - n \in Nodes
                              /\ U[Capacity - n] # Covers(Capacity - n)}
<1>6. T = {}
  <2> SUFFICES ASSUME T # {} PROVE FALSE
    OBVIOUS
  <2>1. PICK n \in T : \A m \in T : n <= m
    <3>1. T \subseteq Nat
      OBVIOUS
    <3> HIDE DEF T
    <3> QED
      BY <3>1, LeastNatural
  <2> DEFINE i == Capacity - n
             p == i + LowBit(i)
  <2>2. /\ n \in Nat /\ i \in Nodes /\ i \in Nat /\ i \in S /\ U[i] # Covers(i)
        /\ LowBit(i) \in Nat /\ 1 <= LowBit(i) /\ p \in Nat /\ i < p /\ i <= Capacity
    BY <1>0, <2>1, LowBitRange DEF Nodes
  <2>3. p \in S /\ U[i] = {i} \cup U[p]
    <3>1. p \in S /\ ~(i > Capacity)
      BY <1>0, <1>1, <2>2
    <3>2. U[i] = IF i > Capacity THEN {} ELSE {i} \cup U[p]
      BY <1>5, <2>2
    <3> HIDE DEF i, p, S
    <3> QED
      BY <3>1, <3>2
  <2>4. CASE p > Capacity
    <3>1. U[p] = {}
      BY <1>5, <2>3, <2>4
    <3> QED
      BY <2>2, <2>3, <2>4, <3>1, CoversStep
  <2>5. CASE ~(p > Capacity)
    <3>1. Capacity - p \in Nat /\ ~(n <= Capacity - p) /\ Capacity - p <= Capacity
          /\ Capacity - (Capacity - p) = p /\ p \in Nodes
      BY <1>0, <2>2, <2>5 DEF Nodes
    <3>2. Capacity - p \notin T
      BY <2>1, <3>1
    <3>3. U[p] = Covers(p)
      BY <3>1, <3>2
    <3> QED
      BY <2>2, <2>3, <2>5, <3>3, CoversStep
  <2> QED
    BY <2>4, <2>5
<1>7. ASSUME NEW i \in Nodes PROVE U[i] = Covers(i)
  <2>1. Capacity - i \in Nat /\ Capacity - i <= Capacity /\ Capacity - (Capacity - i) = i
    BY <1>0 DEF Nodes
  <2>2. Capacity - i \notin T
    BY <1>6
  <2> QED
    BY <2>1, <2>2
<1> QED
  BY <1>4, <1>7
---------------------------------------------------------------------------------
(* Sums. *)

SumTable(f) ==
  f = [j \in 0..Capacity |-> IF j = 0 THEN 0 ELSE tree[j] + f[j - LowBit(j)]]

LEMMA PrefixStep ==
  tree \in [Nodes -> Int] =>
    /\ Prefix(0) = 0
    /\ \A j \in 0..Capacity : Prefix(j) \in Int
    /\ \A j \in Nodes : Prefix(j) = tree[j] + Prefix(j - LowBit(j))
<1> SUFFICES ASSUME tree \in [Nodes -> Int]
             PROVE  /\ Prefix(0) = 0
                    /\ \A j \in 0..Capacity : Prefix(j) \in Int
                    /\ \A j \in Nodes : Prefix(j) = tree[j] + Prefix(j - LowBit(j))
  OBVIOUS
<1> DEFINE S == 0..Capacity
           H == [n \in S |-> [f \in [S -> Int] |->
                  IF n = 0 THEN 0 ELSE tree[n] + f[n - LowBit(n)]]]
<1>0. /\ Capacity \in Nat /\ Nodes \subseteq S /\ 0 \in S
      /\ \A n \in S : n # 0 => n \in Nodes /\ n - LowBit(n) \in 0..n - 1 /\ n - LowBit(n) \in S
  <2>1. Capacity \in Nat /\ Nodes \subseteq S /\ 0 \in S
    BY WeightIndexAssumption DEF Nodes
  <2>2. ASSUME NEW n \in S, n # 0
        PROVE  n \in Nodes /\ n - LowBit(n) \in 0..n - 1 /\ n - LowBit(n) \in S
    <3>1. n \in Nodes /\ n \in Nat /\ n <= Capacity
      BY <2>1, <2>2 DEF Nodes
    <3> QED
      BY <2>1, <3>1, LowBitRange
  <2> QED
    BY <2>1, <2>2
<1>1. \E f : SumTable(f)
  <2>1. ASSUME NEW n \in S
        PROVE  [f \in [S -> Int] |-> IF n = 0 THEN 0 ELSE tree[n] + f[n - LowBit(n)]]
                 \in [[S -> Int] -> Int]
    <3>1. CASE n = 0
      BY <3>1
    <3>2. CASE n # 0
      <4>1. n \in Nodes /\ n - LowBit(n) \in S /\ tree[n] \in Int
        BY <1>0, <3>2
      <4> HIDE DEF S
      <4>2. \A f \in [S -> Int] : f[n - LowBit(n)] \in Int
        BY <4>1
      <4>3. \A f \in [S -> Int] : tree[n] + f[n - LowBit(n)] \in Int
        BY <4>1, <4>2
      <4> QED
        BY <4>3
    <3> QED
      BY <3>1, <3>2
  <2>2. H \in Rules(Capacity, Int)
    <3> HIDE DEF S
    <3>1. H \in [S -> [[S -> Int] -> Int]]
      BY <2>1
    <3> HIDE DEF H
    <3> QED
      BY <3>1 DEF Rules, S
  <2>3. ReadsBelow(Capacity, Int, H)
    <3>1. ASSUME NEW n \in S, NEW f \in [S -> Int], NEW g \in [S -> Int],
                 \A m \in 0..n - 1 : f[m] = g[m]
          PROVE  H[n][f] = H[n][g]
      <4>1. H[n][f] = IF n = 0 THEN 0 ELSE tree[n] + f[n - LowBit(n)]
        OBVIOUS
      <4>2. H[n][g] = IF n = 0 THEN 0 ELSE tree[n] + g[n - LowBit(n)]
        OBVIOUS
      <4>3. n # 0 => f[n - LowBit(n)] = g[n - LowBit(n)]
        BY <1>0, <3>1
      <4> HIDE DEF H, S
      <4> QED
        BY <4>1, <4>2, <4>3
    <3> HIDE DEF H
    <3> QED
      BY <3>1 DEF ReadsBelow
  <2>4. HasTable(Capacity, Int, H)
    <3>1. 0 \in Int
      OBVIOUS
    <3> HIDE DEF H
    <3> QED
      BY <1>0, <2>2, <2>3, <3>1, TableExists
  <2>5. PICK f \in [S -> Int] : \A n \in S : f[n] = H[n][f]
    <3> HIDE DEF H
    <3> QED
      BY <2>4 DEF HasTable
  <2>6. ASSUME NEW n \in S
        PROVE  f[n] = IF n = 0 THEN 0 ELSE tree[n] + f[n - LowBit(n)]
    BY <2>5
  <2>7. f = [n \in S |-> f[n]]
    OBVIOUS
  <2>8. SumTable(f)
    <3> HIDE DEF H
    <3> QED
      BY <2>6, <2>7 DEF SumTable
  <2> QED
    BY <2>8
<1> DEFINE B == CHOOSE f : SumTable(f)
<1>2. SumTable(B)
  BY <1>1
<1>3. \A j : Prefix(j) = B[j]
  BY Zenon DEF Prefix, SumTable
<1> HIDE DEF B, H
<1>4. \A j \in S : B[j] = IF j = 0 THEN 0 ELSE tree[j] + B[j - LowBit(j)]
  BY <1>2 DEF SumTable
<1>5. Prefix(0) = 0
  BY <1>0, <1>3, <1>4
<1>6. \A j \in Nodes : Prefix(j) = tree[j] + Prefix(j - LowBit(j))
  <2>1. ASSUME NEW j \in Nodes PROVE Prefix(j) = tree[j] + Prefix(j - LowBit(j))
    <3>1. j \in S /\ j # 0
      BY <1>0, WeightIndexAssumption DEF Nodes
    <3> QED
      BY <1>3, <1>4, <3>1
  <2> QED
    BY <2>1
<1> DEFINE T == {j \in S : Prefix(j) \notin Int}
<1>7. T = {}
  <2> SUFFICES ASSUME T # {} PROVE FALSE
    OBVIOUS
  <2>1. PICK n \in T : \A m \in T : n <= m
    <3>1. T \subseteq Nat
      BY <1>0
    <3> HIDE DEF T
    <3> QED
      BY <3>1, LeastNatural
  <2>2. n \in S /\ n # 0 /\ n \in Nat
    BY <1>0, <1>5
  <2>3. n \in Nodes /\ n - LowBit(n) \in S /\ n - LowBit(n) \in 0..n - 1
    BY <1>0, <2>2
  <2>4. n - LowBit(n) \notin T
    BY <2>1, <2>2, <2>3
  <2>5. Prefix(n - LowBit(n)) \in Int /\ tree[n] \in Int
    BY <2>3, <2>4
  <2> QED
    BY <1>6, <2>3, <2>5
<1> QED
  BY <1>5, <1>6, <1>7

\* An addition at leaf i raises exactly the sums that reach it.
LEMMA ShiftMoves ==
  ASSUME tree \in [Nodes -> Int], NEW i \in Nodes, NEW delta \in Int, tree' = Shifted(i, delta)
  PROVE  /\ tree' \in [Nodes -> Int]
         /\ \A k \in 0..Capacity :
              Prefix(k)' = Prefix(k) + (IF i <= k THEN delta ELSE 0)
<1>1. \A j \in Nodes : tree'[j] = IF j - LowBit(j) < i /\ i <= j THEN tree[j] + delta ELSE tree[j]
  BY PathUpCovers DEF Shifted, Covers
<1>2. tree' \in [Nodes -> Int]
  BY DEF Shifted
<1>3. /\ Prefix(0) = 0 /\ \A j \in 0..Capacity : Prefix(j) \in Int
      /\ \A j \in Nodes : Prefix(j) = tree[j] + Prefix(j - LowBit(j))
  BY PrefixStep
<1>4. /\ Prefix(0)' = 0 /\ \A j \in 0..Capacity : Prefix(j)' \in Int
      /\ \A j \in Nodes : Prefix(j)' = tree'[j] + Prefix(j - LowBit(j))'
  <2>1. (tree \in [Nodes -> Int] =>
          /\ Prefix(0) = 0
          /\ \A j \in 0..Capacity : Prefix(j) \in Int
          /\ \A j \in Nodes : Prefix(j) = tree[j] + Prefix(j - LowBit(j)))'
    BY PrefixStep, PTL
  <2> QED
    BY <1>2, <2>1
<1> DEFINE T == {k \in 0..Capacity : Prefix(k)' # Prefix(k) + (IF i <= k THEN delta ELSE 0)}
<1>5. SUFFICES ASSUME T # {} PROVE FALSE
  BY <1>2
<1>6. PICK k \in T : \A m \in T : k <= m
  <2>1. T \subseteq Nat
    BY WeightIndexAssumption
  <2> HIDE DEF T
  <2> QED
    BY <1>5, <2>1, LeastNatural
<1>7. i \in Nat /\ i # 0 /\ Capacity \in Nat /\ k \in 0..Capacity /\ k \in Nat
  BY WeightIndexAssumption DEF Nodes
<1>8. k # 0
  BY <1>3, <1>4, <1>7
<1> DEFINE low == k - LowBit(k)
<1>9. /\ k \in Nodes /\ LowBit(k) \in Nat /\ low \in 0..Capacity /\ low \in Nat /\ low < k
  <2>1. k \in Nodes
    BY <1>7, <1>8 DEF Nodes
  <2> QED
    BY <1>7, <2>1, LowBitRange
<1>10. low \notin T
  BY <1>6, <1>7, <1>9
<1>11. Prefix(low)' = Prefix(low) + (IF i <= low THEN delta ELSE 0)
  BY <1>9, <1>10
<1>12. /\ Prefix(k) = tree[k] + Prefix(low) /\ Prefix(k)' = tree'[k] + Prefix(low)'
       /\ tree[k] \in Int /\ Prefix(low) \in Int
       /\ tree'[k] = IF low < i /\ i <= k THEN tree[k] + delta ELSE tree[k]
  BY <1>1, <1>3, <1>4, <1>9
<1>13. Prefix(k)' # Prefix(k) + (IF i <= k THEN delta ELSE 0)
  BY <1>6
<1> HIDE DEF low, T
<1>14. CASE i <= low
  <2>1. i <= k /\ ~(low < i)
    BY <1>7, <1>9, <1>14
  <2> QED
    BY <1>11, <1>12, <1>13, <1>14, <2>1
<1>15. CASE low < i /\ i <= k
  <2>1. ~(i <= low)
    BY <1>7, <1>9, <1>15
  <2> QED
    BY <1>11, <1>12, <1>13, <1>15, <2>1
<1>16. CASE ~(i <= k)
  <2>1. ~(i <= low)
    BY <1>7, <1>9, <1>16
  <2> QED
    BY <1>11, <1>12, <1>13, <1>16, <2>1
<1> QED
  BY <1>7, <1>9, <1>14, <1>15, <1>16
---------------------------------------------------------------------------------
(* The invariant of the tree. *)

\* Every slot holds no less than nothing, the tree holds the total, and the slots
\* fall apart into occupied, recycled and never used.
LeavesCount == \A i \in Nodes : Prefix(i - 1) <= Prefix(i)
FreeInv ==
  /\ high_water \in 0..Capacity /\ free_stack \in Seq(Slots)
  /\ \A i \in 1..Len(free_stack) : free_stack[i] < high_water
IndexInv ==
  /\ tree \in [Nodes -> Int]
  /\ total_weight \in Words /\ Prefix(Capacity) = total_weight
  /\ LeavesCount /\ FreeInv /\ SlotsPartition

\* With no leaf below zero the sums only grow.
LEMMA SumsGrow ==
  ASSUME tree \in [Nodes -> Int], LeavesCount
  PROVE  \A j \in 0..Capacity : \A i \in 0..j : Prefix(i) <= Prefix(j)
<1> DEFINE T == {j \in 0..Capacity : \E i \in 0..j : ~(Prefix(i) <= Prefix(j))}
<1>1. SUFFICES ASSUME T # {} PROVE FALSE
  OBVIOUS
<1>0. Capacity \in Nat
  BY WeightIndexAssumption
<1>2. PICK j \in T : \A m \in T : j <= m
  <2>1. T \subseteq Nat
    BY <1>0
  <2> HIDE DEF T
  <2> QED
    BY <1>1, <2>1, LeastNatural
<1>3. PICK i \in 0..j : ~(Prefix(i) <= Prefix(j))
  BY <1>2
<1>4. /\ j \in 0..Capacity /\ j \in Nat /\ i \in Nat /\ i <= j /\ j <= Capacity
      /\ Prefix(j) \in Int /\ Prefix(i) \in Int
  BY <1>0, PrefixStep
<1>5. CASE i = j
  BY <1>3, <1>4, <1>5
<1>6. CASE i < j
  <2>1. j \in Nodes /\ j - 1 \in 0..Capacity /\ i \in 0..j - 1 /\ ~(j <= j - 1)
    BY <1>0, <1>4, <1>6 DEF Nodes
  <2>2. j - 1 \notin T
    BY <1>2, <2>1
  <2>3. Prefix(i) <= Prefix(j - 1) /\ Prefix(j - 1) \in Int
    BY <2>1, <2>2, PrefixStep
  <2>4. Prefix(j - 1) <= Prefix(j)
    BY <2>1 DEF LeavesCount
  <2> QED
    BY <1>3, <1>4, <2>3, <2>4
<1> QED
  BY <1>4, <1>5, <1>6

\* Hence no node exceeds the total, and none falls below zero.
LEMMA SumsFit ==
  ASSUME IndexInv
  PROVE  /\ \A i \in 0..Capacity : Prefix(i) \in 0..total_weight
         /\ \A i \in Nodes : tree[i] \in Words
<1>0. Capacity \in Nat /\ total_weight \in Nat /\ total_weight <= MaxWord /\ MaxWord \in Nat
  BY WeightIndexAssumption DEF IndexInv, Words
<1>1. /\ \A j \in 0..Capacity : \A i \in 0..j : Prefix(i) <= Prefix(j)
      /\ \A j \in 0..Capacity : Prefix(j) \in Int
      /\ Prefix(0) = 0 /\ Prefix(Capacity) = total_weight
      /\ \A j \in Nodes : Prefix(j) = tree[j] + Prefix(j - LowBit(j))
      /\ \A j \in Nodes : tree[j] \in Int
  BY SumsGrow, PrefixStep DEF IndexInv
<1>2. ASSUME NEW i \in 0..Capacity PROVE Prefix(i) \in 0..total_weight
  <2>1. i \in 0..Capacity /\ 0 \in 0..i /\ Capacity \in 0..Capacity /\ i \in 0..Capacity
    BY <1>0
  <2>2. 0 <= Prefix(i) /\ Prefix(i) <= total_weight
    BY <1>1, <2>1
  <2>3. Prefix(i) \in Int
    BY <1>1
  <2> QED
    BY <1>0, <2>2, <2>3
<1>3. ASSUME NEW j \in Nodes PROVE tree[j] \in Words
  <2>1. j \in 0..Capacity /\ j - LowBit(j) \in 0..j /\ j - LowBit(j) \in 0..Capacity
    BY <1>0, LowBitRange DEF Nodes
  <2>2. Prefix(j - LowBit(j)) <= Prefix(j)
    BY <1>1, <2>1
  <2>3. Prefix(j) \in 0..total_weight /\ Prefix(j - LowBit(j)) \in 0..total_weight
    BY <1>2, <2>1
  <2>4. Prefix(j) = tree[j] + Prefix(j - LowBit(j)) /\ tree[j] \in Int
    BY <1>1
  <2> QED
    BY <1>0, <2>2, <2>3, <2>4 DEF Words
<1> QED
  BY <1>2, <1>3

LEMMA InitIndex == Init => IndexInv
<1> SUFFICES ASSUME Init PROVE IndexInv
  OBVIOUS
<1>0. Capacity \in Nat /\ MaxWord \in Nat
  BY WeightIndexAssumption
<1>1. tree \in [Nodes -> Int] /\ \A i \in Nodes : tree[i] = 0
  BY DEF Init
<1> DEFINE T == {k \in 0..Capacity : Prefix(k) # 0}
<1>2. T = {}
  <2> SUFFICES ASSUME T # {} PROVE FALSE
    OBVIOUS
  <2>1. PICK k \in T : \A m \in T : k <= m
    <3>1. T \subseteq Nat
      BY <1>0
    <3> HIDE DEF T
    <3> QED
      BY <3>1, LeastNatural
  <2>2. k \in Nat /\ k \in 0..Capacity /\ k # 0
    BY <1>1, PrefixStep
  <2>3. k \in Nodes /\ k - LowBit(k) \in 0..Capacity /\ ~(k <= k - LowBit(k))
    <3>1. k \in Nodes
      BY <1>0, <2>2 DEF Nodes
    <3> QED
      BY <1>0, <2>2, <3>1, LowBitRange
  <2>4. Prefix(k - LowBit(k)) = 0
    BY <2>1, <2>3
  <2>5. Prefix(k) = 0
    BY <1>1, <2>3, <2>4, PrefixStep
  <2> QED
    BY <2>5
<1>3. \A k \in 0..Capacity : Prefix(k) = 0
  BY <1>2
<1>4. LeavesCount
  BY <1>0, <1>3 DEF LeavesCount, Nodes
<1>5. FreeInv /\ Len(free_stack) = 0 /\ high_water = 0 /\ total_weight = 0
  BY <1>0 DEF Init, FreeInv
<1>6. SlotsPartition
  <2>1. \A s \in Slots : Leaf(s + 1) = 0
    BY <1>0, <1>3 DEF Slots, Leaf
  <2> QED
    BY <1>0, <1>5, <2>1 DEF SlotsPartition, LeafOf, Slots
<1>7. total_weight \in Words /\ Prefix(Capacity) = total_weight
  BY <1>0, <1>3, <1>5 DEF Words
<1> QED
  BY <1>1, <1>4, <1>5, <1>6, <1>7 DEF IndexInv

LEMMA LeafFacts ==
  ASSUME IndexInv
  PROVE  \A s \in Slots : /\ s \in Nat /\ s + 1 \in Nodes /\ LeafOf[s] = Leaf(s + 1)
                          /\ LeafOf[s] \in Nat /\ LeafOf[s] <= total_weight
                          /\ Prefix(s + 1) = Prefix(s) + LeafOf[s]
<1>1. SUFFICES ASSUME NEW s \in Slots
               PROVE  /\ s \in Nat /\ s + 1 \in Nodes /\ LeafOf[s] = Leaf(s + 1)
                      /\ LeafOf[s] \in Nat /\ LeafOf[s] <= total_weight
                      /\ Prefix(s + 1) = Prefix(s) + LeafOf[s]
  OBVIOUS
<1>2. /\ s \in Nat /\ s + 1 \in Nodes /\ s \in 0..Capacity /\ s + 1 \in 0..Capacity
      /\ (s + 1) - 1 = s
  BY WeightIndexAssumption DEF Slots, Nodes
<1>3. LeafOf[s] = Prefix(s + 1) - Prefix(s)
  BY <1>2 DEF LeafOf, Leaf
<1>4. Prefix(s) \in 0..total_weight /\ Prefix(s + 1) \in 0..total_weight /\ total_weight \in Nat
  BY <1>2, SumsFit DEF IndexInv, Words
<1>5. Prefix(s) <= Prefix(s + 1)
  BY <1>2 DEF IndexInv, LeavesCount
<1> HIDE DEF LeafOf
<1>6. LeafOf[s] = Leaf(s + 1)
  BY DEF LeafOf
<1> QED
  BY <1>2, <1>3, <1>4, <1>5, <1>6

\* What an operation does to the leaves and to the sums.
LEMMA LeavesMove ==
  ASSUME IndexInv, NEW s \in Slots, NEW delta \in Int, tree' = Shifted(s + 1, delta),
         LeafOf[s] + delta \in Nat
  PROVE  /\ tree' \in [Nodes -> Int] /\ LeavesCount'
         /\ Prefix(Capacity)' = total_weight + delta
         /\ \A d \in Slots : LeafOf'[d] = IF d = s THEN LeafOf[s] + delta ELSE LeafOf[d]
<1>1. /\ Capacity \in Nat /\ s \in Nat /\ s + 1 \in Nodes /\ s + 1 <= Capacity
      /\ tree \in [Nodes -> Int] /\ Prefix(Capacity) = total_weight
  BY WeightIndexAssumption DEF IndexInv, Slots, Nodes
<1>2. /\ tree' \in [Nodes -> Int]
      /\ \A k \in 0..Capacity : Prefix(k)' = Prefix(k) + (IF s + 1 <= k THEN delta ELSE 0)
  BY <1>1, ShiftMoves
<1>3. Prefix(Capacity)' = total_weight + delta
  BY <1>1, <1>2
<1>4. ASSUME NEW d \in Slots
      PROVE  LeafOf'[d] = IF d = s THEN LeafOf[s] + delta ELSE LeafOf[d]
  <2>1. /\ d \in Nat /\ d \in 0..Capacity /\ d + 1 \in 0..Capacity /\ (d + 1) - 1 = d
    BY <1>1 DEF Slots
  <2>2. LeafOf'[d] = Prefix(d + 1)' - Prefix(d)'
    BY <2>1 DEF LeafOf, Leaf
  <2>3. LeafOf[d] = Prefix(d + 1) - Prefix(d)
    BY <2>1 DEF LeafOf, Leaf
  <2>4. Prefix(d) \in Int /\ Prefix(d + 1) \in Int
    BY <1>1, <2>1, PrefixStep
  <2>5. /\ Prefix(d)' = Prefix(d) + (IF s + 1 <= d THEN delta ELSE 0)
        /\ Prefix(d + 1)' = Prefix(d + 1) + (IF s + 1 <= d + 1 THEN delta ELSE 0)
    BY <1>2, <2>1
  <2> QED
    BY <1>1, <2>1, <2>2, <2>3, <2>4, <2>5
<1>5. LeavesCount'
  <2>1. ASSUME NEW i \in Nodes PROVE Prefix(i - 1)' <= Prefix(i)'
    <3> DEFINE d == i - 1
    <3>1. d \in Slots /\ d \in Nat /\ d + 1 = i /\ d \in 0..Capacity /\ d + 1 \in 0..Capacity
          /\ (d + 1) - 1 = d
      BY <1>1 DEF Slots, Nodes
    <3>2. LeafOf'[d] = Prefix(d + 1)' - Prefix(d)'
      BY <3>1 DEF LeafOf, Leaf
    <3>3. LeafOf'[d] \in Nat
      BY <1>4, <3>1, LeafFacts
    <3>4. Prefix(d)' \in Int /\ Prefix(d + 1)' \in Int
      BY <1>1, <1>2, <3>1, PrefixStep
    <3> HIDE DEF d
    <3> QED
      BY <3>1, <3>2, <3>3, <3>4
  <2> QED
    BY <2>1 DEF LeavesCount
<1> QED
  BY <1>2, <1>3, <1>4, <1>5

\* Where the next insertion goes: a slot of its own, empty.
LEMMA AllocatedSlot ==
  ASSUME IndexInv, CanAllocate
  PROVE  Allocated \in Slots /\ LeafOf[Allocated] = 0
<1>1. CASE Recycling
  <2>1. Len(free_stack) \in 1..Len(free_stack) /\ free_stack[Len(free_stack)] \in Slots
    BY <1>1 DEF Recycling, IndexInv, FreeInv
  <2>2. Allocated \in Slots
    BY <1>1, <2>1 DEF Allocated
  <2> QED
    BY <2>2 DEF CanAllocate, LeafOf
<1>2. CASE ~Recycling
  <2>1. Allocated \in Slots
    BY <1>2, WeightIndexAssumption DEF Allocated, CanAllocate, IndexInv, FreeInv, Slots
  <2> QED
    BY <2>1 DEF CanAllocate, LeafOf
<1> QED
  BY <1>1, <1>2

LEMMA InsertKeeps ==
  ASSUME IndexInv, NEW w \in Weights, NEW expected \in Words, IndexInsert(w, expected)
  PROVE  IndexInv'
<1> DEFINE s == Allocated
           n == Len(free_stack)
<1>1. /\ CanAllocate /\ Allocate /\ tree' = Shifted(s + 1, w)
      /\ total_weight' = total_weight + w /\ total_weight' \in Words
  BY DEF IndexInsert, TotalBecomes, TotalFits
<1>2. s \in Slots /\ LeafOf[s] = 0 /\ w \in Nat /\ w # 0 /\ w \in Int
  BY <1>1, AllocatedSlot, WeightIndexAssumption
<1>3. /\ tree' \in [Nodes -> Int] /\ LeavesCount' /\ Prefix(Capacity)' = total_weight + w
      /\ \A d \in Slots : LeafOf'[d] = IF d = s THEN w ELSE LeafOf[d]
  <2>1. LeafOf[s] + w \in Nat /\ LeafOf[s] + w = w
    BY <1>2
  <2> HIDE DEF s
  <2> QED
    BY <1>1, <1>2, <2>1, LeavesMove
<1>4. /\ Capacity \in Nat /\ Slots = 0..Capacity - 1
      /\ high_water \in 0..Capacity /\ free_stack \in Seq(Slots) /\ n \in Nat
      /\ \A i \in 1..n : free_stack[i] < high_water /\ free_stack[i] \in Slots
      /\ \A i, j \in 1..n : free_stack[i] = free_stack[j] => i = j
      /\ \A d \in Slots : LeafOf[d] = 0 <=> d >= high_water \/ \E i \in 1..n : free_stack[i] = d
  BY WeightIndexAssumption DEF IndexInv, FreeInv, SlotsPartition, Slots
<1>5. CASE Recycling
  <2>1. /\ n # 0 /\ s = free_stack[n] /\ high_water' = high_water
        /\ free_stack' = SubSeq(free_stack, 1, n - 1)
    BY <1>1, <1>4, <1>5 DEF Recycling, Allocated, Allocate
  <2>2. /\ free_stack' \in Seq(Slots) /\ Len(free_stack') = n - 1
        /\ \A i \in 1..n - 1 : free_stack'[i] = free_stack[i] /\ i \in 1..n
    <3>1. /\ SubSeq(free_stack, 1, n - 1) \in Seq(Slots)
          /\ Len(SubSeq(free_stack, 1, n - 1)) = n - 1
          /\ \A i \in 1..n - 1 : SubSeq(free_stack, 1, n - 1)[i] = free_stack[i]
      <4>1. /\ n - 1 \in Nat /\ \A i \in 1..n - 1 : i \in 1..n /\ 1 + i - 1 = i
            /\ \A i \in 1..n - 1 : free_stack[i] \in Slots
        BY <1>4, <2>1
      <4>2. SubSeq(free_stack, 1, n - 1) = [i \in 1..n - 1 |-> free_stack[i]]
        BY <1>4, <2>1, <4>1
      <4> HIDE DEF n
      <4> QED
        BY <4>1, <4>2
    <3> QED
      BY <1>4, <2>1, <3>1
  <2>3. FreeInv'
    BY <1>4, <2>1, <2>2 DEF FreeInv
  <2> HIDE DEF s, n
  <2>4. ASSUME NEW d \in Slots
        PROVE  LeafOf'[d] = 0 <=>
                 d >= high_water' \/ \E i \in 1..Len(free_stack') : free_stack'[i] = d
    <3>1. CASE d = s
      <4>1. LeafOf'[d] # 0
        BY <1>2, <1>3, <3>1
      <4>2. n \in 1..n /\ s < high_water
        BY <1>4, <2>1
      <4>3. \A i \in 1..n - 1 : free_stack[i] # s
        BY <1>4, <2>1, <2>2, <4>2
      <4> QED
        BY <1>4, <2>1, <2>2, <3>1, <4>1, <4>2, <4>3
    <3>2. CASE d # s
      <4>1. LeafOf'[d] = LeafOf[d]
        BY <1>3, <3>2
      <4>2. (\E i \in 1..n : free_stack[i] = d) <=> \E i \in 1..n - 1 : free_stack[i] = d
        <5>1. \A i \in 1..n : i = n \/ i \in 1..n - 1
          BY <1>4
        <5> QED
          BY <2>1, <2>2, <3>2, <5>1
      <4>3. (\E i \in 1..n - 1 : free_stack[i] = d) <=> \E i \in 1..n - 1 : free_stack'[i] = d
        BY <2>2
      <4> QED
        BY <1>4, <2>1, <2>2, <4>1, <4>2, <4>3
    <3> QED
      BY <3>1, <3>2
  <2>5. \A i, j \in 1..Len(free_stack') : free_stack'[i] = free_stack'[j] => i = j
    BY <1>4, <2>2
  <2>6. SlotsPartition'
    BY <2>4, <2>5 DEF SlotsPartition
  <2> QED
    BY <1>1, <1>3, <2>3, <2>6 DEF IndexInv
<1>6. CASE ~Recycling
  <2>1. /\ s = high_water /\ n = 0 /\ high_water' = high_water + 1 /\ high_water < Capacity
        /\ free_stack' = free_stack
    BY <1>1, <1>4, <1>6 DEF Recycling, Allocated, Allocate, CanAllocate
  <2>2. FreeInv'
    BY <1>4, <2>1 DEF FreeInv
  <2> HIDE DEF s, n
  <2>3. ASSUME NEW d \in Slots
        PROVE  LeafOf'[d] = 0 <=>
                 d >= high_water' \/ \E i \in 1..Len(free_stack') : free_stack'[i] = d
    <3>1. Len(free_stack') = 0
      BY <2>1 DEF n
    <3>2. d \in Nat /\ high_water \in Nat
      BY <1>4
    <3>3. LeafOf[d] = 0 <=> d >= high_water
      BY <1>4, <2>1
    <3>4. LeafOf'[d] = IF d = s THEN w ELSE LeafOf[d]
      BY <1>3
    <3> QED
      BY <1>2, <2>1, <3>1, <3>2, <3>3, <3>4
  <2>4. SlotsPartition'
    BY <1>4, <2>1, <2>3 DEF SlotsPartition, n
  <2> QED
    BY <1>1, <1>3, <2>2, <2>4 DEF IndexInv
<1> QED
  BY <1>5, <1>6

LEMMA RemoveKeeps ==
  ASSUME IndexInv, NEW s \in 0..Capacity, NEW w \in Weights, NEW expected \in Words,
         IndexRemove(s, w, expected)
  PROVE  IndexInv'
<1> DEFINE n == Len(free_stack)
<1>1. /\ s + 1 <= Capacity /\ Leaf(s + 1) = w /\ tree' = Shifted(s + 1, -w)
      /\ free_stack' = Append(free_stack, s) /\ high_water' = high_water
      /\ total_weight' = total_weight - w /\ total_weight' \in Words
  BY DEF IndexRemove, TotalBecomes, TotalFits
<1>2. s \in Slots /\ LeafOf[s] = w /\ w \in Nat /\ w # 0 /\ -w \in Int
  <2>1. s \in Slots /\ w \in Nat /\ w # 0 /\ -w \in Int
    BY <1>1, WeightIndexAssumption DEF Slots
  <2> QED
    BY <1>1, <2>1 DEF LeafOf
<1>3. /\ tree' \in [Nodes -> Int] /\ LeavesCount' /\ Prefix(Capacity)' = total_weight - w
      /\ \A d \in Slots : LeafOf'[d] = IF d = s THEN 0 ELSE LeafOf[d]
  <2>1. LeafOf[s] + (-w) \in Nat /\ LeafOf[s] + (-w) = 0
    BY <1>2
  <2>2. Prefix(Capacity)' = total_weight + (-w)
    BY <1>1, <1>2, <2>1, LeavesMove
  <2>3. total_weight + (-w) = total_weight - w
    BY <1>2 DEF IndexInv, Words
  <2> QED
    BY <1>1, <1>2, <2>1, <2>2, <2>3, LeavesMove
<1>4. /\ Capacity \in Nat /\ Slots = 0..Capacity - 1
      /\ high_water \in 0..Capacity /\ free_stack \in Seq(Slots) /\ n \in Nat
      /\ \A i \in 1..n : free_stack[i] < high_water /\ free_stack[i] \in Slots
      /\ \A i, j \in 1..n : free_stack[i] = free_stack[j] => i = j
      /\ \A d \in Slots : LeafOf[d] = 0 <=> d >= high_water \/ \E i \in 1..n : free_stack[i] = d
  BY WeightIndexAssumption DEF IndexInv, FreeInv, SlotsPartition, Slots
<1>5. s < high_water /\ \A i \in 1..n : free_stack[i] # s
  <2> HIDE DEF n
  <2>1. s \in Nat /\ high_water \in Nat
    BY <1>4
  <2> QED
    BY <1>2, <1>4, <2>1
<1>6. /\ free_stack' \in Seq(Slots) /\ Len(free_stack') = n + 1
      /\ free_stack'[n + 1] = s
      /\ \A i \in 1..n : free_stack'[i] = free_stack[i]
  BY <1>1, <1>2, <1>4, AppendProperties
<1> HIDE DEF n
<1>7. \A i \in 1..n + 1 : i = n + 1 \/ i \in 1..n
  BY <1>4
<1>8. n + 1 \in 1..n + 1 /\ \A i \in 1..n : i \in 1..n + 1
  BY <1>4
<1>9. FreeInv'
  <2>1. ASSUME NEW i \in 1..n + 1 PROVE free_stack'[i] < high_water'
    BY <1>1, <1>4, <1>5, <1>6, <1>7
  <2> QED
    BY <1>1, <1>4, <1>6, <2>1 DEF FreeInv
<1>10. ASSUME NEW d \in Slots
       PROVE  LeafOf'[d] = 0 <=>
                d >= high_water' \/ \E i \in 1..Len(free_stack') : free_stack'[i] = d
  <2>1. CASE d = s
    BY <1>3, <1>6, <1>8, <2>1
  <2>2. CASE d # s
    <3>1. LeafOf'[d] = LeafOf[d]
      BY <1>3, <2>2
    <3>2. (\E i \in 1..n + 1 : free_stack'[i] = d) <=> \E i \in 1..n : free_stack[i] = d
      BY <1>6, <1>7, <1>8, <2>2
    <3> QED
      BY <1>1, <1>4, <1>6, <3>1, <3>2
  <2> QED
    BY <2>1, <2>2
<1>11. \A i, j \in 1..Len(free_stack') : free_stack'[i] = free_stack'[j] => i = j
  <2>1. ASSUME NEW i \in 1..n + 1, NEW j \in 1..n + 1, free_stack'[i] = free_stack'[j]
        PROVE  i = j
    BY <1>4, <1>5, <1>6, <1>7, <2>1
  <2> QED
    BY <1>6, <2>1
<1>12. SlotsPartition'
  BY <1>10, <1>11 DEF SlotsPartition
<1> QED
  BY <1>1, <1>3, <1>9, <1>12 DEF IndexInv

LEMMA UpdateKeeps ==
  ASSUME IndexInv, NEW s \in 0..Capacity, NEW old \in Weights, NEW new \in Weights,
         NEW expected \in Words, IndexUpdate(s, old, new, expected)
  PROVE  IndexInv'
<1>1. /\ s + 1 <= Capacity /\ Leaf(s + 1) = old /\ tree' = Shifted(s + 1, new - old)
      /\ free_stack' = free_stack /\ high_water' = high_water
      /\ total_weight' = total_weight + new - old /\ total_weight' \in Words
  BY DEF IndexUpdate, TotalBecomes, TotalFits
<1>2. /\ s \in Slots /\ LeafOf[s] = old /\ old \in Nat /\ old # 0 /\ new \in Nat /\ new # 0
      /\ new - old \in Int
  <2>1. /\ s \in Slots /\ old \in Nat /\ old # 0 /\ new \in Nat /\ new # 0
        /\ new - old \in Int
    BY <1>1, WeightIndexAssumption DEF Slots
  <2> QED
    BY <1>1, <2>1 DEF LeafOf
<1>3. /\ tree' \in [Nodes -> Int] /\ LeavesCount'
      /\ Prefix(Capacity)' = total_weight + new - old
      /\ \A d \in Slots : LeafOf'[d] = IF d = s THEN new ELSE LeafOf[d]
  <2>1. LeafOf[s] + (new - old) \in Nat /\ LeafOf[s] + (new - old) = new
    BY <1>2
  <2>2. Prefix(Capacity)' = total_weight + (new - old)
    BY <1>1, <1>2, <2>1, LeavesMove
  <2>3. total_weight + (new - old) = total_weight + new - old
    BY <1>2 DEF IndexInv, Words
  <2> QED
    BY <1>1, <1>2, <2>1, <2>2, <2>3, LeavesMove
<1>4. \A d \in Slots : LeafOf'[d] = 0 <=> LeafOf[d] = 0
  BY <1>2, <1>3
<1>5. SlotsPartition'
  BY <1>1, <1>4 DEF IndexInv, SlotsPartition
<1>6. FreeInv'
  BY <1>1 DEF IndexInv, FreeInv
<1> QED
  BY <1>1, <1>3, <1>5, <1>6 DEF IndexInv

LEMMA IndexStep == IndexInv /\ [Next]_vars => IndexInv'
<1> SUFFICES ASSUME IndexInv, [Next]_vars PROVE IndexInv'
  OBVIOUS
<1>1. CASE UNCHANGED vars
  BY <1>1 DEF vars, IndexInv, LeavesCount, FreeInv, SlotsPartition, LeafOf, Leaf, Prefix
<1>2. CASE Next
  <2>1. PICK w \in Weights, old \in Weights, slot \in 0..Capacity, expected \in Words :
          \/ IndexInsert(w, expected)
          \/ IndexRemove(slot, w, expected)
          \/ IndexUpdate(slot, old, w, expected)
    BY <1>2 DEF Next
  <2> QED
    BY <2>1, InsertKeeps, RemoveKeeps, UpdateKeeps
<1> QED
  BY <1>1, <1>2

\* No checked addition of the tree can fail once the total has been checked, in any
\* order of insertions, removals and updates.
THEOREM NodesAlwaysFit == Spec => []NodesFit
<1>1. IndexInv => NodesFit
  BY SumsFit DEF NodesFit, IndexInv
<1> QED
  BY <1>1, InitIndex, IndexStep, PTL DEF Spec

\* A slot is never handed out twice, and never lost.
THEOREM SlotsAlwaysPartition == Spec => []SlotsPartition
<1>1. IndexInv => SlotsPartition
  BY DEF IndexInv
<1> QED
  BY <1>1, InitIndex, IndexStep, PTL DEF Spec
---------------------------------------------------------------------------------
(* The search. *)

Power(s) == s \in Nodes /\ LowBit(s) = s

\* Halving a step of the descent gives a step, or ends it.
LEMMA HalfStep ==
  ASSUME NEW s, Power(s)
  PROVE  \/ s = 1 /\ s \div 2 = 0
         \/ s = 2 * (s \div 2) /\ s \div 2 < s /\ Power(s \div 2)
<1>1. s \in Nodes /\ s \in Nat /\ s # 0 /\ LowBit(s) = s
  BY Halving DEF Power
<1>2. CASE s % 2 = 1
  <2>1. s = 1
    BY <1>1, <1>2, Halving
  <2> QED
    BY <2>1
<1>3. CASE s % 2 # 1
  <2>1. PICK m \in Nodes : s = 2 * m /\ m < s /\ LowBit(s) = 2 * LowBit(m)
    BY <1>1, <1>3, Halving
  <2>2. m \in Nat /\ LowBit(m) \in Nat
    BY LowBitRange DEF Nodes
  <2>3. s \div 2 = m /\ LowBit(m) = m
    BY <1>1, <2>1, <2>2
  <2> QED
    BY <2>1, <2>3 DEF Power
<1> QED
  BY <1>2, <1>3

\* A step past a multiple of twice its size lands on a node it is the lowest bit of.
LEMMA StepsAreLowBits ==
  \A s \in Nodes : \A q \in Nat :
    Power(s) /\ 2 * (s * q) + s \in Nodes => LowBit(2 * (s * q) + s) = s
<1> DEFINE Good(s) == \A q \in Nat :
             Power(s) /\ 2 * (s * q) + s \in Nodes => LowBit(2 * (s * q) + s) = s
           T == {s \in Nodes : ~Good(s)}
<1>1. SUFFICES ASSUME T # {} PROVE FALSE
  OBVIOUS
<1>2. PICK s \in T : \A m \in T : s <= m
  <2>1. T \subseteq Nat
    BY DEF Nodes
  <2> HIDE DEF T
  <2> QED
    BY <1>1, <2>1, LeastNatural
<1>3. PICK q \in Nat : /\ Power(s) /\ 2 * (s * q) + s \in Nodes
                       /\ LowBit(2 * (s * q) + s) # s
  OBVIOUS
<1>4. s \in Nat /\ s # 0 /\ s \in Nodes /\ Capacity \in Nat
  BY WeightIndexAssumption DEF Nodes
<1>5. CASE s = 1
  <2>1. 2 * (s * q) + s = 2 * q + 1
    BY <1>5
  <2>2. 2 * q + 1 <= Capacity
    BY <1>3, <1>4, <2>1 DEF Nodes
  <2> QED
    BY <1>3, <1>5, <2>1, <2>2, Doubling
<1>6. CASE s # 1
  <2> DEFINE m == s \div 2
  <2>1. s = 2 * m /\ m < s /\ Power(m) /\ m \in Nodes /\ m \in Nat
    <3>1. s = 2 * m /\ m < s /\ Power(m)
      BY <1>3, <1>6, HalfStep
    <3> HIDE DEF m
    <3> QED
      BY <3>1 DEF Power, Nodes
  <2> HIDE DEF m
  <2> DEFINE p == m * q
  <2>2. p \in Nat /\ s * q = 2 * p
    BY <2>1
  <2>3. Good(m)
    BY <1>2, <1>4, <2>1
  <2>4. 2 * p + m \in Nodes
    <3>1. 2 * (s * q) + s = 2 * (2 * p + m)
      BY <2>1, <2>2
    <3>2. 2 * (2 * p + m) <= Capacity
      BY <1>3, <1>4, <3>1 DEF Nodes
    <3> HIDE DEF p
    <3>3. m # 0
      BY <2>1 DEF Nodes
    <3> QED
      BY <1>4, <2>1, <2>2, <3>2, <3>3 DEF Nodes
  <2>5. LowBit(2 * p + m) = m
    BY <2>1, <2>3, <2>4
  <2> HIDE DEF p
  <2>6. 2 * (s * q) + s = 2 * (2 * p + m)
    BY <2>1, <2>2
  <2>7. 2 * (2 * p + m) <= Capacity
    BY <1>3, <1>4, <2>6 DEF Nodes
  <2>8. LowBit(2 * (2 * p + m)) = 2 * m
    BY <2>4, <2>5, <2>7, Doubling
  <2> QED
    BY <1>3, <2>1, <2>6, <2>8
<1> QED
  BY <1>5, <1>6

TopTable(f) == f = [n \in Nodes |-> IF n = 1 THEN 1 ELSE 2 * f[n \div 2]]

\* The first step is the largest power of two that fits.
LEMMA TopStepFits == Power(TopStep) /\ Capacity < 2 * TopStep
<1> DEFINE S == 0..Capacity
           H == [n \in S |-> [f \in [S -> Nat] |->
                  IF n = 1 \/ n = 0 THEN 1 ELSE 2 * f[n \div 2]]]
<1>0. /\ Capacity \in Nat /\ Capacity \in Nodes /\ Nodes \subseteq S /\ 0 \in S
      /\ \A n \in Nodes : n # 1 => n \div 2 \in Nodes
  <2>1. Capacity \in Nat /\ Capacity \in Nodes /\ Nodes \subseteq S /\ 0 \in S
    BY WeightIndexAssumption DEF Nodes
  <2>2. ASSUME NEW n \in Nodes, n # 1 PROVE n \div 2 \in Nodes
    <3>1. n \in Nat /\ n >= 2 /\ n <= Capacity
      BY <2>1, <2>2 DEF Nodes
    <3>2. n \div 2 \in Nat /\ n \div 2 >= 1 /\ n \div 2 <= n
      BY <3>1
    <3> QED
      BY <2>1, <3>1, <3>2 DEF Nodes
  <2> QED
    BY <2>1, <2>2
<1>h. \A n \in S : n \in Nat /\ (n = 0 \/ n \div 2 \in 0..n - 1) /\ n \div 2 \in S
  BY <1>0
<1>1. \E f : TopTable(f)
  <2>1. H \in [S -> [[S -> Nat] -> Nat]]
    <3>1. ASSUME NEW n \in S
          PROVE  [f \in [S -> Nat] |-> IF n = 1 \/ n = 0 THEN 1 ELSE 2 * f[n \div 2]]
                   \in [[S -> Nat] -> Nat]
      <4>1. n \div 2 \in S
        BY <1>h
      <4> HIDE DEF S
      <4>2. \A f \in [S -> Nat] : f[n \div 2] \in Nat
        BY <4>1
      <4>3. \A f \in [S -> Nat] : 2 * f[n \div 2] \in Nat
        BY <4>2
      <4> QED
        BY <4>3
    <3> HIDE DEF S
    <3> QED
      BY <3>1
  <2>2. ASSUME NEW n \in S, NEW f \in [S -> Nat], NEW g \in [S -> Nat],
               \A m \in 0..n - 1 : f[m] = g[m]
        PROVE  H[n][f] = H[n][g]
    BY <1>h, <2>2
  <2>3. HasTable(Capacity, Nat, H)
    <3>1. ReadsBelow(Capacity, Nat, H)
      <4> HIDE DEF H
      <4> QED
        BY <2>2 DEF ReadsBelow
    <3>2. H \in Rules(Capacity, Nat)
      <4> HIDE DEF H
      <4> QED
        BY <2>1 DEF Rules
    <3> HIDE DEF H
    <3> QED
      BY <1>0, <3>1, <3>2, TableExists
  <2>4. PICK f \in [S -> Nat] : \A n \in S : f[n] = H[n][f]
    <3> HIDE DEF H
    <3> QED
      BY <2>3 DEF HasTable
  <2> DEFINE t == [n \in Nodes |-> f[n]]
  <2>5. ASSUME NEW n \in Nodes
        PROVE  t[n] = IF n = 1 THEN 1 ELSE 2 * t[n \div 2]
    <3>1. t[n] = f[n] /\ n \in S /\ n # 0 /\ (n # 1 => t[n \div 2] = f[n \div 2])
      BY <1>0 DEF Nodes
    <3>2. f[n] = IF n = 1 THEN 1 ELSE 2 * f[n \div 2]
      BY <2>4, <3>1
    <3> HIDE DEF t
    <3> QED
      BY <3>1, <3>2
  <2>6. t = [n \in Nodes |-> t[n]]
    OBVIOUS
  <2> HIDE DEF t
  <2>7. TopTable(t)
    BY <2>5, <2>6 DEF TopTable
  <2> QED
    BY <2>7
<1> DEFINE B == CHOOSE f : TopTable(f)
<1>2. TopTable(B)
  BY <1>1
<1>3. TopStep = B[Capacity]
  BY Zenon DEF TopStep, TopTable
<1> HIDE DEF B, H
<1>4. \A n \in Nodes : B[n] = IF n = 1 THEN 1 ELSE 2 * B[n \div 2]
  BY <1>2 DEF TopTable
<1> DEFINE Good(n) == B[n] \in Nat /\ B[n] <= n /\ n < 2 * B[n] /\ Power(B[n])
           T == {n \in Nodes : ~Good(n)}
<1>5. T = {}
  <2> SUFFICES ASSUME T # {} PROVE FALSE
    OBVIOUS
  <2>1. PICK n \in T : \A m \in T : n <= m
    <3>1. T \subseteq Nat
      BY DEF Nodes
    <3> HIDE DEF T
    <3> QED
      BY <3>1, LeastNatural
  <2>2. n \in Nodes /\ n \in Nat /\ n # 0 /\ n <= Capacity
    BY <1>0 DEF Nodes
  <2>3. CASE n = 1
    <3>1. B[n] = 1
      BY <1>4, <2>2, <2>3
    <3>2. Power(1)
      <4>1. 1 \in Nodes /\ 1 % 2 = 1
        BY <2>2, <2>3
      <4> QED
        BY <4>1, LowBitStep DEF Power
    <3> QED
      BY <2>3, <3>1, <3>2
  <2>4. CASE n # 1
    <3> DEFINE m == n \div 2
    <3>1. m \in Nodes /\ m \in Nat /\ m < n /\ (n = 2 * m \/ n = 2 * m + 1)
      BY <1>0, <2>2, <2>4
    <3>2. B[n] = 2 * B[m]
      BY <1>4, <2>2, <2>4
    <3> HIDE DEF m
    <3>3. B[m] \in Nat /\ B[m] <= m /\ m < 2 * B[m] /\ Power(B[m])
      <4>1. ~(n <= m)
        BY <2>2, <3>1
      <4>2. m \notin T
        BY <2>1, <4>1
      <4> QED
        BY <3>1, <4>2
    <3>4. B[n] \in Nat /\ B[n] <= n /\ n < 2 * B[n]
      BY <2>2, <3>1, <3>2, <3>3
    <3>5. Power(B[n])
      <4>1. 2 * B[m] <= Capacity
        BY <1>0, <2>2, <3>2, <3>4
      <4> QED
        BY <3>2, <3>3, <4>1, Doubling DEF Power
    <3> QED
      BY <3>4, <3>5
  <2> QED
    BY <2>3, <2>4
<1>6. Good(Capacity)
  BY <1>0, <1>5
<1> QED
  BY <1>3, <1>6

\* One step of the descent from p = <<at, left>>, as a function of the rest of it.
Places == (0..Capacity) \X Words
Rest(f, step, p) ==
  IF step = 0 THEN p[1]
  ELSE IF Passes(p[1] + step, p[2])
       THEN f[step \div 2][<<p[1] + step, p[2] - tree[p[1] + step]>>]
  ELSE f[step \div 2][p]
DescendTable(f) == f = [step \in 0..TopStep |-> [p \in Places |-> Rest(f, step, p)]]

\* With no node below zero the descent never leaves the words.
LEMMA DescendTableExists ==
  ASSUME IndexInv
  PROVE  \E f : DescendTable(f)
<1> DEFINE S == 0..TopStep
           A == 0..Capacity
           P == Places
           V == [P -> A]
           H == [n \in S |-> [f \in [S -> V] |-> [x \in P |-> Rest(f, n, x)]]]
<1> USE DEF Rest, Places
<1>0. /\ TopStep \in Nat /\ Capacity \in Nat /\ MaxWord \in Nat /\ 0 \in A
      /\ \A i \in Nodes : tree[i] \in Words
  BY TopStepFits, SumsFit, WeightIndexAssumption DEF Power, Nodes
<1>h. ASSUME NEW n \in S, n # 0
      PROVE  n \in Nat /\ n \div 2 \in S /\ n \div 2 \in 0..n - 1
  BY <1>0, <1>h
<1>p. ASSUME NEW n \in S, n # 0, NEW x \in P, Passes(x[1] + n, x[2])
      PROVE  <<x[1] + n, x[2] - tree[x[1] + n]>> \in P
  <2>1. /\ x[1] \in Nat /\ x[2] \in Nat /\ x[2] <= MaxWord /\ n \in Nat
        /\ x[1] + n <= Capacity /\ tree[x[1] + n] <= x[2]
    BY <1>0, <1>p DEF Passes, Words
  <2>2. x[1] + n \in Nodes
    BY <1>0, <1>p, <2>1 DEF Nodes
  <2>3. tree[x[1] + n] \in Nat
    BY <1>0, <2>2 DEF Words
  <2>4. x[1] + n \in A
    BY <1>0, <2>1
  <2>5. x[2] - tree[x[1] + n] \in Words
    BY <1>0, <2>1, <2>3 DEF Words
  <2> QED
    BY <2>4, <2>5
<1>1. ASSUME NEW n \in S, NEW f \in [S -> V], NEW x \in P PROVE Rest(f, n, x) \in A
  <2>1. CASE n = 0
    BY <2>1
  <2>2. CASE n # 0
    <3>1. f[n \div 2] \in V
      BY <1>h, <2>2
    <3> HIDE DEF A, S, P, Places
    <3>2. f[n \div 2][x] \in A
      BY <3>1
    <3>3. CASE Passes(x[1] + n, x[2])
      <4>1. <<x[1] + n, x[2] - tree[x[1] + n]>> \in P
        BY <1>p, <2>2, <3>3
      <4>2. f[n \div 2][<<x[1] + n, x[2] - tree[x[1] + n]>>] \in A
        BY <3>1, <4>1
      <4> QED
        BY <2>2, <3>3, <4>2
    <3>4. CASE ~Passes(x[1] + n, x[2])
      BY <2>2, <3>2, <3>4
    <3> QED
      BY <3>3, <3>4
  <2> QED
    BY <2>1, <2>2
<1>2. H \in Rules(TopStep, V)
  <2>1. ASSUME NEW n \in S
        PROVE  [f \in [S -> V] |-> [x \in P |-> Rest(f, n, x)]] \in [[S -> V] -> V]
    <3>1. ASSUME NEW f \in [S -> V] PROVE [x \in P |-> Rest(f, n, x)] \in V
      <4>1. \A x \in P : Rest(f, n, x) \in A
        BY <1>1
      <4> HIDE DEF Rest, A, P, S, Places
      <4> QED
        BY <4>1
    <3> HIDE DEF Places, V, Rest, A, P, S
    <3> QED
      BY <3>1
  <2> HIDE DEF Places, V, Rest, A, P
  <2>2. H \in [S -> [[S -> V] -> V]]
    <3> HIDE DEF S
    <3> QED
      BY <2>1
  <2> HIDE DEF H
  <2> QED
    BY <2>2 DEF Rules
<1>3. ReadsBelow(TopStep, V, H)
  <2>1. ASSUME NEW n \in S, NEW f \in [S -> V], NEW g \in [S -> V],
               \A m \in 0..n - 1 : f[m] = g[m]
        PROVE  H[n][f] = H[n][g]
    <3>1. n # 0 => f[n \div 2] = g[n \div 2]
      BY <1>h, <2>1
    <3>2. \A x : Rest(f, n, x) = Rest(g, n, x)
      BY <3>1
    <3> HIDE DEF Places, Rest, P, V, S
    <3>3. H[n][f] = [x \in P |-> Rest(f, n, x)] /\ H[n][g] = [x \in P |-> Rest(g, n, x)]
      OBVIOUS
    <3> HIDE DEF H
    <3> QED
      BY <3>2, <3>3
  <2> HIDE DEF Places, V, Rest, P, A, H
  <2> QED
    BY <2>1 DEF ReadsBelow
<1>4. HasTable(TopStep, V, H)
  <2>1. [x \in P |-> 0] \in V
    BY <1>0
  <2> HIDE DEF Places, V, H
  <2> QED
    BY <1>0, <1>2, <1>3, <2>1, TableExists
<1>5. PICK f \in [S -> V] : \A n \in S : f[n] = H[n][f]
  <2> HIDE DEF Places, V, H
  <2> QED
    BY <1>4 DEF HasTable
<1>6. \A n \in S : f[n] = [p \in P |-> Rest(f, n, p)]
  <2> HIDE DEF V, Rest, A, P, S, Places
  <2> QED
    BY <1>5
<1>7. f = [n \in S |-> f[n]]
  <2> HIDE DEF V, S
  <2> QED
    OBVIOUS
<1>8. f = [n \in S |-> [p \in P |-> Rest(f, n, p)]]
  <2> HIDE DEF V, S, Rest, P, Places
  <2> QED
    BY <1>6, <1>7
<1>9. DescendTable(f)
  BY <1>8, Zenon DEF DescendTable
<1> QED
  BY <1>9

\* The descent, one step at a time.
LEMMA DescentSteps ==
  ASSUME IndexInv
  PROVE  \E f : /\ \A r : Find(r) = f[TopStep][<<0, r>>]
                /\ \A step \in 0..TopStep, p \in Places : f[step][p] = Rest(f, step, p)
<1> DEFINE D == CHOOSE f : DescendTable(f)
<1>1. DescendTable(D)
  BY DescendTableExists
<1>2. \A r : Find(r) = D[TopStep][<<0, r>>]
  BY Zenon DEF Find, DescendTable, Rest, Places
<1> HIDE DEF D
<1>3. \A step \in 0..TopStep : D[step] = [p \in Places |-> Rest(D, step, p)]
  BY <1>1 DEF DescendTable
<1>4. \A step \in 0..TopStep, p \in Places : D[step][p] = Rest(D, step, p)
  BY <1>3
<1> QED
  BY <1>2, <1>4

\* Where a search for r stands before a step: past everything at or below r so far,
\* with the answer less than two steps ahead.
Reaches(r, at, step) == at + step > Capacity \/ r < Prefix(at + step)
Stands(r, step, p) ==
  /\ p \in Places /\ Prefix(p[1]) <= r /\ p[2] = r - Prefix(p[1])
  /\ IF step = 0 THEN Reaches(r, p[1], 1)
     ELSE /\ Power(step) /\ \E q \in Nat : p[1] = 2 * (step * q)
          /\ Reaches(r, p[1], 2 * step)
Answers(r, s) == s \in Slots /\ Prefix(s) <= r /\ r < Prefix(s + 1)

\* One step keeps the stand.
LEMMA StandMoves ==
  ASSUME IndexInv, NEW r \in Nat, r < total_weight,
         NEW step \in Nat, step # 0, NEW p, Stands(r, step, p)
  PROVE  LET next == p[1] + step
         IN  IF Passes(next, p[2]) THEN Stands(r, step \div 2, <<next, p[2] - tree[next]>>)
             ELSE Stands(r, step \div 2, p)
<1> DEFINE at == p[1]
           left == p[2]
           next == at + step
           half == step \div 2
<1>0. Capacity \in Nat /\ MaxWord \in Nat
  BY WeightIndexAssumption
<1>1. /\ p = <<at, left>> /\ at \in 0..Capacity /\ left \in Words /\ at \in Nat /\ left \in Nat
      /\ Prefix(at) <= r /\ left = r - Prefix(at)
      /\ Power(step) /\ Reaches(r, at, 2 * step) /\ \E q \in Nat : at = 2 * (step * q)
  BY <1>0 DEF Stands, Places, Words
<1>2. PICK q \in Nat : at = 2 * (step * q)
  BY <1>1
<1>3. \/ step = 1 /\ half = 0
      \/ step = 2 * half /\ Power(half) /\ half \in Nat /\ half # 0
  BY <1>1, HalfStep, WeightIndexAssumption DEF Power, Nodes
<1> HIDE DEF at, left, half
<1>4. next \in Nat /\ at + 2 * step = next + step
  BY <1>1
<1>5. /\ \A i \in 0..Capacity : Prefix(i) \in Int
      /\ \A j \in Nodes : Prefix(j) = tree[j] + Prefix(j - LowBit(j)) /\ tree[j] \in Words
      /\ Prefix(Capacity) = total_weight /\ total_weight \in Nat /\ total_weight <= MaxWord
  BY PrefixStep, SumsFit DEF IndexInv, Words
<1>6. next <= Capacity => next \in Nodes /\ LowBit(next) = step /\ Prefix(next) = tree[next] + Prefix(at)
  <2> SUFFICES ASSUME next <= Capacity
               PROVE  next \in Nodes /\ LowBit(next) = step /\ Prefix(next) = tree[next] + Prefix(at)
    OBVIOUS
  <2>1. next \in Nodes /\ step \in Nodes
    BY <1>0, <1>1, <1>4 DEF Nodes, Power
  <2>2. LowBit(next) = step
    BY <1>1, <1>2, <2>1, StepsAreLowBits
  <2>3. next - step = at
    BY <1>1
  <2> HIDE DEF next
  <2> QED
    BY <1>5, <2>1, <2>2, <2>3
<1> HIDE DEF next
<1>7. Passes(next, left) <=> next <= Capacity /\ Prefix(next) <= r
  <2>1. next <= Capacity => (tree[next] <= left <=> Prefix(next) <= r)
    BY <1>0, <1>1, <1>5, <1>6 DEF Words
  <2> QED
    BY <2>1 DEF Passes
<1>8. CASE Passes(next, left)
  <2> DEFINE rest == left - tree[next]
  <2>1. /\ next <= Capacity /\ Prefix(next) <= r /\ next \in Nodes /\ tree[next] \in Nat
        /\ Prefix(next) = tree[next] + Prefix(at) /\ next \in 0..Capacity
        /\ Prefix(next) \in Int /\ Prefix(at) \in Int
    BY <1>0, <1>1, <1>4, <1>5, <1>6, <1>7, <1>8 DEF Words
  <2>2. rest = r - Prefix(next) /\ rest \in Words
    BY <1>0, <1>1, <2>1 DEF Words
  <2> HIDE DEF rest
  <2>3. <<next, rest>> \in Places /\ <<next, rest>>[1] = next /\ <<next, rest>>[2] = rest
    BY <2>1, <2>2 DEF Places
  <2>4. CASE step = 1 /\ half = 0
    <3>1. Reaches(r, next, 1)
      <4>1. next + 1 = at + 2 * step
        BY <1>4, <2>4
      <4> QED
        BY <1>1, <4>1 DEF Reaches
    <3>2. Stands(r, half, <<next, rest>>)
      BY <2>1, <2>2, <2>3, <2>4, <3>1 DEF Stands
    <3> QED
      BY <1>8, <3>2 DEF next, half, at, left, rest
  <2>5. CASE step = 2 * half /\ Power(half) /\ half \in Nat /\ half # 0
    <3>1. Reaches(r, next, 2 * half)
      <4>1. next + 2 * half = at + 2 * step
        BY <1>4, <2>5
      <4> QED
        BY <1>1, <4>1 DEF Reaches
    <3>2. \E k \in Nat : next = 2 * (half * k)
      <4> DEFINE h == half * q
      <4>1. h \in Nat /\ step * q = 2 * h
        BY <2>5
      <4>2. half * (2 * q + 1) = 2 * h + half
        BY <2>5
      <4>3. next = 2 * (2 * h + half)
        <5> HIDE DEF h
        <5> QED
          BY <1>2, <2>5, <4>1 DEF next
      <4>4. 2 * q + 1 \in Nat
        OBVIOUS
      <4> QED
        BY <4>2, <4>3, <4>4
    <3>3. Stands(r, half, <<next, rest>>)
      BY <2>1, <2>2, <2>3, <2>5, <3>1, <3>2 DEF Stands
    <3> QED
      BY <1>8, <3>3 DEF next, half, at, left, rest
  <2> QED
    BY <1>3, <2>4, <2>5
<1>9. CASE ~Passes(next, left)
  <2>1. Reaches(r, at, step)
    <3>1. next <= Capacity => next \in 0..Capacity /\ Prefix(next) \in Int
      BY <1>0, <1>4, <1>5
    <3>2. next <= Capacity => r < Prefix(next)
      BY <1>7, <1>9, <3>1
    <3>3. next > Capacity \/ r < Prefix(next)
      BY <1>0, <1>4, <3>2
    <3> QED
      BY <3>3 DEF Reaches, next
  <2>2. CASE step = 1 /\ half = 0
    <3>1. Stands(r, half, p)
      BY <1>1, <2>1, <2>2 DEF Stands, at, left, Places
    <3> QED
      BY <1>9, <3>1 DEF next, half, at, left
  <2>3. CASE step = 2 * half /\ Power(half) /\ half \in Nat /\ half # 0
    <3>1. Reaches(r, at, 2 * half)
      BY <2>1, <2>3
    <3>2. at = 2 * (half * (2 * q)) /\ 2 * q \in Nat
      <4> DEFINE h == half * q
      <4>1. h \in Nat /\ step * q = 2 * h /\ half * (2 * q) = 2 * h
        BY <2>3
      <4> QED
        BY <1>2, <4>1
    <3>3. Stands(r, half, p)
      BY <1>1, <2>3, <3>1, <3>2 DEF Stands, at, left, Places
    <3> QED
      BY <1>9, <3>3 DEF next, half, at, left
  <2> QED
    BY <1>3, <2>2, <2>3
<1> QED
  BY <1>8, <1>9

LEMMA SearchAnswers ==
  ASSUME IndexInv, NEW r \in Nat, r < total_weight
  PROVE  Answers(r, Find(r))
<1>0. /\ Capacity \in Nat /\ MaxWord \in Nat /\ total_weight \in Nat /\ total_weight <= MaxWord
      /\ TopStep \in Nat /\ TopStep # 0 /\ Power(TopStep) /\ Capacity < 2 * TopStep
      /\ Prefix(0) = 0 /\ Prefix(Capacity) = total_weight
  BY WeightIndexAssumption, TopStepFits, PrefixStep DEF IndexInv, Words, Power, Nodes
<1>1. PICK f : /\ \A x : Find(x) = f[TopStep][<<0, x>>]
               /\ \A step \in 0..TopStep, p \in Places : f[step][p] = Rest(f, step, p)
  BY DescentSteps
<1> DEFINE Good(n) == \A p : Stands(r, n, p) => Answers(r, f[n][p])
           T == {n \in 0..TopStep : ~Good(n)}
<1>2. T = {}
  <2> SUFFICES ASSUME T # {} PROVE FALSE
    OBVIOUS
  <2>1. PICK n \in T : \A m \in T : n <= m
    <3>1. T \subseteq Nat
      BY <1>0
    <3> HIDE DEF T
    <3> QED
      BY <3>1, LeastNatural
  <2>2. n \in 0..TopStep /\ n \in Nat /\ n <= TopStep
    BY <1>0
  <2>3. PICK p : Stands(r, n, p) /\ ~Answers(r, f[n][p])
    BY <2>1
  <2>4. p \in Places /\ f[n][p] = Rest(f, n, p)
    BY <1>1, <2>2, <2>3 DEF Stands
  <2>5. CASE n = 0
    <3>1. f[n][p] = p[1]
      BY <2>4, <2>5 DEF Rest
    <3>2. p[1] \in 0..Capacity /\ Prefix(p[1]) <= r /\ Reaches(r, p[1], 1)
      BY <2>3, <2>5 DEF Stands, Places
    <3>3. p[1] # Capacity
      BY <1>0, <3>2
    <3>4. p[1] \in Slots /\ ~(p[1] + 1 > Capacity)
      BY <1>0, <3>2, <3>3 DEF Slots
    <3>5. Answers(r, p[1])
      BY <3>2, <3>4 DEF Reaches, Answers
    <3> QED
      BY <2>3, <3>1, <3>5
  <2>6. CASE n # 0
    <3> DEFINE half == n \div 2
               next == p[1] + n
    <3>1. half \in 0..TopStep /\ ~(n <= half)
      BY <1>0, <2>2, <2>6
    <3>2. Good(half)
      <4> HIDE DEF half, Good
      <4>1. half \notin T
        BY <2>1, <3>1
      <4> QED
        BY <3>1, <4>1
    <3>3. IF Passes(next, p[2]) THEN Stands(r, half, <<next, p[2] - tree[next]>>)
          ELSE Stands(r, half, p)
      BY <2>2, <2>3, <2>6, StandMoves
    <3>4. f[n][p] = IF Passes(next, p[2]) THEN f[half][<<next, p[2] - tree[next]>>]
                    ELSE f[half][p]
      BY <2>4, <2>6 DEF Rest
    <3> HIDE DEF half, next
    <3> QED
      BY <2>3, <3>2, <3>3, <3>4
  <2> QED
    BY <2>5, <2>6
<1>3. Stands(r, TopStep, <<0, r>>)
  <2>1. <<0, r>> \in Places /\ <<0, r>>[1] = 0 /\ <<0, r>>[2] = r
    BY <1>0 DEF Places, Words
  <2>2. Reaches(r, 0, 2 * TopStep)
    BY <1>0 DEF Reaches
  <2>3. 0 = 2 * (TopStep * 0) /\ 0 \in Nat
    BY <1>0
  <2>4. Prefix(0) <= r /\ r = r - Prefix(0)
    BY <1>0
  <2> QED
    BY <1>0, <2>1, <2>2, <2>3, <2>4 DEF Stands
<1>4. Good(TopStep)
  <2>1. TopStep \in 0..TopStep
    BY <1>0
  <2> HIDE DEF Good
  <2> QED
    BY <1>2, <2>1
<1> QED
  BY <1>1, <1>3, <1>4

\* A draw below the total lands in the one occupied slot whose interval holds it.
THEOREM SearchAlwaysFindsTheInterval == Spec => []SearchFindsTheInterval
<1>1. IndexInv => SearchFindsTheInterval
  <2> SUFFICES ASSUME IndexInv, NEW r \in Words, CanSearch(r)
               PROVE  /\ PrefixSearch(r) \in Slots /\ LeafOf[PrefixSearch(r)] > 0
                      /\ Prefix(PrefixSearch(r)) <= r /\ r < Prefix(PrefixSearch(r) + 1)
    BY DEF SearchFindsTheInterval
  <2> DEFINE s == PrefixSearch(r)
  <2>1. r \in Nat /\ r < total_weight
    BY DEF CanSearch, Words
  <2>2. s \in Slots /\ Prefix(s) <= r /\ r < Prefix(s + 1)
    BY <2>1, SearchAnswers DEF Answers, PrefixSearch
  <2> HIDE DEF s
  <2>3. /\ LeafOf[s] \in Nat /\ Prefix(s + 1) = Prefix(s) + LeafOf[s]
        /\ Prefix(s) \in Int
    <3>1. s \in 0..Capacity
      BY <2>2, WeightIndexAssumption DEF Slots
    <3> QED
      BY <2>2, <3>1, LeafFacts, PrefixStep DEF IndexInv
  <2>4. LeafOf[s] > 0
    <3> DEFINE low == Prefix(s)
               high == Prefix(s + 1)
               leaf == LeafOf[s]
    <3>1. leaf \in Nat /\ high = low + leaf /\ low \in Int /\ low <= r /\ r < high
      BY <2>2, <2>3
    <3> HIDE DEF low, high, leaf
    <3>2. leaf > 0
      BY <2>1, <3>1
    <3> QED
      BY <3>2 DEF leaf
  <2> QED
    BY <2>2, <2>4 DEF s
<1> QED
  BY <1>1, InitIndex, IndexStep, PTL DEF Spec
---------------------------------------------------------------------------------
(* The tree as the ledger its callers see. *)

LEMMA InsertIsLedgers ==
  ASSUME IndexInv, NEW w \in Weights, NEW expected \in Words, IndexInsert(w, expected)
  PROVE  L!LedgerInsert(w, LedgerView.total + w)
<1> DEFINE s == Allocated
           l == LedgerView
<1>1. /\ CanAllocate /\ Allocate /\ tree' = Shifted(s + 1, w)
      /\ total_weight' = total_weight + w /\ total_weight' \in Words
  BY DEF IndexInsert, TotalBecomes, TotalFits
<1>2. s \in Slots /\ LeafOf[s] = 0 /\ w \in Nat /\ w \in Int
  BY <1>1, AllocatedSlot, WeightIndexAssumption
<1>3. \A d \in Slots : LeafOf'[d] = IF d = s THEN w ELSE LeafOf[d]
  <2>1. LeafOf[s] + w \in Nat /\ LeafOf[s] + w = w
    BY <1>2
  <2> HIDE DEF s
  <2> QED
    BY <1>1, <1>2, <2>1, LeavesMove
<1>4. LeafOf' = [LeafOf EXCEPT ![s] = w]
  <2>1. LeafOf \in [Slots -> {LeafOf[d] : d \in Slots}] /\ LeafOf' = [d \in Slots |-> LeafOf'[d]]
    BY DEF LeafOf
  <2> HIDE DEF s
  <2> QED
    BY <1>2, <1>3, <2>1
<1>5. /\ l.leaf = LeafOf /\ l.free = free_stack /\ l.high = high_water /\ l.total = total_weight
  BY DEF LedgerView
<1>6. s = L!NextSlot(l) /\ L!Slots = Slots
  BY <1>5 DEF L!NextSlot, Allocated, Recycling, L!Slots, Slots
<1>7. L!CanInsert(l, w, l.total + w)
  <2>1. l.free = << >> => l.high < Capacity
    BY <1>1, <1>5 DEF CanAllocate, Recycling
  <2>2. L!Lands(l.total + w, l.total + w)
    BY <1>1, <1>5 DEF L!Lands, L!Words, Words
  <2> HIDE DEF s, l
  <2> QED
    BY <1>2, <1>5, <1>6, <2>1, <2>2 DEF L!CanInsert, L!CanAlloc
<1>8. LedgerView' = [leaf |-> LeafOf', free |-> free_stack', high |-> high_water',
                     total |-> total_weight']
  BY DEF LedgerView
<1>9. /\ free_stack' = IF free_stack # << >> THEN SubSeq(free_stack, 1, Len(free_stack) - 1)
                       ELSE free_stack
      /\ high_water' = IF free_stack # << >> THEN high_water ELSE high_water + 1
  BY <1>1 DEF Allocate, Recycling
<1>10. LedgerView' = L!Insert(l, w)
  <2> HIDE DEF s, l
  <2> QED
    BY <1>1, <1>4, <1>5, <1>6, <1>8, <1>9 DEF L!Insert
<1> QED
  BY <1>7, <1>10 DEF L!LedgerInsert

LEMMA RemoveIsLedgers ==
  ASSUME IndexInv, NEW s \in 0..Capacity, NEW w \in Weights, NEW expected \in Words,
         IndexRemove(s, w, expected)
  PROVE  s \in Slots /\ L!LedgerRemove(s, w, LedgerView.total - w)
<1> DEFINE l == LedgerView
<1>1. /\ s + 1 <= Capacity /\ Leaf(s + 1) = w /\ tree' = Shifted(s + 1, -w)
      /\ Len(free_stack) < Capacity
      /\ free_stack' = Append(free_stack, s) /\ high_water' = high_water
      /\ total_weight' = total_weight - w /\ total_weight' \in Words
  BY DEF IndexRemove, TotalBecomes, TotalFits
<1>2. s \in Slots /\ LeafOf[s] = w /\ w \in Nat /\ -w \in Int
  <2>1. s \in Slots /\ w \in Nat /\ -w \in Int
    BY <1>1, WeightIndexAssumption DEF Slots
  <2> QED
    BY <1>1, <2>1 DEF LeafOf
<1>3. \A d \in Slots : LeafOf'[d] = IF d = s THEN 0 ELSE LeafOf[d]
  <2>1. LeafOf[s] + (-w) \in Nat /\ LeafOf[s] + (-w) = 0
    BY <1>2
  <2> QED
    BY <1>1, <1>2, <2>1, LeavesMove
<1>4. LeafOf' = [LeafOf EXCEPT ![s] = 0]
  <2>1. LeafOf \in [Slots -> {LeafOf[d] : d \in Slots}] /\ LeafOf' = [d \in Slots |-> LeafOf'[d]]
    BY DEF LeafOf
  <2> QED
    BY <1>2, <1>3, <2>1
<1>5. /\ l.leaf = LeafOf /\ l.free = free_stack /\ l.high = high_water /\ l.total = total_weight
      /\ L!Slots = Slots
  BY DEF LedgerView, L!Slots, Slots
<1>6. L!Lands(l.total - w, l.total - w)
  BY <1>1, <1>5 DEF L!Lands, L!Words, Words
<1>7. LedgerView' = [leaf |-> LeafOf', free |-> free_stack', high |-> high_water',
                     total |-> total_weight']
  BY DEF LedgerView
<1> HIDE DEF l
<1>8. L!CanRemove(l, s, w, l.total - w)
  BY <1>1, <1>2, <1>5, <1>6 DEF L!CanRemove
<1>9. LedgerView' = L!Remove(l, s, w)
  BY <1>1, <1>4, <1>5, <1>7 DEF L!Remove
<1> QED
  BY <1>2, <1>8, <1>9 DEF L!LedgerRemove, l

LEMMA UpdateIsLedgers ==
  ASSUME IndexInv, NEW s \in 0..Capacity, NEW old \in Weights, NEW new \in Weights,
         NEW expected \in Words, IndexUpdate(s, old, new, expected)
  PROVE  s \in Slots /\ L!LedgerUpdate(s, old, new, LedgerView.total + new - old)
<1> DEFINE l == LedgerView
<1>1. /\ s + 1 <= Capacity /\ Leaf(s + 1) = old /\ tree' = Shifted(s + 1, new - old)
      /\ free_stack' = free_stack /\ high_water' = high_water
      /\ total_weight' = total_weight + new - old /\ total_weight' \in Words
  BY DEF IndexUpdate, TotalBecomes, TotalFits
<1>2. s \in Slots /\ LeafOf[s] = old /\ old \in Nat /\ new \in Nat /\ new - old \in Int
  <2>1. s \in Slots /\ old \in Nat /\ new \in Nat /\ new - old \in Int
    BY <1>1, WeightIndexAssumption DEF Slots
  <2> QED
    BY <1>1, <2>1 DEF LeafOf
<1>3. \A d \in Slots : LeafOf'[d] = IF d = s THEN new ELSE LeafOf[d]
  <2>1. LeafOf[s] + (new - old) \in Nat /\ LeafOf[s] + (new - old) = new
    BY <1>2
  <2> QED
    BY <1>1, <1>2, <2>1, LeavesMove
<1>4. LeafOf' = [LeafOf EXCEPT ![s] = new]
  <2>1. LeafOf \in [Slots -> {LeafOf[d] : d \in Slots}] /\ LeafOf' = [d \in Slots |-> LeafOf'[d]]
    BY DEF LeafOf
  <2> QED
    BY <1>2, <1>3, <2>1
<1>5. /\ l.leaf = LeafOf /\ l.free = free_stack /\ l.high = high_water /\ l.total = total_weight
      /\ L!Slots = Slots
  BY DEF LedgerView, L!Slots, Slots
<1>6. L!Lands(l.total + new - old, l.total + new - old)
  BY <1>1, <1>5 DEF L!Lands, L!Words, Words
<1>7. LedgerView' = [leaf |-> LeafOf', free |-> free_stack', high |-> high_water',
                     total |-> total_weight']
  BY DEF LedgerView
<1>8. L!Update(l, s, old, new) =
        [leaf |-> [l.leaf EXCEPT ![s] = new], free |-> l.free, high |-> l.high,
         total |-> l.total + new - old]
  <2> DEFINE leaf == [l.leaf EXCEPT ![s] = new]
             moved == [l EXCEPT !.leaf = leaf]
             total == l.total + new - old
  <2>1. l = [leaf |-> l.leaf, free |-> l.free, high |-> l.high, total |-> l.total]
    BY <1>5 DEF LedgerView
  <2>2. L!Update(l, s, old, new) = [moved EXCEPT !.total = total]
    BY DEF L!Update
  <2> HIDE DEF l, leaf, total
  <2>3. moved = [leaf |-> leaf, free |-> l.free, high |-> l.high, total |-> l.total]
    BY <2>1
  <2> HIDE DEF moved
  <2>4. [moved EXCEPT !.total = total]
          = [leaf |-> leaf, free |-> l.free, high |-> l.high, total |-> total]
    BY <2>3
  <2> QED
    BY <2>2, <2>4 DEF leaf, total
<1> HIDE DEF l
<1>9. L!CanUpdate(l, s, old, new, l.total + new - old)
  BY <1>1, <1>2, <1>5, <1>6 DEF L!CanUpdate
<1>10. LedgerView' = L!Update(l, s, old, new)
  BY <1>1, <1>4, <1>5, <1>7, <1>8
<1> QED
  BY <1>2, <1>9, <1>10 DEF L!LedgerUpdate, l

\* The tree implements the ledger: an insertion, a removal and an update change the
\* one leaf they name, whatever nodes they pass.
THEOREM TreeImplementsLedger == Spec => ImplementsLedger
<1>1. Init => L!LedgerInit
  <2> SUFFICES ASSUME Init PROVE LedgerView = L!EmptyLedger
    BY DEF L!LedgerInit
  <2>1. IndexInv /\ free_stack = << >> /\ high_water = 0 /\ total_weight = 0
    BY InitIndex DEF Init
  <2>2. \A s \in Slots : LeafOf[s] = 0
    BY <2>1, LeafFacts
  <2>3. LeafOf = [s \in Slots |-> 0]
    <3>1. LeafOf = [s \in Slots |-> LeafOf[s]]
      BY DEF LeafOf
    <3> QED
      BY <2>2, <3>1
  <2> QED
    BY <2>1, <2>3 DEF LedgerView, L!EmptyLedger, L!Slots, Slots
<1>2. IndexInv /\ [Next]_vars => [L!LedgerNext]_LedgerView
  <2> SUFFICES ASSUME IndexInv, [Next]_vars PROVE [L!LedgerNext]_LedgerView
    OBVIOUS
  <2>1. CASE UNCHANGED vars
    BY <2>1 DEF vars, LedgerView, LeafOf, Leaf, Prefix
  <2>2. CASE Next
    <3>1. PICK w \in Weights, old \in Weights, slot \in 0..Capacity, expected \in Words :
            \/ IndexInsert(w, expected)
            \/ IndexRemove(slot, w, expected)
            \/ IndexUpdate(slot, old, w, expected)
      BY <2>2 DEF Next
    <3>2. L!Slots = Slots /\ 0 \in Slots
      BY WeightIndexAssumption DEF L!Slots, Slots
    <3>3. CASE IndexInsert(w, expected)
      BY <3>2, <3>3, InsertIsLedgers DEF L!LedgerNext
    <3>4. CASE IndexRemove(slot, w, expected)
      BY <3>2, <3>4, RemoveIsLedgers DEF L!LedgerNext
    <3>5. CASE IndexUpdate(slot, old, w, expected)
      BY <3>2, <3>5, UpdateIsLedgers DEF L!LedgerNext
    <3> QED
      BY <3>1, <3>3, <3>4, <3>5
  <2> QED
    BY <2>1, <2>2
<1> QED
  BY <1>1, <1>2, InitIndex, IndexStep, PTL DEF Spec, ImplementsLedger, L!LedgerSpec

\* What the calls ask of the index beyond their own arguments: an unused or recycled
\* leaf that is empty, a free stack with room for one more, a total it can give back.
RoomForEach ==
  /\ Recycling \/ high_water < Capacity => CanAllocate
  /\ \A s \in Slots :
       LeafOf[s] > 0 => Len(free_stack) < Capacity /\ total_weight - LeafOf[s] \in Words

\* No call history leaves a dirty leaf to hand out or a free stack without room for
\* an occupied slot: of GrantsWhatTheLedgerGrants, all but the words of ENABLED.
THEOREM IndexAlwaysHasRoom == Spec => []RoomForEach
<1>1. ASSUME IndexInv PROVE RoomForEach
  <2> DEFINE n == Len(free_stack)
  <2>1. /\ Capacity \in Nat /\ Slots = 0..Capacity - 1
        /\ high_water \in 0..Capacity /\ free_stack \in Seq(Slots) /\ n \in Nat
        /\ \A i \in 1..n : free_stack[i] < high_water /\ free_stack[i] \in Slots
        /\ \A i, j \in 1..n : free_stack[i] = free_stack[j] => i = j
        /\ \A d \in Slots : LeafOf[d] = 0 <=> d >= high_water \/ \E i \in 1..n : free_stack[i] = d
        /\ total_weight \in Nat /\ total_weight <= MaxWord /\ MaxWord \in Nat
    BY <1>1, WeightIndexAssumption DEF IndexInv, FreeInv, SlotsPartition, Slots, Words
  <2>2. Recycling \/ high_water < Capacity => CanAllocate
    <3>1. CASE Recycling
      <4>1. n \in 1..n /\ Allocated = free_stack[n]
        BY <2>1, <3>1 DEF Recycling, Allocated
      <4>2. Allocated \in Slots /\ LeafOf[Allocated] = 0
        BY <2>1, <4>1
      <4> QED
        BY <3>1, <4>2 DEF CanAllocate, LeafOf
    <3>2. CASE ~Recycling /\ high_water < Capacity
      <4>1. Allocated = high_water /\ high_water \in Slots
        BY <2>1, <3>2 DEF Allocated
      <4>2. LeafOf[high_water] = 0
        BY <2>1, <4>1
      <4> QED
        BY <3>2, <4>1, <4>2 DEF CanAllocate, LeafOf
    <3> QED
      BY <3>1, <3>2
  <2>3. ASSUME NEW s \in Slots, LeafOf[s] > 0 PROVE n < Capacity
    <3> DEFINE others == Slots \ {s}
               f == [i \in 1..n |-> free_stack[i]]
               places == 1..n
    <3>1. LeafOf[s] # 0
      BY <1>1, <2>3, LeafFacts
    <3>2. \A i \in 1..n : free_stack[i] \in others
      <4> HIDE DEF n
      <4> QED
        BY <2>1, <3>1
    <3>3. /\ IsFiniteSet(Slots) /\ Cardinality(Slots) = Capacity
      <4>1. IsFiniteSet(0..Capacity - 1) /\ Cardinality(0..Capacity - 1) = Capacity
        BY <2>1, FS_Interval, WeightIndexAssumption
      <4> QED
        BY <2>1, <4>1
    <3>4. IsFiniteSet(others) /\ Cardinality(others) = Capacity - 1
      BY <3>3, FS_RemoveElement
    <3>5. IsFiniteSet(places) /\ Cardinality(places) = n
      BY <2>1, FS_Interval
    <3>6. f \in [places -> others]
      BY <3>2
    <3>7. \A i, j \in places : f[i] = f[j] => i = j
      BY <2>1
    <3> HIDE DEF n, others, f, places
    <3>8. ~(Cardinality(others) < Cardinality(places))
      BY <3>4, <3>5, <3>6, <3>7, FS_PigeonHole
    <3> QED
      BY <2>1, <3>4, <3>5, <3>8, WeightIndexAssumption
  <2>4. ASSUME NEW s \in Slots PROVE total_weight - LeafOf[s] \in Words
    <3>1. LeafOf[s] \in Nat /\ LeafOf[s] <= total_weight
      BY <1>1, LeafFacts
    <3> QED
      BY <2>1, <3>1 DEF Words
  <2> QED
    BY <2>2, <2>3, <2>4 DEF RoomForEach
<1> QED
  BY <1>1, InitIndex, IndexStep, PTL DEF Spec

\* RoomForEach leaves no guard out: what insert and remove write to an index that has
\* room, one assignment to each variable, makes a step of them.
LEMMA GrantedCallsAreSteps ==
  ASSUME RoomForEach
  PROVE  /\ \A w \in Weights :
              /\ L!CanAlloc(LedgerView) /\ TotalFits(total_weight + w)
              /\ total_weight' = total_weight + w /\ tree' = Shifted(Allocated + 1, w)
              /\ Allocate
              => IndexInsert(w, total_weight + w)
         /\ \A s \in Slots :
              /\ LeafOf[s] > 0
              /\ total_weight' = total_weight - LeafOf[s]
              /\ tree' = Shifted(s + 1, -LeafOf[s])
              /\ free_stack' = Append(free_stack, s) /\ UNCHANGED high_water
              => IndexRemove(s, LeafOf[s], total_weight - LeafOf[s])
<1>1. ASSUME L!CanAlloc(LedgerView) PROVE CanAllocate
  <2>1. Recycling \/ high_water < Capacity
    BY <1>1 DEF L!CanAlloc, LedgerView, Recycling
  <2> QED
    BY <2>1 DEF RoomForEach
<1>2. ASSUME NEW s \in Slots, LeafOf[s] > 0
      PROVE  /\ s + 1 <= Capacity /\ Leaf(s + 1) = LeafOf[s]
             /\ Len(free_stack) < Capacity /\ TotalFits(total_weight - LeafOf[s])
  <2>1. s + 1 <= Capacity
    BY WeightIndexAssumption DEF Slots
  <2>2. Leaf(s + 1) = LeafOf[s]
    BY DEF LeafOf
  <2> QED
    BY <1>2, <2>1, <2>2 DEF RoomForEach, TotalFits
<1> QED
  BY <1>1, <1>2 DEF IndexInsert, IndexRemove, TotalBecomes
=================================================================================
