----------------------------- MODULE OperatorProofs -----------------------------
(***************************************************************************)
(* What the pure operators of a pool return: the seat promote finds, the     *)
(* entries left by demote, the blank set the controller picks, the ledger    *)
(* after an operation.                                                       *)
(***************************************************************************)
EXTENDS Tier, Rebalance, WeightLedger, FiniteSetsExt, SequenceTheorems, FiniteSetTheorems,
        WellFoundedInduction, TLAPS

\* A set of naturals has a least element: every scan below stops somewhere.
LEMMA LeastNatural ==
  ASSUME NEW T, T \subseteq Nat, T # {}
  PROVE  \E m \in T : \A n \in T : m <= n
<1> DEFINE Less == {ss \in Nat \X Nat : ss[1] < ss[2]}
<1>1. OpToRel(<, Nat) = Less
  BY Zenon DEF OpToRel
<1>2. IsWellFoundedOn(Less, Nat)
  BY Zenon, <1>1, NatLessThanWellFounded
<1>3. PICK m \in T : \A n \in T : <<n, m>> \notin Less
  BY Zenon, <1>2, WFMin
<1>4. ASSUME NEW n \in T PROVE m <= n
  <2>1. ~(n < m)
    BY <1>3
  <2> QED
    BY <2>1
<1> QED
  BY <1>4

---------------------------------------------------------------------------------
(* The tier. *)

\* The backward scan of promote always ends at a seat.
LEMMA SeatExists ==
  ASSUME NEW E, NEW entries \in Seq(E), NEW c
  PROVE  \E k \in 0..Len(entries) : SeatedBehind(entries, c, k)
<1> DEFINE Stops(k) == k = 0 \/ ~Outranks(c, entries[k])
           T == {j \in 0..Len(entries) : Stops(Len(entries) - j)}
<1>0. Len(entries) \in Nat
  BY LenProperties
<1>1. Len(entries) \in T /\ T \subseteq Nat
  BY <1>0
<1> HIDE DEF Stops
<1>2. PICK m \in T : \A n \in T : m <= n
  BY <1>1, LeastNatural
<1>3. Len(entries) - m \in 0..Len(entries) /\ Stops(Len(entries) - m)
  BY <1>0, <1>2
<1>4. ASSUME NEW i \in Len(entries) - m + 1 .. Len(entries)
      PROVE  Outranks(c, entries[i])
  <2>1. Len(entries) - i \in 0..Len(entries) /\ Len(entries) - i < m
    BY <1>0, <1>2
  <2>2. Len(entries) - i \notin T
    BY <2>1, <1>0, <1>1, <1>2
  <2>3. Len(entries) - (Len(entries) - i) = i
    BY <1>0
  <2> QED
    BY <2>1, <2>2, <2>3 DEF Stops
<1> QED
  BY <1>3, <1>4 DEF SeatedBehind, Stops

\* Seating a candidate adds exactly its entry.
LEMMA SeatType ==
  ASSUME NEW E, NEW entries \in Seq(E), NEW c \in E
  PROVE  /\ Seat(entries, c) \in Seq(E)
         /\ Len(Seat(entries, c)) = Len(entries) + 1
<1> DEFINE k == CHOOSE j \in 0..Len(entries) : SeatedBehind(entries, c, j)
<1>0. Len(entries) \in Nat /\ \A i \in 1..Len(entries) : entries[i] \in E
  BY LenProperties, ElementOfSeq
<1>1. k \in 0..Len(entries)
  BY SeatExists
<1> HIDE DEF k
<1>2. /\ SubSeq(entries, 1, k) \in Seq(E)
      /\ Len(SubSeq(entries, 1, k)) = k
  BY <1>0, <1>1, SubSeqProperties
<1>3. /\ SubSeq(entries, k+1, Len(entries)) \in Seq(E)
      /\ Len(SubSeq(entries, k+1, Len(entries))) = Len(entries) - k
  BY <1>0, <1>1, SubSeqProperties
<1>4. <<c>> \in Seq(E) /\ Len(<<c>>) = 1
  OBVIOUS
<1>5. /\ SubSeq(entries, 1, k) \o <<c>> \in Seq(E)
      /\ Len(SubSeq(entries, 1, k) \o <<c>>) = k + 1
  BY <1>2, <1>4, ConcatProperties
<1>6. /\ (SubSeq(entries, 1, k) \o <<c>>) \o SubSeq(entries, k+1, Len(entries)) \in Seq(E)
      /\ Len((SubSeq(entries, 1, k) \o <<c>>) \o SubSeq(entries, k+1, Len(entries)))
           = k + 1 + (Len(entries) - k)
  BY <1>3, <1>5, ConcatProperties
<1> QED
  BY <1>0, <1>1, <1>6 DEF Seat, k

\* promote returns entries of the same kind, within the size it was given.
LEMMA PromoteType ==
  ASSUME NEW E, NEW entries \in Seq(E), NEW c \in E, NEW size \in Nat \ {0},
         Len(entries) <= size
  PROVE  /\ Promote(entries, size, c) \in Seq(E)
         /\ Len(Promote(entries, size, c)) <= size
<1>0. Len(entries) \in Nat /\ \A i \in 1..Len(entries) : entries[i] \in E
  BY LenProperties, ElementOfSeq
<1>1. CASE Len(entries) < size
  BY <1>0, <1>1, SeatType DEF Promote
<1>2. CASE ~(Len(entries) < size)
  <2> DEFINE n == Len(entries) - 1
             s == SubSeq(entries, 1, n)
  <2>1. n \in Nat /\ n \in Int /\ 1 \in Int /\ \A i \in 1..n : entries[i] \in E
    BY <1>0, <1>2
  <2>2. Promote(entries, size, c) = Seat(s, c)
    BY <1>2 DEF Promote
  <2>3. n + 1 <= size
    BY <1>0
  <2> HIDE DEF n
  <2>4. s \in Seq(E) /\ Len(s) = n
    BY <2>1, SubSeqProperties
  <2> HIDE DEF s
  <2>5. Seat(s, c) \in Seq(E) /\ Len(Seat(s, c)) = n + 1
    BY <2>4, SeatType
  <2> QED
    BY <2>2, <2>3, <2>5
<1> QED
  BY <1>1, <1>2

\* demote of a member takes out exactly one entry.
LEMMA DemoteType ==
  ASSUME NEW E, NEW entries \in Seq(E), NEW p, p \in Holders(entries)
  PROVE  /\ Demote(entries, p) \in Seq(E)
         /\ Len(Demote(entries, p)) = Len(entries) - 1
<1> DEFINE First(j) == /\ entries[j].position = p
                       /\ \A h \in 1..j-1 : entries[h].position # p
           i == CHOOSE j \in 1..Len(entries) : First(j)
           T == {j \in 1..Len(entries) : entries[j].position = p}
<1>0. Len(entries) \in Nat /\ \A j \in 1..Len(entries) : entries[j] \in E
  BY LenProperties, ElementOfSeq
<1>1. T \subseteq Nat /\ T # {}
  BY <1>0 DEF Holders
<1>2. PICK m \in T : \A n \in T : m <= n
  BY <1>1, LeastNatural
<1>3. m \in 1..Len(entries) /\ First(m)
  BY <1>0, <1>2
<1>4. i \in 1..Len(entries)
  BY <1>3
<1> HIDE DEF i
<1>5. /\ SubSeq(entries, 1, i-1) \in Seq(E)
      /\ Len(SubSeq(entries, 1, i-1)) = i - 1
  BY <1>0, <1>4, SubSeqProperties
<1>6. /\ SubSeq(entries, i+1, Len(entries)) \in Seq(E)
      /\ Len(SubSeq(entries, i+1, Len(entries))) = Len(entries) - i
  BY <1>0, <1>4, SubSeqProperties
<1>7. /\ SubSeq(entries, 1, i-1) \o SubSeq(entries, i+1, Len(entries)) \in Seq(E)
      /\ Len(SubSeq(entries, 1, i-1) \o SubSeq(entries, i+1, Len(entries)))
           = (i - 1) + (Len(entries) - i)
  BY <1>5, <1>6, ConcatProperties
<1>8. Demote(entries, p) =
        SubSeq(entries, 1, i-1) \o SubSeq(entries, i+1, Len(entries))
  BY Zenon DEF Demote, i, First
<1>9. (i - 1) + (Len(entries) - i) = Len(entries) - 1
  BY <1>0, <1>4
<1> QED
  BY <1>7, <1>8, <1>9

---------------------------------------------------------------------------------
(* The controller. *)

LEMMA Minimiser ==
  ASSUME NEW S, S # {}, NEW f \in [S -> Nat]
  PROVE  \E x \in S : \A y \in S : f[x] <= f[y]
<1>1. {f[x] : x \in S} # {} /\ {f[x] : x \in S} \subseteq Nat
  OBVIOUS
<1>2. PICK m \in {f[x] : x \in S} : \A n \in {f[x] : x \in S} : m <= n
  BY <1>1, LeastNatural
<1> QED
  BY <1>2

\* A weight is a positive natural wherever weight_of accepts the value.
LEMMA WeightOfType ==
  ASSUME NEW v \in Nat, Weighable(v)
  PROVE  WeightOf(v) \in Nat \ {0}
BY RebalanceAssumption DEF Weighable, WeightOf

\* Whenever evaluate succeeds on a pool that holds something, it returns one of its
\* candidates, and that one is better than every other.
LEMMA EvaluateBest ==
  ASSUME NEW n \in Nat \ {0}, NEW w \in Nat, NEW faces \in Nat \X Nat \X Nat,
         NEW ticket \in Nat, CanEvaluate(n, w, faces, ticket)
  PROVE  LET k == Anchor(n, w, faces, ticket)
             C == {0, 1} \X {k, k + 1} \X {0, 1}
             best == Evaluate(n, w, faces, ticket)
         IN  /\ k \in Nat /\ best \in C
             /\ \A d \in C : d = best \/ Better(n, w, faces, ticket, best, d)
<1> DEFINE k == Anchor(n, w, faces, ticket)
           C == {0, 1} \X {k, k + 1} \X {0, 1}
           score(b) == Score(n, w, faces, ticket, b)
           better(b, d) == Better(n, w, faces, ticket, b, d)
<1>1. /\ WeightOf(faces[1]) \in Nat /\ WeightOf(faces[2]) \in Nat
      /\ WeightOf(faces[3]) \in Nat
  BY WeightOfType DEF CanEvaluate
<1>2. k \in Nat
  <2>1. Den2(faces, ticket) \in Nat /\ Den2(faces, ticket) > 0
    BY <1>1, RebalanceAssumption DEF CanEvaluate, Den2
  <2>2. Deficit(n, w, ticket) \in Nat
    BY RebalanceAssumption DEF Deficit
  <2> QED
    BY <2>1, <2>2 DEF Anchor
<1> HIDE DEF k
<1>3. \A b \in C : b \in Nat \X Nat \X Nat
  BY <1>2
<1>4. ASSUME NEW b \in C PROVE score(b) \in Nat
  <2> DEFINE err == ticket * (w + BlankWeight(b, faces)) - WeightC * (n + BlankCount(b))
  <2>1. b \in Nat \X Nat \X Nat
    BY <1>3
  <2>2. BlankWeight(b, faces) \in Nat /\ BlankCount(b) \in Nat
    BY <1>1, <2>1 DEF BlankWeight, BlankCount
  <2>3. err \in Int
    BY <2>2, RebalanceAssumption
  <2>4. score(b) = IF err >= 0 THEN err ELSE -err
    BY Zenon DEF Score
  <2> HIDE DEF err
  <2> QED
    BY <2>3, <2>4
<1> HIDE DEF score
<1>5. <<0, k, 0>> \in C
  OBVIOUS
<1>6. PICK b1 \in C : \A d \in C : score(b1) <= score(d)
  <2> DEFINE f == [b \in C |-> score(b)]
  <2>1. f \in [C -> Nat]
    BY <1>4
  <2>2. \E x \in C : \A y \in C : f[x] <= f[y]
    BY <1>5, <2>1, Minimiser
  <2> QED
    BY <2>2
<1> DEFINE C1 == {b \in C : score(b) = score(b1)}
<1>7. PICK b2 \in C1 : \A d \in C1 : BlankCount(b2) <= BlankCount(d)
  <2> DEFINE f == [b \in C1 |-> BlankCount(b)]
  <2>1. f \in [C1 -> Nat] /\ C1 # {}
    BY <1>3 DEF BlankCount
  <2>2. \E x \in C1 : \A y \in C1 : f[x] <= f[y]
    BY <2>1, Minimiser
  <2> QED
    BY <2>2
<1> DEFINE C2 == {b \in C1 : BlankCount(b) = BlankCount(b2)}
<1>8. PICK b3 \in C2 : \A d \in C2 : b3[1] <= d[1]
  <2> DEFINE f == [b \in C2 |-> b[1]]
  <2>1. f \in [C2 -> Nat] /\ C2 # {}
    BY <1>3
  <2>2. \E x \in C2 : \A y \in C2 : f[x] <= f[y]
    BY <2>1, Minimiser
  <2> QED
    BY <2>2
<1> DEFINE C3 == {b \in C2 : b[1] = b3[1]}
<1>9. PICK b4 \in C3 : \A d \in C3 : b4[3] <= d[3]
  <2> DEFINE f == [b \in C3 |-> b[3]]
  <2>1. f \in [C3 -> Nat] /\ C3 # {}
    BY <1>3
  <2>2. \E x \in C3 : \A y \in C3 : f[x] <= f[y]
    BY <2>1, Minimiser
  <2> QED
    BY <2>2
<1>10. ASSUME NEW d \in C PROVE d = b4 \/ better(b4, d)
  <2>1. b4 \in C /\ score(b4) = score(b1) /\ BlankCount(b4) = BlankCount(b2) /\ b4[1] = b3[1]
    BY <1>9
  <2>2. /\ score(b4) \in Nat /\ score(d) \in Nat
        /\ d \in Nat \X Nat \X Nat /\ b4 \in Nat \X Nat \X Nat
    BY <1>3, <1>4, <2>1
  <2>3. BlankCount(b4) \in Nat /\ BlankCount(d) \in Nat
    BY <2>2 DEF BlankCount
  <2>4. better(b4, d) <=>
          \/ score(b4) < score(d)
          \/ /\ score(b4) = score(d)
             /\ \/ BlankCount(b4) < BlankCount(d)
                \/ /\ BlankCount(b4) = BlankCount(d)
                   /\ \/ b4[1] < d[1]
                      \/ b4[1] = d[1] /\ b4[3] < d[3]
    BY Zenon DEF Better, score
  <2>5. CASE score(b4) # score(d)
    BY <1>6, <2>1, <2>2, <2>4, <2>5
  <2>6. CASE score(b4) = score(d) /\ BlankCount(b4) # BlankCount(d)
    BY <1>7, <2>1, <2>3, <2>4, <2>6
  <2>7. CASE score(b4) = score(d) /\ BlankCount(b4) = BlankCount(d) /\ b4[1] # d[1]
    BY <1>8, <2>1, <2>2, <2>4, <2>7
  <2>8. CASE /\ score(b4) = score(d) /\ BlankCount(b4) = BlankCount(d)
             /\ b4[1] = d[1] /\ b4[3] # d[3]
    BY <1>9, <2>1, <2>2, <2>4, <2>8
  <2>9. CASE BlankCount(b4) = BlankCount(d) /\ b4[1] = d[1] /\ b4[3] = d[3]
    BY <2>2, <2>9 DEF BlankCount
  <2> QED
    BY <2>5, <2>6, <2>7, <2>8, <2>9
<1>11. b4 \in C
  BY <1>9
<1> HIDE DEF better, C
<1> DEFINE best == Evaluate(n, w, faces, ticket)
<1>12. best = CHOOSE b \in C : \A d \in C : d = b \/ better(b, d)
  BY Zenon DEF Evaluate, C, k, better
<1> HIDE DEF C, best
<1>13. best \in C /\ \A d \in C : d = best \/ better(best, d)
  BY <1>10, <1>11, <1>12
<1> QED
  BY <1>2, <1>13, Zenon DEF best, C, k, better

LEMMA EvaluateType ==
  ASSUME NEW n \in Nat, NEW w \in Nat, NEW faces \in Nat \X Nat \X Nat, NEW ticket \in Nat,
         CanEvaluate(n, w, faces, ticket)
  PROVE  Evaluate(n, w, faces, ticket) \in Nat \X Nat \X Nat
<1>1. CASE n = 0
  BY <1>1 DEF Evaluate, NoBlanks
<1>2. CASE n # 0
  <2> DEFINE k == Anchor(n, w, faces, ticket)
             best == Evaluate(n, w, faces, ticket)
  <2>1. k \in Nat /\ best \in {0, 1} \X {k, k + 1} \X {0, 1}
    BY <1>2, EvaluateBest
  <2> HIDE DEF k, best
  <2>2. best \in Nat \X Nat \X Nat
    BY <2>1
  <2> QED
    BY <2>2 DEF best
<1> QED
  BY <1>1, <1>2

---------------------------------------------------------------------------------
(* The tier after a refresh or a cut. *)

\* A refresh keeps the tier within its size.
LEMMA RefreshType ==
  ASSUME NEW E, NEW entries \in Seq(E), NEW c \in E, NEW size \in Nat \ {0},
         Len(entries) <= size, CanRefresh(entries, size, c)
  PROVE  /\ RefreshMember(entries, size, c) \in Seq(E)
         /\ Len(RefreshMember(entries, size, c)) <= size
<1>1. /\ Demote(entries, c.position) \in Seq(E)
      /\ Len(Demote(entries, c.position)) = Len(entries) - 1
  BY DemoteType DEF CanRefresh
<1>2. Len(entries) \in Nat
  BY LenProperties
<1>3. Len(Demote(entries, c.position)) <= size
  BY <1>1, <1>2
<1> HIDE DEF Demote
<1> QED
  BY <1>1, <1>3, PromoteType DEF RefreshMember

\* A cut leaves a tier that fits.
LEMMA ShrinkType ==
  ASSUME NEW E, NEW entries \in Seq(E), NEW size \in Nat
  PROVE  /\ Shrink(entries, size) \in Seq(E)
         /\ Len(Shrink(entries, size)) <= size
<1>0. Len(entries) \in Nat /\ \A i \in 1..Len(entries) : entries[i] \in E
  BY LenProperties, ElementOfSeq
<1>1. CASE size >= Len(entries)
  BY <1>0, <1>1 DEF Shrink
<1>2. CASE ~(size >= Len(entries))
  <2>1. /\ SubSeq(entries, 1, size) \in Seq(E)
        /\ Len(SubSeq(entries, 1, size)) = size
    BY <1>0, <1>2, SubSeqProperties
  <2> QED
    BY <1>2, <2>1 DEF Shrink
<1> QED
  BY <1>1, <1>2

---------------------------------------------------------------------------------
(* The ledger. *)

LEMMA WordsAreNaturals == \A n \in Words : n \in Nat /\ n <= MaxWord
BY WordAssumption DEF Words

\* An accepted insert yields a ledger: the mark passes no slot it does not have.
LEMMA InsertType ==
  ASSUME NEW l \in LedgerType, NEW w \in Nat, NEW expected, CanInsert(l, w, expected)
  PROVE  Insert(l, w) \in LedgerType
<1> DEFINE leaf == [l.leaf EXCEPT ![NextSlot(l)] = w]
           free == IF l.free # << >> THEN SubSeq(l.free, 1, Len(l.free) - 1) ELSE l.free
           high == IF l.free # << >> THEN l.high ELSE l.high + 1
           total == l.total + w
<1>0. CanAlloc(l) /\ total \in Words
  BY DEF CanInsert, Lands
<1>1. leaf \in [Slots -> Nat]
  BY <1>0 DEF CanAlloc, LedgerType
<1>2. free \in Seq(Slots)
  <2> DEFINE n == Len(l.free) - 1
  <2>0. l.free \in Seq(Slots) /\ Len(l.free) \in Nat /\ \A i \in 1..Len(l.free) : l.free[i] \in Slots
    BY LenProperties, ElementOfSeq DEF LedgerType
  <2>1. CASE l.free = << >>
    BY <2>0, <2>1
  <2>2. CASE l.free # << >>
    <3>1. Len(l.free) # 0
      BY <2>0, <2>2, EmptySeq
    <3>2. n \in Nat /\ n \in Int /\ 1 \in Int /\ \A i \in 1..n : l.free[i] \in Slots
      BY <2>0, <3>1
    <3> HIDE DEF n
    <3>3. SubSeq(l.free, 1, n) \in Seq(Slots)
      BY <3>2, SubSeqProperties
    <3> QED
      BY <2>2, <3>3 DEF n
  <2> QED
    BY <2>1, <2>2
<1>3. high \in 0..Capacity
  BY <1>0, CapacityAssumption DEF CanAlloc, LedgerType
<1>4. total \in Words
  BY <1>0
<1>5. Insert(l, w) = [leaf |-> leaf, free |-> free, high |-> high, total |-> total]
  BY Zenon DEF Insert
<1> HIDE DEF leaf, free, high, total
<1> QED
  BY <1>1, <1>2, <1>3, <1>4, <1>5 DEF LedgerType

\* An accepted removal yields a ledger: the total does not fall below zero.
LEMMA RemoveType ==
  ASSUME NEW l \in LedgerType, NEW s, NEW w \in Nat, NEW expected,
         CanRemove(l, s, w, expected)
  PROVE  Remove(l, s, w) \in LedgerType
<1>1. [l.leaf EXCEPT ![s] = 0] \in [Slots -> Nat]
  BY DEF LedgerType
<1>2. Append(l.free, s) \in Seq(Slots)
  BY AppendProperties DEF CanRemove, LedgerType
<1>3. l.high \in 0..Capacity /\ l.total - w \in Words
  BY DEF CanRemove, Lands, LedgerType
<1> QED
  BY <1>1, <1>2, <1>3 DEF Remove, LedgerType

\* An accepted update yields a ledger.
LEMMA UpdateType ==
  ASSUME NEW l \in LedgerType, NEW s, NEW old \in Nat, NEW new \in Nat, NEW expected,
         CanUpdate(l, s, old, new, expected)
  PROVE  Update(l, s, old, new) \in LedgerType
<1>1. [l.leaf EXCEPT ![s] = new] \in [Slots -> Nat]
  BY DEF LedgerType
<1>2. l.total + new - old \in Words
  BY DEF CanUpdate, Lands
<1> DEFINE moved == [l EXCEPT !.leaf = [l.leaf EXCEPT ![s] = new]]
<1>3. moved \in LedgerType
  BY <1>1 DEF LedgerType
<1>4. Update(l, s, old, new) = [moved EXCEPT !.total = l.total + new - old]
  BY DEF Update
<1> HIDE DEF moved
<1> QED
  BY <1>2, <1>3, <1>4 DEF LedgerType

---------------------------------------------------------------------------------
(* Sums over a finite set.                                                  *)

\* The sum MapThenSumSet computes, for a function: the elements are taken one at
\* a time, and each remaining set's sum is the entry of a table.
SumTable(f, S, table) ==
  table = [s \in SUBSET S |->
             IF s = {} THEN 0
             ELSE LET x == CHOOSE x \in s : TRUE IN f[x] + table[s \ {x}]]
Tally(f, S) == LET table == CHOOSE table : SumTable(f, S, table) IN table[S]

\* A table exists: one that is right on the smaller sets can be extended.
LEMMA SumTableExists ==
  ASSUME NEW f, NEW S, IsFiniteSet(S)
  PROVE  \E table : SumTable(f, S, table)
<1> DEFINE Entry0(g, s) == IF s = {} THEN 0
                           ELSE f[CHOOSE x \in s : TRUE] + g[s \ {CHOOSE x \in s : TRUE}]
           Right(g, n) == \A s \in SUBSET S : Cardinality(s) <= n => g[s] = Entry0(g, s)
           Wrong == {n \in Nat : ~\E g : Right(g, n)}
<1>0. ASSUME NEW s \in SUBSET S
      PROVE  /\ Cardinality(s) \in Nat /\ (Cardinality(s) = 0 => s = {})
             /\ Cardinality(s) <= Cardinality(S) /\ Cardinality(S) \in Nat
             /\ s # {} => /\ s \ {CHOOSE x \in s : TRUE} \in SUBSET S
                          /\ Cardinality(s \ {CHOOSE x \in s : TRUE}) = Cardinality(s) - 1
  <2>1. IsFiniteSet(s) /\ Cardinality(s) <= Cardinality(S)
    BY FS_Subset
  <2>2. s # {} => (CHOOSE x \in s : TRUE) \in s
    OBVIOUS
  <2> QED
    BY <2>1, <2>2, FS_CardinalityType, FS_EmptySet, FS_RemoveElement
<1>1. Wrong = {}
  <2> SUFFICES ASSUME Wrong # {} PROVE FALSE
    OBVIOUS
  <2>1. PICK m \in Wrong : \A n \in Wrong : m <= n
    <3>1. Wrong \subseteq Nat
      OBVIOUS
    <3> HIDE DEF Wrong
    <3> QED
      BY <3>1, LeastNatural
  <2>2. m \in Nat /\ ~\E g : Right(g, m)
    BY <2>1
  <2>3. CASE m = 0
    <3> DEFINE g == [s \in SUBSET S |-> 0]
    <3>1. Right(g, 0)
      <4> SUFFICES ASSUME NEW s \in SUBSET S, Cardinality(s) <= 0 PROVE g[s] = Entry0(g, s)
        OBVIOUS
      <4>0. Cardinality(s) \in Nat
        BY <1>0
      <4>1. Cardinality(s) = 0
        BY <4>0
      <4>2. s = {}
        BY <1>0, <4>1, Zenon
      <4> QED
        BY <4>2
    <3> HIDE DEF Right
    <3> QED
      BY <2>2, <2>3, <3>1
  <2>4. CASE m # 0
    <3>0. m - 1 \in Nat /\ ~(m <= m - 1)
      BY <2>2, <2>4
    <3>1. m - 1 \notin Wrong
      BY <2>1, <3>0, Zenon
    <3>2. PICK g : Right(g, m - 1)
      <4> HIDE DEF Right
      <4> QED
        BY <3>0, <3>1
    <3> DEFINE h == [s \in SUBSET S |-> IF Cardinality(s) < m THEN g[s] ELSE Entry0(g, s)]
    <3>3. ASSUME NEW s \in SUBSET S, Cardinality(s) <= m PROVE h[s] = Entry0(h, s)
      <4>1. s # {} => h[s \ {CHOOSE x \in s : TRUE}] = g[s \ {CHOOSE x \in s : TRUE}]
        BY <1>0, <2>2, <3>3
      <4>2. Entry0(h, s) = Entry0(g, s)
        BY <4>1
      <4>3. Cardinality(s) < m => g[s] = Entry0(g, s)
        <5>1. Cardinality(s) < m => Cardinality(s) <= m - 1
          <6>1. Cardinality(s) \in Nat
            BY <1>0
          <6> QED
            BY <2>2, <6>1
        <5> QED
          BY <3>2, <5>1, Zenon
      <4> HIDE DEF Entry0
      <4> QED
        BY <4>2, <4>3
    <3>4. Right(h, m)
      BY <3>3
    <3> HIDE DEF Right, h
    <3> QED
      BY <2>2, <3>4
  <2> QED
    BY <2>3, <2>4
<1>2. PICK g : Right(g, Cardinality(S))
  <2>1. Cardinality(S) \in Nat
    BY FS_CardinalityType
  <2> HIDE DEF Right
  <2> QED
    BY <1>1, <2>1
<1> DEFINE h == [s \in SUBSET S |-> g[s]]
<1>3. ASSUME NEW s \in SUBSET S PROVE h[s] = Entry0(h, s)
  <2>1. g[s] = Entry0(g, s)
    BY <1>0, <1>2
  <2>2. s # {} => h[s \ {CHOOSE x \in s : TRUE}] = g[s \ {CHOOSE x \in s : TRUE}]
    BY <1>0
  <2> QED
    BY <2>1, <2>2
<1>4. h = [s \in SUBSET S |-> Entry0(h, s)]
  BY <1>3
<1>5. SumTable(f, S, h)
  BY <1>4, Zenon DEF SumTable
<1> QED
  BY <1>5

\* Two tables agree wherever both have an entry for the same summands.
LEMMA SumTablesAgree ==
  ASSUME NEW f, NEW e, NEW S, IsFiniteSet(S), NEW T \in SUBSET S,
         NEW g, SumTable(f, S, g), NEW h, SumTable(e, T, h),
         \A x \in T : f[x] = e[x]
  PROVE  \A s \in SUBSET T : g[s] = h[s]
<1> DEFINE Parted == {s \in SUBSET T : g[s] # h[s]}
           Sizes == {Cardinality(s) : s \in Parted}
<1> SUFFICES ASSUME Parted # {} PROVE FALSE
  OBVIOUS
<1>1. ASSUME NEW s \in SUBSET T
      PROVE  IsFiniteSet(s) /\ Cardinality(s) \in Nat
  BY <1>1, FS_Subset, FS_CardinalityType
<1>2. Sizes # {} /\ Sizes \subseteq Nat
  BY <1>1
<1>3. PICK m \in Sizes : \A n \in Sizes : m <= n
  <2> HIDE DEF Sizes
  <2> QED
    BY <1>2, LeastNatural
<1>4. PICK s \in Parted : Cardinality(s) = m
  BY <1>3
<1> DEFINE x == CHOOSE x \in s : TRUE
<1>5. /\ g[s] = IF s = {} THEN 0 ELSE f[x] + g[s \ {x}]
      /\ h[s] = IF s = {} THEN 0 ELSE e[x] + h[s \ {x}]
  BY Zenon DEF SumTable
<1>6. s # {} /\ x \in s
  <2>1. s # {}
    BY <1>4, <1>5
  <2> QED
    BY <2>1
<1>7. f[x] = e[x] /\ s \ {x} \in SUBSET T
  BY <1>4, <1>6
<1> HIDE DEF x
<1>8. s \ {x} \in Parted
  BY <1>4, <1>5, <1>6, <1>7
<1>9. Cardinality(s \ {x}) = Cardinality(s) - 1 /\ Cardinality(s) \in Nat
  BY <1>1, <1>4, <1>6, FS_RemoveElement
<1>10. m <= Cardinality(s \ {x})
  BY <1>3, <1>8
<1> QED
  BY <1>4, <1>9, <1>10

LEMMA TallyTable ==
  ASSUME NEW f, NEW S, IsFiniteSet(S)
  PROVE  \E table : SumTable(f, S, table) /\ Tally(f, S) = table[S]
BY SumTableExists, Zenon DEF Tally

LEMMA TallyAgree ==
  ASSUME NEW f, NEW e, NEW S, IsFiniteSet(S), \A x \in S : f[x] = e[x]
  PROVE  Tally(f, S) = Tally(e, S)
<1>1. PICK g : SumTable(f, S, g) /\ Tally(f, S) = g[S]
  BY TallyTable
<1>2. PICK h : SumTable(e, S, h) /\ Tally(e, S) = h[S]
  BY TallyTable
<1> QED
  BY <1>1, <1>2, SumTablesAgree

LEMMA TallyEmpty == \A f : Tally(f, {}) = 0
<1> SUFFICES ASSUME NEW f PROVE Tally(f, {}) = 0
  OBVIOUS
<1>1. PICK g : SumTable(f, {}, g) /\ Tally(f, {}) = g[{}]
  BY TallyTable, FS_EmptySet
<1> QED
  BY <1>1 DEF SumTable

\* One unfolding of the sum, at the element CHOOSE names.
LEMMA TallyStep ==
  ASSUME NEW f, NEW S, IsFiniteSet(S), S # {}
  PROVE  \E x \in S : Tally(f, S) = f[x] + Tally(f, S \ {x})
<1> DEFINE x == CHOOSE x \in S : TRUE
<1>1. x \in S /\ IsFiniteSet(S \ {x}) /\ S \ {x} \in SUBSET S
  BY FS_RemoveElement
<1>2. PICK g : SumTable(f, S, g) /\ Tally(f, S) = g[S]
  BY TallyTable
<1>3. PICK h : SumTable(f, S \ {x}, h) /\ Tally(f, S \ {x}) = h[S \ {x}]
  BY <1>1, TallyTable
<1>4. g[S] = f[x] + g[S \ {x}]
  BY <1>2, Zenon DEF SumTable
<1> HIDE DEF x
<1>5. \A s \in SUBSET (S \ {x}) : g[s] = h[s]
  BY <1>1, <1>2, <1>3, SumTablesAgree
<1> QED
  BY <1>1, <1>2, <1>3, <1>4, <1>5

\* A sum of naturals is a natural, and any summand can be taken out of it.
LEMMA TallyOfNaturals ==
  ASSUME NEW f, NEW S, IsFiniteSet(S), \A x \in S : f[x] \in Nat
  PROVE  /\ Tally(f, S) \in Nat
         /\ \A x \in S : Tally(f, S) = f[x] + Tally(f, S \ {x})
<1> DEFINE Good(T) == /\ Tally(f, T) \in Nat
                      /\ \A x \in T : Tally(f, T) = f[x] + Tally(f, T \ {x})
           Bad == {T \in SUBSET S : ~Good(T)}
           Sizes == {Cardinality(T) : T \in Bad}
<1>0. ASSUME NEW T \in SUBSET S
      PROVE  /\ IsFiniteSet(T) /\ Cardinality(T) \in Nat
             /\ \A x \in T : T \ {x} \in SUBSET S /\ Cardinality(T \ {x}) < Cardinality(T)
  <2>1. IsFiniteSet(T) /\ Cardinality(T) \in Nat
    BY FS_Subset, FS_CardinalityType
  <2>2. ASSUME NEW x \in T PROVE Cardinality(T \ {x}) < Cardinality(T)
    <3>1. Cardinality(T \ {x}) = Cardinality(T) - 1
      BY <2>1, FS_RemoveElement
    <3> QED
      BY <2>1, <3>1
  <2> QED
    BY <2>1, <2>2
<1>1. Bad = {}
  <2> SUFFICES ASSUME Bad # {} PROVE FALSE
    OBVIOUS
  <2> HIDE DEF Good
  <2>1. Sizes # {} /\ Sizes \subseteq Nat
    BY <1>0
  <2>2. PICK m \in Sizes : \A n \in Sizes : m <= n
    <3> HIDE DEF Sizes
    <3> QED
      BY <2>1, LeastNatural
  <2>3. PICK T \in Bad : Cardinality(T) = m
    BY <2>2
  <2>4. T \in SUBSET S /\ IsFiniteSet(T) /\ ~Good(T)
    BY <1>0, <2>3
  <2>5. ASSUME NEW U \in SUBSET S, Cardinality(U) < Cardinality(T) PROVE Good(U)
    <3>1. Cardinality(U) \in Nat /\ Cardinality(T) \in Nat
      BY <1>0, <2>4
    <3>2. ~(m <= Cardinality(U))
      BY <2>3, <2>5, <3>1
    <3> QED
      BY <2>2, <3>2
  <2>6. \A x \in T : T \ {x} \in SUBSET S /\ Good(T \ {x})
    BY <1>0, <2>4, <2>5
  <2>7. CASE T = {}
    <3>1. Tally(f, T) = 0
      BY <2>7, TallyEmpty
    <3>2. Tally(f, T) \in Nat
      BY <3>1
    <3>3. \A x \in T : Tally(f, T) = f[x] + Tally(f, T \ {x})
      BY <2>7
    <3> QED
      BY <2>4, <3>2, <3>3, Zenon DEF Good
  <2>8. CASE T # {}
    <3>1. PICK y \in T : Tally(f, T) = f[y] + Tally(f, T \ {y})
      BY <2>4, <2>8, TallyStep
    <3>2. f[y] \in Nat /\ Tally(f, T \ {y}) \in Nat
      BY <2>4, <2>6 DEF Good
    <3>3. ASSUME NEW x \in T, x # y PROVE Tally(f, T) = f[x] + Tally(f, T \ {x})
      <4>1. /\ Tally(f, T \ {y}) = f[x] + Tally(f, (T \ {y}) \ {x})
            /\ Tally(f, T \ {x}) = f[y] + Tally(f, (T \ {x}) \ {y})
        BY <2>6, <3>3 DEF Good
      <4>2. (T \ {y}) \ {x} = (T \ {x}) \ {y}
        OBVIOUS
      <4>3. x \in T \ {y} /\ T \ {y} \in SUBSET S /\ f[x] \in Nat
        BY <2>4, <3>3
      <4>4. Good((T \ {y}) \ {x})
        <5>1. Cardinality((T \ {y}) \ {x}) < Cardinality(T \ {y})
          BY <1>0, <4>3
        <5>2. Cardinality(T \ {y}) < Cardinality(T)
          BY <1>0, <2>4
        <5>3. (T \ {y}) \ {x} \in SUBSET S
          BY <4>3
        <5>4. /\ Cardinality((T \ {y}) \ {x}) \in Nat
              /\ Cardinality(T \ {y}) \in Nat /\ Cardinality(T) \in Nat
          BY <1>0, <2>4, <4>3, <5>3
        <5> QED
          BY <2>5, <5>1, <5>2, <5>3, <5>4
      <4>5. Tally(f, (T \ {y}) \ {x}) \in Nat
        BY <4>4 DEF Good
      <4> QED
        BY <3>1, <3>2, <4>1, <4>2, <4>3, <4>5
    <3>4. Tally(f, T) \in Nat
      BY <3>1, <3>2
    <3>5. \A x \in T : Tally(f, T) = f[x] + Tally(f, T \ {x})
      BY <3>1, <3>3, Zenon
    <3> QED
      BY <2>4, <3>4, <3>5, Zenon DEF Good
  <2> QED
    BY <2>7, <2>8
<1> QED
  BY <1>1

LEMMA TallyOfZeros ==
  ASSUME NEW f, NEW S, IsFiniteSet(S), \A x \in S : f[x] = 0
  PROVE  Tally(f, S) = 0
<1> DEFINE Bad == {T \in SUBSET S : Tally(f, T) # 0}
           Sizes == {Cardinality(T) : T \in Bad}
<1> SUFFICES ASSUME Bad # {} PROVE FALSE
  OBVIOUS
<1>1. \A T \in SUBSET S : IsFiniteSet(T) /\ Cardinality(T) \in Nat
  BY FS_Subset, FS_CardinalityType
<1>2. Sizes # {} /\ Sizes \subseteq Nat
  BY <1>1
<1>3. PICK m \in Sizes : \A n \in Sizes : m <= n
  BY <1>2, LeastNatural
<1>4. PICK T \in Bad : Cardinality(T) = m
  BY <1>3
<1>5. T # {}
  BY <1>4, TallyEmpty
<1>6. PICK x \in T : Tally(f, T) = f[x] + Tally(f, T \ {x})
  BY <1>1, <1>4, <1>5, TallyStep
<1>7. T \ {x} \in SUBSET S /\ Cardinality(T \ {x}) = m - 1 /\ m \in Nat
  BY <1>1, <1>4, FS_RemoveElement
<1>8. T \ {x} \notin Bad
  BY <1>3, <1>7
<1> QED
  BY <1>4, <1>6, <1>7, <1>8

\* A sum of numbers none of which exceeds b is at most b for each of them.
LEMMA TallyBound ==
  ASSUME NEW f, NEW b \in Nat, NEW S, IsFiniteSet(S), \A x \in S : f[x] \in 0..b
  PROVE  Tally(f, S) <= Cardinality(S) * b
<1> DEFINE Bad == {T \in SUBSET S : ~(Tally(f, T) <= Cardinality(T) * b)}
           Sizes == {Cardinality(T) : T \in Bad}
<1>0. ASSUME NEW T \in SUBSET S
      PROVE  /\ IsFiniteSet(T) /\ Cardinality(T) \in Nat
             /\ Tally(f, T) \in Nat
             /\ \A x \in T : Tally(f, T) = f[x] + Tally(f, T \ {x})
             /\ \A x \in T : Cardinality(T \ {x}) = Cardinality(T) - 1
  <2>1. IsFiniteSet(T) /\ \A x \in T : f[x] \in Nat
    BY FS_Subset
  <2>2. Cardinality(T) \in Nat /\ \A x \in T : Cardinality(T \ {x}) = Cardinality(T) - 1
    BY <2>1, FS_CardinalityType, FS_RemoveElement
  <2>3. Tally(f, T) \in Nat /\ \A x \in T : Tally(f, T) = f[x] + Tally(f, T \ {x})
    BY <2>1, TallyOfNaturals
  <2> QED
    BY <2>1, <2>2, <2>3
<1>1. Bad = {}
  <2> SUFFICES ASSUME Bad # {} PROVE FALSE
    OBVIOUS
  <2>1. Sizes # {} /\ Sizes \subseteq Nat
    BY <1>0
  <2>2. PICK m \in Sizes : \A n \in Sizes : m <= n
    <3> HIDE DEF Sizes
    <3> QED
      BY <2>1, LeastNatural
  <2>3. PICK T \in Bad : Cardinality(T) = m
    BY <2>2
  <2>4. T # {}
    <3>1. Tally(f, {}) = 0 /\ Cardinality({}) = 0
      BY TallyEmpty, FS_EmptySet
    <3> QED
      BY <2>3, <3>1
  <2>5. PICK x \in T : TRUE
    BY <2>4
  <2> DEFINE U == T \ {x}
             k == Cardinality(U)
  <2>6. /\ U \in SUBSET S /\ T \in SUBSET S /\ k \in Nat /\ Cardinality(T) \in Nat
        /\ k = Cardinality(T) - 1
        /\ Tally(f, T) = f[x] + Tally(f, U) /\ Tally(f, U) \in Nat /\ f[x] \in 0..b
    BY <1>0, <2>3, <2>5
  <2>7. U \notin Bad
    <3>1. U \in Bad => k \in Sizes
      OBVIOUS
    <3> HIDE DEF Bad, Sizes, U, k
    <3> QED
      BY <2>1, <2>2, <2>3, <2>6, <3>1
  <2>8. Tally(f, U) <= k * b
    BY <2>6, <2>7
  <2>9. ~(Tally(f, T) <= (k + 1) * b)
    <3>1. Cardinality(T) = k + 1
      BY <2>6
    <3> QED
      BY <2>3, <3>1
  <2> DEFINE rest == Tally(f, U)
  <2> HIDE DEF k, U, rest
  <2>10. (k + 1) * b = k * b + b
    BY <2>6
  <2> QED
    BY <2>6, <2>8, <2>9, <2>10 DEF rest
<1> QED
  BY <1>1

\* How a sum moves with one of its summands, the others unchanged.
LEMMA TallyAdd ==
  ASSUME NEW f, NEW e, NEW S, IsFiniteSet(S), NEW c, c \notin S, e[c] \in Nat,
         \A x \in S : f[x] \in Nat /\ e[x] = f[x]
  PROVE  Tally(e, S \cup {c}) = Tally(f, S) + e[c]
<1>1. IsFiniteSet(S \cup {c}) /\ (S \cup {c}) \ {c} = S
  BY FS_AddElement
<1>2. /\ Tally(e, S \cup {c}) = e[c] + Tally(e, (S \cup {c}) \ {c})
      /\ Tally(f, S) \in Nat
  BY <1>1, TallyOfNaturals
<1>3. Tally(e, S) = Tally(f, S)
  BY TallyAgree
<1>4. Tally(e, S \cup {c}) = e[c] + Tally(f, S)
  BY <1>1, <1>2, <1>3, Zenon
<1> QED
  BY <1>2, <1>4

LEMMA TallyDrop ==
  ASSUME NEW f, NEW e, NEW S, IsFiniteSet(S), NEW c \in S,
         \A x \in S : f[x] \in Nat, \A x \in S \ {c} : e[x] = f[x]
  PROVE  Tally(e, S \ {c}) = Tally(f, S) - f[c]
<1>0. \A x \in S : f[x] \in Nat
  OBVIOUS
<1>1. IsFiniteSet(S \ {c})
  BY FS_RemoveElement
<1>2. Tally(e, S \ {c}) = Tally(f, S \ {c})
  BY <1>1, TallyAgree
<1>3. Tally(f, S) = f[c] + Tally(f, S \ {c}) /\ Tally(f, S \ {c}) \in Nat
  <2>0. \A x \in S : Tally(f, S) = f[x] + Tally(f, S \ {x})
    BY <1>0, TallyOfNaturals
  <2>1. Tally(f, S) = f[c] + Tally(f, S \ {c})
    BY <2>0, Zenon
  <2>2. \A x \in S \ {c} : f[x] \in Nat
    BY <1>0, Zenon
  <2>3. Tally(f, S \ {c}) \in Nat
    BY <1>1, <2>2, TallyOfNaturals, Zenon
  <2> QED
    BY <2>1, <2>3, Zenon
<1> DEFINE rest == Tally(e, S \ {c})
           a == f[c]
<1>4. a \in Nat /\ Tally(f, S) = a + rest /\ rest \in Nat
  BY <1>2, <1>3, Zenon
<1> HIDE DEF rest, a
<1>5. rest = Tally(f, S) - a
  BY <1>4
<1> QED
  BY <1>5 DEF rest, a

LEMMA TallyMove ==
  ASSUME NEW f, NEW e, NEW S, IsFiniteSet(S), NEW c \in S,
         \A x \in S : f[x] \in Nat /\ e[x] \in Nat /\ (x # c => e[x] = f[x])
  PROVE  Tally(e, S) = Tally(f, S) + e[c] - f[c]
<1>0. (\A x \in S : f[x] \in Nat) /\ (\A x \in S : e[x] \in Nat)
  OBVIOUS
<1>1. IsFiniteSet(S \ {c})
  BY FS_RemoveElement
<1>2. Tally(e, S \ {c}) = Tally(f, S \ {c})
  BY <1>1, TallyAgree
<1>3. /\ Tally(e, S) = e[c] + Tally(e, S \ {c})
      /\ Tally(f, S) = f[c] + Tally(f, S \ {c}) /\ Tally(f, S \ {c}) \in Nat
  BY <1>0, <1>1, TallyOfNaturals
<1> DEFINE rest == Tally(f, S \ {c})
<1>4. Tally(e, S) = e[c] + rest /\ Tally(f, S) = f[c] + rest /\ rest \in Nat
  BY <1>2, <1>3, Zenon
<1> HIDE DEF rest
<1> QED
  BY <1>0, <1>4
---------------------------------------------------------------------------------
(* The arithmetic of a blank set. *)

\* Faces, and blank sets.
Triples == Nat \X Nat \X Nat

\* How far the ticket of a pool without blanks is above its target, times the
\* pool's weight; negative in a pool that is too heavy.
Gap(n, w, t) == WeightC * n - t * w

\* What one blank of face d takes off the gap.
Step(d, t) == t * WeightOf(d) - WeightC

\* The error a blank set leaves, blank by blank.
PriceError(n, w, f, t, b) ==
  b[1] * Step(f[1], t) + b[2] * Step(f[2], t) + b[3] * Step(f[3], t) - Gap(n, w, t)

LEMMA ScoreForm ==
  ASSUME NEW n \in Nat, NEW w \in Nat, NEW f \in Triples, NEW t \in Nat,
         \A i \in 1..3 : Weighable(f[i]), NEW b \in Triples
  PROVE  /\ PriceError(n, w, f, t, b) \in Int
         /\ Score(n, w, f, t, b) = IF PriceError(n, w, f, t, b) >= 0
                                   THEN PriceError(n, w, f, t, b)
                                   ELSE -PriceError(n, w, f, t, b)
<1>1. /\ WeightOf(f[1]) \in Nat /\ WeightOf(f[2]) \in Nat /\ WeightOf(f[3]) \in Nat
      /\ b[1] \in Nat /\ b[2] \in Nat /\ b[3] \in Nat /\ WeightC \in Nat
  BY WeightOfType, RebalanceAssumption DEF Triples
<1> DEFINE err == t * (w + BlankWeight(b, f)) - WeightC * (n + BlankCount(b))
           e == PriceError(n, w, f, t, b)
<1>2. e \in Int
  BY <1>1 DEF PriceError, Step, Gap
<1>3. err = e
  BY <1>1 DEF PriceError, Step, Gap, BlankWeight, BlankCount
<1>4. Score(n, w, f, t, b) = IF err >= 0 THEN err ELSE -err
  BY Zenon DEF Score
<1> HIDE DEF err, e
<1>5. Score(n, w, f, t, b) = IF e >= 0 THEN e ELSE -e
  BY <1>3, <1>4
<1> QED
  BY <1>2, <1>5 DEF e

\* The signed price error that k blanks of the middle face alone leave.
MiddleError(n, w, f, t, k) == k * Den2(f, t) - Gap(n, w, t)

\* The score of middle blanks alone.
LEMMA MiddleScore ==
  ASSUME NEW n \in Nat, NEW w \in Nat, NEW f \in Triples, NEW t \in Nat,
         \A i \in 1..3 : Weighable(f[i]), NEW k \in Nat
  PROVE  /\ MiddleError(n, w, f, t, k) \in Int
         /\ Score(n, w, f, t, <<0, k, 0>>) = IF MiddleError(n, w, f, t, k) >= 0
                                            THEN MiddleError(n, w, f, t, k)
                                            ELSE -MiddleError(n, w, f, t, k)
<1> DEFINE b == <<0, k, 0>>
           e == PriceError(n, w, f, t, b)
<1>1. b \in Triples /\ b[1] = 0 /\ b[2] = k /\ b[3] = 0
  BY DEF Triples
<1> HIDE DEF b
<1>2. e \in Int /\ Score(n, w, f, t, b) = IF e >= 0 THEN e ELSE -e
  <2> HIDE DEF e
  <2>1. b \in Triples
    BY <1>1
  <2>2. /\ PriceError(n, w, f, t, b) \in Int
        /\ Score(n, w, f, t, b) = IF PriceError(n, w, f, t, b) >= 0
                                  THEN PriceError(n, w, f, t, b)
                                  ELSE -PriceError(n, w, f, t, b)
    BY <2>1, ScoreForm
  <2> QED
    BY <2>2, Zenon DEF e
<1>3. e = k * Den2(f, t) - Gap(n, w, t)
  <2>1. /\ WeightOf(f[1]) \in Nat /\ WeightOf(f[2]) \in Nat /\ WeightOf(f[3]) \in Nat
        /\ WeightC \in Nat
    BY WeightOfType, RebalanceAssumption DEF Triples
  <2>2. /\ Step(f[1], t) \in Int /\ Step(f[3], t) \in Int /\ Step(f[2], t) \in Int
        /\ Den2(f, t) = Step(f[2], t) /\ Gap(n, w, t) \in Int
    BY <2>1 DEF Step, Den2, Gap
  <2> QED
    BY <1>1, <2>2 DEF PriceError
<1>4. MiddleError(n, w, f, t, k) = e
  BY <1>3 DEF MiddleError
<1> HIDE DEF e
<1> QED
  BY <1>2, <1>4 DEF b

\* The anchor is the number of whole middle blanks in the gap.
LEMMA AnchorBounds ==
  ASSUME NEW n \in Nat, NEW w \in Nat, NEW f \in Triples, NEW t \in Nat,
         \A i \in 1..3 : Weighable(f[i]), Den2(f, t) > 0
  PROVE  LET k == Anchor(n, w, f, t)
             D == Den2(f, t)
             g == Gap(n, w, t)
         IN  /\ g \in Int /\ D \in Nat \ {0} /\ k \in Nat
             /\ g <= 0 => k = 0
             /\ g > 0 => k * D <= g /\ g < k * D + D
<1> DEFINE k == Anchor(n, w, f, t)
           D == Den2(f, t)
           g == Gap(n, w, t)
           m == Deficit(n, w, t)
<1>1. WeightOf(f[2]) \in Nat /\ WeightC \in Nat
  BY WeightOfType, RebalanceAssumption DEF Triples
<1>2. g \in Int /\ D \in Nat \ {0}
  BY <1>1 DEF Gap, Den2
<1>3. m \in Nat /\ (g <= 0 => m = 0) /\ (g > 0 => m = g)
  BY <1>1 DEF Deficit, Gap
<1>4. k = m \div D
  BY DEF Anchor
<1> HIDE DEF k, D, g, m
<1>5. k \in Nat /\ k * D <= m /\ m < k * D + D
  BY <1>2, <1>3, <1>4
<1>6. m = 0 => k = 0
  BY <1>2, <1>4
<1> QED
  BY <1>2, <1>3, <1>5, <1>6 DEF k, D, g

\* What evaluate returns scores no worse than either anchor alone.
LEMMA BestBeatsAnchors ==
  ASSUME NEW n \in Nat \ {0}, NEW w \in Nat, NEW f \in Triples, NEW t \in Nat,
         CanEvaluate(n, w, f, t)
  PROVE  LET k == Anchor(n, w, f, t)
             best == Evaluate(n, w, f, t)
         IN  /\ Score(n, w, f, t, best) \in Nat
             /\ Score(n, w, f, t, best) <= Score(n, w, f, t, <<0, k, 0>>)
             /\ Score(n, w, f, t, best) <= Score(n, w, f, t, <<0, k + 1, 0>>)
<1> DEFINE k == Anchor(n, w, f, t)
           C == {0, 1} \X {k, k + 1} \X {0, 1}
           best == Evaluate(n, w, f, t)
<1>1. /\ k \in Nat /\ best \in C
      /\ \A d \in C : d = best \/ Better(n, w, f, t, best, d)
  BY EvaluateBest DEF Triples
<1>2. \A i \in 1..3 : Weighable(f[i])
  BY DEF CanEvaluate
<1> HIDE DEF k, best
<1>3. ASSUME NEW b \in Triples PROVE Score(n, w, f, t, b) \in Nat
  <2> DEFINE e == PriceError(n, w, f, t, b)
  <2>1. n \in Nat
    OBVIOUS
  <2>2. e \in Int /\ Score(n, w, f, t, b) = IF e >= 0 THEN e ELSE -e
    BY <1>2, <2>1, ScoreForm
  <2> HIDE DEF e
  <2> QED
    BY <2>2
<1>4. ASSUME NEW d \in C PROVE Score(n, w, f, t, best) <= Score(n, w, f, t, d)
  <2>1. best \in Triples /\ d \in Triples
    BY <1>1 DEF Triples
  <2>2. d = best \/ Score(n, w, f, t, best) <= Score(n, w, f, t, d)
    BY <1>1, <1>3, <2>1 DEF Better
  <2> QED
    BY <1>3, <2>1, <2>2
<1>5. <<0, k, 0>> \in C /\ <<0, k + 1, 0>> \in C /\ best \in Triples
  BY <1>1 DEF Triples
<1> QED
  BY <1>3, <1>4, <1>5 DEF k, best

\* With the gap positive, two neighbouring multiples of one step lie about it.
LEMMA GapArithmetic ==
  ASSUME NEW g \in Int, NEW D \in Nat \ {0}, NEW k \in Nat, g > 0, k * D <= g, g < k * D + D
  PROVE  /\ k * D - g \in Int /\ (k + 1) * D - g \in Int
         /\ k * D - g <= 0 /\ (k + 1) * D - g > 0
         /\ (k + 1) * D - g = (k * D - g) + D
         /\ \A j \in Nat : \/ j * D - g <= k * D - g
                           \/ j * D - g >= (k + 1) * D - g
<1>1. k * D \in Nat /\ (k + 1) * D = k * D + D
  OBVIOUS
<1>2. ASSUME NEW j \in Nat
      PROVE  j * D - g <= k * D - g \/ j * D - g >= (k + 1) * D - g
  <2>1. j * D \in Nat
    OBVIOUS
  <2>2. CASE j <= k
    <3>1. j * D <= k * D
      BY <2>2
    <3> QED
      BY <1>1, <2>1, <3>1
  <2>3. CASE j >= k + 1
    <3>1. j * D >= (k + 1) * D
      BY <2>3
    <3> QED
      BY <1>1, <2>1, <3>1
  <2> QED
    BY <2>2, <2>3
<1> QED
  BY <1>1, <1>2

\* What the controller leaves in a pool that holds something.
LEMMA BestPrice ==
  ASSUME NEW n \in Nat \ {0}, NEW w \in Nat, NEW f \in Triples, NEW t \in Nat,
         CanEvaluate(n, w, f, t)
  PROVE  LET best == Score(n, w, f, t, Evaluate(n, w, f, t))
         IN  /\ best \in Nat /\ Den2(f, t) \in Nat \ {0}
             /\ Gap(n, w, t) > 0 => 2 * best <= Den2(f, t)
             /\ \A j \in Nat : best <= Score(n, w, f, t, <<0, j, 0>>)
<1> DEFINE best == Score(n, w, f, t, Evaluate(n, w, f, t))
           k == Anchor(n, w, f, t)
           D == Den2(f, t)
           g == Gap(n, w, t)
           S(j) == Score(n, w, f, t, <<0, j, 0>>)
<1>0. n \in Nat /\ n # 0
  OBVIOUS
<1>1. (\A i \in 1..3 : Weighable(f[i])) /\ Den2(f, t) > 0
  BY <1>0 DEF CanEvaluate
<1>2. /\ g \in Int /\ D \in Nat \ {0} /\ k \in Nat
      /\ g <= 0 => k = 0
      /\ g > 0 => k * D <= g /\ g < k * D + D
  BY <1>0, <1>1, AnchorBounds
<1>3. best \in Nat /\ best <= S(k) /\ best <= S(k + 1)
  BY BestBeatsAnchors
<1>4. \A j \in Nat : /\ j * D - g \in Int
                     /\ S(j) = IF j * D - g >= 0 THEN j * D - g ELSE -(j * D - g)
  <2> SUFFICES ASSUME NEW j \in Nat
               PROVE  /\ MiddleError(n, w, f, t, j) \in Int
                      /\ S(j) = IF MiddleError(n, w, f, t, j) >= 0
                               THEN MiddleError(n, w, f, t, j)
                               ELSE -MiddleError(n, w, f, t, j)
    BY DEF MiddleError
  <2> QED
    BY <1>0, <1>1, MiddleScore
<1> HIDE DEF best, k, D, g, S
<1>5. CASE g <= 0
  <2>1. k = 0 /\ 0 * D = 0
    BY <1>2, <1>5
  <2>2. ASSUME NEW j \in Nat PROVE best <= S(j)
    <3>1. j * D \in Nat
      BY <1>2
    <3>2. S(j) = j * D - g /\ S(0) = 0 - g
      BY <1>2, <1>4, <1>5, <2>1, <3>1
    <3> QED
      BY <1>2, <1>3, <2>1, <3>1, <3>2
  <2> QED
    BY <1>2, <1>3, <1>5, <2>2 DEF best, D, g, S
<1>6. CASE g > 0
  <2> DEFINE a == k * D - g
             b == (k + 1) * D - g
  <2>1. /\ a \in Int /\ b \in Int /\ a <= 0 /\ b > 0 /\ b = a + D
        /\ \A j \in Nat : j * D - g <= a \/ j * D - g >= b
    BY <1>2, <1>6, GapArithmetic
  <2>2. k + 1 \in Nat
    BY <1>2
  <2>3. /\ S(k) = IF a >= 0 THEN a ELSE -a
        /\ S(k + 1) = IF b >= 0 THEN b ELSE -b
    BY <1>2, <1>4, <2>2
  <2> HIDE DEF a, b
  <2>4. S(k) = -a /\ S(k + 1) = b
    BY <2>1, <2>3
  <2>5. 2 * best <= D
    BY <1>2, <1>3, <2>1, <2>4
  <2>6. ASSUME NEW j \in Nat PROVE best <= S(j)
    <3> DEFINE c == j * D - g
    <3>1. c \in Int /\ S(j) = (IF c >= 0 THEN c ELSE -c) /\ (c <= a \/ c >= b)
      BY <1>4, <2>1
    <3> HIDE DEF c
    <3> QED
      BY <1>3, <2>1, <2>4, <3>1
  <2> QED
    BY <1>2, <1>3, <2>5, <2>6 DEF best, D, g, S
<1> QED
  BY <1>2, <1>5, <1>6

\* Below the root of WeightC the floor division of the weight loses less than one
\* unit of ticket gains.
LEMMA SmallFaceGains ==
  ASSUME NEW d \in Nat \ {0}, NEW t \in Nat, d < t, d * d <= WeightC
  PROVE  t * WeightOf(d) > WeightC
<1> DEFINE q == WeightC \div d
           r == WeightC % d
<1>1. WeightC \in Nat
  BY RebalanceAssumption
<1>2. q \in Nat /\ r \in Nat /\ r < d /\ WeightC = d * q + r
  BY <1>1
<1> HIDE DEF q, r
<1>3. q >= d
  <2> SUFFICES ASSUME q < d PROVE FALSE
    BY <1>2
  <2>1. d * q + d <= d * d
    BY <1>2
  <2> QED
    BY <1>2, <2>1
<1>4. t * q >= d * q + q
  BY <1>2
<1>5. t * q > WeightC
  BY <1>2, <1>3, <1>4
<1> QED
  BY <1>5 DEF q, WeightOf

\* A blank set's error against that of no blanks, when every blank would only add
\* to it.
LEMMA HeavyOrder ==
  ASSUME NEW a \in Nat, NEW b \in Nat, NEW c \in Nat,
         NEW p \in Nat, NEW q \in Nat, NEW r \in Nat, NEW g \in Int, g <= 0
  PROVE  /\ a * p + b * q + c * r - g \in Nat
         /\ 0 - g <= a * p + b * q + c * r - g
         /\ 0 * p + 0 * q + 0 * r - g = 0 - g
<1>1. a * p \in Nat /\ b * q \in Nat /\ c * r \in Nat
  OBVIOUS
<1>2. 0 * p = 0 /\ 0 * q = 0 /\ 0 * r = 0
  OBVIOUS
<1> QED
  BY <1>1, <1>2

\* A pool already too heavy gets no blanks: every blank would move the price further,
\* and no candidate but the empty one keeps the score.
LEMMA HeavyBest ==
  ASSUME NEW n \in Nat, NEW w \in Nat, NEW f \in Triples, NEW t \in Nat,
         CanEvaluate(n, w, f, t), t * w >= WeightC * n,
         \A i \in 1..3 : t * WeightOf(f[i]) > WeightC
  PROVE  Evaluate(n, w, f, t) = NoBlanks
<1> DEFINE best == Evaluate(n, w, f, t)
           k == Anchor(n, w, f, t)
           g == Gap(n, w, t)
           p == Step(f[1], t)
           q == Step(f[2], t)
           r == Step(f[3], t)
           s(b) == Score(n, w, f, t, b)
           e(b) == PriceError(n, w, f, t, b)
<1>1. CASE n = 0
  BY <1>1 DEF Evaluate
<1>2. CASE n # 0
  <2>1. \A i \in 1..3 : Weighable(f[i]) /\ WeightOf(f[i]) \in Nat
    BY <1>2, WeightOfType DEF CanEvaluate, Triples
  <2>2. WeightC \in Nat
    BY RebalanceAssumption
  <2>3. p \in Nat /\ q \in Nat /\ r \in Nat
    BY <2>1, <2>2 DEF Step
  <2>4. g \in Int /\ g <= 0
    BY <2>2 DEF Gap
  <2>5. k = 0
    <3>1. Den2(f, t) > 0
      BY <1>2 DEF CanEvaluate
    <3> QED
      BY <2>1, <2>4, <3>1, AnchorBounds
  <2>6. /\ best \in {0, 1} \X {k, k + 1} \X {0, 1}
        /\ \A d \in {0, 1} \X {k, k + 1} \X {0, 1} : d = best \/ Better(n, w, f, t, best, d)
    BY <1>2, EvaluateBest DEF Triples
  <2>7. ASSUME NEW b \in Triples
        PROVE  e(b) \in Int /\ s(b) = IF e(b) >= 0 THEN e(b) ELSE -e(b)
    BY <2>1, ScoreForm
  <2>8. ASSUME NEW b \in Triples
        PROVE  e(b) = b[1] * p + b[2] * q + b[3] * r - g
    BY DEF PriceError
  <2> HIDE DEF best, k, g, p, q, r, s, e
  <2>9. /\ best \in Triples /\ NoBlanks \in Triples
        /\ NoBlanks \in {0, 1} \X {k, k + 1} \X {0, 1}
        /\ best[1] \in Nat /\ best[2] \in Nat /\ best[3] \in Nat
        /\ NoBlanks[1] = 0 /\ NoBlanks[2] = 0 /\ NoBlanks[3] = 0
    BY <2>5, <2>6 DEF Triples, NoBlanks
  <2>10. e(best) \in Nat /\ 0 - g <= e(best) /\ e(NoBlanks) = 0 - g
    <3> DEFINE x == best[1] * p + best[2] * q + best[3] * r - g
    <3>1. e(best) = x
      BY <2>8, <2>9
    <3>2. e(NoBlanks) = 0 * p + 0 * q + 0 * r - g
      BY <2>8, <2>9
    <3>3. x \in Nat /\ 0 - g <= x /\ 0 * p + 0 * q + 0 * r - g = 0 - g
      BY <2>3, <2>4, <2>9, HeavyOrder
    <3> HIDE DEF x
    <3> QED
      BY <3>1, <3>2, <3>3
  <2>11. s(best) \in Nat /\ s(NoBlanks) \in Nat /\ s(NoBlanks) <= s(best)
    BY <2>4, <2>7, <2>9, <2>10
  <2>12. ~Better(n, w, f, t, best, NoBlanks)
    <3>1. /\ BlankCount(NoBlanks) = 0 /\ BlankCount(best) \in Nat
      BY <2>9 DEF BlankCount
    <3>2. ~(s(best) < s(NoBlanks))
      BY <2>11
    <3>3. ~(BlankCount(best) < BlankCount(NoBlanks))
      BY <3>1
    <3>4. ~(best[1] < NoBlanks[1]) /\ ~(best[3] < NoBlanks[3])
      BY <2>9
    <3> QED
      BY <3>2, <3>3, <3>4 DEF Better, s
  <2> QED
    BY <2>6, <2>9, <2>12, Zenon DEF best
<1> QED
  BY <1>1, <1>2

\* A quotient stays below the factor that bounds its dividend.
LEMMA QuotientFits ==
  ASSUME NEW a \in Nat, NEW b \in Nat, b > 0, NEW m \in Nat, a < m * b
  PROVE  a \div b + 1 <= m
<1>1. a \div b \in Nat /\ (a \div b) * b <= a
  OBVIOUS
<1> DEFINE q == a \div b
<1>2. q \in Nat /\ q * b < m * b
  BY <1>1
<1> HIDE DEF q
<1>3. ~(q >= m)
  <2> SUFFICES ASSUME q >= m PROVE q * b >= m * b
    BY <1>2
  <2> DEFINE d == q - m
  <2>1. d \in Nat /\ q = m + d
    BY <1>2
  <2>2. q * b = m * b + d * b /\ d * b \in Nat
    BY <2>1
  <2> QED
    BY <2>2
<1>4. q + 1 <= m
  BY <1>2, <1>3
<1> QED
  BY <1>4 DEF q

\* The controller grants any books of no more than m cards when the u32 it counts
\* blanks in holds what m cards that weigh nothing would need.
LEMMA BoundGrants ==
  ASSUME NEW n \in Nat, NEW m \in Nat, n <= m, NEW w \in Nat, NEW f \in Triples, NEW t \in Nat,
         \A i \in 1..3 : Weighable(f[i]), Den2(f, t) > 0,
         m * WeightC < MaxCount * Den2(f, t)
  PROVE  CanEvaluate(n, w, f, t)
<1> DEFINE den == Den2(f, t)
           deficit == Deficit(n, w, t)
<1>1. WeightC \in Nat \ {0} /\ MaxCount \in Nat
  BY RebalanceAssumption
<1>2. den \in Nat
  <2>1. WeightOf(f[2]) \in Nat
    BY WeightOfType DEF Triples
  <2>2. t * WeightOf(f[2]) \in Nat
    BY <2>1
  <2> QED
    BY <1>1, <2>2 DEF Den2
<1>3. n * WeightC \in Nat /\ m * WeightC \in Nat /\ n * WeightC <= m * WeightC
  BY <1>1
<1>4. deficit \in Nat /\ deficit <= n * WeightC
  <2>1. t * w \in Nat
    OBVIOUS
  <2> QED
    BY <1>3, <2>1 DEF Deficit
<1>5. MaxCount * den \in Nat
  BY <1>1, <1>2
<1> HIDE DEF den, deficit
<1>6. deficit < MaxCount * den
  BY <1>3, <1>4, <1>5 DEF den
<1>7. deficit \div den + 1 <= MaxCount
  BY <1>1, <1>2, <1>4, <1>6, QuotientFits DEF den
<1> QED
  BY <1>7 DEF CanEvaluate, Anchor, den, deficit
=================================================================================
