------------------------------- MODULE TierProofs -------------------------------
(***************************************************************************)
(* The top tier of a pool, for every value of the constants: its entries    *)
(* stay ranked and stay the entries of the flagged positions, whatever is   *)
(* seated, refreshed, displaced, cut off or left vacant.  With the books    *)
(* and the slots of PoolProofs, it follows that no exit is refused.         *)
(***************************************************************************)
EXTENDS PoolProofs

\* A sequence of entries, as the set it seats and the order it seats them in.
Seated(entries) == {entries[i] : i \in 1..Len(entries)}
Ranked(entries) ==
  \A i, j \in 1..Len(entries) : i < j => Outranks(entries[i], entries[j])

\* No two entries are of one position.
OneEach(entries) == \A e, f \in Seated(entries) : e.position = f.position => e = f

\* Outranks is a strict order, total wherever ids differ.
LEMMA OutranksOrders ==
  ASSUME NEW a \in TierEntry, NEW b \in TierEntry
  PROVE  /\ ~Outranks(a, a)
         /\ Outranks(a, b) => ~Outranks(b, a)
         /\ a.position_id # b.position_id => Outranks(a, b) \/ Outranks(b, a)
         /\ \A c \in TierEntry : Outranks(a, b) /\ Outranks(b, c) => Outranks(a, c)
BY DEF TierEntry, Outranks

LEMMA SeatedTyped ==
  ASSUME NEW E, NEW entries \in Seq(E)
  PROVE  /\ Len(entries) \in Nat
         /\ Seated(entries) \subseteq E
         /\ Holders(entries) = {e.position : e \in Seated(entries)}
<1>1. Len(entries) \in Nat /\ \A i \in 1..Len(entries) : entries[i] \in E
  BY LenProperties, ElementOfSeq
<1> QED
  BY <1>1 DEF Seated, Holders

\* The part of a ranked sequence before a place is ranked.
LEMMA CutRanks ==
  ASSUME NEW E, NEW entries \in Seq(E), NEW n \in 0..Len(entries)
  PROVE  /\ SubSeq(entries, 1, n) \in Seq(E)
         /\ Len(SubSeq(entries, 1, n)) = n
         /\ \A i \in 1..n : SubSeq(entries, 1, n)[i] = entries[i]
         /\ Seated(SubSeq(entries, 1, n)) = {entries[i] : i \in 1..n}
         /\ Ranked(entries) => Ranked(SubSeq(entries, 1, n))
<1>0. Len(entries) \in Nat /\ \A i \in 1..Len(entries) : entries[i] \in E
  BY LenProperties, ElementOfSeq
<1>1. n \in Nat /\ n <= Len(entries) /\ \A i \in 1..n : entries[i] \in E
  BY <1>0
<1> DEFINE s == SubSeq(entries, 1, n)
<1>2. /\ s \in Seq(E) /\ Len(s) = IF 1 <= n THEN n - 1 + 1 ELSE 0
      /\ \A i \in 1..n-1+1 : s[i] = entries[1 + i - 1]
  BY <1>1, SubSeqProperties
<1> HIDE DEF s
<1>3. Len(s) = n /\ n - 1 + 1 = n /\ \A i \in 1..n : 1 + i - 1 = i
  BY <1>1, <1>2
<1>4. \A i \in 1..n : s[i] = entries[i]
  BY <1>2, <1>3
<1>5. Seated(s) = {entries[i] : i \in 1..n}
  BY <1>3, <1>4 DEF Seated
<1>6. Ranked(entries) => Ranked(s)
  BY <1>0, <1>1, <1>3, <1>4 DEF Ranked
<1> QED
  BY <1>2, <1>3, <1>4, <1>5, <1>6 DEF s

\* What promote leaves at each place.
LEMMA SeatShape ==
  ASSUME NEW E, NEW entries \in Seq(E), NEW c \in E
  PROVE  \E k \in 0..Len(entries) :
           /\ SeatedBehind(entries, c, k)
           /\ Len(Seat(entries, c)) = Len(entries) + 1
           /\ \A i \in 1..Len(entries) + 1 :
                Seat(entries, c)[i] = IF i <= k THEN entries[i]
                                      ELSE IF i = k + 1 THEN c ELSE entries[i - 1]
<1> DEFINE k == CHOOSE j \in 0..Len(entries) : SeatedBehind(entries, c, j)
<1>0. Len(entries) \in Nat /\ \A i \in 1..Len(entries) : entries[i] \in E
  BY LenProperties, ElementOfSeq
<1>1. k \in 0..Len(entries) /\ SeatedBehind(entries, c, k)
  BY SeatExists
<1>2. Seat(entries, c) = SubSeq(entries, 1, k) \o <<c>> \o SubSeq(entries, k+1, Len(entries))
  BY Zenon DEF Seat
<1> HIDE DEF k
<1> DEFINE a == SubSeq(entries, 1, k)
           b == SubSeq(entries, k+1, Len(entries))
<1>3. k \in Nat /\ k + 1 \in Int /\ Len(entries) \in Int /\ k <= Len(entries)
  BY <1>0, <1>1
<1>4. a \in Seq(E) /\ Len(a) = k /\ \A i \in 1..k : a[i] = entries[i]
  BY <1>1, CutRanks
<1>5. b \in Seq(E) /\ Len(b) = Len(entries) - k
  BY <1>0, <1>3, SubSeqProperties
<1>6. \A i \in 1..Len(entries) - k : b[i] = entries[k + i]
  <2>1. \A i \in 1..Len(entries) - (k+1) + 1 : b[i] = entries[k+1 + i - 1]
    BY <1>0, <1>3, SubSeqProperties
  <2> HIDE DEF b
  <2> SUFFICES ASSUME NEW i \in 1..Len(entries) - k PROVE b[i] = entries[k + i]
    OBVIOUS
  <2>2. i \in 1..Len(entries) - (k+1) + 1 /\ k+1 + i - 1 = k + i
    BY <1>0, <1>3
  <2> QED
    BY <2>1, <2>2, Zenon
<1> HIDE DEF a, b
<1>7. <<c>> \in Seq(E) /\ Len(<<c>>) = 1 /\ <<c>>[1] = c
  OBVIOUS
<1> DEFINE ac == a \o <<c>>
<1>8. ac \in Seq(E) /\ Len(ac) = k + 1
      /\ \A i \in 1..k + 1 : ac[i] = IF i <= k THEN a[i] ELSE <<c>>[i - k]
  BY <1>3, <1>4, <1>7, ConcatProperties
<1> HIDE DEF ac
<1>9. /\ Len(ac \o b) = Len(ac) + Len(b)
      /\ \A i \in 1..Len(ac) + Len(b) :
           (ac \o b)[i] = IF i <= Len(ac) THEN ac[i] ELSE b[i - Len(ac)]
  BY <1>5, <1>8, ConcatProperties
<1>10. Len(ac) = k + 1 /\ Len(ac) + Len(b) = Len(entries) + 1
  BY <1>3, <1>5, <1>8
<1>11. Seat(entries, c) = ac \o b
  BY <1>2 DEF a, b, ac
<1>12. ASSUME NEW i \in 1..Len(entries) + 1
       PROVE  (ac \o b)[i] = IF i <= k THEN entries[i]
                             ELSE IF i = k + 1 THEN c ELSE entries[i - 1]
  <2>1. CASE i <= k
    BY <1>3, <1>4, <1>8, <1>9, <1>10, <2>1
  <2>2. CASE i = k + 1
    BY <1>3, <1>7, <1>8, <1>9, <1>10, <2>2
  <2>3. CASE i > k + 1
    <3>1. (ac \o b)[i] = b[i - (k + 1)] /\ i - (k + 1) \in 1..Len(entries) - k
      BY <1>3, <1>9, <1>10, <2>3
    <3>2. k + (i - (k + 1)) = i - 1
      BY <1>3
    <3> QED
      BY <1>3, <1>6, <2>3, <3>1, <3>2
  <2>4. i <= k \/ i = k + 1 \/ i > k + 1
    BY <1>0, <1>3
  <2> QED
    BY <2>1, <2>2, <2>3, <2>4, Zenon
<1> QED
  BY <1>1, <1>9, <1>10, <1>11, <1>12

\* Seating an entry whose id is new keeps the order and adds exactly that entry.
LEMMA SeatRanks ==
  ASSUME NEW entries \in Seq(TierEntry), NEW c \in TierEntry
  PROVE  /\ Seated(Seat(entries, c)) = Seated(entries) \cup {c}
         /\ /\ Ranked(entries)
            /\ \A e \in Seated(entries) : e.position_id # c.position_id
            => Ranked(Seat(entries, c))
<1>0. Len(entries) \in Nat /\ \A i \in 1..Len(entries) : entries[i] \in TierEntry
  BY LenProperties, ElementOfSeq
<1>a. PICK k \in 0..Len(entries) :
        /\ SeatedBehind(entries, c, k)
        /\ Len(Seat(entries, c)) = Len(entries) + 1
        /\ \A i \in 1..Len(entries) + 1 :
             Seat(entries, c)[i] = IF i <= k THEN entries[i]
                                   ELSE IF i = k + 1 THEN c ELSE entries[i - 1]
  BY SeatShape, SMTT(30)
<1> DEFINE s == Seat(entries, c)
<1>1. /\ SeatedBehind(entries, c, k)
      /\ Len(s) = Len(entries) + 1
      /\ \A i \in 1..Len(entries) + 1 :
           s[i] = IF i <= k THEN entries[i] ELSE IF i = k + 1 THEN c ELSE entries[i - 1]
  BY <1>a, Zenon
<1> HIDE DEF s
<1>2. Seated(s) = Seated(entries) \cup {c}
  <2>1. ASSUME NEW i \in 1..Len(s) PROVE s[i] \in Seated(entries) \cup {c}
    <3>1. i <= k \/ i = k + 1 \/ (i > k + 1 /\ i - 1 \in 1..Len(entries))
      BY <1>0, <1>1
    <3> QED
      BY <1>0, <1>1, <3>1 DEF Seated
  <2>2. c \in Seated(s)
    <3>1. k + 1 \in 1..Len(s) /\ ~(k + 1 <= k)
      BY <1>0, <1>1
    <3>2. s[k + 1] = c
      BY <1>1, <3>1
    <3> QED
      BY <3>1, <3>2 DEF Seated
  <2>3. ASSUME NEW i \in 1..Len(entries) PROVE entries[i] \in Seated(s)
    <3>1. CASE i <= k
      <4>1. i \in 1..Len(s) /\ s[i] = entries[i]
        BY <1>0, <1>1, <3>1
      <4> QED
        BY <4>1 DEF Seated
    <3>2. CASE ~(i <= k)
      <4>1. i + 1 \in 1..Len(s) /\ ~(i + 1 <= k) /\ i + 1 # k + 1 /\ (i + 1) - 1 = i
        BY <1>0, <1>1, <3>2
      <4>2. s[i + 1] = entries[i]
        BY <1>1, <4>1
      <4> QED
        BY <4>1, <4>2 DEF Seated
    <3> QED
      BY <3>1, <3>2
  <2> QED
    BY <2>1, <2>2, <2>3 DEF Seated
<1>3. ASSUME Ranked(entries), \A e \in Seated(entries) : e.position_id # c.position_id
      PROVE  Ranked(s)
  <2>1. ASSUME NEW i \in 1..k PROVE Outranks(entries[i], c)
    <3>1. k \in 1..Len(entries) /\ i \in 1..Len(entries)
      BY <1>0, <1>1
    <3>2. ~Outranks(c, entries[k]) /\ entries[k] \in TierEntry
      BY <1>0, <1>1, <3>1 DEF SeatedBehind
    <3>3. entries[k].position_id # c.position_id
      BY <1>3, <3>1 DEF Seated
    <3>4. Outranks(entries[k], c)
      BY <3>2, <3>3, OutranksOrders
    <3>5. i = k \/ Outranks(entries[i], entries[k])
      BY <1>0, <1>3, <3>1 DEF Ranked
    <3> QED
      BY <1>0, <3>1, <3>4, <3>5, OutranksOrders
  <2>2. \A i \in k+1..Len(entries) : Outranks(c, entries[i])
    BY <1>1 DEF SeatedBehind
  <2> SUFFICES ASSUME NEW i \in 1..Len(s), NEW j \in 1..Len(s), i < j
               PROVE  Outranks(s[i], s[j])
    BY DEF Ranked
  <2>3. i \in 1..Len(entries) + 1 /\ j \in 1..Len(entries) + 1
    BY <1>1
  <2>4. CASE j <= k
    <3>1. i \in 1..Len(entries) /\ j \in 1..Len(entries) /\ i <= k
      BY <1>0, <1>1, <2>4
    <3> QED
      BY <1>1, <1>3, <2>3, <2>4, <3>1 DEF Ranked
  <2>5. CASE j = k + 1
    <3>1. i \in 1..k /\ i <= k /\ ~(j <= k)
      BY <1>0, <1>1, <2>5
    <3> QED
      BY <1>1, <2>1, <2>3, <2>5, <3>1
  <2>6. CASE j > k + 1 /\ i <= k
    <3>1. i \in 1..Len(entries) /\ j - 1 \in 1..Len(entries) /\ i < j - 1
          /\ ~(j <= k) /\ j # k + 1
      BY <1>0, <1>1, <2>3, <2>6
    <3> QED
      BY <1>1, <1>3, <2>3, <2>6, <3>1 DEF Ranked
  <2>7. CASE j > k + 1 /\ i = k + 1
    <3>1. j - 1 \in k+1..Len(entries) /\ ~(j <= k) /\ j # k + 1 /\ ~(i <= k)
      BY <1>0, <1>1, <2>3, <2>7
    <3> QED
      BY <1>1, <2>2, <2>3, <2>7, <3>1
  <2>8. CASE j > k + 1 /\ i > k + 1
    <3>1. /\ i - 1 \in 1..Len(entries) /\ j - 1 \in 1..Len(entries) /\ i - 1 < j - 1
          /\ ~(j <= k) /\ j # k + 1 /\ ~(i <= k) /\ i # k + 1
      BY <1>0, <1>1, <2>3, <2>8
    <3> QED
      BY <1>1, <1>3, <2>3, <3>1 DEF Ranked
  <2> QED
    BY <1>0, <1>1, <2>3, <2>4, <2>5, <2>6, <2>7, <2>8
<1> QED
  BY <1>2, <1>3 DEF s

\* In a ranked tier with one entry for each position, no position sits twice.
LEMMA OneSeatEach ==
  ASSUME NEW entries \in Seq(TierEntry), Ranked(entries), OneEach(entries),
         NEW i \in 1..Len(entries), NEW j \in 1..Len(entries),
         entries[i].position = entries[j].position
  PROVE  i = j
<1>1. Len(entries) \in Nat /\ \A h \in 1..Len(entries) : entries[h] \in TierEntry
  BY LenProperties, ElementOfSeq
<1>2. entries[i] = entries[j]
  BY DEF OneEach, Seated
<1>3. ~(i < j) /\ ~(j < i)
  BY <1>1, <1>2, OutranksOrders DEF Ranked
<1> QED
  BY <1>1, <1>3

\* What demote leaves at each place.
LEMMA DemoteShape ==
  ASSUME NEW E, NEW entries \in Seq(E), NEW p, p \in Holders(entries)
  PROVE  \E k \in 1..Len(entries) :
           /\ entries[k].position = p
           /\ Demote(entries, p) \in Seq(E)
           /\ Len(Demote(entries, p)) = Len(entries) - 1
           /\ \A i \in 1..Len(entries) - 1 :
                Demote(entries, p)[i] = IF i < k THEN entries[i] ELSE entries[i + 1]
<1> DEFINE First(j) == /\ entries[j].position = p
                       /\ \A h \in 1..j-1 : entries[h].position # p
           k == CHOOSE j \in 1..Len(entries) : First(j)
           T == {j \in 1..Len(entries) : entries[j].position = p}
<1>0. Len(entries) \in Nat /\ \A j \in 1..Len(entries) : entries[j] \in E
  BY LenProperties, ElementOfSeq
<1>1. T \subseteq Nat /\ T # {}
  BY <1>0 DEF Holders
<1>2. PICK m \in T : \A n \in T : m <= n
  BY <1>1, LeastNatural
<1>3. m \in 1..Len(entries) /\ First(m)
  BY <1>0, <1>2
<1>4. k \in 1..Len(entries) /\ entries[k].position = p
  BY <1>3
<1>5. Demote(entries, p) = SubSeq(entries, 1, k-1) \o SubSeq(entries, k+1, Len(entries))
  BY Zenon DEF Demote, k, First
<1> HIDE DEF k
<1> DEFINE a == SubSeq(entries, 1, k-1)
           b == SubSeq(entries, k+1, Len(entries))
<1>6. k \in Nat /\ k - 1 \in 0..Len(entries) /\ k + 1 \in Int /\ Len(entries) \in Int
      /\ k <= Len(entries)
  BY <1>0, <1>4
<1>7. a \in Seq(E) /\ Len(a) = k - 1 /\ \A i \in 1..k-1 : a[i] = entries[i]
  BY <1>6, CutRanks
<1>8. b \in Seq(E) /\ Len(b) = Len(entries) - k
  BY <1>0, <1>6, SubSeqProperties
<1>9. \A i \in 1..Len(entries) - k : b[i] = entries[k + i]
  <2>1. \A i \in 1..Len(entries) - (k+1) + 1 : b[i] = entries[k+1 + i - 1]
    BY <1>0, <1>6, SubSeqProperties
  <2> HIDE DEF b
  <2> SUFFICES ASSUME NEW i \in 1..Len(entries) - k PROVE b[i] = entries[k + i]
    OBVIOUS
  <2>2. i \in 1..Len(entries) - (k+1) + 1 /\ k+1 + i - 1 = k + i
    BY <1>0, <1>6
  <2> QED
    BY <2>1, <2>2, Zenon
<1> HIDE DEF a, b
<1>10. /\ a \o b \in Seq(E)
       /\ Len(a \o b) = Len(a) + Len(b)
       /\ \A i \in 1..Len(a) + Len(b) :
            (a \o b)[i] = IF i <= Len(a) THEN a[i] ELSE b[i - Len(a)]
  BY <1>7, <1>8, ConcatProperties
<1>11. Len(a) = k - 1 /\ Len(a) + Len(b) = Len(entries) - 1
  BY <1>6, <1>7, <1>8
<1>12. ASSUME NEW i \in 1..Len(entries) - 1
       PROVE  (a \o b)[i] = IF i < k THEN entries[i] ELSE entries[i + 1]
  <2>1. CASE i < k
    BY <1>6, <1>7, <1>10, <1>11, <2>1
  <2>2. CASE ~(i < k)
    <3>1. (a \o b)[i] = b[i - (k - 1)] /\ i - (k - 1) \in 1..Len(entries) - k
      BY <1>6, <1>10, <1>11, <2>2
    <3>2. k + (i - (k - 1)) = i + 1
      BY <1>6
    <3> QED
      BY <1>9, <2>2, <3>1, <3>2, Zenon
  <2> QED
    BY <2>1, <2>2, Zenon
<1>13. Demote(entries, p) = a \o b
  BY <1>5 DEF a, b
<1> QED
  BY <1>4, <1>10, <1>11, <1>12, <1>13

\* demote keeps the order and takes out exactly the entry of its position.
LEMMA DemoteRanks ==
  ASSUME NEW entries \in Seq(TierEntry), Ranked(entries), OneEach(entries),
         NEW p \in Holders(entries)
  PROVE  /\ Seated(Demote(entries, p)) = {e \in Seated(entries) : e.position # p}
         /\ Ranked(Demote(entries, p))
         /\ OneEach(Demote(entries, p))
<1>0. Len(entries) \in Nat /\ \A i \in 1..Len(entries) : entries[i] \in TierEntry
  BY LenProperties, ElementOfSeq
<1>a. PICK k \in 1..Len(entries) :
        /\ entries[k].position = p
        /\ Demote(entries, p) \in Seq(TierEntry)
        /\ Len(Demote(entries, p)) = Len(entries) - 1
        /\ \A i \in 1..Len(entries) - 1 :
             Demote(entries, p)[i] = IF i < k THEN entries[i] ELSE entries[i + 1]
  BY DemoteShape, SMTT(30)
<1> DEFINE s == Demote(entries, p)
<1>1. /\ entries[k].position = p
      /\ Len(s) = Len(entries) - 1
      /\ \A i \in 1..Len(entries) - 1 : s[i] = IF i < k THEN entries[i] ELSE entries[i + 1]
  BY <1>a, Zenon
<1> HIDE DEF s
<1>2. Seated(s) = {e \in Seated(entries) : e.position # p}
  <2>1. ASSUME NEW i \in 1..Len(s)
        PROVE  s[i] \in Seated(entries) /\ s[i].position # p
    <3> DEFINE j == IF i < k THEN i ELSE i + 1
    <3>1. j \in 1..Len(entries) /\ j # k /\ i \in 1..Len(entries) - 1
      BY <1>0, <1>1
    <3>2. s[i] = entries[j]
      BY <1>1, <3>1
    <3> HIDE DEF j
    <3>3. entries[j].position # p
      BY <1>1, <3>1, OneSeatEach
    <3> QED
      BY <3>1, <3>2, <3>3 DEF Seated
  <2>2. ASSUME NEW i \in 1..Len(entries), entries[i].position # p
        PROVE  entries[i] \in Seated(s)
    <3>1. CASE i < k
      <4>1. i \in 1..Len(entries) - 1 /\ i \in 1..Len(s)
        BY <1>0, <1>1, <3>1
      <4> QED
        BY <1>1, <3>1, <4>1 DEF Seated
    <3>2. CASE ~(i < k)
      <4>1. i # k
        BY <1>1, <2>2
      <4>2. i - 1 \in 1..Len(entries) - 1 /\ i - 1 \in 1..Len(s) /\ ~(i - 1 < k)
            /\ (i - 1) + 1 = i
        BY <1>0, <1>1, <3>2, <4>1
      <4>3. s[i - 1] = entries[i]
        BY <1>1, <4>2
      <4> QED
        BY <4>2, <4>3 DEF Seated
    <3> QED
      BY <3>1, <3>2
  <2> QED
    BY <2>1, <2>2 DEF Seated
<1>3. Ranked(s)
  <2> SUFFICES ASSUME NEW i \in 1..Len(s), NEW j \in 1..Len(s), i < j
               PROVE  Outranks(s[i], s[j])
    BY DEF Ranked
  <2> DEFINE a == IF i < k THEN i ELSE i + 1
             b == IF j < k THEN j ELSE j + 1
  <2>1. a \in 1..Len(entries) /\ b \in 1..Len(entries) /\ a < b
    BY <1>0, <1>1
  <2>2. i \in 1..Len(entries) - 1 /\ j \in 1..Len(entries) - 1
    BY <1>1
  <2>3. s[i] = entries[a] /\ s[j] = entries[b]
    BY <1>1, <2>2
  <2> HIDE DEF a, b
  <2> QED
    BY <2>1, <2>3 DEF Ranked
<1>4. OneEach(s)
  BY <1>2 DEF OneEach
<1> QED
  BY <1>2, <1>3, <1>4 DEF s

\* promote keeps the order, adds the entry and lets go of whom it displaces.
LEMMA PromoteRanks ==
  ASSUME NEW entries \in Seq(TierEntry), Ranked(entries), OneEach(entries),
         NEW size \in Nat \ {0}, Len(entries) <= size, NEW c \in TierEntry,
         \A e \in Seated(entries) : e.position_id # c.position_id
  PROVE  /\ Seated(Promote(entries, size, c)) =
              {e \in Seated(entries) : e.position \notin Displaced(entries, size)} \cup {c}
         /\ Ranked(Promote(entries, size, c))
<1>0. Len(entries) \in Nat /\ \A i \in 1..Len(entries) : entries[i] \in TierEntry
  BY LenProperties, ElementOfSeq
<1>1. CASE Len(entries) < size
  <2>1. Promote(entries, size, c) = Seat(entries, c) /\ Displaced(entries, size) = {}
    BY <1>1 DEF Promote, Displaced
  <2>2. {e \in Seated(entries) : e.position \notin {}} = Seated(entries)
    OBVIOUS
  <2> QED
    BY <2>1, <2>2, SeatRanks
<1>2. CASE ~(Len(entries) < size)
  <2> DEFINE n == Len(entries)
             s == SubSeq(entries, 1, n - 1)
  <2>1. /\ Promote(entries, size, c) = Seat(s, c)
        /\ Displaced(entries, size) = {entries[n].position}
    BY <1>2 DEF Promote, Displaced
  <2>2. n \in 1..Len(entries) /\ n - 1 \in 0..Len(entries)
    BY <1>0, <1>2
  <2>3. /\ s \in Seq(TierEntry) /\ Seated(s) = {entries[i] : i \in 1..n-1} /\ Ranked(s)
    BY <2>2, CutRanks
  <2> HIDE DEF s
  <2>4. Seated(s) = {e \in Seated(entries) : e.position # entries[n].position}
    <3>1. ASSUME NEW i \in 1..n-1
          PROVE  entries[i] \in Seated(entries) /\ entries[i].position # entries[n].position
      <4>1. i \in 1..Len(entries) /\ i # n
        BY <1>0
      <4> QED
        BY <2>2, <4>1, OneSeatEach DEF Seated
    <3>2. ASSUME NEW i \in 1..n, entries[i].position # entries[n].position
          PROVE  i \in 1..n-1
      BY <1>0, <3>2
    <3> QED
      BY <2>3, <3>1, <3>2 DEF Seated
  <2>5. \A e \in Seated(s) : e.position_id # c.position_id
    BY <2>4
  <2>6. Seated(Seat(s, c)) = Seated(s) \cup {c} /\ Ranked(Seat(s, c))
    BY <2>3, <2>5, SeatRanks
  <2> QED
    BY <2>1, <2>4, <2>6
<1> QED
  BY <1>1, <1>2

---------------------------------------------------------------------------------
(* The flags. *)

Members == {c \in Cards : pos[c].in_tier}

LEMMA FlagSet ==
  ASSUME NEW q \in Position, NEW b
  PROVE  [q EXCEPT !.in_tier = b].in_tier = b
BY Zenon DEF Position

LEMMA SeatTakenFlags ==
  ASSUME TypeInv, NEW c \in Cards, NEW p \in Position, TakeSeat(c, p)
  PROVE  Members' = (Members \ Displaced(tier, cfg.tier_size)) \cup {c}
<1>0. pos \in [Cards -> Position]
  BY DEF TypeInv, TypeOK
<1> DEFINE out == Displaced(tier, cfg.tier_size)
<1>1. pos' = [d \in Cards |-> IF d = c THEN [p EXCEPT !.in_tier = TRUE]
                              ELSE [pos[d] EXCEPT !.in_tier = @ /\ d \notin out]]
  BY Zenon DEF TakeSeat
<1> HIDE DEF out
<1>2. pos'[c].in_tier
  BY <1>1, FlagSet, Zenon
<1>3. ASSUME NEW d \in Cards, d # c PROVE pos'[d].in_tier <=> pos[d].in_tier /\ d \notin out
  <2>1. pos[d] \in Position
    BY <1>0
  <2>2. pos'[d] = [pos[d] EXCEPT !.in_tier = pos[d].in_tier /\ d \notin out]
    BY <1>1, <1>3, Zenon
  <2> QED
    BY <2>1, <2>2, FlagSet, Zenon
<1> QED
  BY <1>2, <1>3, Zenon DEF Members, out

\* An account rewritten without a flag loses its seat, one with a flag keeps it.
LEMMA AccountFlags ==
  ASSUME TypeInv, NEW c \in Cards, NEW p \in Position, pos' = [pos EXCEPT ![c] = p]
  PROVE  Members' = IF p.in_tier THEN Members \cup {c} ELSE Members \ {c}
<1>0. pos \in [Cards -> Position]
  BY DEF TypeInv, TypeOK
<1>1. pos'[c] = p /\ \A d \in Cards \ {c} : pos'[d] = pos[d]
  BY <1>0
<1>2. CASE p.in_tier
  BY <1>1, <1>2, Zenon DEF Members
<1>3. CASE ~p.in_tier
  BY <1>1, <1>3, Zenon DEF Members
<1> QED
  BY <1>2, <1>3, Zenon

LEMMA HeirFlags ==
  ASSUME TypeInv, NEW c \in Cards, NEW p \in Position, ~p.in_tier, NEW d \in Cards, d # c,
         pos' = [pos EXCEPT ![c] = p, ![d].in_tier = TRUE]
  PROVE  Members' = (Members \ {c}) \cup {d}
<1>0. pos \in [Cards -> Position]
  BY TypedAccounts
<1> DEFINE q == [pos EXCEPT ![c] = p]
<1>1. /\ q \in [Cards -> Position] /\ q[c] = p
      /\ \A e \in Cards \ {c} : q[e] = pos[e]
  BY <1>0
<1>2. pos' = [q EXCEPT ![d].in_tier = TRUE]
  OBVIOUS
<1> HIDE DEF q
<1>3. /\ pos'[d] = [q[d] EXCEPT !.in_tier = TRUE]
      /\ \A e \in Cards \ {d} : pos'[e] = q[e]
  BY <1>1, <1>2
<1>4. pos'[d].in_tier
  <2>1. q[d] \in Position
    BY <1>1
  <2> QED
    BY <1>3, <2>1, FlagSet, Zenon
<1>5. ~pos'[c].in_tier
  <2>1. pos'[c] = p
    BY <1>1, <1>3
  <2> QED
    BY <2>1, Zenon
<1>6. \A e \in Cards \ {c, d} : pos'[e] = pos[e]
  BY <1>1, <1>3
<1> QED
  BY <1>4, <1>5, <1>6, Zenon DEF Members

---------------------------------------------------------------------------------
(* The roster. *)

\* Positions that exist have ids of their own, below the counter the next one is
\* taken from: what makes the order of the tier total.
IdsApart ==
  /\ \A c \in Cards : pos[c].state # "None" => pos[c].position_id < position_counter
  /\ \A c, d \in Cards :
       /\ pos[c].state # "None" /\ pos[d].state # "None"
       /\ pos[c].position_id = pos[d].position_id
       => c = d

\* The tier is ranked, and holds the current entries of the flagged positions,
\* all Active, and nothing else.
RosterOK ==
  /\ Ranked(tier)
  /\ Seated(tier) = {Entry(c, pos[c]) : c \in Members}
  /\ \A c \in Members : pos[c].state = "Active"

\* Rank order survives a seating only if no two entries tie, hence the ids.
RosterInv == TypeInv /\ IdsApart /\ RosterOK

LEMMA RosterFacts ==
  ASSUME RosterInv
  PROVE  /\ pos \in [Cards -> Position] /\ tier \in Seq(TierEntry) /\ Len(tier) \in Nat
         /\ cfg.tier_size \in Nat \ {0} /\ Len(tier) <= cfg.tier_size
         /\ Ranked(tier) /\ OneEach(tier) /\ Holders(tier) = Members
         /\ \A e \in Seated(tier) : e.position \in Members /\ e = Entry(e.position, pos[e.position])
<1>1. /\ pos \in [Cards -> Position] /\ tier \in Seq(TierEntry) /\ Len(tier) \in Nat
      /\ cfg.tier_size \in Nat \ {0} /\ Len(tier) <= cfg.tier_size
  BY LenProperties, ConfigFields DEF RosterInv, TypeInv, TypeOK
<1>2. \A c : Entry(c, pos[c]).position = c
  BY DEF Entry
<1>3. Seated(tier) = {Entry(c, pos[c]) : c \in Members}
  BY DEF RosterInv, RosterOK
<1>4. \A e \in Seated(tier) : e.position \in Members /\ e = Entry(e.position, pos[e.position])
  BY <1>2, <1>3
<1>5. OneEach(tier)
  BY <1>4, Zenon DEF OneEach
<1>6. Holders(tier) = Members
  <2>1. Holders(tier) = {e.position : e \in Seated(tier)}
    BY <1>1, SeatedTyped
  <2> QED
    BY <1>2, <1>3, <2>1
<1> QED
  BY <1>1, <1>4, <1>5, <1>6, Zenon DEF RosterInv, RosterOK

\* The entries after a seat was taken, missed or left.
LEMMA SeatsKeepEntries ==
  ASSUME TypeInv, NEW c \in Cards, NEW p \in Position, NEW heirs \in SUBSET Cards,
         TakeSeat(c, p) \/ MissSeat(c, p) \/ LeaveSeat(c, p, heirs)
  PROVE  /\ Entry(c, pos'[c]) = Entry(c, p) /\ pos'[c].state = p.state
         /\ \A d \in Cards \ {c} : /\ Entry(d, pos'[d]) = Entry(d, pos[d])
                                   /\ pos'[d].state = pos[d].state
BY SeatsKeepFields DEF Entry

\* A seat taken by a position that had none.
LEMMA SeatTakenRoster ==
  ASSUME RosterInv, NEW c \in Cards, NEW p \in Position, TakeSeat(c, p),
         c \notin Members, pos[c].state # "None",
         p.state = "Active", p.position_id = pos[c].position_id
  PROVE  RosterOK'
<1> DEFINE out == Displaced(tier, cfg.tier_size)
           entry == Entry(c, p)
<1>0. entry \in TierEntry /\ entry.position_id = pos[c].position_id
  BY EntryInTier DEF Entry
<1>1. TypeInv /\ IdsApart
  BY DEF RosterInv
<1>2. \A e \in Seated(tier) : e.position_id # entry.position_id
  <2> SUFFICES ASSUME NEW e \in Seated(tier) PROVE e.position_id # entry.position_id
    OBVIOUS
  <2>1. PICK d \in Members : e = Entry(d, pos[d])
    BY DEF RosterInv, RosterOK
  <2>2. d \in Cards /\ d # c /\ pos[d].state = "Active"
    BY DEF Members, RosterInv, RosterOK
  <2>3. pos[d].position_id # pos[c].position_id
    BY <1>1, <2>2 DEF IdsApart
  <2> QED
    BY <1>0, <2>1, <2>3 DEF Entry
<1>3. tier' = Promote(tier, cfg.tier_size, entry)
  BY DEF TakeSeat
<1> HIDE DEF entry
<1>4. /\ Seated(tier') = {e \in Seated(tier) : e.position \notin out} \cup {entry}
      /\ Ranked(tier')
  BY <1>0, <1>2, <1>3, RosterFacts, PromoteRanks
<1>5. Members' = (Members \ out) \cup {c}
  BY <1>1, SeatTakenFlags
<1>6. /\ Entry(c, pos'[c]) = entry /\ pos'[c].state = "Active"
      /\ \A d \in Cards \ {c} : /\ Entry(d, pos'[d]) = Entry(d, pos[d])
                                /\ pos'[d].state = pos[d].state
  BY <1>1, SeatsKeepEntries DEF entry
<1> HIDE DEF out
<1>7. Members \subseteq Cards
  BY DEF Members
<1>8. Seated(tier') = {Entry(d, pos'[d]) : d \in Members'}
  <2>1. ASSUME NEW e \in Seated(tier') PROVE e \in {Entry(d, pos'[d]) : d \in Members'}
    <3>1. CASE e = entry
      BY <1>5, <1>6, <3>1
    <3>2. CASE e \in Seated(tier) /\ e.position \notin out
      <4>1. e.position \in Members /\ e = Entry(e.position, pos[e.position])
        BY <3>2, RosterFacts
      <4>2. e.position \in Members' /\ e.position # c /\ e.position \in Cards
        BY <1>5, <1>7, <3>2, <4>1
      <4> QED
        BY <1>6, <4>1, <4>2
    <3> QED
      BY <1>4, <3>1, <3>2
  <2>2. ASSUME NEW d \in Members' PROVE Entry(d, pos'[d]) \in Seated(tier')
    <3>1. CASE d = c
      BY <1>4, <1>6, <3>1
    <3>2. CASE d # c
      <4>1. d \in Members /\ d \notin out /\ d \in Cards
        BY <1>5, <1>7, <3>2
      <4>2. Entry(d, pos[d]) \in Seated(tier) /\ Entry(d, pos[d]).position = d
        BY <4>1 DEF RosterInv, RosterOK, Entry
      <4> QED
        BY <1>4, <1>6, <3>2, <4>1, <4>2
    <3> QED
      BY <3>1, <3>2
  <2> QED
    BY <2>1, <2>2
<1>9. \A d \in Members' : pos'[d].state = "Active"
  BY <1>5, <1>6, <1>7 DEF RosterInv, RosterOK
<1> QED
  BY <1>4, <1>8, <1>9 DEF RosterOK

\* A position outside the tier that stays outside.
LEMMA OutsiderRoster ==
  ASSUME RosterInv, NEW c \in Cards, c \notin Members, UNCHANGED tier, Members' = Members,
         \A d \in Cards \ {c} : /\ Entry(d, pos'[d]) = Entry(d, pos[d])
                                /\ pos'[d].state = pos[d].state
  PROVE  RosterOK'
<1>1. \A d \in Members : Entry(d, pos'[d]) = Entry(d, pos[d]) /\ pos'[d].state = pos[d].state
  BY DEF Members
<1>2. {Entry(d, pos'[d]) : d \in Members} = {Entry(d, pos[d]) : d \in Members}
  BY <1>1
<1> QED
  BY <1>1, <1>2 DEF RosterInv, RosterOK

LEMMA SeatMissedRoster ==
  ASSUME RosterInv, NEW c \in Cards, NEW p \in Position, MissSeat(c, p),
         c \notin Members, ~p.in_tier
  PROVE  RosterOK'
<1>1. TypeInv /\ UNCHANGED tier /\ pos' = [pos EXCEPT ![c] = p]
  BY DEF RosterInv, MissSeat
<1>2. Members' = Members
  <2>1. Members' = IF p.in_tier THEN Members \cup {c} ELSE Members \ {c}
    BY <1>1, AccountFlags
  <2> QED
    BY <2>1, Zenon
<1>3. \A d \in Cards \ {c} : /\ Entry(d, pos'[d]) = Entry(d, pos[d])
                             /\ pos'[d].state = pos[d].state
  BY <1>1, SeatsKeepEntries
<1> QED
  BY <1>1, <1>2, <1>3, OutsiderRoster

\* A member that leaves its seat open.
LEMMA VacatedRoster ==
  ASSUME RosterInv, NEW c \in Members, tier' = Demote(tier, c), Members' = Members \ {c},
         \A d \in Cards \ {c} : /\ Entry(d, pos'[d]) = Entry(d, pos[d])
                                /\ pos'[d].state = pos[d].state
  PROVE  RosterOK'
<1>1. /\ Seated(tier') = {e \in Seated(tier) : e.position # c}
      /\ Ranked(tier')
  BY RosterFacts, DemoteRanks
<1>2. Members \subseteq Cards
  BY DEF Members
<1>3. Seated(tier') = {Entry(d, pos'[d]) : d \in Members'}
  <2>1. ASSUME NEW e \in Seated(tier') PROVE e \in {Entry(d, pos'[d]) : d \in Members'}
    <3>1. e.position \in Members' /\ e = Entry(e.position, pos[e.position])
      BY <1>1, RosterFacts
    <3> QED
      BY <1>2, <3>1
  <2>2. ASSUME NEW d \in Members' PROVE Entry(d, pos'[d]) \in Seated(tier')
    <3>1. d \in Members /\ d \in Cards \ {c}
      BY <1>2
    <3>2. Entry(d, pos[d]) \in Seated(tier) /\ Entry(d, pos[d]).position = d
      BY <3>1 DEF RosterInv, RosterOK, Entry
    <3> QED
      BY <1>1, <3>1, <3>2
  <2> QED
    BY <2>1, <2>2
<1> QED
  BY <1>1, <1>2, <1>3 DEF RosterInv, RosterOK

\* A vacated seat that goes to an eligible position d, whose entry ranks wherever
\* it belongs; d is c itself when a member is appraised again.
LEMMA RefilledRoster ==
  ASSUME RosterInv, NEW c \in Members, NEW d \in Cards, NEW p \in Position,
         d = c \/ d \notin Members, pos[d].state # "None",
         p.state = "Active", p.position_id = pos[d].position_id,
         Len(tier) - 1 < cfg.tier_size,
         tier' = Promote(Demote(tier, c), cfg.tier_size, Entry(d, p)),
         Members' = (Members \ {c}) \cup {d},
         Entry(d, pos'[d]) = Entry(d, p), pos'[d].state = "Active",
         \A e \in Cards \ {c, d} : /\ Entry(e, pos'[e]) = Entry(e, pos[e])
                                   /\ pos'[e].state = pos[e].state
  PROVE  RosterOK'
<1> DEFINE rest == Demote(tier, c)
           entry == Entry(d, p)
<1>0. /\ entry \in TierEntry /\ entry.position_id = pos[d].position_id
      /\ Members \subseteq Cards
  BY EntryInTier DEF Entry, Members
<1>1. /\ Seated(rest) = {e \in Seated(tier) : e.position # c}
      /\ Ranked(rest) /\ OneEach(rest)
  BY RosterFacts, DemoteRanks
<1>2. rest \in Seq(TierEntry) /\ Len(rest) = Len(tier) - 1
  BY RosterFacts, DemoteType
<1> HIDE DEF rest, entry
<1>3. \A e \in Seated(rest) : e.position \in Members \ {c} /\ e = Entry(e.position, pos[e.position])
  BY <1>1, RosterFacts
<1>4. \A e \in Seated(rest) : e.position_id # entry.position_id
  <2> SUFFICES ASSUME NEW e \in Seated(rest) PROVE e.position_id # entry.position_id
    OBVIOUS
  <2> DEFINE h == e.position
  <2>1. h \in Members /\ h # d /\ h \in Cards /\ e = Entry(h, pos[h])
    BY <1>0, <1>3
  <2>2. e.position_id = pos[h].position_id
    BY <2>1 DEF Entry
  <2>3. pos[h].state # "None"
    BY <2>1 DEF RosterInv, RosterOK
  <2> QED
    BY <1>0, <2>1, <2>2, <2>3 DEF RosterInv, IdsApart
<1>5. Displaced(rest, cfg.tier_size) = {}
  BY <1>2, RosterFacts DEF Displaced
<1>6. /\ Seated(tier') = {e \in Seated(rest) : e.position \notin Displaced(rest, cfg.tier_size)}
                           \cup {entry}
      /\ Ranked(tier')
  <2>1. tier' = Promote(rest, cfg.tier_size, entry)
    BY DEF rest, entry
  <2>2. Len(rest) <= cfg.tier_size
    BY <1>2, RosterFacts
  <2> QED
    BY <1>0, <1>1, <1>2, <1>4, <2>1, <2>2, RosterFacts, PromoteRanks
<1>7. Seated(tier') = Seated(rest) \cup {entry}
  BY <1>5, <1>6
<1>8. Seated(tier') = {Entry(h, pos'[h]) : h \in Members'}
  <2>1. ASSUME NEW e \in Seated(tier') PROVE e \in {Entry(h, pos'[h]) : h \in Members'}
    <3>1. CASE e = entry
      BY <3>1 DEF entry
    <3>2. CASE e \in Seated(rest)
      <4> DEFINE h == e.position
      <4>1. h \in Members \ {c} /\ e = Entry(h, pos[h]) /\ h # d /\ h \in Cards
        BY <1>0, <1>3, <3>2
      <4>2. e = Entry(h, pos'[h]) /\ h \in Members'
        BY <4>1
      <4> QED
        BY <4>2
    <3> QED
      BY <1>7, <3>1, <3>2
  <2>2. ASSUME NEW h \in Members' PROVE Entry(h, pos'[h]) \in Seated(tier')
    <3>1. CASE h = d
      BY <1>7, <3>1 DEF entry
    <3>2. CASE h # d
      <4>1. h \in Members \ {c} /\ h \in Cards \ {c, d}
        BY <1>0, <3>2
      <4>2. Entry(h, pos[h]) \in Seated(tier) /\ Entry(h, pos[h]).position = h
        BY <4>1 DEF RosterInv, RosterOK, Entry
      <4> QED
        BY <1>1, <1>7, <4>1, <4>2
    <3> QED
      BY <3>1, <3>2
  <2> QED
    BY <2>1, <2>2
<1>9. \A h \in Members' : pos'[h].state = "Active"
  BY <1>0 DEF RosterInv, RosterOK
<1> QED
  BY <1>6, <1>8, <1>9 DEF RosterOK

\* A position that leaves the pool's weight, and its heir if one is named.
LEMMA SeatLeftRoster ==
  ASSUME RosterInv, NEW c \in Cards, NEW p \in Position, ~p.in_tier,
         NEW heirs \in SUBSET Cards, LeaveSeat(c, p, heirs)
  PROVE  RosterOK'
<1>1. TypeInv
  BY DEF RosterInv
<1>2. \A d \in Cards \ {c} : /\ Entry(d, pos'[d]) = Entry(d, pos[d])
                             /\ pos'[d].state = pos[d].state
  BY <1>1, SeatsKeepEntries
<1>3. CASE ~pos[c].in_tier /\ pos' = [pos EXCEPT ![c] = p] /\ UNCHANGED tier
  <2>1. Members' = IF p.in_tier THEN Members \cup {c} ELSE Members \ {c}
    BY <1>1, <1>3, AccountFlags
  <2>2. c \notin Members
    BY <1>3, Zenon DEF Members
  <2>3. Members' = Members
    BY <2>1, <2>2, Zenon
  <2> QED
    BY <1>2, <1>3, <2>2, <2>3, OutsiderRoster
<1>4. CASE pos[c].in_tier /\ pos' = [pos EXCEPT ![c] = p] /\ tier' = Demote(tier, c)
  <2>1. Members' = IF p.in_tier THEN Members \cup {c} ELSE Members \ {c}
    BY <1>1, <1>4, AccountFlags
  <2>2. c \in Members
    BY <1>4, Zenon DEF Members
  <2>3. Members' = Members \ {c}
    BY <2>1, Zenon
  <2> QED
    BY <1>2, <1>4, <2>2, <2>3, VacatedRoster
<1>5. ASSUME NEW d \in heirs, EligibleCandidate(d), pos[c].in_tier,
             Len(tier) - 1 < cfg.tier_size,
             pos' = [pos EXCEPT ![c] = p, ![d].in_tier = TRUE],
             tier' = Promote(Demote(tier, c), cfg.tier_size, Entry(d, pos[d]))
      PROVE  RosterOK'
  <2>1. c \in Members /\ d \notin Members /\ d # c /\ d \in Cards
    BY <1>5, Zenon DEF Members, EligibleCandidate
  <2>2. Members' = (Members \ {c}) \cup {d}
    BY <1>1, <1>5, <2>1, HeirFlags
  <2>3. pos[d] \in Position /\ pos[d].state = "Active"
    BY <1>5, <2>1, RosterFacts DEF EligibleCandidate
  <2>4. Entry(d, pos'[d]) = Entry(d, pos[d]) /\ pos'[d].state = "Active"
    BY <1>2, <2>1, <2>3
  <2>5. \A e \in Cards \ {c, d} : /\ Entry(e, pos'[e]) = Entry(e, pos[e])
                                  /\ pos'[e].state = pos[e].state
    BY <1>2, Zenon
  <2>6. pos[d].state # "None"
    BY <2>3
  <2> HIDE DEF Members
  <2> QED
    BY <1>5, <2>1, <2>2, <2>3, <2>4, <2>5, <2>6, RefilledRoster, Zenon
<1> QED
  BY <1>3, <1>4, <1>5, Zenon DEF LeaveSeat

\* A member appraised again moves to its new rank.
LEMMA RefreshedRoster ==
  ASSUME RosterInv, NEW c \in Members, NEW p \in Position,
         p.in_tier, p.state = "Active", p.position_id = pos[c].position_id,
         CanRefresh(tier, cfg.tier_size, Entry(c, p)),
         tier' = RefreshMember(tier, cfg.tier_size, Entry(c, p)),
         pos' = [pos EXCEPT ![c] = p]
  PROVE  RosterOK'
<1>1. TypeInv /\ c \in Cards /\ pos[c].state = "Active"
  BY DEF RosterInv, RosterOK, Members
<1>2. Entry(c, p).position = c
  BY DEF Entry
<1>3. /\ Len(tier) - 1 < cfg.tier_size
      /\ tier' = Promote(Demote(tier, c), cfg.tier_size, Entry(c, p))
  BY <1>2 DEF CanRefresh, RefreshMember
<1>4. Members' = (Members \ {c}) \cup {c}
  <2>1. Members' = IF p.in_tier THEN Members \cup {c} ELSE Members \ {c}
    BY <1>1, AccountFlags
  <2>2. Members' = Members \cup {c}
    BY <2>1, Zenon
  <2> QED
    BY <2>2
<1>5. /\ pos'[c] = p
      /\ \A d \in Cards \ {c} : pos'[d] = pos[d]
  BY <1>1, RosterFacts
<1> QED
  BY <1>1, <1>3, <1>4, <1>5, RefilledRoster

\* A smaller tier keeps its head.
LEMMA ShrunkRoster ==
  ASSUME RosterInv, NEW size \in Nat,
         tier' = Shrink(tier, size) \/ tier' = tier,
         pos' = [c \in Cards |->
                   [pos[c] EXCEPT !.in_tier = @ /\ c \notin Holders(tier) \ Holders(tier')]]
  PROVE  RosterOK'
<1> DEFINE out == Holders(tier) \ Holders(tier')
<1>1. Ranked(tier') /\ Seated(tier') \subseteq Seated(tier) /\ tier' \in Seq(TierEntry)
  <2>1. CASE tier' = tier
    BY <2>1, RosterFacts
  <2>2. CASE tier' # tier
    <3>1. size < Len(tier) /\ tier' = SubSeq(tier, 1, size)
      BY <2>2, RosterFacts DEF Shrink
    <3>2. size \in 0..Len(tier) /\ \A i \in 1..size : i \in 1..Len(tier)
      BY <3>1, RosterFacts
    <3>3. /\ Ranked(tier') /\ Seated(tier') = {tier[i] : i \in 1..size}
          /\ tier' \in Seq(TierEntry)
      BY <3>1, <3>2, RosterFacts, CutRanks
    <3> QED
      BY <3>2, <3>3 DEF Seated
  <2> QED
    BY <2>1, <2>2
<1>2. Holders(tier') = {e.position : e \in Seated(tier')}
  BY <1>1, SeatedTyped
<1>3. ASSUME NEW d \in Cards
      PROVE  /\ pos'[d].in_tier <=> pos[d].in_tier /\ d \notin out
             /\ Entry(d, pos'[d]) = Entry(d, pos[d]) /\ pos'[d].state = pos[d].state
  <2>1. pos[d] \in Position
    BY RosterFacts
  <2>2. pos'[d] = [pos[d] EXCEPT !.in_tier = pos[d].in_tier /\ d \notin out]
    BY Zenon
  <2>3. \A b : LET q == [pos[d] EXCEPT !.in_tier = b]
               IN  Entry(d, q) = Entry(d, pos[d]) /\ q.state = pos[d].state
    BY <2>1 DEF Position, Entry
  <2>4. pos'[d].in_tier <=> pos[d].in_tier /\ d \notin out
    BY <2>1, <2>2, FlagSet, Zenon
  <2> QED
    BY <2>2, <2>3, <2>4, Zenon
<1>4. Members' = Members \ out
  BY <1>3, Zenon DEF Members
<1>5. Members \subseteq Cards /\ Holders(tier) = Members
  BY RosterFacts DEF Members
<1>6. Members' = Holders(tier')
  <2>1. Holders(tier') \subseteq Members
    BY <1>1, <1>2, RosterFacts
  <2> QED
    BY <1>4, <1>5, <2>1
<1>7. Seated(tier') = {Entry(d, pos'[d]) : d \in Members'}
  <2>1. ASSUME NEW e \in Seated(tier') PROVE e \in {Entry(d, pos'[d]) : d \in Members'}
    <3> DEFINE d == e.position
    <3>1. d \in Members /\ e = Entry(d, pos[d]) /\ d \in Members' /\ d \in Cards
      BY <1>1, <1>2, <1>5, <1>6, RosterFacts
    <3>2. e = Entry(d, pos'[d])
      BY <1>3, <3>1
    <3> QED
      BY <3>1, <3>2
  <2>2. ASSUME NEW d \in Members' PROVE Entry(d, pos'[d]) \in Seated(tier')
    <3>1. d \in Members /\ d \in Cards
      BY <1>4, <1>5
    <3>2. PICK e \in Seated(tier') : e.position = d
      BY <1>2, <1>6
    <3>3. e = Entry(d, pos[d])
      BY <1>1, <3>2, RosterFacts
    <3> QED
      BY <1>3, <3>1, <3>2, <3>3
  <2> QED
    BY <2>1, <2>2
<1>8. \A d \in Members' : pos'[d].state = "Active"
  BY <1>3, <1>4, <1>5 DEF RosterInv, RosterOK
<1> QED
  BY <1>1, <1>7, <1>8 DEF RosterOK

---------------------------------------------------------------------------------
(* The ids, through every step. *)

\* Nothing but a deposit gives out an id.
IdsStay ==
  /\ position_counter' = position_counter
  /\ \A c \in Cards :
       pos'[c].state # "None" =>
         pos[c].state # "None" /\ pos'[c].position_id = pos[c].position_id

LEMMA SeatsKeepIds ==
  ASSUME TypeInv, NEW c \in Cards, NEW p \in Position, NEW heirs \in SUBSET Cards,
         TakeSeat(c, p) \/ MissSeat(c, p) \/ LeaveSeat(c, p, heirs),
         UNCHANGED position_counter,
         p.state # "None" => pos[c].state # "None" /\ p.position_id = pos[c].position_id
  PROVE  IdsStay
BY SeatsKeepFields DEF IdsStay

LEMMA DepositIds ==
  ASSUME TypeInv, NEW c \in Cards, DepositStep(c)
  PROVE  IdsStay \/ \E w \in Wallets : Deposit(c, w)
<1>0. pos \in [Cards -> Position]
  BY DEF TypeInv, TypeOK
<1>1. ASSUME NEW v \in Values, NEW lock \in Locks, ApproveDeposit(c, v, lock)
      PROVE  IdsStay
  <2> DEFINE active == [pos[c] EXCEPT !.state = "Active", !.recorded_value = v,
                          !.slot_index = NextSlot(index), !.activated_at = now,
                          !.lock_until = lock]
  <2>1. v \in Nat /\ lock \in Nat /\ now \in Nat /\ NextSlot(index) \in Nat
    BY <1>1, PoolAssumption DEF TypeInv, TypeOK, ApproveDeposit, CanInsert, CanAlloc, Slots
  <2>2. active \in Position /\ active.position_id = pos[c].position_id
    BY <1>0, <2>1 DEF Position, PositionStates
  <2>3. /\ pos[c].state = "Pending" /\ (TakeSeat(c, active) \/ MissSeat(c, active))
        /\ UNCHANGED position_counter
    BY <1>1, Zenon DEF ApproveDeposit
  <2> HIDE DEF active
  <2> QED
    BY <2>2, <2>3, SeatsKeepIds
<1>2. CASE RejectDeposit(c)
  BY <1>0, <1>2 DEF RejectDeposit, IdsStay, Position
<1>3. CASE ReturnRejected(c)
  BY <1>0, <1>3 DEF ReturnRejected, NoPosition, IdsStay
<1> QED
  BY <1>1, <1>2, <1>3 DEF DepositStep

LEMMA ValueIds ==
  ASSUME TypeInv, NEW c \in Cards, ValueStep(c)
  PROVE  IdsStay
<1>0. pos \in [Cards -> Position]
  BY DEF TypeInv, TypeOK
<1>1. ASSUME NEW v \in Values, RecordRefresh(c, v) PROVE IdsStay
  <2> DEFINE p == [pos[c] EXCEPT !.recorded_value = v]
  <2>1. /\ p \in Position /\ p.state = pos[c].state
        /\ p.position_id = pos[c].position_id
    BY <1>0, PoolAssumption DEF Position
  <2>2. /\ TakeSeat(c, p) \/ MissSeat(c, p) \/ pos' = [pos EXCEPT ![c] = p]
        /\ UNCHANGED position_counter
    BY <1>1, Zenon DEF RecordRefresh
  <2> HIDE DEF p
  <2>3. CASE pos' = [pos EXCEPT ![c] = p]
    BY <1>0, <2>1, <2>2, <2>3 DEF IdsStay
  <2>4. CASE TakeSeat(c, p) \/ MissSeat(c, p)
    BY <2>1, <2>2, <2>4, SeatsKeepIds
  <2> QED
    BY <2>2, <2>3, <2>4
<1>2. ASSUME NEW v \in Values, RecordClose(c, v) PROVE IdsStay
  <2> DEFINE p == [pos[c] EXCEPT !.state = "ClosedBelowFloor", !.recorded_value = v,
                                 !.in_tier = FALSE]
  <2>1. p \in Position /\ p.position_id = pos[c].position_id
    BY <1>0, PoolAssumption DEF Position, PositionStates
  <2>2. LeaveSeat(c, p, Cards) /\ pos[c].state = "Active" /\ UNCHANGED position_counter
    BY <1>2 DEF RecordClose, Recordable
  <2> HIDE DEF p
  <2> QED
    BY <2>1, <2>2, SeatsKeepIds
<1> QED
  BY <1>1, <1>2 DEF ValueStep

LEMMA ExitIds ==
  ASSUME TypeInv, NEW c \in Cards, ExitStep(c)
  PROVE  IdsStay
<1>0. pos \in [Cards -> Position]
  BY DEF TypeInv, TypeOK
<1>1. CASE Withdraw(c)
  <2>1. LeaveSeat(c, NoPosition, Cards) /\ UNCHANGED position_counter
    BY <1>1 DEF Withdraw
  <2>2. NoPosition \in Position /\ NoPosition.state = "None"
    BY NoPositionType DEF NoPosition
  <2> QED
    BY <2>1, <2>2, SeatsKeepIds
<1>2. CASE SeizeActive(c)
  <2> DEFINE p == [pos[c] EXCEPT !.state = "Seized", !.in_tier = FALSE]
  <2>1. p \in Position /\ p.position_id = pos[c].position_id
    BY <1>0 DEF Position, PositionStates
  <2>2. LeaveSeat(c, p, {}) /\ pos[c].state = "Active" /\ UNCHANGED position_counter
    BY <1>2 DEF SeizeActive
  <2> HIDE DEF p
  <2> QED
    BY <2>1, <2>2, SeatsKeepIds
<1>3. CASE ClaimNft(c)
  BY <1>0, <1>3 DEF ClaimNft, NoPosition, IdsStay
<1>4. CASE SeizeWeightless(c)
  BY <1>0, <1>4 DEF SeizeWeightless, IdsStay, Position
<1> QED
  BY <1>1, <1>2, <1>3, <1>4 DEF ExitStep

LEMMA StepMovesIds ==
  ASSUME TypeInv, [Next]_vars
  PROVE  IdsStay \/ \E c \in Cards, w \in Wallets : Deposit(c, w)
<1>0. pos \in [Cards -> Position]
  BY DEF TypeInv, TypeOK
<1>1. CASE UNCHANGED vars
  BY <1>1 DEF vars, IdsStay
<1>2. CASE Tick \/ BeginSweep \/ EndSweep \/ RollStep
  BY <1>2 DEF Tick, BeginSweep, EndSweep, RollStep, CommitRolls, VrfCallback, IdsStay
<1>3. ASSUME NEW c \in Cards, DepositStep(c) \/ ValueStep(c) \/ ExitStep(c)
      PROVE  IdsStay \/ \E w \in Wallets : Deposit(c, w)
  BY <1>3, DepositIds, ValueIds, ExitIds
<1>4. ASSUME NEW c \in Cards, UpdateTier(c) PROVE IdsStay
  <2>1. pos[c] \in Position /\ TakeSeat(c, pos[c]) /\ UNCHANGED position_counter
    BY <1>0, <1>4 DEF UpdateTier
  <2> QED
    BY <2>1, SeatsKeepIds
<1>5. ASSUME NEW c \in Cards, CollateralMoves(c) PROVE IdsStay
  BY <1>5 DEF CollateralMoves, IdsStay
<1>6. CASE AdminStep
  <2>1. ASSUME NEW new \in Configs, UpdateConfig(new) PROVE IdsStay
    <3>1. ASSUME NEW c \in Cards
          PROVE  pos'[c].state = pos[c].state /\ pos'[c].position_id = pos[c].position_id
      <4>1. pos[c] \in Position /\ \E b : pos'[c] = [pos[c] EXCEPT !.in_tier = b]
        BY <1>0, <2>1 DEF UpdateConfig
      <4> QED
        BY <4>1 DEF Position
    <3> QED
      BY <2>1, <3>1 DEF UpdateConfig, IdsStay
  <2>2. ASSUME NEW x, NEW y, SetPause(x, y) PROVE IdsStay
    BY <2>2 DEF SetPause, IdsStay
  <2> QED
    BY <1>6, <2>1, <2>2 DEF AdminStep
<1> QED
  BY <1>1, <1>2, <1>3, <1>4, <1>5, <1>6 DEF Next

LEMMA StepKeepsIds ==
  ASSUME TypeInv, IdsApart, [Next]_vars
  PROVE  IdsApart'
<1>0. pos \in [Cards -> Position] /\ position_counter \in Nat
  BY DEF TypeInv, TypeOK
<1>1. CASE IdsStay
  BY <1>1 DEF IdsApart, IdsStay
<1>2. ASSUME NEW c \in Cards, NEW w \in Wallets, Deposit(c, w) PROVE IdsApart'
  <2> DEFINE new == [NoPosition EXCEPT !.state = "Pending", !.depositor = w,
                                       !.position_id = position_counter]
  <2>1. new.position_id = position_counter
    BY DEF NoPosition
  <2>2. pos' = [pos EXCEPT ![c] = new] /\ position_counter' = position_counter + 1
    BY <1>2 DEF Deposit
  <2> HIDE DEF new
  <2>3. pos'[c] = new /\ \A d \in Cards \ {c} : pos'[d] = pos[d]
    BY <1>0, <2>2
  <2>4. ASSUME NEW d \in Cards, pos'[d].state # "None", d # c
        PROVE  pos'[d].position_id < position_counter
    BY <2>3, <2>4 DEF IdsApart
  <2>5. ASSUME NEW d \in Cards, pos[d].state # "None" PROVE pos[d].position_id \in Nat
    BY <1>0 DEF Position
  <2>6. \A d \in Cards : pos'[d].state # "None" => pos'[d].position_id < position_counter'
    BY <1>0, <2>1, <2>2, <2>3, <2>4, <2>5
  <2>7. ASSUME NEW d \in Cards, NEW e \in Cards, pos'[d].state # "None",
               pos'[e].state # "None", pos'[d].position_id = pos'[e].position_id
        PROVE  d = e
    <3>1. CASE d # c /\ e # c
      BY <2>3, <2>7, <3>1 DEF IdsApart
    <3>2. CASE d = c /\ e # c
      BY <1>0, <2>1, <2>3, <2>4, <2>7, <3>2
    <3>3. CASE d # c /\ e = c
      BY <1>0, <2>1, <2>3, <2>4, <2>7, <3>3
    <3> QED
      BY <3>1, <3>2, <3>3
  <2> QED
    BY <2>6, <2>7 DEF IdsApart
<1> QED
  BY <1>1, <1>2, StepMovesIds

---------------------------------------------------------------------------------
(* The roster, through every step. *)

\* The account of a position that is not Active changes, and gains no flag.
LEMMA OutsiderAccount ==
  ASSUME RosterInv, NEW c \in Cards, NEW p \in Position, pos[c].state # "Active",
         ~p.in_tier, pos' = [pos EXCEPT ![c] = p], UNCHANGED tier
  PROVE  RosterOK'
<1>1. TypeInv /\ pos \in [Cards -> Position] /\ c \notin Members
  BY DEF RosterInv, RosterOK, TypeInv, TypeOK
<1>2. Members' = Members
  <2>1. Members' = IF p.in_tier THEN Members \cup {c} ELSE Members \ {c}
    BY <1>1, AccountFlags
  <2> QED
    BY <1>1, <2>1, Zenon
<1>3. \A d \in Cards \ {c} : /\ Entry(d, pos'[d]) = Entry(d, pos[d])
                             /\ pos'[d].state = pos[d].state
  BY <1>1
<1> QED
  BY <1>1, <1>2, <1>3, OutsiderRoster

LEMMA FlagsOff ==
  /\ ~NoPosition.in_tier
  /\ \A q \in Position : \A s : [q EXCEPT !.state = s].in_tier = q.in_tier
  /\ \A q \in Position : \A v : [q EXCEPT !.recorded_value = v].in_tier = q.in_tier
<1>1. ~NoPosition.in_tier
  BY Zenon DEF NoPosition
<1>2. ASSUME NEW q \in Position, NEW s PROVE [q EXCEPT !.state = s].in_tier = q.in_tier
  BY Zenon DEF Position
<1>3. ASSUME NEW q \in Position, NEW v
      PROVE  [q EXCEPT !.recorded_value = v].in_tier = q.in_tier
  BY Zenon DEF Position
<1> QED
  BY <1>1, <1>2, <1>3, Zenon

LEMMA DepositRoster ==
  ASSUME RosterInv, NEW c \in Cards, DepositStep(c)
  PROVE  RosterOK'
<1>0. TypeInv /\ pos \in [Cards -> Position]
  BY DEF RosterInv, TypeInv, TypeOK
<1>a. pos[c].state # "Active" => ~pos[c].in_tier
  BY Zenon DEF RosterInv, RosterOK, Members
<1>1. ASSUME NEW w \in Wallets, Deposit(c, w) PROVE RosterOK'
  <2> DEFINE p == [NoPosition EXCEPT !.state = "Pending", !.depositor = w,
                                     !.position_id = position_counter]
  <2>1. p \in Position
    BY <1>0, NoPositionType DEF Position, PositionStates, TypeInv, TypeOK
  <2>2. ~p.in_tier
    BY Zenon DEF NoPosition
  <2>3. pos[c].state # "Active" /\ pos' = [pos EXCEPT ![c] = p] /\ UNCHANGED tier
    BY <1>1 DEF Deposit
  <2> HIDE DEF p
  <2> QED
    BY <2>1, <2>2, <2>3, OutsiderAccount
<1>2. ASSUME NEW v \in Values, NEW lock \in Locks, ApproveDeposit(c, v, lock)
      PROVE  RosterOK'
  <2> DEFINE active == [pos[c] EXCEPT !.state = "Active", !.recorded_value = v,
                          !.slot_index = NextSlot(index), !.activated_at = now,
                          !.lock_until = lock]
  <2>1. v \in Nat /\ lock \in Nat /\ now \in Nat /\ NextSlot(index) \in Nat
    BY <1>0, <1>2, PoolAssumption DEF TypeInv, TypeOK, ApproveDeposit, CanInsert, CanAlloc, Slots
  <2>2. /\ active \in Position /\ active.position_id = pos[c].position_id
        /\ active.state = "Active"
    BY <1>0, <2>1 DEF Position, PositionStates
  <2>3. active.in_tier = pos[c].in_tier
    BY <1>0, Zenon DEF Position
  <2>4. pos[c].state = "Pending" /\ (TakeSeat(c, active) \/ MissSeat(c, active))
    BY <1>2, Zenon DEF ApproveDeposit
  <2> HIDE DEF active
  <2>5. pos[c].state # "None" /\ pos[c].state # "Active"
    BY <2>4
  <2>6. c \notin Members /\ ~active.in_tier
    BY <1>a, <2>3, <2>5, Zenon DEF Members
  <2> QED
    BY <2>2, <2>4, <2>5, <2>6, SeatTakenRoster, SeatMissedRoster
<1>3. CASE RejectDeposit(c)
  <2> DEFINE p == [pos[c] EXCEPT !.state = "Rejected"]
  <2>1. p \in Position /\ pos' = [pos EXCEPT ![c] = p] /\ UNCHANGED tier /\ pos[c].state # "Active"
    BY <1>0, <1>3 DEF RejectDeposit, Position, PositionStates
  <2>2. p.in_tier = pos[c].in_tier
    BY <1>0, FlagsOff
  <2> HIDE DEF p
  <2>3. ~p.in_tier
    BY <1>a, <2>1, <2>2, Zenon
  <2> QED
    BY <2>1, <2>3, OutsiderAccount
<1>4. CASE ReturnRejected(c)
  <2>1. /\ pos' = [pos EXCEPT ![c] = NoPosition] /\ UNCHANGED tier
        /\ pos[c].state # "Active"
    BY <1>4 DEF ReturnRejected
  <2> QED
    BY <2>1, NoPositionType, FlagsOff, OutsiderAccount
<1> QED
  BY <1>1, <1>2, <1>3, <1>4 DEF DepositStep

LEMMA ValueRoster ==
  ASSUME RosterInv, NEW c \in Cards, ValueStep(c)
  PROVE  RosterOK'
<1>0. TypeInv /\ pos \in [Cards -> Position]
  BY DEF RosterInv, TypeInv, TypeOK
<1>1. ASSUME NEW v \in Values, RecordRefresh(c, v) PROVE RosterOK'
  <2> DEFINE p == [pos[c] EXCEPT !.recorded_value = v]
  <2>1. /\ p \in Position /\ p.state = pos[c].state
        /\ p.position_id = pos[c].position_id
    BY <1>0, PoolAssumption DEF Position
  <2>2. p.in_tier = pos[c].in_tier
    BY <1>0, FlagsOff
  <2>3. pos[c].state = "Active"
    BY <1>1, Zenon DEF RecordRefresh, Recordable
  <2>4. \/ /\ p.in_tier
           /\ CanRefresh(tier, cfg.tier_size, Entry(c, p))
           /\ tier' = RefreshMember(tier, cfg.tier_size, Entry(c, p))
           /\ pos' = [pos EXCEPT ![c] = p]
        \/ ~p.in_tier /\ (TakeSeat(c, p) \/ MissSeat(c, p))
    BY <1>1, Zenon DEF RecordRefresh
  <2> HIDE DEF p
  <2>5. CASE p.in_tier
    <3>1. c \in Members
      BY <2>2, <2>5, Zenon DEF Members
    <3>2. /\ CanRefresh(tier, cfg.tier_size, Entry(c, p))
          /\ tier' = RefreshMember(tier, cfg.tier_size, Entry(c, p))
          /\ pos' = [pos EXCEPT ![c] = p]
      BY <2>4, <2>5, Zenon
    <3> QED
      BY <2>1, <2>3, <2>5, <3>1, <3>2, RefreshedRoster
  <2>6. CASE ~p.in_tier
    <3>1. c \notin Members
      BY <2>2, <2>6, Zenon DEF Members
    <3>2. TakeSeat(c, p) \/ MissSeat(c, p)
      BY <2>4, <2>6, Zenon
    <3> QED
      BY <2>1, <2>3, <2>6, <3>1, <3>2, SeatTakenRoster, SeatMissedRoster
  <2> QED
    BY <2>5, <2>6, Zenon
<1>2. ASSUME NEW v \in Values, RecordClose(c, v) PROVE RosterOK'
  <2> DEFINE q == [pos[c] EXCEPT !.state = "ClosedBelowFloor", !.recorded_value = v]
             p == [q EXCEPT !.in_tier = FALSE]
  <2>1. q \in Position /\ p \in Position
    BY <1>0, PoolAssumption DEF Position, PositionStates
  <2>2. LeaveSeat(c, p, Cards)
    BY <1>2 DEF RecordClose
  <2> HIDE DEF q
  <2>3. ~p.in_tier
    BY <2>1, FlagSet, Zenon
  <2> HIDE DEF p
  <2> QED
    BY <2>1, <2>2, <2>3, SeatLeftRoster
<1> QED
  BY <1>1, <1>2 DEF ValueStep

LEMMA ExitRoster ==
  ASSUME RosterInv, NEW c \in Cards, ExitStep(c)
  PROVE  RosterOK'
<1>0. TypeInv /\ pos \in [Cards -> Position]
  BY DEF RosterInv, TypeInv, TypeOK
<1>a. pos[c].state # "Active" => ~pos[c].in_tier
  BY Zenon DEF RosterInv, RosterOK, Members
<1>1. CASE Withdraw(c)
  <2>1. LeaveSeat(c, NoPosition, Cards)
    BY <1>1 DEF Withdraw
  <2> QED
    BY <2>1, NoPositionType, FlagsOff, SeatLeftRoster
<1>2. CASE SeizeActive(c)
  <2> DEFINE q == [pos[c] EXCEPT !.state = "Seized"]
             p == [q EXCEPT !.in_tier = FALSE]
  <2>1. q \in Position /\ p \in Position
    BY <1>0 DEF Position, PositionStates
  <2>2. LeaveSeat(c, p, {})
    BY <1>2 DEF SeizeActive
  <2> HIDE DEF q
  <2>3. ~p.in_tier
    BY <2>1, FlagSet, Zenon
  <2> HIDE DEF p
  <2>4. {} \in SUBSET Cards
    OBVIOUS
  <2> QED
    BY <2>1, <2>2, <2>3, <2>4, SeatLeftRoster
<1>3. CASE ClaimNft(c)
  <2>1. /\ pos' = [pos EXCEPT ![c] = NoPosition] /\ UNCHANGED tier
        /\ pos[c].state # "Active"
    BY <1>3 DEF ClaimNft
  <2> QED
    BY <2>1, NoPositionType, FlagsOff, OutsiderAccount
<1>4. CASE SeizeWeightless(c)
  <2> DEFINE p == [pos[c] EXCEPT !.state = "Seized"]
  <2>1. p \in Position /\ pos' = [pos EXCEPT ![c] = p] /\ UNCHANGED tier /\ pos[c].state # "Active"
    BY <1>0, <1>4 DEF SeizeWeightless, Position, PositionStates
  <2>2. p.in_tier = pos[c].in_tier
    BY <1>0, FlagsOff
  <2> HIDE DEF p
  <2>3. ~p.in_tier
    BY <1>a, <2>1, <2>2, Zenon
  <2> QED
    BY <2>1, <2>3, OutsiderAccount
<1> QED
  BY <1>1, <1>2, <1>3, <1>4 DEF ExitStep

LEMMA StepKeepsRoster == RosterInv /\ [Next]_vars => RosterInv'
<1> SUFFICES ASSUME RosterInv, [Next]_vars PROVE RosterInv'
  OBVIOUS
<1>0. /\ TypeInv /\ TypeInv' /\ IdsApart' /\ pos \in [Cards -> Position]
  BY StepKeepsType, StepKeepsIds DEF RosterInv, TypeInv, TypeOK
<1> SUFFICES RosterOK'
  BY <1>0 DEF RosterInv
<1>r. CASE UNCHANGED <<pos, tier>>
  BY <1>r, Zenon DEF RosterInv, RosterOK, Ranked, Seated, Members
<1>1. CASE UNCHANGED vars
  BY <1>r, <1>1 DEF vars
<1>2. CASE Tick \/ BeginSweep \/ EndSweep \/ RollStep
  BY <1>r, <1>2 DEF Tick, BeginSweep, EndSweep, RollStep, CommitRolls, VrfCallback
<1>3. ASSUME NEW c \in Cards, DepositStep(c) \/ ValueStep(c) \/ ExitStep(c)
      PROVE  RosterOK'
  BY <1>3, DepositRoster, ValueRoster, ExitRoster
<1>4. ASSUME NEW c \in Cards, UpdateTier(c) PROVE RosterOK'
  <2>1. pos[c] \in Position /\ TakeSeat(c, pos[c]) /\ pos[c].state = "Active"
    BY <1>0, <1>4 DEF UpdateTier, EligibleCandidate
  <2>2. c \notin Members
    BY <1>4, Zenon DEF UpdateTier, EligibleCandidate, Members
  <2> QED
    BY <2>1, <2>2, SeatTakenRoster
<1>5. ASSUME NEW c \in Cards, CollateralMoves(c) PROVE RosterOK'
  BY <1>r, <1>5 DEF CollateralMoves
<1>6. CASE AdminStep
  <2>1. ASSUME NEW new \in Configs, UpdateConfig(new) PROVE RosterOK'
    <3>1. new.tier_size \in Nat
      BY <2>1, PoolAssumption, ConfigAssumption DEF ConfigType
    <3>2. /\ tier' = Shrink(tier, new.tier_size) \/ tier' = tier
          /\ pos' = [c \in Cards |->
                      [pos[c] EXCEPT !.in_tier = @ /\ c \notin Holders(tier) \ Holders(tier')]]
      BY <2>1, Zenon DEF UpdateConfig
    <3> QED
      BY <3>1, <3>2, ShrunkRoster
  <2>2. ASSUME NEW x, NEW y, SetPause(x, y) PROVE RosterOK'
    BY <1>r, <2>2 DEF SetPause
  <2> QED
    BY <1>6, <2>1, <2>2 DEF AdminStep
<1> QED
  BY <1>1, <1>2, <1>3, <1>4, <1>5, <1>6 DEF Next

LEMMA InitRoster == Init => RosterInv
<1> SUFFICES ASSUME Init PROVE RosterInv
  OBVIOUS
<1>1. /\ TypeInv /\ tier = << >> /\ Len(tier) = 0
      /\ \A c \in Cards : pos[c] = NoPosition
  BY InitType DEF Init
<1>2. IdsApart
  BY <1>1 DEF IdsApart, NoPosition
<1>3. 1..Len(tier) = {}
  BY <1>1
<1>4. Members = {}
  BY <1>1, FlagsOff, Zenon DEF Members
<1>5. RosterOK
  BY <1>3, <1>4 DEF RosterOK, Ranked, Seated
<1> QED
  BY <1>1, <1>2, <1>5 DEF RosterInv

\* The rank order of the tier, through every insertion, refresh, vacancy and cut.
THEOREM TierAlwaysRanked == Spec => []TierRanked
<1>1. RosterInv => TierRanked
  BY RosterFacts DEF TierRanked, Ranked
<1> QED
  BY <1>1, InitRoster, StepKeepsRoster, PTL DEF Spec

\* The flag on a position and the entry in the tier account never part, whoever
\* is seated, displaced, cut off, closed or seized.
THEOREM TierAlwaysMirrors == Spec => []TierMirrorsMembers
<1>1. RosterInv => TierMirrorsMembers
  <2> SUFFICES ASSUME RosterInv PROVE TierMirrorsMembers
    OBVIOUS
  <2>1. \A i, j \in 1..Len(tier) : tier[i].position = tier[j].position => i = j
    BY RosterFacts, OneSeatEach
  <2>2. Holders(tier) = {c \in Cards : pos[c].in_tier}
    BY RosterFacts DEF Members
  <2>3. ASSUME NEW i \in 1..Len(tier)
        PROVE  /\ pos[tier[i].position].state = "Active"
               /\ tier[i] = Entry(tier[i].position, pos[tier[i].position])
    <3>1. tier[i] \in Seated(tier)
      BY DEF Seated
    <3> QED
      BY <3>1, RosterFacts DEF RosterInv, RosterOK
  <2> QED
    BY <2>1, <2>2, <2>3 DEF TierMirrorsMembers
<1> QED
  BY <1>1, InitRoster, StepKeepsRoster, PTL DEF Spec

---------------------------------------------------------------------------------
(* What an operator's script resolves. *)

\* No Active position was activated in the future.
StampsPast == \A c \in Cards : pos[c].state = "Active" => pos[c].activated_at <= now

LEMMA ClockAdvances ==
  ASSUME [Next]_vars
  PROVE  UNCHANGED now \/ now' = now + 1
<1>1. CASE UNCHANGED vars
  BY <1>1 DEF vars
<1>2. CASE Tick \/ BeginSweep \/ EndSweep \/ AdminStep \/ RollStep
  BY <1>2 DEF Tick, BeginSweep, EndSweep, AdminStep, UpdateConfig, SetPause, RollStep,
              CommitRolls, VrfCallback
<1>3. ASSUME NEW c \in Cards, DepositStep(c) PROVE UNCHANGED now
  BY <1>3 DEF DepositStep, Deposit, ApproveDeposit, RejectDeposit, ReturnRejected
<1>4. ASSUME NEW c \in Cards, ValueStep(c) PROVE UNCHANGED now
  BY <1>4 DEF ValueStep, RecordRefresh, RecordClose
<1>5. ASSUME NEW c \in Cards, ExitStep(c) PROVE UNCHANGED now
  BY <1>5 DEF ExitStep, Withdraw, ClaimNft, SeizeActive, SeizeWeightless
<1>6. ASSUME NEW c \in Cards, UpdateTier(c) \/ CollateralMoves(c) PROVE UNCHANGED now
  BY <1>6 DEF UpdateTier, CollateralMoves
<1> QED
  BY <1>1, <1>2, <1>3, <1>4, <1>5, <1>6 DEF Next

LEMMA StepKeepsStamps ==
  ASSUME TypeInv, StampsPast, [Next]_vars
  PROVE  StampsPast'
<1>0. /\ now \in Nat /\ now <= now' /\ now' \in Nat
      /\ \A c \in Cards : pos[c].activated_at \in Nat
  BY ClockAdvances, PoolAssumption DEF TypeInv, TypeOK, Position
<1>1. \A c \in Cards : Stays(c) => (pos'[c].state = "Active" => pos'[c].activated_at <= now')
  BY <1>0 DEF Stays, StampsPast
<1>2. CASE BooksRest
  BY <1>1, <1>2 DEF BooksRest, StampsPast
<1>3. ASSUME NEW c \in Cards, BooksMove(c) PROVE StampsPast'
  <2>1. pos'[c].state = "Active" => pos'[c].activated_at <= now'
    <3>1. ASSUME NEW v \in Nat, Arrives(c, v) PROVE pos'[c].activated_at <= now'
      BY <1>0, <3>1 DEF Arrives
    <3>2. ASSUME NEW v \in Nat, Revalued(c, v) PROVE pos'[c].activated_at <= now'
      BY <1>0, <3>2 DEF Revalued, StampsPast
    <3>3. Departs(c) => pos'[c].state # "Active"
      BY DEF Departs
    <3> QED
      BY <1>3, <3>1, <3>2, <3>3, PoolAssumption DEF BooksMove
  <2>2. \A d \in Cards \ {c} : Stays(d)
    BY <1>3 DEF BooksMove
  <2> QED
    BY <1>1, <2>1, <2>2 DEF StampsPast
<1> QED
  BY <1>2, <1>3, StepMovesBooks

\* Against the last member, the script's two keys and the handler's rank agree.
LEMMA LastMemberResolved ==
  ASSUME RosterInv, NEW activating \in BOOLEAN, NEW entry \in TierEntry,
         tier # << >> => (ResolverOutranks(activating, entry, tier[Len(tier)])
                           <=> Outranks(entry, tier[Len(tier)]))
  PROVE  ResolveDisplaced(activating, entry) = DisplacedBy(entry)
<1>1. Len(tier) \in Nat /\ cfg.tier_size \in Nat \ {0} /\ Len(tier) <= cfg.tier_size
  BY RosterFacts
<1>2. CASE Len(tier) < cfg.tier_size
  BY <1>1, <1>2 DEF ResolveDisplaced, DisplacedBy, Displaced
<1>3. CASE ~(Len(tier) < cfg.tier_size)
  <2>1. Len(tier) = cfg.tier_size /\ Len(tier) >= cfg.tier_size /\ tier # << >>
    BY <1>1, <1>3
  <2> QED
    BY <1>3, <2>1 DEF ResolveDisplaced, DisplacedBy, Displaced, Admits
<1> QED
  BY <1>2, <1>3

\* Read from the accounts alone, the script names the very member the handler
\* will settle: a stored key is ranked as the handler ranks it, and an
\* activation loses every tie because no member was activated after it.
THEOREM DisplacementsAlwaysMatch == Spec => []ResolvedDisplacementsMatch
<1> DEFINE Inv == RosterInv /\ StampsPast
<1>1. Init => Inv
  BY InitRoster DEF Init, StampsPast, NoPosition
<1>2. Inv /\ [Next]_vars => Inv'
  BY StepKeepsRoster, StepKeepsStamps DEF RosterInv
<1>3. Inv => ResolvedDisplacementsMatch
  <2> SUFFICES ASSUME Inv, NEW c \in Cards, NEW v \in Values
               PROVE  LET stored == Entry(c, [pos[c] EXCEPT !.recorded_value = v])
                          fresh == [stored EXCEPT !.activated_at = now]
                      IN  /\ EligibleCandidate(c)
                             => ResolveDisplaced(FALSE, stored) = DisplacedBy(stored)
                          /\ pos[c].state = "Pending" /\ ~OlderTwin(fresh)
                             => ResolveDisplaced(TRUE, fresh) = DisplacedBy(fresh)
    BY Zenon DEF ResolvedDisplacementsMatch
  <2> DEFINE stored == Entry(c, [pos[c] EXCEPT !.recorded_value = v])
             fresh == [stored EXCEPT !.activated_at = now]
  <2>0. /\ RosterInv /\ StampsPast /\ pos[c] \in Position /\ v \in Nat /\ now \in Nat
    BY PoolAssumption DEF RosterInv, TypeInv, TypeOK
  <2>1. stored \in TierEntry /\ fresh \in TierEntry /\ fresh.activated_at = now
    BY <2>0 DEF Entry, Position, TierEntry
  <2> HIDE DEF stored, fresh
  <2>2. ResolveDisplaced(FALSE, stored) = DisplacedBy(stored)
    BY <2>0, <2>1, LastMemberResolved DEF ResolverOutranks
  <2>3. ASSUME ~OlderTwin(fresh) PROVE ResolveDisplaced(TRUE, fresh) = DisplacedBy(fresh)
    <3>1. ASSUME tier # << >>
          PROVE  fresh.value > tier[Len(tier)].value <=> Outranks(fresh, tier[Len(tier)])
      <4> DEFINE m == tier[Len(tier)]
      <4>1. m \in Seated(tier) /\ m \in TierEntry
        BY <2>0, <3>1, RosterFacts, EmptySeq, ElementOfSeq DEF Seated
      <4>2. m.activated_at <= now
        <5>1. /\ m.position \in Members /\ m = Entry(m.position, pos[m.position])
          BY <2>0, <4>1, RosterFacts
        <5>2. m.position \in Cards /\ pos[m.position].state = "Active"
          BY <2>0, <5>1 DEF RosterInv, RosterOK, Members
        <5>3. m.activated_at = pos[m.position].activated_at
          BY <5>1 DEF Entry
        <5> QED
          BY <2>0, <5>2, <5>3 DEF StampsPast
      <4>3. ~(fresh.value = m.value /\ fresh.activated_at = m.activated_at
              /\ fresh.position_id < m.position_id)
        BY <2>3, <3>1 DEF OlderTwin
      <4> HIDE DEF m
      <4>4. fresh.value > m.value <=> Outranks(fresh, m)
        BY <2>0, <2>1, <4>1, <4>2, <4>3 DEF TierEntry, Outranks
      <4> QED
        BY <4>4 DEF m
    <3> QED
      BY <2>0, <2>1, <3>1, LastMemberResolved DEF ResolverOutranks
  <2> QED
    BY <2>2, <2>3 DEF stored, fresh
<1> QED
  BY <1>1, <1>2, <1>3, PTL DEF Spec

---------------------------------------------------------------------------------
(* Seats and real cards. *)

LEMMA SeatCount ==
  ASSUME RosterInv
  PROVE  IsFiniteSet(Members) /\ Cardinality(Members) = Len(tier)
<1> DEFINE n == Len(tier)
           f == [i \in 1..n |-> tier[i].position]
<1>1. /\ n \in Nat /\ tier \in Seq(TierEntry) /\ Ranked(tier) /\ OneEach(tier)
      /\ Holders(tier) = Members
  BY RosterFacts
<1>2. Members = {tier[i].position : i \in 1..n}
  BY <1>1 DEF Holders
<1>3. \A i, j \in 1..n : tier[i].position = tier[j].position => i = j
  BY <1>1, OneSeatEach
<1>4. f \in Bijection(1..n, Members)
  <2>1. f \in [1..n -> Members]
    BY <1>2
  <2>2. \A m \in Members : \E i \in 1..n : f[i] = m
    BY <1>2
  <2>3. \A i, j \in 1..n : f[i] = f[j] => i = j
    BY <1>3
  <2> HIDE DEF f, n
  <2> QED
    BY <2>1, <2>2, <2>3 DEF Bijection, Injection, Surjection, IsInjective
<1>5. ExistsBijection(1..n, Members)
  BY <1>4 DEF ExistsBijection
<1>6. IsFiniteSet(Members)
  BY <1>1, PoolAssumption, FS_Subset DEF Members
<1> HIDE DEF n
<1>7. Cardinality(Members) = n
  BY <1>1, <1>5, FS_CountingElements
<1> QED
  BY <1>6, <1>7 DEF n

\* There are as many members as seats taken, so a tier shorter than the count of
\* real cards leaves one of them outside.
LEMMA RoomAndCandidates ==
  ASSUME RosterInv, BooksBalance
  PROVE  /\ Members \subseteq ActiveCards /\ Eligible = ActiveCards \ Members
         /\ IsFiniteSet(Eligible)
         /\ n_real \in Nat /\ Len(tier) \in Nat /\ Len(tier) <= n_real
         /\ Len(tier) < n_real <=> Eligible # {}
<1>1. IsFiniteSet(ActiveCards) /\ n_real = Cardinality(ActiveCards)
  BY PoolAssumption, FS_Subset DEF BooksBalance, ActiveCards
<1>2. Members \subseteq ActiveCards
  BY DEF RosterInv, RosterOK, Members, ActiveCards
<1>3. Eligible = ActiveCards \ Members
  BY Zenon DEF Eligible, ActiveCards, Members
<1>4. IsFiniteSet(Members) /\ Cardinality(Members) = Len(tier)
  BY SeatCount
<1>5. /\ Cardinality(Members) <= Cardinality(ActiveCards)
      /\ Cardinality(Members) = Cardinality(ActiveCards) => Members = ActiveCards
      /\ Cardinality(Members) \in Nat /\ Cardinality(ActiveCards) \in Nat
  BY <1>1, <1>2, <1>4, FS_Subset, FS_CardinalityType
<1>6. IsFiniteSet(Eligible)
  BY <1>1, <1>3, FS_Subset
<1> QED
  BY <1>1, <1>2, <1>3, <1>4, <1>5, <1>6

\* A tier that keeps commit_rolls shut can always be mended: some Active position
\* is outside it and there is room to seat it.
THEOREM ShortTierAlwaysCurable == Spec => []ShortTierCurable
<1>1. RosterInv /\ BooksBalance => ShortTierCurable
  <2> SUFFICES ASSUME RosterInv, BooksBalance, ~TierFull
               PROVE  \E c \in Cards :
                        EligibleCandidate(c) /\ Admits(tier, cfg.tier_size, Entry(c, pos[c]))
    BY DEF ShortTierCurable
  <2>1. /\ n_real \in Nat /\ Len(tier) \in Nat /\ Len(tier) <= n_real
        /\ Len(tier) < n_real <=> Eligible # {}
    BY RoomAndCandidates
  <2>2. cfg.tier_size \in Nat /\ Len(tier) <= cfg.tier_size
    BY RosterFacts
  <2>3. Len(tier) < n_real /\ Len(tier) < cfg.tier_size
    BY <2>1, <2>2 DEF TierFull
  <2>4. PICK c \in Eligible : TRUE
    BY <2>1, <2>3
  <2>5. c \in Cards /\ EligibleCandidate(c)
    BY Zenon DEF Eligible, EligibleCandidate
  <2>6. Admits(tier, cfg.tier_size, Entry(c, pos[c]))
    BY <2>1, <2>2, <2>3 DEF Admits
  <2> QED
    BY <2>5, <2>6
<1> QED
  BY <1>1, InitRoster, StepKeepsRoster, BooksAlwaysBalance, PTL DEF Spec

---------------------------------------------------------------------------------
(* Closings that name the resolved successor. *)

\* e is ranked above every other element of S.
Highest(key, S, e) == \A d \in S \ {e} : Outranks(key[e], key[d])

\* A finite set of entries with ids of their own has a highest.
LEMMA HighestExists ==
  ASSUME NEW U, NEW key \in [U -> TierEntry], NEW S \in SUBSET U, IsFiniteSet(S), S # {},
         \A d, e \in S : key[d].position_id = key[e].position_id => d = e
  PROVE  \E e \in S : Highest(key, S, e)
<1> DEFINE Bad(T) == /\ T # {} /\ IsFiniteSet(T)
                     /\ \A e \in T : ~Highest(key, T, e)
           sizes == {Cardinality(T) : T \in {T \in SUBSET S : Bad(T)}}
<1>1. SUFFICES ASSUME sizes # {} PROVE FALSE
  <2>1. Bad(S) => Cardinality(S) \in sizes
    OBVIOUS
  <2> QED
    BY <1>1, <2>1
<1>2. sizes \subseteq Nat
  BY FS_CardinalityType
<1>3. PICK n \in sizes : \A m \in sizes : n <= m
  BY <1>1, <1>2, LeastNatural
<1>4. PICK T \in SUBSET S : Bad(T) /\ Cardinality(T) = n
  BY <1>3
<1>5. PICK e \in T : TRUE
  BY <1>4
<1> DEFINE R == T \ {e}
<1>6. IsFiniteSet(R) /\ Cardinality(R) = n - 1 /\ n \in Nat
  BY <1>2, <1>3, <1>4, <1>5, FS_RemoveElement
<1>7. ~Bad(R)
  <2>1. Bad(R) => Cardinality(R) \in sizes
    BY <1>4
  <2> QED
    BY <1>3, <1>6, <2>1
<1>8. CASE R = {}
  BY <1>4, <1>8 DEF Highest
<1>9. CASE R # {}
  <2>1. PICK h \in R : Highest(key, R, h)
    BY <1>6, <1>7, <1>9
  <2>2. /\ h \in S /\ e \in S /\ h # e /\ key[h] \in TierEntry /\ key[e] \in TierEntry
        /\ key[e].position_id # key[h].position_id
    BY <1>4, <1>5, <2>1
  <2>3. Outranks(key[e], key[h]) \/ Outranks(key[h], key[e])
    BY <2>2, OutranksOrders
  <2>4. CASE Outranks(key[h], key[e])
    <3>1. Highest(key, T, h)
      BY <1>5, <2>1, <2>4 DEF Highest
    <3> QED
      BY <1>4, <2>1, <3>1
  <2>5. CASE Outranks(key[e], key[h])
    <3>1. ASSUME NEW d \in T \ {e} PROVE Outranks(key[e], key[d])
      <4>1. d = h \/ Outranks(key[h], key[d])
        BY <2>1, <3>1 DEF Highest
      <4>2. key[d] \in TierEntry
        BY <1>4, <3>1
      <4> QED
        BY <2>2, <2>5, <4>1, <4>2, OutranksOrders
    <3>2. Highest(key, T, e)
      BY <3>1 DEF Highest
    <3> QED
      BY <1>4, <1>5, <3>2
  <2> QED
    BY <2>3, <2>4, <2>5
<1> QED
  BY <1>8, <1>9

\* The script's reduction finds one successor, unless nobody is eligible.
LEMMA OneSuccessor ==
  ASSUME RosterInv, Eligible # {}
  PROVE  \E h \in Eligible : HighestEligible = {h}
<1> DEFINE key == [d \in Cards |-> Entry(d, pos[d])]
<1>1. /\ TypeInv /\ IdsApart /\ pos \in [Cards -> Position]
      /\ Eligible \subseteq Cards /\ IsFiniteSet(Eligible)
  BY PoolAssumption, FS_Subset DEF RosterInv, TypeInv, TypeOK, Eligible
<1>2. key \in [Cards -> TierEntry]
  BY <1>1, EntryInTier
<1>3. \A d, e \in Eligible : key[d].position_id = key[e].position_id => d = e
  BY <1>1 DEF Entry, IdsApart, Eligible
<1>4. \A d \in Cards : key[d] = Entry(d, pos[d])
  OBVIOUS
<1> HIDE DEF key
<1>5. PICK h \in Eligible : Highest(key, Eligible, h)
  BY <1>1, <1>2, <1>3, HighestExists
<1>6. h \in HighestEligible
  BY <1>1, <1>4, <1>5 DEF Highest, HighestEligible
<1>7. ASSUME NEW g \in HighestEligible, g # h PROVE FALSE
  <2>1. g \in Eligible /\ Outranks(key[g], key[h]) /\ Outranks(key[h], key[g])
    BY <1>1, <1>4, <1>5, <1>7 DEF Highest, HighestEligible
  <2> QED
    BY <1>1, <1>2, <2>1, OutranksOrders
<1> QED
  BY <1>6, <1>7

\* TierIsTop, read from the accounts.
LEMMA TopByAccounts ==
  ASSUME RosterInv
  PROVE  TierIsTop <=> \A d \in Eligible, m \in Members :
                          ~Outranks(Entry(d, pos[d]), Entry(m, pos[m]))
<1>1. DOMAIN tier = 1..Len(tier)
  BY RosterFacts, LenProperties
<1>2. Seated(tier) = {Entry(m, pos[m]) : m \in Members}
  BY DEF RosterInv, RosterOK
<1> QED
  BY <1>1, <1>2 DEF TierIsTop, Seated

\* What a step that closes an Active position does to the entries of the others,
\* to the real count and to the configuration.
LEMMA ClosingMoves ==
  ASSUME TypeInv, [Next]_vars, NEW c \in Cards,
         pos[c].state = "Active", pos'[c].state # "Active"
  PROVE  /\ UNCHANGED cfg /\ n_real >= 1 /\ n_real' = n_real - 1
         /\ \A d \in Cards \ {c} : /\ Entry(d, pos'[d]) = Entry(d, pos[d])
                                   /\ pos'[d].state = pos[d].state
<1>0. pos \in [Cards -> Position]
  BY DEF TypeInv, TypeOK
<1>1. \/ Withdraw(c) \/ (\E v \in Values : RecordClose(c, v)) \/ SeizeActive(c)
  <2>1. ~SeizeWeightless(c)
    BY DEF SeizeWeightless
  <2> QED
    BY <2>1, StateMoves
<1>2. /\ UNCHANGED cfg /\ DepartWeight(c)
      /\ \E p \in Position, heirs \in SUBSET Cards : LeaveSeat(c, p, heirs)
  <2>1. CASE Withdraw(c)
    BY <2>1, NoPositionType DEF Withdraw, adminVars
  <2>2. ASSUME NEW v \in Values, RecordClose(c, v)
        PROVE  /\ UNCHANGED cfg /\ DepartWeight(c)
               /\ \E p \in Position : LeaveSeat(c, p, Cards)
    <3> DEFINE p == [pos[c] EXCEPT !.state = "ClosedBelowFloor", !.recorded_value = v,
                                   !.in_tier = FALSE]
    <3>1. p \in Position
      BY <1>0, PoolAssumption DEF Position, PositionStates
    <3>2. UNCHANGED cfg /\ DepartWeight(c) /\ LeaveSeat(c, p, Cards)
      BY <2>2 DEF RecordClose, adminVars
    <3> QED
      BY <3>1, <3>2
  <2>3. CASE SeizeActive(c)
    <3> DEFINE p == [pos[c] EXCEPT !.state = "Seized", !.in_tier = FALSE]
    <3>1. p \in Position
      BY <1>0 DEF Position, PositionStates
    <3>2. UNCHANGED cfg /\ DepartWeight(c) /\ LeaveSeat(c, p, {})
      BY <2>3 DEF SeizeActive, adminVars
    <3> QED
      BY <3>1, <3>2
  <2> QED
    BY <1>1, <2>1, <2>2, <2>3
<1>3. n_real >= 1 /\ n_real' = n_real - 1
  BY <1>2 DEF DepartWeight
<1> QED
  BY <1>2, <1>3, SeatsKeepEntries

\* What the roster says of a state's seats and of its top: the step below needs it
\* of both its states.
SeatFacts ==
  /\ Len(tier) \in Nat /\ Len(tier) <= cfg.tier_size /\ cfg.tier_size \in Nat
  /\ Holders(tier) = Members
  /\ IsFiniteSet(Members) /\ Cardinality(Members) = Len(tier)
  /\ TierIsTop <=> \A d \in Eligible, m \in Members :
                      ~Outranks(Entry(d, pos[d]), Entry(m, pos[m]))

\* A closing that names the resolved successor, from a tier as long as it should
\* be and on top of everybody else.
LEMMA SuccessorKeepsTheTop ==
  ASSUME RosterInv, BooksBalance, SeatFacts, SeatFacts', [Next]_vars, NEW c \in Cards,
         pos[c].state = "Active", pos'[c].state # "Active",
         Holders(tier') = (Holders(tier) \ {c}) \cup ResolveSuccessor(c)
  PROVE  (TierFull => TierFull') /\ (TierIsTop => TierIsTop')
<1>1. /\ cfg' = cfg /\ n_real >= 1 /\ n_real' = n_real - 1
      /\ \A d \in Cards \ {c} : /\ Entry(d, pos'[d]) = Entry(d, pos[d])
                                /\ pos'[d].state = pos[d].state
  BY ClosingMoves DEF RosterInv
<1>2. /\ Len(tier) \in Nat /\ Len(tier) <= cfg.tier_size /\ cfg.tier_size \in Nat
      /\ Holders(tier) = Members
      /\ IsFiniteSet(Members) /\ Cardinality(Members) = Len(tier)
  BY DEF SeatFacts
<1>3. Len(tier') \in Nat /\ Cardinality(Members') = Len(tier')
  BY DEF SeatFacts
<1>4. Members' = (Members \ {c}) \cup (IF c \in Members THEN HighestEligible ELSE {})
  BY DEF SeatFacts, ResolveSuccessor
<1>5. /\ Members \subseteq ActiveCards /\ Eligible = ActiveCards \ Members
      /\ n_real \in Nat /\ Len(tier) <= n_real
      /\ Len(tier) < n_real <=> Eligible # {}
  BY RoomAndCandidates
<1>6. c \in ActiveCards
  BY DEF ActiveCards
<1>7. ASSUME TierFull PROVE TierFull'
  <2>1. CASE c \notin Members
    <3>1. Members' = Members
      BY <1>4, <2>1
    <3>2. Len(tier') = Len(tier) /\ Len(tier) < n_real
      BY <1>2, <1>3, <1>5, <1>6, <2>1, <3>1
    <3> QED
      BY <1>1, <1>2, <1>5, <1>7, <3>2 DEF TierFull
  <2>2. CASE c \in Members /\ Eligible = {}
    <3>1. Members' = Members \ {c}
      BY <1>4, <2>2 DEF HighestEligible
    <3>2. Len(tier') = Len(tier) - 1
      <4>1. Cardinality(Members \ {c}) = Cardinality(Members) - 1
        BY <1>2, <2>2, FS_RemoveElement, Zenon
      <4> QED
        BY <1>2, <1>3, <3>1, <4>1
    <3>3. n_real' = n_real - 1 /\ cfg' = cfg
      BY <1>1, Zenon
    <3>4. Len(tier) = n_real
      <4>1. ~(Len(tier) < n_real)
        BY <1>5, <2>2, Zenon
      <4> QED
        BY <1>2, <1>5, <4>1
    <3> QED
      BY <1>2, <1>5, <3>2, <3>3, <3>4 DEF TierFull
  <2>3. CASE c \in Members /\ Eligible # {}
    <3>1. PICK h \in Eligible : HighestEligible = {h}
      BY <2>3, OneSuccessor
    <3>2. Members' = (Members \ {c}) \cup {h} /\ h \notin Members \ {c}
      BY <1>4, <1>5, <2>3, <3>1
    <3>3. Len(tier') = Len(tier)
      <4>1. /\ IsFiniteSet(Members \ {c})
            /\ Cardinality(Members \ {c}) = Len(tier) - 1
        BY <1>2, <2>3, FS_RemoveElement
      <4>2. Cardinality((Members \ {c}) \cup {h}) = Cardinality(Members \ {c}) + 1
        BY <3>2, <4>1, FS_AddElement
      <4>3. Members' = (Members \ {c}) \cup {h}
        BY <3>2
      <4> QED
        BY <1>2, <1>3, <4>1, <4>2, <4>3
    <3> QED
      BY <1>1, <1>2, <1>5, <1>7, <2>3, <3>3 DEF TierFull
  <2> QED
    BY <2>1, <2>2, <2>3
<1>8. ASSUME TierIsTop PROVE TierIsTop'
  <2>1. \A d \in Eligible, m \in Members : ~Outranks(Entry(d, pos[d]), Entry(m, pos[m]))
    BY <1>8 DEF SeatFacts
  <2>2. ASSUME NEW d \in Eligible', NEW m \in Members'
        PROVE  ~Outranks(Entry(d, pos'[d]), Entry(m, pos'[m]))
    <3>1. d \in Cards /\ pos'[d].state = "Active" /\ d \notin Members'
      BY <2>2, Zenon DEF Eligible, Members
    <3>2. d # c /\ d \in ActiveCards /\ Entry(d, pos'[d]) = Entry(d, pos[d])
      BY <1>1, <3>1 DEF ActiveCards
    <3>3. d \in Eligible
      <4>1. d \notin Members
        BY <1>4, <3>1, <3>2
      <4> QED
        BY <1>5, <3>2, <4>1
    <3>4. m # c /\ (m \in Members \/ (c \in Members /\ m \in HighestEligible))
      <4>1. HighestEligible \subseteq Eligible
        BY DEF HighestEligible
      <4> QED
        BY <1>4, <1>5, <4>1
    <3>5. m \in Cards /\ Entry(m, pos'[m]) = Entry(m, pos[m])
      BY <1>1, <3>4 DEF HighestEligible, Eligible, Members
    <3>6. CASE m \in Members
      BY <2>1, <3>2, <3>3, <3>5, <3>6
    <3>7. CASE m \in HighestEligible /\ c \in Members
      <4>1. m \in Members'
        BY <1>4, <3>7
      <4>2. Outranks(Entry(m, pos[m]), Entry(d, pos[d]))
        BY <3>1, <3>3, <3>7, <4>1 DEF HighestEligible
      <4>3. Entry(m, pos[m]) \in TierEntry /\ Entry(d, pos[d]) \in TierEntry
        BY <3>1, <3>5, RosterFacts, EntryInTier
      <4> QED
        BY <3>2, <3>5, <4>2, <4>3, OutranksOrders
    <3> QED
      BY <3>4, <3>6, <3>7
  <2> QED
    BY <2>2 DEF SeatFacts
<1> QED
  BY <1>7, <1>8

\* The program ranks no successors and asks for none; a closing that names the
\* one the script resolves still leaves commit_rolls its full tier, and the
\* highest-ranked positions of all in it.
THEOREM ClosingsAlwaysKeepTheTop == Spec => ResolvedClosingsKeepTheTop
<1>1. RosterInv => SeatFacts
  BY RosterFacts, SeatCount, TopByAccounts DEF SeatFacts
<1>2. RosterInv /\ BooksBalance /\ SeatFacts /\ SeatFacts' /\ [Next]_vars =>
        [\A c \in Cards :
           /\ pos[c].state = "Active" /\ pos'[c].state # "Active"
           /\ Holders(tier') = (Holders(tier) \ {c}) \cup ResolveSuccessor(c)
           => (TierFull => TierFull') /\ (TierIsTop => TierIsTop')]_vars
  BY SuccessorKeepsTheTop
<1> QED
  BY <1>1, <1>2, InitRoster, StepKeepsRoster, BooksAlwaysBalance, PTL
     DEF Spec, ResolvedClosingsKeepTheTop
---------------------------------------------------------------------------------
(* Nobody is shut in. *)

\* What an exit of c asks of the books before it may undo them: every checked
\* subtraction has enough to subtract from, the leaf holds what is taken out of
\* it, there is room on the free stack, and a member has an entry to vacate.
BooksRelease(c) ==
  LET p == pos[c]
      w == WeightOf(p.recorded_value)
  IN  /\ Weighable(p.recorded_value) /\ w_real >= w /\ n_real >= 1
      /\ stats[p.depositor].active_positions >= 1
      /\ stats[p.depositor].active_value >= p.recorded_value
      /\ CanRemove(index, p.slot_index, w, w_real - w)
      /\ p.in_tier => c \in Holders(tier)

\* The settings under which the controller serves a pool of m cards: faces with a
\* weight, a target they can be mixed to, and fewer blanks than a u32 holds even for
\* cards that weigh nothing.
Serves(m) ==
  /\ \A i \in 1..3 : Weighable(cfg.blank_faces[i])
  /\ Den2(cfg.blank_faces, cfg.ticket_target) > 0
  /\ m * WeightC < MaxCount * Den2(cfg.blank_faces, cfg.ticket_target)

ControllerServes == Serves(n_real)

\* Every escrowed card passes one of the two gates: that of the exits where its
\* release is sure, that of close_seized where it is not.
GateOpen(c) == IF standing[c] = "settleable" THEN CollateralSettleable(c)
               ELSE CollateralUnreachable(c)

\* ExitOpen without ENABLED: the gates, the books and the controller, in the
\* handlers' terms.  The state, the lock and the freeze are ExitOpen's hypotheses.
ExitGranted ==
  \A c \in Cards :
    /\ GateOpen(c)
    /\ pos[c].state = "Active" =>
         /\ BooksRelease(c)
         /\ ControllerServes => CanEvaluate(n_real - 1, w_real - WeightOf(pos[c].recorded_value),
                                            cfg.blank_faces, cfg.ticket_target)

\* Only a Core card can be in any trouble: nobody but the vault moves a token.
TroubleIsCore == \A c \in Cards \ CoreCards : standing[c] = "settleable"

LEMMA StepKeepsTrouble == TypeInv /\ TroubleIsCore /\ [Next]_vars => TroubleIsCore'
<1> SUFFICES ASSUME TypeInv, TroubleIsCore, [Next]_vars PROVE TroubleIsCore'
  OBVIOUS
<1>0. standing \in [Cards -> AllStandings]
  BY DEF TypeInv, TypeOK
<1>1. ASSUME NEW c \in Cards, Release(c) PROVE TroubleIsCore'
  BY <1>0, <1>1 DEF Release, TroubleIsCore
<1>2. ASSUME NEW c \in Cards, CollateralMoves(c) PROVE TroubleIsCore'
  BY <1>0, <1>2 DEF CollateralMoves, TroubleIsCore
<1>3. ASSUME UNCHANGED standing PROVE TroubleIsCore'
  BY <1>3 DEF TroubleIsCore
<1>4. ASSUME NEW c \in Cards, DepositStep(c) PROVE TroubleIsCore'
  BY <1>1, <1>3, <1>4
     DEF DepositStep, Deposit, ApproveDeposit, RejectDeposit, ReturnRejected
<1>5. ASSUME NEW c \in Cards, ValueStep(c) PROVE TroubleIsCore'
  BY <1>3, <1>5 DEF ValueStep, RecordRefresh, RecordClose
<1>6. ASSUME NEW c \in Cards, ExitStep(c) PROVE TroubleIsCore'
  BY <1>1, <1>3, <1>6 DEF ExitStep, Withdraw, ClaimNft, SeizeActive, SeizeWeightless
<1>7. ASSUME NEW c \in Cards, UpdateTier(c) PROVE TroubleIsCore'
  BY <1>3, <1>7 DEF UpdateTier
<1>8. ASSUME Tick \/ BeginSweep \/ EndSweep \/ AdminStep \/ RollStep PROVE TroubleIsCore'
  BY <1>3, <1>8 DEF Tick, BeginSweep, EndSweep, AdminStep, UpdateConfig, SetPause,
                    RollStep, CommitRolls, VrfCallback
<1>9. CASE UNCHANGED vars
  BY <1>3, <1>9 DEF vars
<1> QED
  BY <1>2, <1>4, <1>5, <1>6, <1>7, <1>8, <1>9 DEF Next

\* A summand is no larger than the sum.
LEMMA TallyCovers ==
  ASSUME NEW f, NEW S, IsFiniteSet(S), \A x \in S : f[x] \in Nat, NEW c \in S
  PROVE  /\ Tally(f, S) \in Nat /\ f[c] \in Nat /\ Tally(f, S) >= f[c]
         /\ Cardinality(S) \in Nat /\ Cardinality(S) >= 1
<1>1. /\ Tally(f, S) \in Nat
      /\ Tally(f, S) = f[c] + Tally(f, S \ {c})
  BY TallyOfNaturals
<1>2. IsFiniteSet(S \ {c}) /\ Cardinality(S \ {c}) = Cardinality(S) - 1
  BY FS_RemoveElement
<1>3. Tally(f, S \ {c}) \in Nat
  BY <1>2, TallyOfNaturals
<1>4. Cardinality(S) \in Nat /\ Cardinality(S \ {c}) \in Nat
  BY <1>2, FS_CardinalityType
<1> DEFINE sum == Tally(f, S)
           rest == Tally(f, S \ {c})
           a == f[c]
<1>5. sum \in Nat /\ rest \in Nat /\ a \in Nat /\ sum = a + rest
  BY <1>1, <1>3
<1> HIDE DEF sum, rest, a
<1>6. sum >= a
  BY <1>5
<1> QED
  BY <1>2, <1>4, <1>5, <1>6 DEF sum, a

\* The counters hold the position they are about to lose.
LEMMA CountersCover ==
  ASSUME BookInv, NEW c \in ActiveCards
  PROVE  LET p == pos[c]
             w == WeightOf(p.recorded_value)
         IN  /\ Weighable(p.recorded_value) /\ w \in Nat /\ w_real >= w /\ n_real >= 1
             /\ stats[p.depositor].active_positions >= 1
             /\ stats[p.depositor].active_value >= p.recorded_value
             /\ index.total = w_real
<1> DEFINE d == pos[c].depositor
<1>1. /\ c \in Cards /\ d \in Wallets /\ c \in CardsOf(d) /\ CardsOf(d) \subseteq ActiveCards
      /\ ActiveCards \subseteq Cards
  BY DEF BookInv, ActiveCards, CardsOf
<1>2. Weighable(pos[c].recorded_value)
  BY DEF BookInv
<1>3. /\ CardWeights[c] = WeightOf(pos[c].recorded_value)
      /\ CardValues[c] = pos[c].recorded_value
  BY <1>1 DEF CardWeights, CardValues
<1>4. /\ IsFiniteSet(ActiveCards) /\ IsFiniteSet(CardsOf(d))
      /\ \A x \in ActiveCards : CardWeights[x] \in Nat
      /\ \A x \in CardsOf(d) : CardValues[x] \in Nat
  BY <1>1, BookFacts
<1>5. /\ CardWeights[c] \in Nat /\ Tally(CardWeights, ActiveCards) >= CardWeights[c]
      /\ Cardinality(ActiveCards) >= 1
  BY <1>4, TallyCovers
<1>6. Tally(CardValues, CardsOf(d)) >= CardValues[c] /\ Cardinality(CardsOf(d)) >= 1
  BY <1>1, <1>4, TallyCovers
<1>7. /\ n_real = Cardinality(ActiveCards) /\ w_real = Tally(CardWeights, ActiveCards)
      /\ index.total = w_real
      /\ stats[d].active_positions = Cardinality(CardsOf(d))
      /\ stats[d].active_value = Tally(CardValues, CardsOf(d))
  BY <1>1 DEF BookInv, BooksTally
<1> QED
  BY <1>2, <1>3, <1>5, <1>6, <1>7

LEMMA CountTo ==
  ASSUME NEW m \in Nat
  PROVE  IsFiniteSet(1..m) /\ Cardinality(1..m) = m
BY FS_Interval

\* While a position is Active its slot is missing from the free stack, so the
\* stack has a place for it.
LEMMA StackHasRoom ==
  ASSUME SlotInv, NEW c \in ActiveCards
  PROVE  Len(index.free) < Capacity
<1> DEFINE n == Len(index.free)
           s == pos[c].slot_index
           others == Slots \ {s}
           f == [i \in 1..n |-> index.free[i]]
           places == 1..n
<1>1. index.free \in Seq(Slots) /\ n \in Nat /\ Capacity \in Nat \ {0}
  BY CapacityAssumption DEF SlotInv, TypeInv, TypeOK, LedgerType
<1>2. s \in Slots /\ s \in OwnedSlots
  BY DEF SlotInv, OwnedSlots
<1>3. f \in [places -> others]
  <2> SUFFICES ASSUME NEW i \in 1..n PROVE index.free[i] \in Slots \ {s}
    OBVIOUS
  <2>1. index.free[i] \in FreeSlots(index) /\ index.free[i] \in Slots
    BY <1>1 DEF FreeSlots
  <2> QED
    BY <1>2, <2>1, SlotFacts
<1>4. \A i, j \in places : f[i] = f[j] => i = j
  BY SlotFacts DEF FreedOnce
<1>5. IsFiniteSet(Slots) /\ Cardinality(Slots) = Capacity
  <2>1. IsFiniteSet(0..Capacity - 1) /\ Cardinality(0..Capacity - 1) = Capacity
    BY CapacityAssumption, FS_Interval
  <2> QED
    BY <2>1, Zenon DEF Slots
<1>6. IsFiniteSet(others) /\ Cardinality(others) = Capacity - 1
  <2>1. IsFiniteSet(others) /\ Cardinality(others) = Cardinality(Slots) - 1
    BY <1>2, <1>5, FS_RemoveElement, Zenon
  <2> QED
    BY <1>5, <2>1, Zenon
<1>7. IsFiniteSet(places) /\ Cardinality(places) = n
  BY <1>1, CountTo, Zenon
<1> HIDE DEF n, others, f, places
<1>8. ~(Cardinality(others) < Cardinality(places))
  <2> SUFFICES ASSUME Cardinality(others) < Cardinality(places) PROVE FALSE
    OBVIOUS
  <2>1. PICK i \in places : \E j \in places : i # j /\ f[i] = f[j]
    BY <1>3, <1>6, <1>7, FS_PigeonHole
  <2> QED
    BY <1>4, <2>1, Zenon
<1>9. n < Capacity
  BY <1>1, <1>6, <1>7, <1>8
<1> QED
  BY <1>9 DEF n

\* The controller serves any pool of no more cards.
LEMMA ServedBooks ==
  ASSUME TypeInv, NEW m \in Nat, Serves(m), NEW n \in Nat, n <= m, NEW w \in Nat
  PROVE  CanEvaluate(n, w, cfg.blank_faces, cfg.ticket_target)
<1>1. cfg.ticket_target \in Nat /\ cfg.blank_faces \in Triples
  BY ConfigFields DEF TypeInv, TypeOK, Triples
<1> QED
  BY <1>1, BoundGrants DEF Serves

\* It goes on serving when a card leaves.
LEMMA ControllerServesOn ==
  ASSUME TypeInv, ControllerServes, n_real >= 1, NEW w \in Nat
  PROVE  CanEvaluate(n_real - 1, w, cfg.blank_faces, cfg.ticket_target)
<1>1. n_real \in Nat /\ n_real - 1 \in Nat /\ n_real - 1 <= n_real
  BY DEF TypeInv, TypeOK
<1> QED
  BY <1>1, ServedBooks DEF ControllerServes

\* Whatever the authorities of a card do and whatever has happened to the books, an
\* Active position's weight can be undone, one of the two gates takes its card, and
\* the controller refuses nothing under settings it serves.
THEOREM ExitsAlwaysGranted == Spec => []ExitGranted
<1>1. ASSUME LifeInv, BookInv, SlotInv, RosterInv, TroubleIsCore PROVE ExitGranted
  <2> SUFFICES ASSUME NEW c \in Cards
               PROVE  /\ GateOpen(c)
                      /\ pos[c].state = "Active" =>
                           /\ BooksRelease(c)
                           /\ ControllerServes =>
                                CanEvaluate(n_real - 1, w_real - WeightOf(pos[c].recorded_value),
                                            cfg.blank_faces, cfg.ticket_target)
    BY DEF ExitGranted
  <2>1. GateOpen(c)
    BY <1>1 DEF GateOpen, TroubleIsCore, CollateralSettleable, CollateralUnreachable
  <2>2. ASSUME pos[c].state = "Active" PROVE BooksRelease(c)
    <3>1. c \in ActiveCards
      BY <2>2 DEF ActiveCards
    <3>2. CanRemove(index, pos[c].slot_index, WeightOf(pos[c].recorded_value),
                    w_real - WeightOf(pos[c].recorded_value))
      <4> DEFINE w == WeightOf(pos[c].recorded_value)
      <4>1. w \in Nat /\ w_real >= w /\ index.total = w_real /\ index.total \in Words
        BY <1>1, <3>1, CountersCover, BookFacts DEF LedgerType
      <4>2. pos[c].slot_index \in Slots /\ index.leaf[pos[c].slot_index] = w
        BY <1>1, <3>1 DEF SlotInv, SlotsOwned
      <4> HIDE DEF w
      <4>3. Lands(index.total - w, w_real - w)
        BY <4>1, WordAssumption DEF Lands, Words
      <4>4. CanRemove(index, pos[c].slot_index, w, w_real - w)
        BY <1>1, <3>1, <4>2, <4>3, StackHasRoom DEF CanRemove
      <4> QED
        BY <4>4 DEF w
    <3>3. pos[c].in_tier => c \in Holders(tier)
      BY <1>1, RosterFacts DEF Members
    <3> QED
      BY <1>1, <3>1, <3>2, <3>3, CountersCover DEF BooksRelease
  <2>3. ASSUME pos[c].state = "Active", ControllerServes
        PROVE  CanEvaluate(n_real - 1, w_real - WeightOf(pos[c].recorded_value),
                           cfg.blank_faces, cfg.ticket_target)
    <3> DEFINE w == WeightOf(pos[c].recorded_value)
    <3>1. c \in ActiveCards
      BY <2>3 DEF ActiveCards
    <3>2. w \in Nat /\ w_real >= w /\ n_real >= 1 /\ w_real \in Nat
      BY <1>1, <3>1, CountersCover, BookFacts
    <3>3. w_real - w \in Nat
      <4> HIDE DEF w
      <4> QED
        BY <3>2
    <3> HIDE DEF w
    <3>4. CanEvaluate(n_real - 1, w_real - w, cfg.blank_faces, cfg.ticket_target)
      BY <1>1, <2>3, <3>2, <3>3, ControllerServesOn DEF BookInv
    <3> QED
      BY <3>4 DEF w
  <2> QED
    BY <2>1, <2>2, <2>3
<1>2. Init => LifeInv /\ BookInv /\ SlotInv /\ TroubleIsCore
  BY InitBooks, InitSlots DEF Init, TroubleIsCore
<1>3. LifeInv => TypeInv
  BY DEF LifeInv
<1> QED
  BY <1>1, <1>2, <1>3, InitRoster, StepKeepsRoster, StepKeepsLives, StepKeepsBooks, StepKeepsSlots,
     StepKeepsTrouble, PTL DEF Spec

\* What an exit of c then writes, p being its account after it: one assignment to
\* each variable, and nothing that could refuse.
Undone(c, p) ==
  LET old == pos[c]
      w == WeightOf(old.recorded_value)
  IN  /\ w_real' = w_real - w
      /\ n_real' = n_real - 1
      /\ stats' = [stats EXCEPT ![old.depositor].active_positions = @ - 1,
                                ![old.depositor].active_value = @ - old.recorded_value]
      /\ blanks' = Evaluate(n_real - 1, w_real - w, cfg.blank_faces, cfg.ticket_target)
      /\ index' = Remove(index, old.slot_index, w)
      /\ pos' = [pos EXCEPT ![c] = p]
      /\ tier' = IF old.in_tier THEN Demote(tier, c) ELSE tier
      /\ UNCHANGED <<position_counter, adminVars, sweep_pending, rollVars, now>>

\* ExitGranted leaves no guard out: a position it grants an exit, unlocked in a pool
\* that is not frozen, has the step of Withdraw or of SeizeActive that writes Undone.
LEMMA GrantedExitsAreSteps ==
  ASSUME ExitGranted, ControllerServes, WeightOpen,
         NEW c \in Cards, pos[c].state = "Active", now >= pos[c].lock_until
  PROVE  /\ standing[c] = "settleable" /\ Undone(c, NoPosition) /\ Release(c) => Withdraw(c)
         /\ /\ standing[c] # "settleable" /\ UNCHANGED standing
            /\ Undone(c, [pos[c] EXCEPT !.state = "Seized", !.in_tier = FALSE])
            => SeizeActive(c)
<1> DEFINE w == WeightOf(pos[c].recorded_value)
<1>1. /\ GateOpen(c) /\ BooksRelease(c)
      /\ CanEvaluate(n_real - 1, w_real - w, cfg.blank_faces, cfg.ticket_target)
  BY DEF ExitGranted
<1>2. ASSUME NEW p, Undone(c, p)
      PROVE  DepartWeight(c) /\ \A heirs : LeaveSeat(c, p, heirs)
  <2>1. w_real' = w_real - w /\ n_real' = n_real - 1
    BY <1>2 DEF Undone
  <2>2. Retarget
    BY <1>1, <1>2, <2>1 DEF Retarget, Undone
  <2>3. CanRemove(index, pos[c].slot_index, w, w_real')
    BY <1>1, <2>1 DEF BooksRelease
  <2>4. DepartWeight(c)
    BY <1>1, <1>2, <2>2, <2>3 DEF DepartWeight, BooksRelease, Undone
  <2>5. \A heirs : LeaveSeat(c, p, heirs)
    BY <1>1, <1>2 DEF LeaveSeat, BooksRelease, Undone
  <2> QED
    BY <2>4, <2>5
<1>3. ASSUME standing[c] = "settleable", Undone(c, NoPosition), Release(c)
      PROVE  Withdraw(c)
  BY <1>2, <1>3 DEF Withdraw, CollateralSettleable, Undone
<1>4. ASSUME standing[c] # "settleable", UNCHANGED standing,
             Undone(c, [pos[c] EXCEPT !.state = "Seized", !.in_tier = FALSE])
      PROVE  SeizeActive(c)
  BY <1>1, <1>2, <1>4 DEF SeizeActive, GateOpen, Undone
<1> QED
  BY <1>3, <1>4

\* Each Active position has a leaf of its own, so the index bounds the pool.
LEMMA PoolFitsIndex ==
  ASSUME BookInv, SlotInv
  PROVE  n_real \in Nat /\ n_real <= Capacity
<1> DEFINE f == [c \in ActiveCards |-> pos[c].slot_index]
<1>1. IsFiniteSet(Slots) /\ Cardinality(Slots) = Capacity /\ Capacity \in Nat
  <2>1. /\ IsFiniteSet(0..Capacity - 1) /\ Cardinality(0..Capacity - 1) = Capacity
        /\ Capacity \in Nat
    BY CapacityAssumption, FS_Interval
  <2> QED
    BY <2>1, Zenon DEF Slots
<1>2. /\ n_real \in Nat /\ n_real = Cardinality(ActiveCards) /\ IsFiniteSet(ActiveCards)
  BY BookFacts DEF BookInv, BooksTally
<1>3. f \in [ActiveCards -> Slots]
  BY DEF SlotInv
<1>4. \A c, d \in ActiveCards : f[c] = f[d] => c = d
  BY DEF SlotInv, SlotsOwned
<1> HIDE DEF f
<1>5. ~(Cardinality(Slots) < Cardinality(ActiveCards))
  <2> SUFFICES ASSUME Cardinality(Slots) < Cardinality(ActiveCards) PROVE FALSE
    OBVIOUS
  <2>1. PICK c \in ActiveCards : \E d \in ActiveCards : c # d /\ f[c] = f[d]
    BY <1>1, <1>2, <1>3, FS_PigeonHole
  <2> QED
    BY <1>4, <2>1, Zenon
<1> QED
  BY <1>1, <1>2, <1>5

\* Settings the controller serves up to a full index.  With FENWICK_CAPACITY = 16384
\* and counts of 32 bits the last line asks only that the middle face lie a few parts
\* in a million below the ticket target.
ConfigsServe ==
  \A f \in Configs : ValidConfig(f) =>
    /\ \A i \in 1..3 : Weighable(f.blank_faces[i])
    /\ Den2(f.blank_faces, f.ticket_target) > 0
    /\ Capacity * WeightC < MaxCount * Den2(f.blank_faces, f.ticket_target)

\* The pool fits its index, and the controller serves it even where the index is full.
ServedThroughout == n_real <= Capacity /\ \A m \in 0..Capacity : Serves(m)

\* An administrator who keeps to such settings never has a pool the controller does
\* not serve: no exit, appraisal or admission is then refused by it in any state.
THEOREM ControllerAlwaysServes ==
  ASSUME ConfigsServe
  PROVE  Spec => [](ServedThroughout /\ ControllerServes)
<1>1. ASSUME LifeInv, BookInv, SlotInv PROVE ServedThroughout /\ ControllerServes
  <2> DEFINE den == Den2(cfg.blank_faces, cfg.ticket_target)
  <2>1. cfg \in Configs /\ ValidConfig(cfg)
    BY <1>1 DEF LifeInv, TypeInv, TypeOK
  <2>2. /\ \A i \in 1..3 : Weighable(cfg.blank_faces[i])
        /\ den > 0 /\ Capacity * WeightC < MaxCount * den
    BY <2>1 DEF ConfigsServe
  <2>3. n_real \in 0..Capacity
    BY <1>1, PoolFitsIndex, CapacityAssumption
  <2>4. den \in Int
    <3>1. cfg.ticket_target \in Nat /\ cfg.blank_faces[2] \in Nat
      BY <2>1, ConfigFields
    <3>2. WeightOf(cfg.blank_faces[2]) \in Nat
      BY <2>2, <3>1, WeightOfType
    <3>3. cfg.ticket_target * WeightOf(cfg.blank_faces[2]) \in Nat
      BY <3>1, <3>2
    <3> QED
      BY <3>3, RebalanceAssumption DEF Den2
  <2>5. ASSUME NEW m \in 0..Capacity PROVE m * WeightC < MaxCount * den
    <3> HIDE DEF den
    <3>1. MaxCount * den \in Int
      BY <2>4, RebalanceAssumption
    <3>2. m \in Nat /\ m <= Capacity /\ Capacity \in Nat
      BY CapacityAssumption
    <3>3. /\ m * WeightC \in Int /\ Capacity * WeightC \in Int
          /\ m * WeightC <= Capacity * WeightC
      BY <3>2, RebalanceAssumption
    <3> QED
      BY <2>2, <3>1, <3>3
  <2>6. \A m \in 0..Capacity : Serves(m)
    BY <2>2, <2>5 DEF Serves
  <2> QED
    BY <2>3, <2>6 DEF ServedThroughout, ControllerServes
<1>2. Init => LifeInv /\ BookInv /\ SlotInv
  BY InitBooks, InitSlots
<1>3. LifeInv => TypeInv
  BY DEF LifeInv
<1> QED
  BY <1>1, <1>2, <1>3, StepKeepsLives, StepKeepsBooks, StepKeepsSlots, PTL DEF Spec

---------------------------------------------------------------------------------
(* What is never refused to an operator. *)

LEMMA CountBelow ==
  ASSUME NEW m \in Nat
  PROVE  IsFiniteSet(0 .. m - 1) /\ Cardinality(0 .. m - 1) = m
<1> DEFINE k == m - 1
<1>1. 0 \in Int /\ k \in Int /\ k - 0 + 1 = m /\ (0 > k => m = 0)
  OBVIOUS
<1> HIDE DEF k
<1>2. IsFiniteSet(0..k) /\ Cardinality(0..k) = IF 0 > k THEN 0 ELSE k - 0 + 1
  BY <1>1, FS_Interval
<1>3. IsFiniteSet(0..k) /\ Cardinality(0..k) = m
  BY <1>1, <1>2
<1> QED
  BY <1>3 DEF k

\* A slot to take is one nobody owns, and there is one while the pool is smaller
\* than the index: whatever was inserted and removed before, no slot is lost.
LEMMA SlotToTake ==
  ASSUME BookInv, SlotInv, n_real < Capacity
  PROVE  CanAlloc(index)
<1> DEFINE m == Len(index.free)
           owned == [c \in ActiveCards |-> pos[c].slot_index]
<1>1. /\ index.free \in Seq(Slots) /\ m \in Nat /\ index.high \in 0..Capacity
      /\ Capacity \in Nat \ {0}
      /\ \A i \in 1..m : index.free[i] \in Slots /\ index.free[i] \in FreeSlots(index)
  BY CapacityAssumption DEF SlotInv, TypeInv, TypeOK, LedgerType, FreeSlots
<1>2. /\ FreeSlots(index) = (0 .. index.high - 1) \ OwnedSlots
      /\ \A s \in Slots \ OwnedSlots : index.leaf[s] = 0
      /\ \A s \in OwnedSlots : s < index.high
  BY SlotFacts DEF SlotInv, SlotsOwned, OwnedSlots
<1>3. CASE index.free # << >>
  <2>1. m # 0 /\ m \in 1..m
    BY <1>1, <1>3, EmptySeq
  <2>2. NextSlot(index) = index.free[m]
    BY <1>3 DEF NextSlot
  <2> HIDE DEF m
  <2>3. NextSlot(index) \in Slots \ OwnedSlots
    BY <1>1, <1>2, <2>1, <2>2
  <2> QED
    BY <1>2, <1>3, <2>3 DEF CanAlloc
<1>4. CASE index.free = << >>
  <2>1. FreeSlots(index) = {} /\ NextSlot(index) = index.high
    BY <1>4 DEF FreeSlots, NextSlot
  <2> DEFINE low == 0 .. index.high - 1
             who == [s \in low |-> CHOOSE c \in ActiveCards : owned[c] = s]
  <2>2. \A s \in low : \E c \in ActiveCards : owned[c] = s
    BY <1>2, <2>1 DEF OwnedSlots
  <2>3. IsFiniteSet(low) /\ Cardinality(low) = index.high
    BY <1>1, CountBelow
  <2> HIDE DEF low, owned
  <2>4. who \in [low -> ActiveCards] /\ \A s \in low : owned[who[s]] = s
    BY <2>2
  <2> HIDE DEF who
  <2>5. n_real = Cardinality(ActiveCards) /\ n_real \in Nat /\ IsFiniteSet(ActiveCards)
    BY BookFacts DEF BookInv, BooksTally
  <2>8. ~(n_real < index.high)
    <3> SUFFICES ASSUME Cardinality(ActiveCards) < Cardinality(low) PROVE FALSE
      BY <2>3, <2>5
    <3>1. PICK s \in low : \E r \in low : s # r /\ who[s] = who[r]
      BY <2>3, <2>4, <2>5, FS_PigeonHole
    <3> QED
      BY <2>4, <3>1
  <2>6. index.high < Capacity
    BY <1>1, <2>5, <2>8
  <2>7. index.high \in Slots \ OwnedSlots
    BY <1>1, <1>2, <2>6 DEF Slots
  <2> QED
    BY <1>2, <1>4, <2>1, <2>6, <2>7 DEF CanAlloc
<1> QED
  BY <1>3, <1>4

\* A slot is to be had only while the pool is smaller than its index: every leaf of a
\* full index holds a weight.
LEMMA SlotTaken ==
  ASSUME BookInv, SlotInv, CanAlloc(index)
  PROVE  n_real < Capacity
<1> DEFINE s == NextSlot(index)
           others == Slots \ {s}
           f == [c \in ActiveCards |-> pos[c].slot_index]
<1>1. IsFiniteSet(Slots) /\ Cardinality(Slots) = Capacity /\ Capacity \in Nat
  <2>1. /\ IsFiniteSet(0..Capacity - 1) /\ Cardinality(0..Capacity - 1) = Capacity
        /\ Capacity \in Nat
    BY CapacityAssumption, CountBelow
  <2> QED
    BY <2>1, Zenon DEF Slots
<1>2. s \in Slots /\ index.leaf[s] = 0
  BY DEF CanAlloc
<1>3. ASSUME NEW c \in ActiveCards PROVE pos[c].slot_index \in Slots \ {s}
  <2>1. /\ pos[c].slot_index \in Slots
        /\ index.leaf[pos[c].slot_index] = WeightOf(pos[c].recorded_value)
    BY DEF SlotInv, SlotsOwned
  <2>2. WeightOf(pos[c].recorded_value) > 0
    BY DEF BookInv, Weighable
  <2> QED
    BY <1>2, <2>1, <2>2
<1>4. IsFiniteSet(others) /\ Cardinality(others) = Capacity - 1
  BY <1>1, <1>2, FS_RemoveElement
<1>5. f \in [ActiveCards -> others] /\ \A c, d \in ActiveCards : f[c] = f[d] => c = d
  BY <1>3 DEF SlotInv, SlotsOwned
<1>6. /\ n_real \in Nat /\ n_real = Cardinality(ActiveCards) /\ IsFiniteSet(ActiveCards)
  BY BookFacts DEF BookInv, BooksTally
<1> HIDE DEF f, others, s
<1>7. ~(Cardinality(others) < Cardinality(ActiveCards))
  <2> SUFFICES ASSUME Cardinality(others) < Cardinality(ActiveCards) PROVE FALSE
    OBVIOUS
  <2>1. PICK c \in ActiveCards : \E d \in ActiveCards : c # d /\ f[c] = f[d]
    BY <1>4, <1>5, <1>6, FS_PigeonHole
  <2> QED
    BY <1>5, <2>1, Zenon
<1> QED
  BY <1>1, <1>4, <1>6, <1>7

\* The two sums an appraisal of v moves are kept in words: the weight of all Active
\* positions, as the index's total, and the value of all the wallet's.
AppraisalFits(c, v) ==
  LET old == pos[c].recorded_value
  IN  /\ w_real + WeightOf(v) - WeightOf(old) \in Words
      /\ stats[pos[c].depositor].active_value + v - old \in Words
AdmissionFits(c, v) ==
  /\ w_real + WeightOf(v) \in Words
  /\ stats[pos[c].depositor].active_value + v \in Words

\* What record_value's refresh of c to v asks of the books, the leaf, the tier and the
\* controller before it may write any of them: nothing is missing but, for a weight or
\* a value too large, the room in a word.
AppraisalGranted ==
  \A c \in ActiveCards, v \in Nat :
    LET old == pos[c].recorded_value
        delta == WeightOf(v) - WeightOf(old)
    IN  Weighable(v) =>
          /\ Weighable(old) /\ w_real + delta >= 0
          /\ CanUpdate(index, pos[c].slot_index, WeightOf(old), WeightOf(v), w_real + delta)
               <=> w_real + delta \in Words
          /\ pos[c].in_tier => CanRefresh(tier, cfg.tier_size, Entry(c, pos[c]))
          /\ ControllerServes =>
               CanEvaluate(n_real, w_real + delta, cfg.blank_faces, cfg.ticket_target)

\* What approve_deposit asks of the index and the controller.
AdmissionGranted ==
  \A v \in Nat : Weighable(v) =>
    /\ CanInsert(index, WeightOf(v), w_real + WeightOf(v))
         <=> n_real < Capacity /\ w_real + WeightOf(v) \in Words
    /\ Serves(n_real + 1) =>
         CanEvaluate(n_real + 1, w_real + WeightOf(v), cfg.blank_faces, cfg.ticket_target)

\* No history of deposits, displacements, closings and recycled slots leaves books in
\* which the index refuses an appraisal whose total fits a word, or an admission whose
\* total fits a word into a pool smaller than the index: a member keeps its seat, a leaf
\* holds what its position says, and a slot is left to take.  A total beyond a word it
\* always refuses (WeightDesync); nineteen locked positions retained at a value of one,
\* each weighing WEIGHT_C = 10^18, are enough for one.
THEOREM RefusedOnlyByLimits == Spec => [](AppraisalGranted /\ AdmissionGranted)
<1>1. ASSUME LifeInv, BookInv, SlotInv, RosterInv PROVE AppraisalGranted
  <2> SUFFICES ASSUME NEW c \in ActiveCards, NEW v \in Nat, Weighable(v)
               PROVE  LET old == pos[c].recorded_value
                          delta == WeightOf(v) - WeightOf(old)
                      IN  /\ Weighable(old) /\ w_real + delta >= 0
                          /\ CanUpdate(index, pos[c].slot_index, WeightOf(old), WeightOf(v),
                                       w_real + delta) <=> w_real + delta \in Words
                          /\ pos[c].in_tier => CanRefresh(tier, cfg.tier_size, Entry(c, pos[c]))
                          /\ ControllerServes =>
                               CanEvaluate(n_real, w_real + delta, cfg.blank_faces,
                                           cfg.ticket_target)
    BY DEF AppraisalGranted
  <2> DEFINE old == pos[c].recorded_value
             a == WeightOf(old)
             b == WeightOf(v)
  <2>1. /\ Weighable(old) /\ a \in Nat /\ w_real >= a /\ n_real >= 1
        /\ index.total = w_real /\ w_real \in Nat
    BY <1>1, CountersCover, BookFacts
  <2>2. b \in Nat
    BY WeightOfType
  <2>3. /\ pos[c].slot_index \in Slots /\ index.leaf[pos[c].slot_index] = a
    BY <1>1 DEF SlotInv, SlotsOwned
  <2>5. ASSUME pos[c].in_tier PROVE CanRefresh(tier, cfg.tier_size, Entry(c, pos[c]))
    <3>1. Entry(c, pos[c]).position = c
      BY DEF Entry
    <3>2. c \in Holders(tier) /\ Len(tier) - 1 < cfg.tier_size
      BY <1>1, <2>5, RosterFacts DEF Members, ActiveCards
    <3> QED
      BY <3>1, <3>2 DEF CanRefresh
  <2> HIDE DEF a, b, old
  <2>6. w_real + (b - a) \in Nat /\ index.total + b - a = w_real + (b - a)
    BY <2>1, <2>2
  <2>8. CanUpdate(index, pos[c].slot_index, a, b, w_real + (b - a))
          <=> w_real + (b - a) \in Words
    BY <2>3, <2>6, Zenon DEF CanUpdate, Lands
  <2>9. ASSUME ControllerServes
        PROVE  CanEvaluate(n_real, w_real + (b - a), cfg.blank_faces, cfg.ticket_target)
    BY <1>1, <2>6, <2>9, ServedBooks, BookFacts DEF ControllerServes, BookInv
  <2> QED
    BY <2>1, <2>5, <2>6, <2>8, <2>9 DEF a, b, old
<1>2. ASSUME LifeInv, BookInv, SlotInv PROVE AdmissionGranted
  <2> SUFFICES ASSUME NEW v \in Nat, Weighable(v)
               PROVE  /\ CanInsert(index, WeightOf(v), w_real + WeightOf(v))
                           <=> n_real < Capacity /\ w_real + WeightOf(v) \in Words
                      /\ Serves(n_real + 1) =>
                           CanEvaluate(n_real + 1, w_real + WeightOf(v), cfg.blank_faces,
                                       cfg.ticket_target)
    BY DEF AdmissionGranted
  <2>1. /\ WeightOf(v) \in Nat /\ w_real \in Nat /\ n_real \in Nat /\ n_real + 1 \in Nat
        /\ w_real + WeightOf(v) \in Nat /\ index.total = w_real
    BY <1>2, WeightOfType, BookFacts DEF BookInv, BooksTally
  <2>2. CanAlloc(index) <=> n_real < Capacity
    BY <1>2, SlotToTake, SlotTaken
  <2>3. CanInsert(index, WeightOf(v), w_real + WeightOf(v))
          <=> n_real < Capacity /\ w_real + WeightOf(v) \in Words
    BY <2>1, <2>2, Zenon DEF CanInsert, Lands
  <2>4. Serves(n_real + 1) => CanEvaluate(n_real + 1, w_real + WeightOf(v), cfg.blank_faces,
                                          cfg.ticket_target)
    BY <1>2, <2>1, ServedBooks DEF BookInv
  <2> QED
    BY <2>3, <2>4
<1>3. Init => LifeInv /\ BookInv /\ SlotInv
  BY InitBooks, InitSlots
<1>4. LifeInv => TypeInv
  BY DEF LifeInv
<1> QED
  BY <1>1, <1>2, <1>3, <1>4, InitRoster, StepKeepsRoster, StepKeepsLives, StepKeepsBooks,
     StepKeepsSlots, PTL DEF Spec

\* What record_value's refresh of c to v then writes, and what approve_deposit writes:
\* one assignment to each variable; the tier gives a seat or does not, and both are
\* what promote returns.
Reappraised(c, v) ==
  LET p == [pos[c] EXCEPT !.recorded_value = v]
      old == pos[c].recorded_value
      delta == WeightOf(v) - WeightOf(old)
  IN  /\ w_real' = w_real + delta /\ n_real' = n_real
      /\ stats' = [stats EXCEPT ![p.depositor].active_value = @ + v - old]
      /\ blanks' = Evaluate(n_real, w_real + delta, cfg.blank_faces, cfg.ticket_target)
      /\ index' = Update(index, p.slot_index, WeightOf(old), WeightOf(v))
      /\ IF p.in_tier THEN /\ tier' = RefreshMember(tier, cfg.tier_size, Entry(c, p))
                           /\ pos' = [pos EXCEPT ![c] = p]
         ELSE TakeSeat(c, p) \/ MissSeat(c, p)
      /\ UNCHANGED <<standing, position_counter, adminVars, sweep_pending, rollVars, now>>

Approved(c, v, lock) ==
  LET p == pos[c]
      active == [p EXCEPT !.state = "Active", !.recorded_value = v,
                          !.slot_index = NextSlot(index), !.activated_at = now,
                          !.lock_until = lock]
  IN  /\ w_real' = w_real + WeightOf(v) /\ n_real' = n_real + 1
      /\ stats' = [stats EXCEPT ![p.depositor].active_positions = @ + 1,
                                ![p.depositor].active_value = @ + v]
      /\ blanks' = Evaluate(n_real + 1, w_real + WeightOf(v), cfg.blank_faces, cfg.ticket_target)
      /\ index' = Insert(index, WeightOf(v))
      /\ TakeSeat(c, active) \/ MissSeat(c, active)
      /\ UNCHANGED <<standing, position_counter, adminVars, sweep_pending, rollVars, now>>

\* The lists are complete: beside the sweep, the freeze, the lock and the limits, which
\* are the operator's to meet, and the words the sums must fit, nothing keeps the two
\* handlers from these writes.
LEMMA GrantedAppraisalsAreSteps ==
  ASSUME TypeInv, AppraisalGranted, AdmissionGranted,
         NEW c \in Cards, NEW v \in Nat, Weighable(v)
  PROVE  /\ /\ Recordable(c, v) /\ ~FallsBelowFloor(c, v) /\ ControllerServes
            /\ AppraisalFits(c, v) /\ Reappraised(c, v)
            => RecordRefresh(c, v)
         /\ \A lock :
              /\ pos[c].state = "Pending" /\ WeightOpen
              /\ WithinLimits(v, stats[pos[c].depositor].active_value)
              /\ n_real < Capacity /\ Serves(n_real + 1) /\ AdmissionFits(c, v)
              /\ Approved(c, v, lock)
              => ApproveDeposit(c, v, lock)
<1>1. ASSUME Recordable(c, v), ~FallsBelowFloor(c, v), ControllerServes, AppraisalFits(c, v),
             Reappraised(c, v)
      PROVE  RecordRefresh(c, v)
  <2> DEFINE p == [pos[c] EXCEPT !.recorded_value = v]
             old == pos[c].recorded_value
             delta == WeightOf(v) - WeightOf(old)
  <2>1. c \in ActiveCards
    BY <1>1 DEF Recordable, ActiveCards
  <2>0. w_real + delta \in Words
    <3>1. w_real \in Nat /\ WeightOf(v) \in Nat /\ old \in Nat
      BY WeightOfType DEF TypeInv, TypeOK, Position
    <3>2. WeightOf(old) \in Nat
      BY <2>1, <3>1, WeightOfType DEF AppraisalGranted
    <3>3. w_real + delta = w_real + WeightOf(v) - WeightOf(old)
      BY <3>1, <3>2
    <3> QED
      BY <1>1, <3>3 DEF AppraisalFits
  <2>2. /\ Weighable(old) /\ w_real + delta >= 0
        /\ stats[pos[c].depositor].active_value + v - old \in Words
        /\ CanUpdate(index, pos[c].slot_index, WeightOf(old), WeightOf(v), w_real + delta)
        /\ pos[c].in_tier => CanRefresh(tier, cfg.tier_size, Entry(c, pos[c]))
        /\ CanEvaluate(n_real, w_real + delta, cfg.blank_faces, cfg.ticket_target)
    BY <1>1, <2>0, <2>1 DEF AppraisalGranted, AppraisalFits
  <2>3. /\ p.depositor = pos[c].depositor /\ p.slot_index = pos[c].slot_index
        /\ p.in_tier = pos[c].in_tier
        /\ Entry(c, p).position = c /\ Entry(c, pos[c]).position = c
    <3>1. pos[c] \in Position
      BY DEF TypeInv, TypeOK
    <3> QED
      BY <3>1 DEF Position, Entry
  <2>4. p.in_tier => CanRefresh(tier, cfg.tier_size, Entry(c, p))
    BY <2>2, <2>3, Zenon DEF CanRefresh
  <2>5. Retarget
    BY <1>1, <2>2 DEF Reappraised, Retarget
  <2> QED
    BY <1>1, <2>2, <2>3, <2>4, <2>5 DEF Reappraised, RecordRefresh
<1>2. ASSUME NEW lock, pos[c].state = "Pending", WeightOpen,
             WithinLimits(v, stats[pos[c].depositor].active_value),
             n_real < Capacity, Serves(n_real + 1), AdmissionFits(c, v),
             Approved(c, v, lock)
      PROVE  ApproveDeposit(c, v, lock)
  <2>1. /\ CanInsert(index, WeightOf(v), w_real + WeightOf(v))
        /\ CanEvaluate(n_real + 1, w_real + WeightOf(v), cfg.blank_faces, cfg.ticket_target)
    BY <1>2 DEF AdmissionGranted, AdmissionFits
  <2>2. Retarget
    BY <1>2, <2>1 DEF Approved, Retarget
  <2> QED
    BY <1>2, <2>1, <2>2 DEF Approved, ApproveDeposit, AdmissionFits
<1> QED
  BY <1>1, <1>2

\* Appraisals none of which is, or weighs, more than one Capacity-th of a word.  With
\* WEIGHT_C = 10^18 and 16384 leaves those are all from 889 to 10^15 micro-units.
Share == MaxWord \div Capacity
ValuesFit == \A v \in Values : Weighable(v) => v <= Share /\ WeightOf(v) <= Share

\* Every Active position carries a value an operator attested.
Attested == \A c \in ActiveCards : pos[c].recorded_value \in Values

LEMMA StepKeepsAttested == TypeInv /\ Attested /\ [Next]_vars => Attested'
<1> SUFFICES ASSUME TypeInv, Attested, [Next]_vars PROVE Attested'
  OBVIOUS
<1>1. CASE BooksRest
  BY <1>1 DEF BooksRest, Stays, Attested, ActiveCards
<1>2. ASSUME NEW c \in Cards, BooksMove(c) PROVE Attested'
  <2>1. pos'[c].state = "Active" => pos'[c].recorded_value \in Values
    BY <1>2 DEF BooksMove, Arrives, Revalued, Departs
  <2>2. \A d \in Cards \ {c} : pos'[d].state = "Active" => pos'[d].recorded_value \in Values
    BY <1>2 DEF BooksMove, Stays, Attested, ActiveCards
  <2> QED
    BY <2>1, <2>2 DEF Attested, ActiveCards
<1> QED
  BY <1>1, <1>2, StepMovesBooks

LEMMA Shares == Share \in Nat /\ Capacity * Share <= MaxWord
BY CapacityAssumption, WordAssumption DEF Share

\* A sum of fewer than Capacity shares has room for one more.
LEMMA RoomForOne ==
  ASSUME NEW f, NEW S, IsFiniteSet(S), Cardinality(S) < Capacity,
         \A x \in S : f[x] \in 0..Share, NEW a \in 0..Share
  PROVE  Tally(f, S) + a \in Words
<1> DEFINE n == Cardinality(S)
           sum == Tally(f, S)
<1>1. n \in Nat /\ sum \in Nat
  BY FS_CardinalityType, TallyOfNaturals, Shares
<1>2. sum <= n * Share
  BY TallyBound, Shares
<1> HIDE DEF n, sum
<1>3. n \in Nat /\ n + 1 <= Capacity /\ Capacity \in Nat
  BY <1>1, CapacityAssumption DEF n
<1> DEFINE b == Share
<1>4. b \in Nat /\ Capacity * b <= MaxWord /\ a \in 0..b /\ sum <= n * b
  BY <1>2, Shares
<1> HIDE DEF b
<1>5. (n + 1) * b <= Capacity * b /\ (n + 1) * b = n * b + b /\ n * b \in Nat
  BY <1>3, <1>4
<1> QED
  BY <1>1, <1>3, <1>4, <1>5, WordAssumption DEF Words, sum

\* So has one in whose place another is put.
LEMMA RoomToReplace ==
  ASSUME NEW f, NEW S, IsFiniteSet(S), Cardinality(S) <= Capacity,
         \A x \in S : f[x] \in 0..Share, NEW a \in 0..Share, NEW c \in S
  PROVE  Tally(f, S) + a - f[c] \in Words
<1> DEFINE R == S \ {c}
           rest == Tally(f, R)
           sum == Tally(f, S)
           old == f[c]
<1>1. IsFiniteSet(R) /\ Cardinality(R) = Cardinality(S) - 1 /\ Cardinality(S) \in Nat
  BY FS_RemoveElement, FS_CardinalityType
<1>2. Cardinality(R) < Capacity
  BY <1>1, CapacityAssumption
<1>3. rest + a \in Words
  BY <1>1, <1>2, RoomForOne
<1>4. sum = old + rest /\ old \in Nat
  BY TallyOfNaturals, Shares
<1>5. rest \in Nat
  BY <1>1, TallyOfNaturals, Shares
<1> HIDE DEF rest, sum, old
<1>6. sum + a - old = rest + a
  BY <1>4, <1>5, Shares
<1> QED
  BY <1>3, <1>6 DEF sum, old

\* No sum is ever short of a word: not the one of an appraisal, nor that of an
\* admission into a pool smaller than its index.
SumsFit ==
  \A v \in Values : Weighable(v) =>
    /\ \A c \in ActiveCards : AppraisalFits(c, v)
    /\ n_real < Capacity => \A c \in Cards : pos[c].state = "Pending" => AdmissionFits(c, v)

\* An operator who keeps to such appraisals never meets the word: with them, whatever is
\* deposited, retained below the floor or recycled, WeightDesync refuses nothing.
THEOREM FittingValuesAlwaysFit ==
  ASSUME ValuesFit
  PROVE  Spec => []SumsFit
<1>1. ASSUME BookInv, SlotInv, Attested PROVE SumsFit
  <2> SUFFICES ASSUME NEW v \in Values, Weighable(v)
               PROVE  /\ \A c \in ActiveCards : AppraisalFits(c, v)
                      /\ n_real < Capacity =>
                           \A c \in Cards : pos[c].state = "Pending" => AdmissionFits(c, v)
    BY DEF SumsFit
  <2>1. v \in 0..Share /\ WeightOf(v) \in 0..Share
    <3>1. v \in Nat /\ WeightOf(v) \in Nat
      BY PoolAssumption, WeightOfType
    <3> QED
      BY <3>1, Shares DEF ValuesFit
  <2>2. \A c \in ActiveCards : CardWeights[c] \in 0..Share /\ CardValues[c] \in 0..Share
    <3> SUFFICES ASSUME NEW c \in ActiveCards
                 PROVE  CardWeights[c] \in 0..Share /\ CardValues[c] \in 0..Share
      OBVIOUS
    <3>1. /\ CardWeights[c] = WeightOf(pos[c].recorded_value)
          /\ CardValues[c] = pos[c].recorded_value
      BY DEF ActiveCards, CardWeights, CardValues
    <3>2. CardWeights[c] \in Nat /\ CardValues[c] \in Nat
      BY <1>1, BookFacts DEF ActiveCards
    <3>3. pos[c].recorded_value \in Values /\ Weighable(pos[c].recorded_value)
      BY <1>1 DEF Attested, BookInv
    <3> QED
      BY <3>1, <3>2, <3>3, Shares DEF ValuesFit
  <2>3. /\ n_real = Cardinality(ActiveCards) /\ n_real \in Nat /\ n_real <= Capacity
        /\ w_real = Tally(CardWeights, ActiveCards) /\ IsFiniteSet(ActiveCards)
    BY <1>1, BookFacts, PoolFitsIndex DEF BookInv, BooksTally
  <2>4. ASSUME NEW d \in Wallets
        PROVE  /\ stats[d].active_value = Tally(CardValues, CardsOf(d))
               /\ IsFiniteSet(CardsOf(d)) /\ Cardinality(CardsOf(d)) <= n_real
               /\ Cardinality(CardsOf(d)) \in Nat /\ CardsOf(d) \subseteq ActiveCards
    <3>1. CardsOf(d) \subseteq ActiveCards
      BY DEF CardsOf
    <3>2. IsFiniteSet(CardsOf(d)) /\ Cardinality(CardsOf(d)) <= Cardinality(ActiveCards)
      BY <2>3, <3>1, FS_Subset
    <3> QED
      BY <1>1, <2>3, <3>1, <3>2, FS_CardinalityType DEF BookInv, BooksTally
  <2>5. ASSUME NEW c \in ActiveCards PROVE AppraisalFits(c, v)
    <3> DEFINE d == pos[c].depositor
    <3>1. c \in Cards /\ d \in Wallets /\ c \in CardsOf(d)
      BY <1>1 DEF BookInv, ActiveCards, CardsOf
    <3>2. /\ CardWeights[c] = WeightOf(pos[c].recorded_value)
          /\ CardValues[c] = pos[c].recorded_value
      BY <3>1 DEF CardWeights, CardValues
    <3>3. w_real + WeightOf(v) - CardWeights[c] \in Words
      BY <2>1, <2>2, <2>3, RoomToReplace
    <3>4. /\ stats[d].active_value = Tally(CardValues, CardsOf(d))
          /\ IsFiniteSet(CardsOf(d)) /\ Cardinality(CardsOf(d)) <= Capacity
          /\ \A x \in CardsOf(d) : CardValues[x] \in 0..Share
      BY <2>2, <2>3, <2>4, <3>1, CapacityAssumption
    <3>5. stats[d].active_value + v - CardValues[c] \in Words
      BY <2>1, <3>1, <3>4, RoomToReplace
    <3> QED
      BY <3>2, <3>3, <3>5 DEF AppraisalFits
  <2>6. ASSUME n_real < Capacity, NEW c \in Cards, pos[c].state = "Pending"
        PROVE  AdmissionFits(c, v)
    <3> DEFINE d == pos[c].depositor
    <3>1. d \in Wallets
      BY <1>1, <2>6 DEF BookInv
    <3>2. w_real + WeightOf(v) \in Words
      BY <2>1, <2>2, <2>3, <2>6, RoomForOne
    <3>3. /\ stats[d].active_value = Tally(CardValues, CardsOf(d))
          /\ IsFiniteSet(CardsOf(d)) /\ Cardinality(CardsOf(d)) < Capacity
          /\ \A x \in CardsOf(d) : CardValues[x] \in 0..Share
      BY <2>2, <2>3, <2>4, <2>6, <3>1, CapacityAssumption
    <3>4. stats[d].active_value + v \in Words
      BY <2>1, <3>3, RoomForOne
    <3> QED
      BY <3>2, <3>4 DEF AdmissionFits
  <2> QED
    BY <2>5, <2>6
<1>2. Init => LifeInv /\ BookInv /\ SlotInv /\ Attested
  <2>1. Init => Attested
    BY DEF Init, NoPosition, Attested, ActiveCards
  <2> QED
    BY <2>1, InitBooks, InitSlots
<1>3. LifeInv => TypeInv
  BY DEF LifeInv
<1> QED
  BY <1>1, <1>2, <1>3, StepKeepsAttested, StepKeepsLives, StepKeepsBooks, StepKeepsSlots, PTL
     DEF Spec
=================================================================================
