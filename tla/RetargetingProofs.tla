----------------------------- MODULE RetargetingProofs -----------------------------
(***************************************************************************)
(* The price the blank controller leaves, for every pool it can be run on:  *)
(* any number of positions of any values, any accepted faces and ticket.    *)
(***************************************************************************)
EXTENDS Retargeting, OperatorProofs

---------------------------------------------------------------------------------
(* The books. *)

HeldWeights(h) == [v \in Values |-> h[v] * WeightOf(v)]

\* The counters are the sums over the positions held, so neither falls below
\* zero, and the blanks are those of the current books.
PriceInv ==
  /\ held \in [Values -> Nat] /\ setting \in Settings
  /\ n_real = Tally(held, Values) /\ w_real = Tally(HeldWeights(held), Values)
  /\ CanEvaluate(n_real, w_real, faces, ticket)
  /\ blanks = Evaluate(n_real, w_real, faces, ticket)

LEMMA WeightsHeld ==
  ASSUME NEW h \in [Values -> Nat]
  PROVE  /\ IsFiniteSet(Values)
         /\ \A v \in Values : WeightOf(v) \in Nat /\ HeldWeights(h)[v] = h[v] * WeightOf(v)
                              /\ HeldWeights(h)[v] \in Nat
<1>1. /\ IsFiniteSet(Values) /\ Values \subseteq Nat
      /\ \A v \in Values : Weighable(v)
  BY RetargetingAssumption
<1>2. \A v \in Values : WeightOf(v) \in Nat
  BY <1>1, WeightOfType
<1>3. \A v \in Values : HeldWeights(h)[v] = h[v] * WeightOf(v)
  BY DEF HeldWeights
<1>4. ASSUME NEW v \in Values PROVE HeldWeights(h)[v] \in Nat
  <2>1. h[v] \in Nat /\ WeightOf(v) \in Nat
    BY <1>2
  <2> QED
    BY <1>3, <2>1
<1> QED
  BY <1>1, <1>2, <1>3, <1>4

LEMMA PriceFacts ==
  ASSUME PriceInv
  PROVE  /\ n_real \in Nat /\ w_real \in Nat /\ faces \in Triples /\ ticket \in Nat
         /\ \A i \in 1..3 : faces[i] > 0 /\ faces[i] < ticket
<1>1. IsFiniteSet(Values) /\ \A v \in Values : held[v] \in Nat /\ HeldWeights(held)[v] \in Nat
  BY WeightsHeld DEF PriceInv
<1>2. n_real \in Nat /\ w_real \in Nat
  BY <1>1, TallyOfNaturals DEF PriceInv
<1>3. setting \in (Nat \X Nat \X Nat) \X Nat
  BY RetargetingAssumption DEF PriceInv
<1> QED
  BY <1>2, <1>3, RetargetingAssumption DEF PriceInv, faces, ticket, Triples

\* One count of the positions held moves.
LEMMA HeldMoves ==
  ASSUME NEW h \in [Values -> Nat], NEW v \in Values, NEW k \in Nat
  PROVE  LET g == [h EXCEPT ![v] = k]
         IN  /\ g \in [Values -> Nat]
             /\ Tally(g, Values) = Tally(h, Values) + k - h[v]
             /\ Tally(HeldWeights(g), Values) =
                  Tally(HeldWeights(h), Values) + k * WeightOf(v) - h[v] * WeightOf(v)
<1> DEFINE g == [h EXCEPT ![v] = k]
           S == Values
           f == HeldWeights(h)
           e == HeldWeights(g)
<1>1. g \in [S -> Nat] /\ g[v] = k /\ \A x \in S : x # v => g[x] = h[x]
  OBVIOUS
<1>2. /\ IsFiniteSet(S) /\ v \in S
      /\ \A x \in S : f[x] = h[x] * WeightOf(x) /\ f[x] \in Nat
  BY WeightsHeld
<1> HIDE DEF g
<1>3. \A x \in S : e[x] = g[x] * WeightOf(x) /\ e[x] \in Nat
  BY <1>1, WeightsHeld
<1>4. \A x \in S : f[x] \in Nat /\ e[x] \in Nat /\ (x # v => e[x] = f[x])
  BY <1>1, <1>2, <1>3
<1>5. \A x \in S : h[x] \in Nat /\ g[x] \in Nat /\ (x # v => g[x] = h[x])
  BY <1>1
<1>6. f[v] = h[v] * WeightOf(v) /\ e[v] = k * WeightOf(v)
  BY <1>1, <1>2, <1>3
<1> HIDE DEF f, e, S
<1>7. Tally(g, S) = Tally(h, S) + g[v] - h[v]
  BY ONLY <1>2, <1>5, TallyMove
<1>8. Tally(e, S) = Tally(f, S) + e[v] - f[v]
  BY ONLY <1>2, <1>4, TallyMove
<1>9. Tally(e, S) = Tally(f, S) + k * WeightOf(v) - h[v] * WeightOf(v)
  BY ONLY <1>6, <1>8
<1>10. Tally(g, S) = Tally(h, S) + k - h[v]
  BY ONLY <1>1, <1>7
<1> QED
  BY <1>1, <1>9, <1>10 DEF g, f, e, S

LEMMA OneMore ==
  ASSUME NEW h \in [Values -> Nat], NEW v \in Values
  PROVE  LET g == [h EXCEPT ![v] = h[v] + 1]
         IN  /\ g \in [Values -> Nat]
             /\ Tally(g, Values) = Tally(h, Values) + 1
             /\ Tally(HeldWeights(g), Values) = Tally(HeldWeights(h), Values) + WeightOf(v)
<1> DEFINE k == h[v] + 1
           g == [h EXCEPT ![v] = k]
           m == Tally(h, Values)
           w == Tally(HeldWeights(h), Values)
<1>1. h[v] \in Nat /\ k \in Nat /\ WeightOf(v) \in Nat
  BY WeightsHeld
<1>2. m \in Nat /\ w \in Nat
  BY WeightsHeld, TallyOfNaturals
<1> HIDE DEF k
<1>3. /\ g \in [Values -> Nat] /\ Tally(g, Values) = m + k - h[v]
      /\ Tally(HeldWeights(g), Values) = w + k * WeightOf(v) - h[v] * WeightOf(v)
  BY <1>1, HeldMoves
<1> HIDE DEF m, w, g
<1>4. /\ k * WeightOf(v) = h[v] * WeightOf(v) + WeightOf(v)
      /\ h[v] * WeightOf(v) \in Nat
  BY <1>1 DEF k
<1>5. Tally(g, Values) = m + 1
  BY <1>1, <1>2, <1>3 DEF k
<1>6. Tally(HeldWeights(g), Values) = w + WeightOf(v)
  BY <1>1, <1>2, <1>3, <1>4
<1> QED
  BY <1>3, <1>5, <1>6 DEF m, w, g, k

LEMMA OneLess ==
  ASSUME NEW h \in [Values -> Nat], NEW v \in Values, h[v] > 0
  PROVE  LET g == [h EXCEPT ![v] = h[v] - 1]
         IN  /\ g \in [Values -> Nat]
             /\ Tally(g, Values) = Tally(h, Values) - 1
             /\ Tally(HeldWeights(g), Values) = Tally(HeldWeights(h), Values) - WeightOf(v)
<1> DEFINE k == h[v] - 1
           g == [h EXCEPT ![v] = k]
           m == Tally(h, Values)
           w == Tally(HeldWeights(h), Values)
<1>1. h[v] \in Nat /\ k \in Nat /\ WeightOf(v) \in Nat
  BY WeightsHeld
<1>2. m \in Nat /\ w \in Nat
  BY WeightsHeld, TallyOfNaturals
<1> HIDE DEF k
<1>3. /\ g \in [Values -> Nat] /\ Tally(g, Values) = m + k - h[v]
      /\ Tally(HeldWeights(g), Values) = w + k * WeightOf(v) - h[v] * WeightOf(v)
  BY <1>1, HeldMoves
<1> HIDE DEF m, w, g
<1>4. /\ k * WeightOf(v) = h[v] * WeightOf(v) - WeightOf(v)
      /\ h[v] * WeightOf(v) \in Nat
  BY <1>1 DEF k
<1>5. Tally(g, Values) = m - 1
  BY <1>1, <1>2, <1>3 DEF k
<1>6. Tally(HeldWeights(g), Values) = w - WeightOf(v)
  BY <1>1, <1>2, <1>3, <1>4
<1> QED
  BY <1>3, <1>5, <1>6 DEF m, w, g, k

\* What the counters of a pool that holds h must be.
Counted(h, n, w) ==
  h \in [Values -> Nat] /\ n = Tally(h, Values) /\ w = Tally(HeldWeights(h), Values)

LEMMA StepKeepsPrice == PriceInv /\ [Next]_vars => PriceInv'
<1> SUFFICES ASSUME PriceInv, [Next]_vars PROVE PriceInv'
  OBVIOUS
<1>0. Counted(held, n_real, w_real) /\ setting \in Settings
  BY DEF PriceInv, Counted
<1>1. CASE UNCHANGED vars
  BY <1>1 DEF vars, PriceInv, faces, ticket
<1>2. SUFFICES ASSUME Next PROVE Counted(held', n_real', w_real') /\ Rebalanced
  BY <1>0, <1>1, <1>2 DEF PriceInv, Counted, Rebalanced, faces, ticket
<1>3. ASSUME NEW v \in Values, Enter(v)
      PROVE  Counted(held', n_real', w_real') /\ Rebalanced
  BY <1>0, <1>3, OneMore DEF Enter, Counted
<1>4. ASSUME NEW v \in Values, Leave(v)
      PROVE  Counted(held', n_real', w_real') /\ Rebalanced
  BY <1>0, <1>4, OneLess DEF Leave, Counted
<1>5. ASSUME NEW v \in Values, NEW new \in Values, Revalue(v, new)
      PROVE  Counted(held', n_real', w_real') /\ Rebalanced
  <2> DEFINE h == [held EXCEPT ![v] = held[v] - 1]
  <2>1. /\ held \in [Values -> Nat] /\ held[v] > 0 /\ v # new /\ Rebalanced
        /\ w_real' = w_real - WeightOf(v) + WeightOf(new) /\ n_real' = n_real
        /\ held' = [h EXCEPT ![new] = h[new] + 1]
    BY <1>0, <1>5 DEF Revalue, Counted
  <2>2. /\ h \in [Values -> Nat] /\ Tally(h, Values) = n_real - 1
        /\ Tally(HeldWeights(h), Values) = w_real - WeightOf(v)
    BY <1>0, <2>1, OneLess DEF Counted
  <2> HIDE DEF h
  <2>3. /\ held' \in [Values -> Nat] /\ Tally(held', Values) = n_real - 1 + 1
        /\ Tally(HeldWeights(held'), Values) = w_real - WeightOf(v) + WeightOf(new)
    BY <2>1, <2>2, OneMore
  <2>4. n_real \in Nat
    BY PriceFacts
  <2> QED
    BY <2>1, <2>3, <2>4 DEF Counted
<1> QED
  BY <1>2, <1>3, <1>4, <1>5 DEF Next

LEMMA InitPrice == Init => PriceInv
<1> SUFFICES ASSUME Init PROVE PriceInv
  OBVIOUS
<1>1. /\ held = [v \in Values |-> 0] /\ held \in [Values -> Nat] /\ setting \in Settings
      /\ n_real = 0 /\ w_real = 0
      /\ CanEvaluate(0, 0, faces, ticket) /\ blanks = Evaluate(0, 0, faces, ticket)
  BY DEF Init, CanEvaluate, Evaluate
<1>2. IsFiniteSet(Values) /\ \A v \in Values : WeightOf(v) \in Nat
  BY WeightsHeld, <1>1
<1>3. \A v \in Values : held[v] = 0 /\ HeldWeights(held)[v] = 0
  BY <1>1, <1>2 DEF HeldWeights
<1>4. ASSUME NEW f, \A v \in Values : f[v] = 0 PROVE Tally(f, Values) = 0
  BY <1>2, <1>4, TallyOfZeros
<1> QED
  BY <1>1, <1>3, <1>4 DEF PriceInv

---------------------------------------------------------------------------------
(* The price. *)

\* The controller leaves an error of at most half of what one middle blank moves,
\* in any pool light enough to need blanks, however its positions came and went.
THEOREM PriceAlwaysWithinHalfABlank == Spec => []PriceWithinHalfABlank
<1>1. PriceInv => PriceWithinHalfABlank
  <2> SUFFICES ASSUME PriceInv, ticket * w_real < WeightC * n_real
               PROVE  2 * Error(blanks) <= Den2(faces, ticket)
    BY DEF PriceWithinHalfABlank
  <2> DEFINE n == n_real
             w == w_real
             f == faces
             t == ticket
  <2>1. /\ n \in Nat /\ w \in Nat /\ f \in Triples /\ t \in Nat /\ CanEvaluate(n, w, f, t)
        /\ blanks = Evaluate(n, w, f, t) /\ t * w < WeightC * n
        /\ Error(blanks) = Score(n, w, f, t, blanks)
    BY PriceFacts DEF PriceInv, Error
  <2> HIDE DEF n, w, f, t
  <2>2. n # 0 /\ Gap(n, w, t) > 0
    <3>1. WeightC \in Nat /\ t * w \in Nat
      BY <2>1, RebalanceAssumption
    <3>2. WeightC * 0 = 0 /\ WeightC * n \in Nat
      BY <2>1, <3>1
    <3> QED
      BY <2>1, <3>1, <3>2 DEF Gap
  <2>3. 2 * Score(n, w, f, t, Evaluate(n, w, f, t)) <= Den2(f, t)
    BY <2>1, <2>2, BestPrice
  <2> QED
    BY <2>1, <2>3 DEF f, t
<1> QED
  BY <1>1, InitPrice, StepKeepsPrice, PTL DEF Spec

\* The closed-form anchor is the right one: no number of middle blanks alone does
\* better than what the scan over its two candidates keeps.
THEOREM NoMiddleFillEverDoesBetter == Spec => []NoMiddleFillDoesBetter
<1>1. PriceInv => NoMiddleFillDoesBetter
  <2> SUFFICES ASSUME PriceInv, n_real > 0,
                      NEW j \in 0 .. 2 * Anchor(n_real, w_real, faces, ticket) + 2
               PROVE  Error(blanks) <= Error(<<0, j, 0>>)
    BY DEF NoMiddleFillDoesBetter
  <2> DEFINE n == n_real
             w == w_real
             f == faces
             t == ticket
  <2>1. /\ n \in Nat \ {0} /\ w \in Nat /\ f \in Triples /\ t \in Nat
        /\ CanEvaluate(n, w, f, t) /\ blanks = Evaluate(n, w, f, t)
        /\ \A b : Error(b) = Score(n, w, f, t, b)
    BY PriceFacts DEF PriceInv, Error
  <2> HIDE DEF n, w, f, t
  <2>2. j \in Nat
    OBVIOUS
  <2>3. Score(n, w, f, t, Evaluate(n, w, f, t)) <= Score(n, w, f, t, <<0, j, 0>>)
    BY <2>1, <2>2, BestPrice
  <2> QED
    BY <2>1, <2>3
<1> QED
  BY <1>1, InitPrice, StepKeepsPrice, PTL DEF Spec

---------------------------------------------------------------------------------
(* The bound under which the count always fits. *)

\* One more card is the most a step can count, so what would be enough for it is
\* enough for every step: no admission, exit or appraisal is refused while
\* FitsOneMore holds, whatever the pool has been through.
THEOREM BooksNeverRefusedWithinBound == Spec => []NoRefusalWithinBound
<1>1. PriceInv => NoRefusalWithinBound
  <2> SUFFICES ASSUME PriceInv, FitsOneMore, NEW v \in Values
               PROVE  /\ CanEvaluate(n_real + 1, w_real + WeightOf(v), faces, ticket)
                      /\ held[v] > 0 =>
                           /\ CanEvaluate(n_real - 1, w_real - WeightOf(v), faces, ticket)
                           /\ \A new \in Values :
                                CanEvaluate(n_real, w_real - WeightOf(v) + WeightOf(new),
                                            faces, ticket)
    BY DEF NoRefusalWithinBound
  <2>1. /\ n_real \in Nat /\ w_real \in Nat /\ faces \in Triples /\ ticket \in Nat
        /\ \A x \in Values : WeightOf(x) \in Nat
    BY PriceFacts, WeightsHeld DEF PriceInv
  <2> DEFINE m == n_real + 1
  <2>2. /\ m \in Nat /\ m * WeightC < MaxCount * Den2(faces, ticket)
        /\ \A i \in 1..3 : Weighable(faces[i])
        /\ Den2(faces, ticket) > 0
    BY <2>1 DEF FitsOneMore
  <2>3. ASSUME NEW k \in Nat, NEW w \in Nat, k <= m PROVE CanEvaluate(k, w, faces, ticket)
    <3> HIDE DEF m
    <3> QED
      BY <2>1, <2>2, <2>3, BoundGrants
  <2>4. CanEvaluate(n_real + 1, w_real + WeightOf(v), faces, ticket)
    <3>1. n_real + 1 \in Nat /\ n_real + 1 <= m /\ w_real + WeightOf(v) \in Nat
      BY <2>1
    <3> QED
      BY <2>3, <3>1
  <2>5. ASSUME held[v] > 0
        PROVE  n_real - 1 \in Nat /\ w_real - WeightOf(v) \in Nat
    <3> DEFINE h == [held EXCEPT ![v] = held[v] - 1]
    <3>1. /\ h \in [Values -> Nat] /\ Tally(h, Values) = n_real - 1
          /\ Tally(HeldWeights(h), Values) = w_real - WeightOf(v)
      BY <2>5, OneLess DEF PriceInv
    <3> HIDE DEF h
    <3> QED
      BY <3>1, WeightsHeld, TallyOfNaturals
  <2>6. ASSUME held[v] > 0
        PROVE  /\ CanEvaluate(n_real - 1, w_real - WeightOf(v), faces, ticket)
               /\ \A new \in Values :
                    CanEvaluate(n_real, w_real - WeightOf(v) + WeightOf(new), faces, ticket)
    <3>1. n_real - 1 <= m /\ n_real <= m
      BY <2>1
    <3>2. \A new \in Values : w_real - WeightOf(v) + WeightOf(new) \in Nat
      BY <2>1, <2>5, <2>6
    <3> QED
      BY <2>1, <2>3, <2>5, <2>6, <3>1, <3>2
  <2> QED
    BY <2>4, <2>6
<1> QED
  BY <1>1, InitPrice, StepKeepsPrice, PTL DEF Spec

---------------------------------------------------------------------------------
(* Faces small enough for the comment of rebalance.rs:90. *)

\* No face squared exceeds WeightC.  With WEIGHT_C = 10^18 and values in millionths
\* of a dollar these are the faces of up to 1000 dollars; the pools of the tests
\* and scripts have faces of 1, 2 and 5.
SmallFaces == \A set \in Settings : \A i \in 1..3 : set[1][i] * set[1][i] <= WeightC

LEMMA FacesGain ==
  ASSUME SmallFaces, setting \in Settings
  PROVE  \A i \in 1..3 : ticket * WeightOf(faces[i]) > WeightC
<1> SUFFICES ASSUME NEW i \in 1..3 PROVE ticket * WeightOf(faces[i]) > WeightC
  OBVIOUS
<1>1. setting \in (Nat \X Nat \X Nat) \X Nat
  BY RetargetingAssumption
<1>2. /\ faces[i] \in Nat \ {0} /\ ticket \in Nat /\ faces[i] < ticket
      /\ faces[i] * faces[i] <= WeightC
  BY <1>1, RetargetingAssumption DEF faces, ticket, SmallFaces
<1> QED
  BY <1>2, SmallFaceGains

\* With such faces the controller never refuses a setting that validate accepted.
THEOREM SmallFacesEvaluate ==
  ASSUME SmallFaces
  PROVE  Spec => []AcceptedFacesEvaluate
<1>1. PriceInv => AcceptedFacesEvaluate
  BY FacesGain DEF PriceInv, AcceptedFacesEvaluate
<1> QED
  BY <1>1, InitPrice, StepKeepsPrice, PTL DEF Spec

\* A pool already too heavy is left without a single blank: every blank would move
\* the price further, and no candidate but the empty one keeps the score.
THEOREM HeavyPoolsHoldNoBlanks ==
  ASSUME SmallFaces
  PROVE  Spec => []TooHeavyHoldsNoBlanks
<1>1. PriceInv => TooHeavyHoldsNoBlanks
  <2> SUFFICES ASSUME PriceInv, ticket * w_real >= WeightC * n_real
               PROVE  blanks = NoBlanks
    BY DEF TooHeavyHoldsNoBlanks
  <2>1. /\ n_real \in Nat /\ w_real \in Nat /\ faces \in Triples /\ ticket \in Nat
        /\ CanEvaluate(n_real, w_real, faces, ticket)
        /\ blanks = Evaluate(n_real, w_real, faces, ticket)
    BY PriceFacts DEF PriceInv
  <2>2. \A i \in 1..3 : ticket * WeightOf(faces[i]) > WeightC
    BY FacesGain DEF PriceInv
  <2> QED
    BY <2>1, <2>2, HeavyBest
<1> QED
  BY <1>1, InitPrice, StepKeepsPrice, PTL DEF Spec
=================================================================================
