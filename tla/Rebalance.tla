-------------------------------- MODULE Rebalance --------------------------------
(***************************************************************************)
(* The blank-targeting controller, common/rebalance.rs::evaluate, and the   *)
(* weight arithmetic of common/math.rs.  Blanks are the valueless tickets   *)
(* that keep the expected ticket price near the target:                     *)
(*     WeightC * (count of tickets) = ticket * (weight of tickets).         *)
(* A blank set is a triple of counts, one per face.                         *)
(***************************************************************************)
EXTENDS Integers

CONSTANTS
  WeightC,   \* WEIGHT_C, the weight of a value of one unit
  MaxCount   \* the largest count of one blank: the largest u32
ASSUME RebalanceAssumption == WeightC \in Nat \ {0} /\ MaxCount \in Nat

\* Floor division; a zero value or a zero weight is refused.
WeightOf(v) == WeightC \div v
Weighable(v) == v > 0 /\ WeightOf(v) > 0

BlankWeight(b, faces) ==
  b[1] * WeightOf(faces[1]) + b[2] * WeightOf(faces[2]) + b[3] * WeightOf(faces[3])
BlankCount(b) == b[1] + b[2] + b[3]
NoBlanks == <<0, 0, 0>>

\* aggregate_weight: the draw domain W a roll is resolved against.
AggregateWeight(w, blanks, faces) == w + BlankWeight(blanks, faces)

\* |T * weighted - C * count|, the price error a blank set leaves.
Score(n, w, faces, ticket, b) ==
  LET err == ticket * (w + BlankWeight(b, faces)) - WeightC * (n + BlankCount(b))
  IN  IF err >= 0 THEN err ELSE -err

\* Variants: the deficit by magnitude, not saturated; the anchor one too high.
DeficitByMagnitude(n, w, ticket) ==
  IF n * WeightC >= ticket * w THEN n * WeightC - ticket * w ELSE ticket * w - n * WeightC

\* The closed-form count of face-2 blanks; a pool already too heavy saturates to
\* zero.
Den2(faces, ticket) == ticket * WeightOf(faces[2]) - WeightC
Deficit(n, w, ticket) ==
  IF n * WeightC >= ticket * w THEN n * WeightC - ticket * w ELSE 0
AnchorRoundedUp(n, w, faces, ticket) == Deficit(n, w, ticket) \div Den2(faces, ticket) + 1
Anchor(n, w, faces, ticket) == Deficit(n, w, ticket) \div Den2(faces, ticket)

\* Variant: fewer blanks before a better price.
BetterByCount(n, w, faces, ticket, b, d) ==
  LET key(x) == <<BlankCount(x), x[1], x[3], x[2]>>
      less(x, y) == \E i \in 1..4 : x[i] < y[i] /\ \A j \in 1..i-1 : x[j] = y[j]
  IN  less(key(b), key(d))

\* The scan's order: score, then total blanks, then face 1, then face 5.
Better(n, w, faces, ticket, b, d) ==
  LET sb == Score(n, w, faces, ticket, b)
      sd == Score(n, w, faces, ticket, d)
  IN  \/ sb < sd
      \/ /\ sb = sd
         /\ \/ BlankCount(b) < BlankCount(d)
            \/ /\ BlankCount(b) = BlankCount(d)
               /\ \/ b[1] < d[1]
                  \/ b[1] = d[1] /\ b[3] < d[3]

\* evaluate succeeds on an empty pool, else needs weighable faces, Den2 > 0 and
\* candidates whose counts fit.
CanEvaluate(n, w, faces, ticket) ==
  n # 0 => /\ \A i \in 1..3 : Weighable(faces[i])
           /\ Den2(faces, ticket) > 0
           /\ Anchor(n, w, faces, ticket) + 1 <= MaxCount

\* The scan keeps the best of eight: both anchors, with or without one blank of
\* face 1 and one of face 5.
Evaluate(n, w, faces, ticket) ==
  LET k == Anchor(n, w, faces, ticket)
      candidates == {0, 1} \X {k, k + 1} \X {0, 1}
  IN  IF n = 0 THEN NoBlanks
      ELSE CHOOSE b \in candidates :
             \A d \in candidates : d = b \/ Better(n, w, faces, ticket, b, d)
=================================================================================
