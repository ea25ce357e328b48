------------------------------- MODULE Retargeting -------------------------------
(***************************************************************************)
(* The blank controller at work on its own: positions of given values enter, *)
(* leave and are re-attested, and after each change the blanks are           *)
(* re-targeted from the new books alone, as every weight operation of        *)
(* src/instructions does.  Pool composes the same operators; here more       *)
(* values and settings fit.                                                  *)
(***************************************************************************)
EXTENDS Rebalance, FiniteSets

CONSTANTS
  Values,    \* values a position may be recorded at
  MaxHeld,   \* bound on the number of positions of one value
  Settings   \* pairs <<faces, ticket_target>>, faces below the ticket target

\* Values are u64 appraisals that weight_of accepts; every face is positive and
\* below its ticket target.
ASSUME RetargetingAssumption ==
  /\ IsFiniteSet(Values) /\ Values \subseteq Nat
  /\ \A v \in Values : Weighable(v)
  /\ Settings \subseteq (Nat \X Nat \X Nat) \X Nat
  /\ \A set \in Settings : \A i \in 1..3 : set[1][i] > 0 /\ set[1][i] < set[2]

VARIABLES held, w_real, n_real, blanks, setting

vars == <<held, w_real, n_real, blanks, setting>>

faces == setting[1]
ticket == setting[2]

Init ==
  /\ held = [v \in Values |-> 0]
  /\ w_real = 0 /\ n_real = 0 /\ blanks = NoBlanks
  /\ setting \in Settings

Rebalanced ==
  /\ CanEvaluate(n_real', w_real', faces, ticket)
  /\ blanks' = Evaluate(n_real', w_real', faces, ticket)
  /\ UNCHANGED setting

\* The weight operation of approve_deposit.
Enter(v) ==
  /\ held[v] < MaxHeld
  /\ held' = [held EXCEPT ![v] = @ + 1]
  /\ w_real' = w_real + WeightOf(v) /\ n_real' = n_real + 1
  /\ Rebalanced

\* The weight operation of withdraw, close_seized and record_value's closure.
Leave(v) ==
  /\ held[v] > 0
  /\ held' = [held EXCEPT ![v] = @ - 1]
  /\ w_real' = w_real - WeightOf(v) /\ n_real' = n_real - 1
  /\ Rebalanced

\* The weight operation of record_value's refresh.
Revalue(v, new) ==
  /\ held[v] > 0 /\ held[new] < MaxHeld /\ v # new
  /\ held' = [held EXCEPT ![v] = @ - 1, ![new] = @ + 1]
  /\ w_real' = w_real - WeightOf(v) + WeightOf(new) /\ UNCHANGED n_real
  /\ Rebalanced

Next == \E v \in Values : Enter(v) \/ Leave(v) \/ \E new \in Values : Revalue(v, new)

Spec == Init /\ [][Next]_vars
---------------------------------------------------------------------------------

Error(b) == Score(n_real, w_real, faces, ticket, b)

\* A pool whose weight already prices the ticket below its target holds no
\* blanks: every one would price it lower still.  It is a state, not an error.
TooHeavyHoldsNoBlanks ==
  ticket * w_real >= WeightC * n_real => blanks = NoBlanks

\* Otherwise the controller leaves an error of at most half of what one blank
\* of the middle face moves, so the quote cannot drift as positions come and go.
PriceWithinHalfABlank ==
  ticket * w_real < WeightC * n_real => 2 * Error(blanks) <= Den2(faces, ticket)

\* The anchor is the right one: no number of middle blanks alone does better,
\* though only two of them are ever tried.
NoMiddleFillDoesBetter ==
  n_real > 0 =>
    \A k \in 0 .. 2 * Anchor(n_real, w_real, faces, ticket) + 2 :
      Error(blanks) <= Error(<<0, k, 0>>)

\* Where MaxCount holds what one more card would need if none weighed anything.
FitsOneMore ==
  /\ \A i \in 1..3 : Weighable(faces[i])
  /\ Den2(faces, ticket) > 0
  /\ (n_real + 1) * WeightC < MaxCount * Den2(faces, ticket)

\* rebalance.rs:128 narrows the blank count to a u32, and a count that does not fit
\* fails admissions, exits and appraisals alike.  Where FitsOneMore holds, it always
\* fits: no card can enter, leave or be appraised again in a way the controller
\* refuses, not even one whose departure leaves the others to be made up for.
NoRefusalWithinBound ==
  FitsOneMore =>
    \A v \in Values :
      /\ CanEvaluate(n_real + 1, w_real + WeightOf(v), faces, ticket)
      /\ held[v] > 0 =>
           /\ CanEvaluate(n_real - 1, w_real - WeightOf(v), faces, ticket)
           /\ \A new \in Values :
                CanEvaluate(n_real, w_real - WeightOf(v) + WeightOf(new), faces, ticket)

\* rebalance.rs:90 says every face below the ticket target has T * w_d > C, so
\* that the controller cannot refuse a setting validate has accepted.
AcceptedFacesEvaluate == \A i \in 1..3 : ticket * WeightOf(faces[i]) > WeightC
=================================================================================
