---------------------------------- MODULE MCPool ----------------------------------
(***************************************************************************)
(* Values for the constants of Pool.  WeightC = 420 divides by the faces and *)
(* by most appraisals, so weights behave as at WEIGHT_C = 10^18: strictly     *)
(* inverse to the value, and above WeightC / ticket for every blank face.     *)
(***************************************************************************)
EXTENDS PoolProperties, TLC

CONSTANTS c1, c2, c3, alice, bob

Symmetric == Permutations({c1, c2, c3}) \cup Permutations({alice, bob})

BaseConfig ==
  [admission_floor |-> 7, admission_ceiling |-> 0, wallet_value_cap |-> 0,
   max_n |-> 2, tier_size |-> 2, price |-> 8, ticket_target |-> 6,
   blank_faces |-> <<1, 2, 5>>]

\* A single configuration: no update is possible.
OneConfig == {BaseConfig}
OneSeat == {[BaseConfig EXCEPT !.tier_size = 1]}
TierSizes == OneConfig \cup OneSeat

\* Every variant of ConfigUpdate has somewhere to go.
ManyConfigs ==
  {BaseConfig,
   [BaseConfig EXCEPT !.tier_size = 1],
   [BaseConfig EXCEPT !.price = 9],
   [BaseConfig EXCEPT !.price = 8, !.ticket_target = 4, !.blank_faces = <<1, 2, 3>>],
   [BaseConfig EXCEPT !.blank_faces = <<1, 2, 3>>],
   [BaseConfig EXCEPT !.max_n = 1],
   [BaseConfig EXCEPT !.admission_ceiling = 10],
   [BaseConfig EXCEPT !.wallet_value_cap = 30],
   [BaseConfig EXCEPT !.admission_floor = 10]}

NoPauses == {}
AllPauses == BOOLEAN \X BOOLEAN
=================================================================================
