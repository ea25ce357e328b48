---------------------------------- MODULE Pool ----------------------------------
(***************************************************************************)
(* One pool of the bye_machine program: the positions it holds, the weight  *)
(* and counter books kept for them, the top tier, the valuation sweep, the  *)
(* configuration and the roll batches.  Every instruction is one atomic     *)
(* transaction, so each handler of src/instructions is one action; a check  *)
(* that makes the handler return an error is a guard, because a failed      *)
(* transaction leaves every account as it was.                              *)
(*                                                                          *)
(* Accounts chosen by a caller (the candidate a vacancy is filled with, the *)
(* value an operator attests, the lock it sets) are \E-quantified inputs.   *)
(***************************************************************************)
EXTENDS Integers, Sequences, FiniteSets, Tier, Rebalance, WeightLedger

CONSTANTS
  Cards,        \* the NFTs; a position's address is derived from its card
  CoreCards,    \* the cards of the MPL Core standard
  Wallets,      \* depositors
  NoWallet,     \* the depositor field of an account that does not exist
  Values,       \* appraisals an operator may attest
  Locks,        \* lock_until stamps an operator may set
  Standings,    \* what a Core card's account may show while it is in the vault
  Configs,      \* configurations an administrator may move between
  PauseChoices, \* pairs <<deposits, rolls>> an administrator may set
  RollCounts,   \* sizes of batch a roller may ask for
  Draws,        \* values of the 32 random bytes; 0 is a legitimate draw
  MaxTime,      \* bound on the clock
  MaxDeposits   \* bound on position_counter

AllStandings == {"settleable", "undecidable", "frozen", "transferred", "burned"}

ASSUME PoolAssumption ==
  /\ IsFiniteSet(Cards) /\ CoreCards \subseteq Cards
  /\ NoWallet \notin Wallets
  /\ Values \subseteq Nat /\ Locks \subseteq Nat
  /\ "settleable" \in Standings /\ Standings \subseteq AllStandings
  /\ PauseChoices \subseteq BOOLEAN \X BOOLEAN
  /\ RollCounts \subseteq Nat /\ 0 \in Draws
  /\ MaxTime \in Nat /\ MaxDeposits \in Nat

\* Compile-time limits of the program.
MaxBatchCapacity == 10
MaxTierSize == 20

ConfigType ==
  [admission_floor: Nat, admission_ceiling: Nat, wallet_value_cap: Nat,
   max_n: Nat, tier_size: Nat, price: Nat, ticket_target: Nat,
   blank_faces: Nat \X Nat \X Nat]

\* validate: what every stored configuration satisfies, checked on the merge
\* of the stored fields and the submitted ones.
ValidConfig(c) ==
  /\ c.admission_floor > c.ticket_target
  /\ \A i \in 1..3 : c.blank_faces[i] > 0 /\ c.blank_faces[i] < c.ticket_target
  /\ c.price >= c.ticket_target
  /\ c.max_n \in 1..MaxBatchCapacity
  /\ c.tier_size \in 1..MaxTierSize

ASSUME ConfigAssumption ==
  /\ Configs \subseteq ConfigType
  /\ \E c \in Configs : ValidConfig(c)

\* One ConfigUpdate variant names one of these groups of fields.
Variants ==
  {{"admission_floor"}, {"admission_ceiling"}, {"wallet_value_cap"}, {"max_n"},
   {"tier_size"}, {"price", "ticket_target"}, {"blank_faces"}}

VARIABLES
  pos,          \* Cards -> Position account; state "None" when it does not exist
  standing,     \* Cards -> what the escrowed card's account shows
  position_counter,
  stats,        \* Wallets -> WalletStats
  w_real, n_real, blanks,
  index,        \* the weight index, as the ledger its callers see
  tier,         \* TopTier.entries[..len]
  cfg,          \* the configuration fields of Pool
  deposits_paused, rolls_paused,
  sweep_pending,
  open_batches, pending_roll_liability,
  batches,      \* the RollBatch accounts, by batch_id + 1
  now

books == <<stats, w_real, n_real, blanks, index>>
adminVars == <<cfg, deposits_paused, rolls_paused>>
rollVars == <<open_batches, pending_roll_liability, batches>>
vars == <<pos, standing, position_counter, books, tier, adminVars, sweep_pending,
          rollVars, now>>

PositionStates == {"None", "Pending", "Active", "ClosedBelowFloor", "Rejected", "Seized"}

NoPosition ==
  [state |-> "None", depositor |-> NoWallet, position_id |-> 0, recorded_value |-> 0,
   slot_index |-> 0, activated_at |-> 0, lock_until |-> 0, in_tier |-> FALSE]

Position ==
  [state: PositionStates, depositor: Wallets \cup {NoWallet}, position_id: Nat,
   recorded_value: Nat, slot_index: Nat, activated_at: Nat, lock_until: Nat,
   in_tier: BOOLEAN]

Batch ==
  [state: {"Committed", "Resolved"}, n: Nat, randomness: Draws, s_price: Nat,
   s_ticket: Nat, s_blank_faces: Nat \X Nat \X Nat, expected_w: Nat,
   expected_blanks: Nat \X Nat \X Nat]

TierEntry == [position: Cards, value: Nat, activated_at: Nat, position_id: Nat]

\* The tier entry of card c, whose position is p.
Entry(c, p) ==
  [position |-> c, value |-> p.recorded_value, activated_at |-> p.activated_at,
   position_id |-> p.position_id]

Init ==
  /\ pos = [c \in Cards |-> NoPosition]
  /\ standing = [c \in Cards |-> "settleable"]
  /\ position_counter = 0
  /\ stats = [w \in Wallets |-> [active_positions |-> 0, active_value |-> 0]]
  /\ w_real = 0 /\ n_real = 0 /\ blanks = NoBlanks
  /\ index = EmptyLedger
  /\ tier = << >>
  /\ cfg \in {c \in Configs : ValidConfig(c)}
  /\ deposits_paused = FALSE /\ rolls_paused = FALSE
  /\ sweep_pending = FALSE
  /\ open_batches = 0 /\ pending_roll_liability = 0 /\ batches = << >>
  /\ now = 0

---------------------------------------------------------------------------------
(* What the handlers share. *)

\* Variant: the freeze ends when the draw is delivered.
OpenOnceDrawn == \A b \in DOMAIN batches : batches[b].state = "Resolved"

\* assert_weight_open: nothing may move the draw domain while a batch is open.
WeightOpen == open_batches = 0

\* Variant: the controller runs on the books as the handler read them.
RetargetOnStaleBooks ==
  /\ CanEvaluate(n_real, w_real, cfg.blank_faces, cfg.ticket_target)
  /\ blanks' = Evaluate(n_real, w_real, cfg.blank_faces, cfg.ticket_target)

\* The controller, run on the books as the handler has just written them.
Retarget ==
  /\ CanEvaluate(n_real', w_real', cfg.blank_faces, cfg.ticket_target)
  /\ blanks' = Evaluate(n_real', w_real', cfg.blank_faces, cfg.ticket_target)

\* The books of an Active position leaving the pool's weight: checked
\* subtractions, the rebalance, and the leaf freed against the recorded value.
DepartWeight(c) ==
  LET p == pos[c]
      w == WeightOf(p.recorded_value)
  IN  /\ Weighable(p.recorded_value) /\ w_real >= w /\ n_real >= 1
      /\ stats[p.depositor].active_positions >= 1
      /\ stats[p.depositor].active_value >= p.recorded_value
      /\ w_real' = w_real - w
      /\ n_real' = n_real - 1
      /\ stats' = [stats EXCEPT ![p.depositor].active_positions = @ - 1,
                                ![p.depositor].active_value = @ - p.recorded_value]
      /\ Retarget
      /\ CanRemove(index, p.slot_index, w, w_real')
      /\ index' = Remove(index, p.slot_index, w)

EligibleCandidate(c) == pos[c].state = "Active" /\ ~pos[c].in_tier

\* promote gives c, whose account is now p, a seat; a displaced member is
\* settled and loses its flag in the same transaction.
TakeSeat(c, p) ==
  /\ Admits(tier, cfg.tier_size, Entry(c, p))
  /\ tier' = Promote(tier, cfg.tier_size, Entry(c, p))
  /\ pos' = [d \in Cards |->
               IF d = c THEN [p EXCEPT !.in_tier = TRUE]
               ELSE [pos[d] EXCEPT !.in_tier =
                       @ /\ d \notin Displaced(tier, cfg.tier_size)]]

\* promote rejects c: nothing but its own account changes.
MissSeat(c, p) ==
  /\ ~Admits(tier, cfg.tier_size, Entry(c, p))
  /\ pos' = [pos EXCEPT ![c] = p]
  /\ UNCHANGED tier

\* c leaves its seat, if it has one, and its account becomes p.  The caller may
\* name one of `heirs` to take the seat: any eligible position, whatever its rank.
LeaveSeat(c, p, heirs) ==
  LET rest == Demote(tier, c)
  IN  \/ /\ ~pos[c].in_tier
         /\ pos' = [pos EXCEPT ![c] = p]
         /\ UNCHANGED tier
      \/ /\ pos[c].in_tier /\ c \in Holders(tier)
         /\ pos' = [pos EXCEPT ![c] = p]
         /\ tier' = rest
      \/ /\ pos[c].in_tier /\ c \in Holders(tier)
         /\ Len(tier) - 1 < cfg.tier_size
         /\ \E d \in heirs :
              /\ EligibleCandidate(d)
              /\ pos' = [pos EXCEPT ![c] = p, ![d].in_tier = TRUE]
              /\ tier' = Promote(rest, cfg.tier_size, Entry(d, pos[d]))

\* Variant: only a burn or a transfer counts as unreachable.
GoneForGood(c) == c \in CoreCards /\ standing[c] \in {"burned", "transferred"}

\* Variant: an exit does not look at the card.
AnyStanding(c) == standing[c] \in Standings

\* The gates over an escrowed Core card: exits refuse one the vault cannot hand
\* over for sure, close_seized refuses one it surely can.
CollateralSettleable(c) == standing[c] \in {"settleable", "undecidable"}
CollateralUnreachable(c) == c \in CoreCards /\ standing[c] # "settleable"

\* The vault hands the card over and the position and vault accounts close.
Release(c) == standing' = [standing EXCEPT ![c] = "settleable"]

---------------------------------------------------------------------------------
(* The world outside the program. *)

Tick ==
  /\ now < MaxTime
  /\ now' = now + 1
  /\ UNCHANGED <<pos, standing, position_counter, books, tier, adminVars,
                 sweep_pending, rollVars>>

\* A collection or plugin authority freezes, thaws, moves or burns a Core card
\* while the vault holds it.  A burn is final.
CollateralMoves(c) ==
  /\ c \in CoreCards /\ pos[c].state # "None" /\ standing[c] # "burned"
  /\ \E s \in Standings \ {standing[c]} : standing' = [standing EXCEPT ![c] = s]
  /\ UNCHANGED <<pos, position_counter, books, tier, adminVars, sweep_pending,
                 rollVars, now>>

---------------------------------------------------------------------------------
(* Deposits. *)

\* deposit and deposit_core: the card moves in and its position is created.
Deposit(c, w) ==
  /\ ~deposits_paused
  /\ pos[c].state = "None"
  /\ position_counter < MaxDeposits
  /\ position_counter' = position_counter + 1
  /\ pos' = [pos EXCEPT ![c] =
               [NoPosition EXCEPT !.state = "Pending", !.depositor = w,
                                  !.position_id = position_counter]]
  /\ UNCHANGED <<standing, books, tier, adminVars, sweep_pending, rollVars, now>>

\* validate_admission_limits: inclusive limits, the optional ones off at zero.
WithinLimits(v, active_value) ==
  /\ v > 0 /\ v >= cfg.admission_floor
  /\ cfg.admission_ceiling # 0 => v <= cfg.admission_ceiling
  /\ cfg.wallet_value_cap # 0 => active_value + v <= cfg.wallet_value_cap

\* approve_deposit: the operator's appraisal activates a pending position.
ApproveDeposit(c, v, lock) ==
  LET p == pos[c]
      active == [p EXCEPT !.state = "Active", !.recorded_value = v,
                          !.slot_index = NextSlot(index), !.activated_at = now,
                          !.lock_until = lock]
  IN  /\ p.state = "Pending"
      /\ WeightOpen
      /\ WithinLimits(v, stats[p.depositor].active_value)
      /\ Weighable(v)
      /\ w_real' = w_real + WeightOf(v)
      /\ n_real' = n_real + 1
      /\ CanInsert(index, WeightOf(v), w_real')
      /\ index' = Insert(index, WeightOf(v))
      /\ stats[p.depositor].active_value + v \in Words
      /\ stats' = [stats EXCEPT ![p.depositor].active_positions = @ + 1,
                                ![p.depositor].active_value = @ + v]
      /\ TakeSeat(c, active) \/ MissSeat(c, active)
      /\ Retarget
      /\ UNCHANGED <<standing, position_counter, adminVars, sweep_pending, rollVars, now>>

RejectDeposit(c) ==
  /\ pos[c].state = "Pending"
  /\ pos' = [pos EXCEPT ![c].state = "Rejected"]
  /\ UNCHANGED <<standing, position_counter, books, tier, adminVars, sweep_pending,
                 rollVars, now>>

\* return_rejected and return_rejected_core.
ReturnRejected(c) ==
  /\ pos[c].state = "Rejected"
  /\ CollateralSettleable(c)
  /\ pos' = [pos EXCEPT ![c] = NoPosition]
  /\ Release(c)
  /\ UNCHANGED <<position_counter, books, tier, adminVars, sweep_pending, rollVars, now>>

---------------------------------------------------------------------------------
(* The valuation sweep. *)

BeginSweep ==
  /\ ~sweep_pending
  /\ sweep_pending' = TRUE
  /\ UNCHANGED <<pos, standing, position_counter, books, tier, adminVars, rollVars, now>>

EndSweep ==
  /\ sweep_pending
  /\ sweep_pending' = FALSE
  /\ UNCHANGED <<pos, standing, position_counter, books, tier, adminVars, rollVars, now>>

\* The guards record_value applies before it classifies the new appraisal.
Recordable(c, v) ==
  sweep_pending /\ WeightOpen /\ pos[c].state = "Active" /\ v > 0

\* Variant: the closure does not wait for the lock.
FallsBelowFloorLocked(c, v) == v < cfg.admission_floor

\* RecordOutcome::Close: below the floor and not locked.
FallsBelowFloor(c, v) == v < cfg.admission_floor /\ pos[c].lock_until <= now

\* record_value, Refresh and Retained: the leaf moves in place; a member keeps
\* its seat at its new rank, a non-member may cross into the tier.
RecordRefresh(c, v) ==
  LET p == [pos[c] EXCEPT !.recorded_value = v]
      old == pos[c].recorded_value
      delta == WeightOf(v) - WeightOf(old)
  IN  /\ Recordable(c, v) /\ ~FallsBelowFloor(c, v)
      /\ Weighable(old) /\ Weighable(v)
      /\ w_real + delta >= 0
      /\ stats[p.depositor].active_value + v - old \in Words
      /\ w_real' = w_real + delta
      /\ stats' = [stats EXCEPT ![p.depositor].active_value = @ + v - old]
      /\ UNCHANGED n_real
      /\ Retarget
      /\ CanUpdate(index, p.slot_index, WeightOf(old), WeightOf(v), w_real')
      /\ index' = Update(index, p.slot_index, WeightOf(old), WeightOf(v))
      /\ \/ /\ p.in_tier
            /\ CanRefresh(tier, cfg.tier_size, Entry(c, p))
            /\ tier' = RefreshMember(tier, cfg.tier_size, Entry(c, p))
            /\ pos' = [pos EXCEPT ![c] = p]
         \/ ~p.in_tier /\ (TakeSeat(c, p) \/ MissSeat(c, p))
      /\ UNCHANGED <<standing, position_counter, adminVars, sweep_pending, rollVars, now>>

\* record_value, Close: the position deactivates; the card stays to be claimed.
RecordClose(c, v) ==
  /\ Recordable(c, v) /\ FallsBelowFloor(c, v)
  /\ DepartWeight(c)
  /\ LeaveSeat(c, [pos[c] EXCEPT !.state = "ClosedBelowFloor", !.recorded_value = v,
                                 !.in_tier = FALSE], Cards)
  /\ UNCHANGED <<standing, position_counter, adminVars, sweep_pending, rollVars, now>>

---------------------------------------------------------------------------------
(* Exits. *)

\* withdraw and withdraw_core.
Withdraw(c) ==
  /\ CollateralSettleable(c)
  /\ WeightOpen
  /\ pos[c].state = "Active"
  /\ now >= pos[c].lock_until
  /\ DepartWeight(c)
  /\ LeaveSeat(c, NoPosition, Cards)
  /\ Release(c)
  /\ UNCHANGED <<position_counter, adminVars, sweep_pending, rollVars, now>>

\* claim_nft, and claim_nft_core which also serves a seizure that was undone.
ClaimNft(c) ==
  /\ \/ pos[c].state = "ClosedBelowFloor"
     \/ pos[c].state = "Seized" /\ c \in CoreCards
  /\ CollateralSettleable(c)
  /\ pos' = [pos EXCEPT ![c] = NoPosition]
  /\ Release(c)
  /\ UNCHANGED <<position_counter, books, tier, adminVars, sweep_pending, rollVars, now>>

\* Variant: close_seized takes a successor like the other closing paths.
SeizeActiveAndFill(c) ==
  /\ CollateralUnreachable(c)
  /\ pos[c].state = "Active"
  /\ standing[c] # "burned" => now >= pos[c].lock_until
  /\ WeightOpen
  /\ DepartWeight(c)
  /\ LeaveSeat(c, [pos[c] EXCEPT !.state = "Seized", !.in_tier = FALSE], Cards)
  /\ UNCHANGED <<standing, position_counter, adminVars, sweep_pending, rollVars, now>>

\* close_seized of an Active position: only a burn overrides the lock, and the
\* vacated seat is left open.
SeizeActive(c) ==
  /\ CollateralUnreachable(c)
  /\ pos[c].state = "Active"
  /\ standing[c] # "burned" => now >= pos[c].lock_until
  /\ WeightOpen
  /\ DepartWeight(c)
  /\ LeaveSeat(c, [pos[c] EXCEPT !.state = "Seized", !.in_tier = FALSE], {})
  /\ UNCHANGED <<standing, position_counter, adminVars, sweep_pending, rollVars, now>>

\* close_seized of a position that carries no weight.
SeizeWeightless(c) ==
  /\ CollateralUnreachable(c)
  /\ pos[c].state \in {"Pending", "Rejected", "ClosedBelowFloor"}
  /\ pos' = [pos EXCEPT ![c].state = "Seized"]
  /\ UNCHANGED <<standing, position_counter, books, tier, adminVars, sweep_pending,
                 rollVars, now>>

---------------------------------------------------------------------------------
(* The tier and the configuration. *)

\* update_tier: the operator promotes an eligible position, or is refused.
UpdateTier(c) ==
  /\ EligibleCandidate(c)
  /\ TakeSeat(c, pos[c])
  /\ UNCHANGED <<standing, position_counter, books, adminVars, sweep_pending,
                 rollVars, now>>

\* Variant: only the faces are seen to move W.
MovesFaces(new) == new.blank_faces # cfg.blank_faces

\* requires_weight_freeze: the two updates that move W or its target.
MovesDrawDomain(new) ==
  new.blank_faces # cfg.blank_faces \/ new.ticket_target # cfg.ticket_target

UpdateConfig(new) ==
  /\ new # cfg
  /\ \E v \in Variants : \A f \in DOMAIN cfg \ v : new[f] = cfg[f]
  /\ ValidConfig(new)
  /\ MovesDrawDomain(new) => WeightOpen
  /\ cfg' = new
  /\ tier' = IF new.tier_size = cfg.tier_size THEN tier ELSE Shrink(tier, new.tier_size)
  /\ pos' = [c \in Cards |->
               [pos[c] EXCEPT !.in_tier =
                  @ /\ c \notin Holders(tier) \ Holders(tier')]]
  /\ UNCHANGED <<standing, position_counter, books, deposits_paused, rolls_paused,
                 sweep_pending, rollVars, now>>

SetPause(deposits, rolls) ==
  /\ deposits_paused' = deposits
  /\ rolls_paused' = rolls
  /\ UNCHANGED <<pos, standing, position_counter, books, tier, cfg, sweep_pending,
                 rollVars, now>>

---------------------------------------------------------------------------------
(* Rolls. *)

\* required_tier_len: as many seats taken as there are real cards to take them.
TierFull == Len(tier) = IF cfg.tier_size < n_real THEN cfg.tier_size ELSE n_real

\* Variant: a pool without cards may open a batch on its blanks alone.
StockedOrNot == n_real >= 0

\* A batch opens only on a pool that holds a real card.
Stocked == n_real > 0

\* Variant: one ticket's price whatever the size of the batch.
LiabilityOfOne(n) == cfg.price

\* What the pool owes the roller of a batch until it settles: n tickets at the
\* price of this moment.
Liability(n) == n * cfg.price

\* commit_rolls: a batch opens on the pool's terms of this moment; its
\* randomness is requested in the same transaction.
CommitRolls(n) ==
  /\ ~rolls_paused /\ ~sweep_pending /\ WeightOpen
  /\ n \in 1..cfg.max_n
  /\ Stocked
  /\ TierFull
  /\ pending_roll_liability' = pending_roll_liability + Liability(n)
  /\ open_batches' = open_batches + 1
  /\ batches' = Append(batches,
       [state |-> "Committed", n |-> n, randomness |-> 0, s_price |-> cfg.price,
        s_ticket |-> cfg.ticket_target, s_blank_faces |-> cfg.blank_faces,
        expected_w |-> 0, expected_blanks |-> NoBlanks])
  /\ UNCHANGED <<pos, standing, position_counter, books, tier, adminVars,
                 sweep_pending, now>>

\* Variants: a second delivery is taken; a pause stops the oracle too.
DeliverableAgain(b) == batches[b].state \in {"Committed", "Resolved"}
DeliverableUnlessPaused(b) == batches[b].state = "Committed" /\ ~rolls_paused

\* The oracle may deliver late, more than once or never; only a Committed batch
\* accepts a delivery.
Deliverable(b) == batches[b].state = "Committed"

\* vrf_callback: the draw is kept with the pool it will be resolved against,
\* whose blank faces must have a weight.
VrfCallback(b, r) ==
  /\ b \in DOMAIN batches
  /\ Deliverable(b)
  /\ \A i \in 1..3 : Weighable(cfg.blank_faces[i])
  /\ batches' = [batches EXCEPT ![b] =
       [@ EXCEPT !.state = "Resolved", !.randomness = r,
                 !.expected_w = AggregateWeight(w_real, blanks, cfg.blank_faces),
                 !.expected_blanks = blanks]]
  /\ UNCHANGED <<pos, standing, position_counter, books, tier, adminVars,
                 sweep_pending, open_batches, pending_roll_liability, now>>

---------------------------------------------------------------------------------

DepositStep(c) ==
  \/ \E w \in Wallets : Deposit(c, w)
  \/ \E v \in Values, lock \in Locks : ApproveDeposit(c, v, lock)
  \/ RejectDeposit(c)
  \/ ReturnRejected(c)

ValueStep(c) == \E v \in Values : RecordRefresh(c, v) \/ RecordClose(c, v)

ExitStep(c) == Withdraw(c) \/ ClaimNft(c) \/ SeizeActive(c) \/ SeizeWeightless(c)

AdminStep ==
  \/ \E new \in Configs : UpdateConfig(new)
  \/ \E choice \in PauseChoices : SetPause(choice[1], choice[2])

RollStep ==
  \/ \E n \in RollCounts : CommitRolls(n)
  \/ \E b \in DOMAIN batches, r \in Draws : VrfCallback(b, r)

Next ==
  \/ Tick
  \/ BeginSweep \/ EndSweep
  \/ \E c \in Cards : DepositStep(c) \/ ValueStep(c) \/ ExitStep(c)
                      \/ UpdateTier(c) \/ CollateralMoves(c)
  \/ AdminStep
  \/ RollStep

Spec == Init /\ [][Next]_vars
=================================================================================
