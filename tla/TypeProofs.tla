------------------------------- MODULE TypeProofs -------------------------------
(***************************************************************************)
(* Every account of a pool keeps its type, for every value of the constants. *)
(* TypeOK alone is not inductive: promote makes room for one entry only if   *)
(* the tier was no longer than its size.                                     *)
(***************************************************************************)
EXTENDS PoolProperties, OperatorProofs

TypeInv == TypeOK /\ Len(tier) <= cfg.tier_size

LEMMA ConfigFields ==
  ASSUME NEW f \in Configs, ValidConfig(f)
  PROVE  /\ f.tier_size \in Nat \ {0}
         /\ f.price \in Nat /\ f.ticket_target \in Nat
         /\ f.blank_faces \in Nat \X Nat \X Nat
BY ConfigAssumption DEF ConfigType, ValidConfig, MaxTierSize

\* What TypeInv says of the positions and the counters, for the leaves below.
LEMMA TypedAccounts ==
  ASSUME TypeInv
  PROVE  /\ pos \in [Cards -> Position]
         /\ stats \in [Wallets -> [active_positions: Nat, active_value: Words]]
         /\ cfg.tier_size \in Nat \ {0}
         /\ tier \in Seq(TierEntry) /\ Len(tier) <= cfg.tier_size
<1>1. cfg \in Configs /\ ValidConfig(cfg)
  BY DEF TypeInv, TypeOK
<1>2. cfg.tier_size \in Nat \ {0}
  BY <1>1, ConfigFields
<1> QED
  BY <1>2, Zenon DEF TypeInv, TypeOK

\* A position may change its state, its value and its seat.
LEMMA PositionMoved ==
  ASSUME NEW p \in Position, NEW s \in PositionStates, NEW v \in Nat, NEW b \in BOOLEAN
  PROVE  /\ [p EXCEPT !.state = s] \in Position
         /\ [p EXCEPT !.recorded_value = v] \in Position
         /\ [p EXCEPT !.in_tier = b] \in Position
         /\ [p EXCEPT !.state = s, !.in_tier = b] \in Position
BY DEF Position

\* One position at a time.
LEMMA PositionStored ==
  ASSUME NEW q \in [Cards -> Position], NEW c \in Cards, NEW p \in Position
  PROVE  [q EXCEPT ![c] = p] \in [Cards -> Position]
OBVIOUS

LEMMA EntryInTier ==
  ASSUME NEW c \in Cards, NEW p \in Position
  PROVE  Entry(c, p) \in TierEntry
BY DEF Position, Entry, TierEntry

\* What the controller stores is a triple of counts.
LEMMA RetargetType ==
  ASSUME TypeInv, w_real' \in Nat, n_real' \in Nat, Retarget
  PROVE  blanks' \in Nat \X Nat \X Nat
<1>1. cfg.blank_faces \in Nat \X Nat \X Nat /\ cfg.ticket_target \in Nat
  BY ConfigFields DEF TypeInv, TypeOK
<1> QED
  BY <1>1, EvaluateType DEF Retarget

\* Moving both counters of one wallet keeps the map of counters.
LEMMA StatsMoved ==
  ASSUME NEW s \in [Wallets -> [active_positions: Nat, active_value: Words]],
         NEW d, NEW a, NEW v, d \in Wallets => a \in Nat /\ v \in Words
  PROVE  [s EXCEPT ![d].active_positions = a, ![d].active_value = v]
           \in [Wallets -> [active_positions: Nat, active_value: Words]]
<1>1. CASE d \in Wallets
  <2> DEFINE r == [s EXCEPT ![d].active_positions = a]
  <2>1. r \in [Wallets -> [active_positions: Nat, active_value: Words]]
    BY <1>1
  <2> HIDE DEF r
  <2>2. [r EXCEPT ![d].active_value = v]
          \in [Wallets -> [active_positions: Nat, active_value: Words]]
    BY <1>1, <2>1
  <2> QED
    BY <2>2 DEF r
<1>2. CASE d \notin Wallets
  BY <1>2
<1> QED
  BY <1>1, <1>2

\* A departure takes no counter below zero.
LEMMA DepartType ==
  ASSUME TypeInv, NEW c \in Cards, DepartWeight(c)
  PROVE  /\ w_real' \in Nat /\ n_real' \in Nat /\ blanks' \in Nat \X Nat \X Nat
         /\ stats' \in [Wallets -> [active_positions: Nat, active_value: Words]]
         /\ index' \in LedgerType
<1> DEFINE p == pos[c]
           w == WeightOf(p.recorded_value)
<1>1. p.recorded_value \in Nat
  BY DEF TypeInv, TypeOK, Position
<1>2. w \in Nat
  BY <1>1, WeightOfType DEF DepartWeight
<1> HIDE DEF w
<1>3. w_real' \in Nat /\ n_real' \in Nat
  BY <1>2 DEF DepartWeight, w, TypeInv, TypeOK
<1>4. blanks' \in Nat \X Nat \X Nat
  BY <1>3, RetargetType DEF DepartWeight
<1>5. stats' \in [Wallets -> [active_positions: Nat, active_value: Words]]
  <2> DEFINE d == p.depositor
             a == stats[d].active_positions - 1
             v == stats[d].active_value - p.recorded_value
  <2>1. stats' = [stats EXCEPT ![d].active_positions = a, ![d].active_value = v]
    BY Zenon DEF DepartWeight
  <2>2. d \in Wallets => a \in Nat /\ v \in Words
    <3>1. stats[d].active_positions >= 1 /\ stats[d].active_value >= p.recorded_value
      BY Zenon DEF DepartWeight
    <3>2. d \in Wallets =>
            stats[d].active_positions \in Nat /\ stats[d].active_value \in Words
      BY DEF TypeInv, TypeOK
    <3> HIDE DEF d
    <3> QED
      BY <1>1, <3>1, <3>2, WordAssumption DEF Words
  <2> HIDE DEF a, v, d
  <2>3. [stats EXCEPT ![d].active_positions = a, ![d].active_value = v]
          \in [Wallets -> [active_positions: Nat, active_value: Words]]
    BY <2>2, StatsMoved DEF TypeInv, TypeOK
  <2> QED
    BY <2>1, <2>3
<1>6. CanRemove(index, p.slot_index, w, w_real') /\ index' = Remove(index, p.slot_index, w)
  BY DEF DepartWeight, w
<1>7. index' \in LedgerType
  BY <1>2, <1>6, RemoveType DEF TypeInv, TypeOK
<1> QED
  BY <1>3, <1>4, <1>5, <1>7

\* promote, seen from the accounts: flags and seats keep their types.
LEMMA TakeSeatType ==
  ASSUME TypeInv, NEW c \in Cards, NEW p \in Position, TakeSeat(c, p)
  PROVE  /\ pos' \in [Cards -> Position]
         /\ tier' \in Seq(TierEntry) /\ Len(tier') <= cfg.tier_size
<1>1. cfg.tier_size \in Nat \ {0}
  BY ConfigFields DEF TypeInv, TypeOK
<1>2. Entry(c, p) \in TierEntry
  BY EntryInTier
<1>3. tier' \in Seq(TierEntry) /\ Len(tier') <= cfg.tier_size
  BY <1>1, <1>2, PromoteType DEF TakeSeat, TypeInv, TypeOK
<1>4. pos' \in [Cards -> Position]
  <2>1. [p EXCEPT !.in_tier = TRUE] \in Position
    BY DEF Position
  <2>2. ASSUME NEW d \in Cards, NEW b \in BOOLEAN
        PROVE  [pos[d] EXCEPT !.in_tier = b] \in Position
    BY DEF TypeInv, TypeOK, Position
  <2>3. \A d \in Cards : pos[d].in_tier \in BOOLEAN
    BY DEF TypeInv, TypeOK, Position
  <2> QED
    BY <2>1, <2>2, <2>3 DEF TakeSeat
<1> QED
  BY <1>3, <1>4

LEMMA MissSeatType ==
  ASSUME TypeInv, NEW c \in Cards, NEW p \in Position, MissSeat(c, p)
  PROVE  /\ pos' \in [Cards -> Position]
         /\ tier' \in Seq(TierEntry) /\ Len(tier') <= cfg.tier_size
BY DEF MissSeat, TypeInv, TypeOK

\* A vacancy, filled or not, leaves a tier that fits.
LEMMA LeaveSeatType ==
  ASSUME TypeInv, NEW c \in Cards, NEW p \in Position, NEW heirs \in SUBSET Cards,
         LeaveSeat(c, p, heirs)
  PROVE  /\ pos' \in [Cards -> Position]
         /\ tier' \in Seq(TierEntry) /\ Len(tier') <= cfg.tier_size
<1> DEFINE rest == Demote(tier, c)
<1>0. /\ pos \in [Cards -> Position] /\ tier \in Seq(TierEntry)
      /\ Len(tier) <= cfg.tier_size /\ Len(tier) \in Nat
  BY LenProperties DEF TypeInv, TypeOK
<1>1. cfg.tier_size \in Nat \ {0}
  BY ConfigFields DEF TypeInv, TypeOK
<1>2. ASSUME c \in Holders(tier)
      PROVE  rest \in Seq(TierEntry) /\ Len(rest) <= cfg.tier_size
  <2>1. rest \in Seq(TierEntry) /\ Len(rest) = Len(tier) - 1
    BY <1>0, <1>2, DemoteType
  <2> HIDE DEF rest
  <2> QED
    BY <1>0, <1>1, <2>1
<1> HIDE DEF rest
<1>3. CASE pos' = [pos EXCEPT ![c] = p] /\ UNCHANGED tier
  BY <1>0, <1>3, <1>1 DEF TypeInv, TypeOK
<1>4. CASE pos' = [pos EXCEPT ![c] = p] /\ c \in Holders(tier) /\ tier' = rest
  BY <1>0, <1>2, <1>4
<1>5. ASSUME c \in Holders(tier), NEW d \in heirs,
             pos' = [pos EXCEPT ![c] = p, ![d].in_tier = TRUE],
             tier' = Promote(rest, cfg.tier_size, Entry(d, pos[d]))
      PROVE  /\ pos' \in [Cards -> Position]
             /\ tier' \in Seq(TierEntry) /\ Len(tier') <= cfg.tier_size
  <2>1. pos' \in [Cards -> Position]
    BY <1>0, <1>5 DEF Position
  <2>2. Entry(d, pos[d]) \in TierEntry
    BY <1>0, EntryInTier
  <2>3. /\ Promote(rest, cfg.tier_size, Entry(d, pos[d])) \in Seq(TierEntry)
        /\ Len(Promote(rest, cfg.tier_size, Entry(d, pos[d]))) <= cfg.tier_size
    BY <1>1, <1>2, <1>5, <2>2, PromoteType
  <2> QED
    BY <1>5, <2>1, <2>3
<1> QED
  BY <1>3, <1>4, <1>5 DEF LeaveSeat, rest

LEMMA NoPositionType == NoPosition \in Position
BY DEF NoPosition, Position, PositionStates

LEMMA InitType == Init => TypeInv
<1> SUFFICES ASSUME Init PROVE TypeInv
  OBVIOUS
<1>1. pos \in [Cards -> Position]
  BY DEF Init, NoPosition, Position, PositionStates
<1>2. standing \in [Cards -> AllStandings]
  BY DEF Init, AllStandings
<1>3. stats \in [Wallets -> [active_positions: Nat, active_value: Words]]
  BY WordAssumption DEF Init, Words
<1>4. index \in LedgerType
  <2>1. [s \in Slots |-> 0] \in [Slots -> Nat] /\ << >> \in Seq(Slots)
        /\ 0 \in 0..Capacity /\ 0 \in Words
    BY CapacityAssumption, WordAssumption DEF Words
  <2> QED
    BY <2>1 DEF Init, EmptyLedger, LedgerType
<1>5. tier \in Seq(TierEntry) /\ Len(tier) = 0 /\ batches \in Seq(Batch)
  BY DEF Init
<1>6. cfg \in Configs /\ ValidConfig(cfg)
  BY DEF Init
<1>7. Len(tier) <= cfg.tier_size
  BY <1>5, <1>6, ConfigFields
<1>8. /\ position_counter \in Nat /\ w_real \in Nat /\ n_real \in Nat
      /\ open_batches \in Nat /\ pending_roll_liability \in Nat
      /\ now \in 0..MaxTime
  BY PoolAssumption DEF Init
<1>9. blanks \in Nat \X Nat \X Nat
  BY DEF Init, NoBlanks
<1>10. {deposits_paused, rolls_paused, sweep_pending} \subseteq BOOLEAN
  BY DEF Init
<1> QED
  BY <1>1, <1>2, <1>3, <1>4, <1>5, <1>6, <1>7, <1>8, <1>9, <1>10 DEF TypeInv, TypeOK

\* A card's account goes on showing something a Core card may show.
LEMMA ReleaseType ==
  ASSUME TypeInv, NEW c \in Cards, Release(c)
  PROVE  standing' \in [Cards -> AllStandings]
BY DEF Release, TypeInv, TypeOK, AllStandings

LEMMA DepositKeepsType ==
  ASSUME TypeInv, NEW c \in Cards, DepositStep(c)
  PROVE  TypeInv'
<1> USE DEF books, adminVars, rollVars
<1>1. ASSUME NEW w \in Wallets, Deposit(c, w) PROVE TypeInv'
  <2>1. [NoPosition EXCEPT !.state = "Pending", !.depositor = w,
                           !.position_id = position_counter] \in Position
    BY DEF NoPosition, Position, PositionStates, TypeInv, TypeOK
  <2>2. pos' \in [Cards -> Position]
    BY <1>1, <2>1 DEF Deposit, TypeInv, TypeOK
  <2>3. position_counter' \in Nat
    BY <1>1 DEF Deposit, TypeInv, TypeOK
  <2> QED
    BY <1>1, <2>2, <2>3 DEF Deposit, TypeInv, TypeOK
<1>2. ASSUME NEW v \in Values, NEW lock \in Locks, ApproveDeposit(c, v, lock)
      PROVE  TypeInv'
  <2> DEFINE active == [pos[c] EXCEPT !.state = "Active", !.recorded_value = v,
                          !.slot_index = NextSlot(index), !.activated_at = now,
                          !.lock_until = lock]
             w == WeightOf(v)
             d == pos[c].depositor
  <2>1. v \in Nat /\ lock \in Nat /\ now \in Nat /\ pos[c] \in Position
    BY PoolAssumption DEF TypeInv, TypeOK
  <2>2. w \in Nat
    BY <1>2, <2>1, WeightOfType DEF ApproveDeposit
  <2>3. CanInsert(index, w, w_real') /\ CanAlloc(index)
    BY <1>2 DEF ApproveDeposit, CanInsert
  <2>4. active \in Position
    <3>1. NextSlot(index) \in Nat
      BY <2>3 DEF CanAlloc, Slots
    <3> QED
      BY <2>1, <3>1 DEF Position, PositionStates
  <2> HIDE DEF w, active
  <2>5. w_real' \in Nat /\ n_real' \in Nat
    <3>1. w_real' = w_real + w /\ n_real' = n_real + 1
      BY <1>2 DEF ApproveDeposit, w
    <3>2. w_real \in Nat /\ n_real \in Nat
      BY DEF TypeInv, TypeOK
    <3> QED
      BY <2>2, <3>1, <3>2
  <2>6. blanks' \in Nat \X Nat \X Nat
    BY <1>2, <2>5, RetargetType DEF ApproveDeposit
  <2>7. index' \in LedgerType
    <3>1. index' = Insert(index, w)
      BY <1>2 DEF ApproveDeposit, w
    <3> QED
      BY <2>2, <2>3, <3>1, InsertType DEF TypeInv, TypeOK
  <2>8. stats' \in [Wallets -> [active_positions: Nat, active_value: Words]]
    <3> DEFINE a == stats[d].active_positions + 1
               b == stats[d].active_value + v
    <3>1. stats' = [stats EXCEPT ![d].active_positions = a, ![d].active_value = b]
      BY <1>2, Zenon DEF ApproveDeposit
    <3>2. b \in Words /\ (d \in Wallets => a \in Nat)
      BY <1>2, TypedAccounts DEF ApproveDeposit
    <3> HIDE DEF a, b, d
    <3>3. [stats EXCEPT ![d].active_positions = a, ![d].active_value = b]
            \in [Wallets -> [active_positions: Nat, active_value: Words]]
      BY <3>2, TypedAccounts, StatsMoved
    <3> QED
      BY <3>1, <3>3
  <2>9. TakeSeat(c, active) \/ MissSeat(c, active)
    BY <1>2, Zenon DEF ApproveDeposit, active
  <2>10. /\ pos' \in [Cards -> Position]
         /\ tier' \in Seq(TierEntry) /\ Len(tier') <= cfg.tier_size
    BY <2>4, <2>9, TakeSeatType, MissSeatType
  <2> QED
    BY <1>2, <2>5, <2>6, <2>7, <2>8, <2>10 DEF ApproveDeposit, TypeInv, TypeOK
<1>3. ASSUME RejectDeposit(c) PROVE TypeInv'
  <2> DEFINE p == [pos[c] EXCEPT !.state = "Rejected"]
  <2>0. pos' = [pos EXCEPT ![c] = p]
    BY <1>3 DEF RejectDeposit
  <2>1. pos' \in [Cards -> Position]
    <3>1. p \in Position
      BY TypedAccounts DEF Position, PositionStates
    <3> HIDE DEF p
    <3> QED
      BY <2>0, <3>1, TypedAccounts, PositionStored
  <2> QED
    BY <1>3, <2>1 DEF RejectDeposit, TypeInv, TypeOK
<1>4. ASSUME ReturnRejected(c) PROVE TypeInv'
  <2>1. pos' \in [Cards -> Position]
    BY <1>4, NoPositionType DEF ReturnRejected, TypeInv, TypeOK
  <2>2. standing' \in [Cards -> AllStandings]
    BY <1>4, ReleaseType DEF ReturnRejected
  <2> QED
    BY <1>4, <2>1, <2>2 DEF ReturnRejected, TypeInv, TypeOK
<1> QED
  BY <1>1, <1>2, <1>3, <1>4 DEF DepositStep

LEMMA ValueKeepsType ==
  ASSUME TypeInv, NEW c \in Cards, ValueStep(c)
  PROVE  TypeInv'
<1> USE DEF books, adminVars, rollVars
<1>1. ASSUME NEW v \in Values, RecordRefresh(c, v) PROVE TypeInv'
  <2> DEFINE p == [pos[c] EXCEPT !.recorded_value = v]
             old == pos[c].recorded_value
             delta == WeightOf(v) - WeightOf(old)
             d == p.depositor
             b == stats[d].active_value + v - old
  <2>1. v \in Nat /\ old \in Nat /\ pos[c] \in Position /\ p \in Position
    <3>1. v \in Nat
      BY PoolAssumption
    <3>2. pos[c] \in Position
      BY TypedAccounts
    <3>3. old \in Nat
      BY <3>2 DEF Position
    <3>4. p \in Position
      BY <3>1, <3>2 DEF Position
    <3> QED
      BY <3>1, <3>2, <3>3, <3>4, Zenon
  <2>2. Weighable(v) /\ Weighable(old)
    BY <1>1 DEF RecordRefresh
  <2>3. WeightOf(v) \in Nat /\ WeightOf(old) \in Nat
    BY <2>1, <2>2, WeightOfType
  <2>4. w_real' = w_real + delta /\ w_real + delta >= 0 /\ n_real' = n_real
    BY <1>1, Zenon DEF RecordRefresh
  <2>5. w_real' \in Nat /\ n_real' \in Nat
    BY <2>3, <2>4 DEF TypeInv, TypeOK
  <2>6. blanks' \in Nat \X Nat \X Nat
    BY <1>1, <2>5, RetargetType DEF RecordRefresh
  <2>7. index' \in LedgerType
    <3>1. /\ CanUpdate(index, p.slot_index, WeightOf(old), WeightOf(v), w_real')
          /\ index' = Update(index, p.slot_index, WeightOf(old), WeightOf(v))
      BY <1>1, Zenon DEF RecordRefresh
    <3> QED
      BY <2>3, <3>1, UpdateType DEF TypeInv, TypeOK
  <2>8. stats' \in [Wallets -> [active_positions: Nat, active_value: Words]]
    <3>1. stats' = [stats EXCEPT ![d].active_value = b] /\ b \in Words
      BY <1>1, Zenon DEF RecordRefresh
    <3> HIDE DEF b, d
    <3> QED
      BY <3>1 DEF TypeInv, TypeOK
  <2> HIDE DEF p
  <2>9. /\ pos' \in [Cards -> Position]
        /\ tier' \in Seq(TierEntry) /\ Len(tier') <= cfg.tier_size
    <3>1. CASE /\ CanRefresh(tier, cfg.tier_size, Entry(c, p))
               /\ tier' = RefreshMember(tier, cfg.tier_size, Entry(c, p))
               /\ pos' = [pos EXCEPT ![c] = p]
      <4>1. Entry(c, p) \in TierEntry
        BY <2>1, EntryInTier
      <4>2. cfg.tier_size \in Nat \ {0}
        BY ConfigFields DEF TypeInv, TypeOK
      <4>3. tier \in Seq(TierEntry) /\ Len(tier) <= cfg.tier_size
        BY DEF TypeInv, TypeOK
      <4>4. /\ RefreshMember(tier, cfg.tier_size, Entry(c, p)) \in Seq(TierEntry)
            /\ Len(RefreshMember(tier, cfg.tier_size, Entry(c, p))) <= cfg.tier_size
        BY <3>1, <4>1, <4>2, <4>3, RefreshType
      <4> QED
        BY <2>1, <3>1, <4>4 DEF TypeInv, TypeOK
    <3>2. CASE TakeSeat(c, p) \/ MissSeat(c, p)
      BY <2>1, <3>2, TakeSeatType, MissSeatType
    <3> QED
      BY <1>1, <3>1, <3>2, Zenon DEF RecordRefresh, p
  <2> QED
    BY <1>1, <2>5, <2>6, <2>7, <2>8, <2>9 DEF RecordRefresh, TypeInv, TypeOK
<1>2. ASSUME NEW v \in Values, RecordClose(c, v) PROVE TypeInv'
  <2> DEFINE p == [pos[c] EXCEPT !.state = "ClosedBelowFloor", !.recorded_value = v,
                                 !.in_tier = FALSE]
  <2>1. p \in Position
    <3>1. v \in Nat /\ pos[c] \in Position
      BY PoolAssumption DEF TypeInv, TypeOK
    <3> QED
      BY <3>1 DEF Position, PositionStates
  <2>2. DepartWeight(c) /\ LeaveSeat(c, p, Cards)
    BY <1>2 DEF RecordClose
  <2> HIDE DEF p
  <2> QED
    BY <1>2, <2>1, <2>2, DepartType, LeaveSeatType DEF RecordClose, TypeInv, TypeOK
<1> QED
  BY <1>1, <1>2 DEF ValueStep

LEMMA ExitKeepsType ==
  ASSUME TypeInv, NEW c \in Cards, ExitStep(c)
  PROVE  TypeInv'
<1> USE DEF books, adminVars, rollVars
<1>1. CASE Withdraw(c)
  <2>1. standing' \in [Cards -> AllStandings]
    BY <1>1, ReleaseType DEF Withdraw
  <2>2. DepartWeight(c) /\ LeaveSeat(c, NoPosition, Cards)
    BY <1>1 DEF Withdraw
  <2> QED
    BY <1>1, <2>1, <2>2, NoPositionType, DepartType, LeaveSeatType
    DEF Withdraw, TypeInv, TypeOK
<1>2. CASE ClaimNft(c)
  <2>1. standing' \in [Cards -> AllStandings]
    BY <1>2, ReleaseType DEF ClaimNft
  <2>2. pos' \in [Cards -> Position]
    BY <1>2, NoPositionType DEF ClaimNft, TypeInv, TypeOK
  <2> QED
    BY <1>2, <2>1, <2>2 DEF ClaimNft, TypeInv, TypeOK
<1>3. CASE SeizeActive(c)
  <2> DEFINE p == [pos[c] EXCEPT !.state = "Seized", !.in_tier = FALSE]
  <2>1. p \in Position
    BY TypedAccounts, PositionMoved DEF PositionStates
  <2>2. DepartWeight(c) /\ LeaveSeat(c, p, {})
    BY <1>3 DEF SeizeActive
  <2> HIDE DEF p
  <2> QED
    BY <1>3, <2>1, <2>2, DepartType, LeaveSeatType DEF SeizeActive, TypeInv, TypeOK
<1>4. CASE SeizeWeightless(c)
  <2> DEFINE p == [pos[c] EXCEPT !.state = "Seized"]
  <2>0. pos' = [pos EXCEPT ![c] = p]
    BY <1>4 DEF SeizeWeightless
  <2>1. pos' \in [Cards -> Position]
    <3>1. p \in Position
      BY TypedAccounts DEF Position, PositionStates
    <3> HIDE DEF p
    <3> QED
      BY <2>0, <3>1, TypedAccounts, PositionStored
  <2> QED
    BY <1>4, <2>1 DEF SeizeWeightless, TypeInv, TypeOK
<1> QED
  BY <1>1, <1>2, <1>3, <1>4 DEF ExitStep

LEMMA AdminKeepsType ==
  ASSUME TypeInv, AdminStep
  PROVE  TypeInv'
<1> USE DEF books, adminVars, rollVars
<1>1. ASSUME NEW new \in Configs, UpdateConfig(new) PROVE TypeInv'
  <2>1. new.tier_size \in Nat \ {0}
    BY <1>1, ConfigFields DEF UpdateConfig
  <2>2. tier' \in Seq(TierEntry) /\ Len(tier') <= new.tier_size
    BY <1>1, <2>1, ShrinkType DEF UpdateConfig, TypeInv, TypeOK
  <2>3. pos' \in [Cards -> Position]
    <3>1. ASSUME NEW d \in Cards, NEW b \in BOOLEAN
          PROVE  [pos[d] EXCEPT !.in_tier = b] \in Position
      BY TypedAccounts DEF Position
    <3>2. \A d \in Cards : pos[d].in_tier \in BOOLEAN
      BY TypedAccounts DEF Position
    <3> QED
      BY <1>1, <3>1, <3>2 DEF UpdateConfig
  <2> QED
    BY <1>1, <2>2, <2>3 DEF UpdateConfig, TypeInv, TypeOK
<1>2. ASSUME NEW choice \in PauseChoices, SetPause(choice[1], choice[2]) PROVE TypeInv'
  <2>1. choice[1] \in BOOLEAN /\ choice[2] \in BOOLEAN
    BY PoolAssumption
  <2> QED
    BY <1>2, <2>1 DEF SetPause, TypeInv, TypeOK
<1> QED
  BY <1>1, <1>2 DEF AdminStep

LEMMA ProductType ==
  ASSUME NEW m \in Nat, NEW n \in Nat
  PROVE  m * n \in Nat
OBVIOUS

LEMMA RollKeepsType ==
  ASSUME TypeInv, RollStep
  PROVE  TypeInv'
<1> USE DEF books, adminVars, rollVars
<1>0. /\ cfg.price \in Nat /\ cfg.ticket_target \in Nat
      /\ cfg.blank_faces \in Nat \X Nat \X Nat
  BY ConfigFields DEF TypeInv, TypeOK
<1>1. ASSUME NEW n \in RollCounts, CommitRolls(n) PROVE TypeInv'
  <2> DEFINE batch ==
        [state |-> "Committed", n |-> n, randomness |-> 0, s_price |-> cfg.price,
         s_ticket |-> cfg.ticket_target, s_blank_faces |-> cfg.blank_faces,
         expected_w |-> 0, expected_blanks |-> NoBlanks]
  <2>1. n \in Nat /\ 0 \in Draws
    BY PoolAssumption
  <2>2. batch \in Batch
    BY <1>0, <2>1 DEF Batch, NoBlanks
  <2>3. batches' = Append(batches, batch)
    BY <1>1 DEF CommitRolls
  <2> HIDE DEF batch
  <2>4. batches' \in Seq(Batch)
    BY <2>2, <2>3, AppendProperties DEF TypeInv, TypeOK
  <2>5. open_batches' \in Nat /\ pending_roll_liability' \in Nat
    <3>1. Liability(n) \in Nat
      BY <1>0, <2>1, ProductType DEF Liability
    <3>2. /\ open_batches' = open_batches + 1
          /\ pending_roll_liability' = pending_roll_liability + Liability(n)
      BY <1>1 DEF CommitRolls
    <3> QED
      BY <3>1, <3>2 DEF TypeInv, TypeOK
  <2> QED
    BY <1>1, <2>4, <2>5 DEF CommitRolls, TypeInv, TypeOK
<1>2. ASSUME NEW b \in DOMAIN batches, NEW r \in Draws, VrfCallback(b, r)
      PROVE  TypeInv'
  <2> DEFINE W == AggregateWeight(w_real, blanks, cfg.blank_faces)
             batch == [batches[b] EXCEPT !.state = "Resolved", !.randomness = r,
                                         !.expected_w = W, !.expected_blanks = blanks]
  <2>1. /\ WeightOf(cfg.blank_faces[1]) \in Nat /\ WeightOf(cfg.blank_faces[2]) \in Nat
        /\ WeightOf(cfg.blank_faces[3]) \in Nat
    BY <1>0, <1>2, WeightOfType DEF VrfCallback
  <2>2. W \in Nat
    <3>1. w_real \in Nat /\ blanks[1] \in Nat /\ blanks[2] \in Nat /\ blanks[3] \in Nat
      BY DEF TypeInv, TypeOK
    <3> QED
      BY <2>1, <3>1, ProductType DEF AggregateWeight, BlankWeight
  <2>3. batches \in Seq(Batch) /\ b \in 1..Len(batches) /\ batches[b] \in Batch
        /\ blanks \in Nat \X Nat \X Nat
    BY LenProperties, ElementOfSeq DEF TypeInv, TypeOK
  <2>4. batches' = [batches EXCEPT ![b] = batch]
    BY <1>2, Zenon DEF VrfCallback
  <2> HIDE DEF W
  <2>5. batch \in Batch
    BY <2>2, <2>3 DEF Batch
  <2> HIDE DEF batch
  <2>6. batches' \in Seq(Batch)
    BY <2>3, <2>4, <2>5, ExceptSeq
  <2> QED
    BY <1>2, <2>6 DEF VrfCallback, TypeInv, TypeOK
<1> QED
  BY <1>1, <1>2 DEF RollStep

LEMMA StepKeepsType == TypeInv /\ [Next]_vars => TypeInv'
<1> SUFFICES ASSUME TypeInv, [Next]_vars PROVE TypeInv'
  OBVIOUS
<1> USE DEF books, adminVars, rollVars
<1>1. CASE UNCHANGED vars
  BY <1>1 DEF vars, TypeInv, TypeOK
<1>2. CASE Tick
  BY <1>2, PoolAssumption DEF Tick, TypeInv, TypeOK
<1>3. CASE BeginSweep \/ EndSweep
  BY <1>3 DEF BeginSweep, EndSweep, TypeInv, TypeOK
<1>4. ASSUME NEW c \in Cards, UpdateTier(c) PROVE TypeInv'
  <2>1. pos[c] \in Position /\ TakeSeat(c, pos[c])
    BY <1>4 DEF UpdateTier, TypeInv, TypeOK
  <2> QED
    BY <1>4, <2>1, TakeSeatType DEF UpdateTier, TypeInv, TypeOK
<1>5. ASSUME NEW c \in Cards, CollateralMoves(c) PROVE TypeInv'
  <2>1. standing' \in [Cards -> AllStandings]
    BY <1>5, PoolAssumption DEF CollateralMoves, TypeInv, TypeOK
  <2> QED
    BY <1>5, <2>1 DEF CollateralMoves, TypeInv, TypeOK
<1> QED
  BY <1>1, <1>2, <1>3, <1>4, <1>5, DepositKeepsType, ValueKeepsType, ExitKeepsType,
     AdminKeepsType, RollKeepsType DEF Next

\* Whatever handlers run, in whatever order, every account holds a value of its
\* type: no counter falls below zero, no rebalance stores what is not a count.
THEOREM TypeCorrect == Spec => []TypeOK
<1>1. TypeInv => TypeOK
  BY DEF TypeInv
<1> QED
  BY <1>1, InitType, StepKeepsType, PTL DEF Spec
=================================================================================
