------------------------------- MODULE PoolProofs -------------------------------
(***************************************************************************)
(* What is proved of a pool for every value of the constants.                *)
(***************************************************************************)
EXTENDS TypeProofs

\* No handler moves the draw domain of an open batch: those that touch the
\* weight, the count, the blanks, the faces or the ticket ask for open_batches = 0.
LEMMA StepFreezesDrawDomain ==
  ASSUME [Next]_vars, open_batches > 0
  PROVE  /\ UNCHANGED <<w_real, n_real, blanks, index>>
         /\ cfg'.blank_faces = cfg.blank_faces
         /\ cfg'.ticket_target = cfg.ticket_target
<1> USE DEF books, adminVars, rollVars
<1>0. ~WeightOpen
  BY SMT DEF WeightOpen
<1>1. CASE UNCHANGED vars
  BY <1>1 DEF vars
<1>2. CASE Tick \/ BeginSweep \/ EndSweep
  BY <1>2 DEF Tick, BeginSweep, EndSweep
<1>3. ASSUME NEW c \in Cards, DepositStep(c)
      PROVE  UNCHANGED <<w_real, n_real, blanks, index, cfg>>
  BY <1>0, <1>3 DEF DepositStep, Deposit, ApproveDeposit, RejectDeposit, ReturnRejected
<1>4. ASSUME NEW c \in Cards, ValueStep(c) PROVE FALSE
  BY <1>0, <1>4 DEF ValueStep, RecordRefresh, RecordClose, Recordable
<1>5. ASSUME NEW c \in Cards, ExitStep(c)
      PROVE  UNCHANGED <<w_real, n_real, blanks, index, cfg>>
  BY <1>0, <1>5 DEF ExitStep, Withdraw, ClaimNft, SeizeActive, SeizeWeightless
<1>6. ASSUME NEW c \in Cards, UpdateTier(c) \/ CollateralMoves(c)
      PROVE  UNCHANGED <<w_real, n_real, blanks, index, cfg>>
  BY <1>6 DEF UpdateTier, CollateralMoves
<1>7. CASE AdminStep
  BY <1>0, <1>7 DEF AdminStep, UpdateConfig, MovesDrawDomain, SetPause
<1>8. CASE RollStep
  BY <1>8 DEF RollStep, CommitRolls, VrfCallback
<1> QED
  BY <1>1, <1>2, <1>3, <1>4, <1>5, <1>6, <1>7, <1>8 DEF Next

\* An open batch is drawn from the pool it was opened on.
THEOREM DrawDomainStaysFrozen == Spec => DrawDomainFrozen
<1>1. [Next]_vars =>
        [open_batches > 0 =>
           /\ UNCHANGED <<w_real, n_real, blanks, index>>
           /\ cfg'.blank_faces = cfg.blank_faces
           /\ cfg'.ticket_target = cfg.ticket_target]_vars
  BY StepFreezesDrawDomain
<1> QED
  BY <1>1, PTL DEF Spec, DrawDomainFrozen

\* Every handler that moves the weight or the count runs the controller on the
\* books it has just written, under a configuration it does not touch.
LEMMA StepRetargets ==
  ASSUME [Next]_vars
  PROVE  UNCHANGED <<w_real, n_real>> \/ (Retarget /\ UNCHANGED cfg)
<1> USE DEF books, adminVars
<1>1. CASE UNCHANGED vars
  BY <1>1 DEF vars
<1>2. CASE Tick \/ BeginSweep \/ EndSweep \/ RollStep
  BY <1>2 DEF Tick, BeginSweep, EndSweep, RollStep, CommitRolls, VrfCallback
<1>3. ASSUME NEW c \in Cards, DepositStep(c)
      PROVE  UNCHANGED <<w_real, n_real>> \/ (Retarget /\ UNCHANGED cfg)
  BY <1>3 DEF DepositStep, Deposit, ApproveDeposit, RejectDeposit, ReturnRejected
<1>4. ASSUME NEW c \in Cards, ValueStep(c) PROVE Retarget /\ UNCHANGED cfg
  BY <1>4 DEF ValueStep, RecordRefresh, RecordClose, DepartWeight
<1>5. ASSUME NEW c \in Cards, ExitStep(c)
      PROVE  UNCHANGED <<w_real, n_real>> \/ (Retarget /\ UNCHANGED cfg)
  BY <1>5 DEF ExitStep, Withdraw, ClaimNft, SeizeActive, SeizeWeightless, DepartWeight
<1>6. ASSUME NEW c \in Cards, UpdateTier(c) \/ CollateralMoves(c)
      PROVE  UNCHANGED <<w_real, n_real>>
  BY <1>6 DEF UpdateTier, CollateralMoves
<1>7. CASE AdminStep
  BY <1>7 DEF AdminStep, UpdateConfig, SetPause
<1> QED
  BY <1>1, <1>2, <1>3, <1>4, <1>5, <1>6, <1>7 DEF Next

\* No step leaves blanks that were computed for another weight or another count.
THEOREM BlanksAlwaysFollow == Spec => BlanksFollowWeight
<1>1. [Next]_vars =>
        [w_real' # w_real \/ n_real' # n_real =>
           blanks' = Evaluate(n_real', w_real', cfg'.blank_faces, cfg'.ticket_target)]_vars
  BY StepRetargets DEF Retarget
<1> QED
  BY <1>1, PTL DEF Spec, BlanksFollowWeight

\* So whatever moves the books leaves a price: in a pool light enough to need blanks
\* no step that changes the weight or the count ends further from the ticket target
\* than half of what one middle blank moves.
PriceFollowsWeight ==
  [][/\ w_real' # w_real \/ n_real' # n_real
     /\ Gap(n_real', w_real', cfg'.ticket_target) > 0
     => 2 * Score(n_real', w_real', cfg'.blank_faces, cfg'.ticket_target, blanks')
          <= Den2(cfg'.blank_faces, cfg'.ticket_target)]_vars

\* The pool keeps the promise PriceAlwaysWithinHalfABlank makes of the controller:
\* appraisals, closings, seizures and seats in the tier do nothing to it.
THEOREM PricesAlwaysFollow == Spec => PriceFollowsWeight
<1>1. ASSUME TypeInv', [Next]_vars
      PROVE  [/\ w_real' # w_real \/ n_real' # n_real
              /\ Gap(n_real', w_real', cfg'.ticket_target) > 0
              => 2 * Score(n_real', w_real', cfg'.blank_faces, cfg'.ticket_target, blanks')
                   <= Den2(cfg'.blank_faces, cfg'.ticket_target)]_vars
  <2> SUFFICES ASSUME w_real' # w_real \/ n_real' # n_real,
                      Gap(n_real', w_real', cfg'.ticket_target) > 0
               PROVE  2 * Score(n_real', w_real', cfg'.blank_faces, cfg'.ticket_target, blanks')
                        <= Den2(cfg'.blank_faces, cfg'.ticket_target)
    OBVIOUS
  <2> DEFINE n == n_real'
             w == w_real'
             f == cfg'.blank_faces
             t == cfg'.ticket_target
  <2>1. CanEvaluate(n, w, f, t) /\ blanks' = Evaluate(n, w, f, t)
    BY <1>1, StepRetargets DEF Retarget
  <2>2. n \in Nat /\ w \in Nat /\ t \in Nat /\ f \in Triples
    <3>1. cfg' \in Configs /\ ValidConfig(cfg')
      BY <1>1 DEF TypeInv, TypeOK
    <3> QED
      BY <1>1, <3>1, ConfigFields DEF TypeInv, TypeOK, Triples
  <2>3. Gap(n, w, t) > 0
    OBVIOUS
  <2> HIDE DEF n, w, f, t
  <2>4. n # 0
    <3>1. t * w \in Nat
      BY <2>2
    <3>2. WeightC * 0 = 0
      BY RebalanceAssumption
    <3> QED
      BY <2>3, <3>1, <3>2 DEF Gap
  <2>5. 2 * Score(n, w, f, t, Evaluate(n, w, f, t)) <= Den2(f, t)
    BY <2>1, <2>2, <2>3, <2>4, BestPrice
  <2> QED
    BY <2>1, <2>5 DEF n, w, f, t
<1> QED
  BY <1>1, InitType, StepKeepsType, PTL DEF Spec, PriceFollowsWeight

---------------------------------------------------------------------------------
(* The batches. *)

\* Only commit_rolls and the oracle's callback write a batch.
LEMMA BatchesMoveInRolls ==
  ASSUME [Next]_vars
  PROVE  RollStep \/ UNCHANGED <<batches, open_batches, pending_roll_liability>>
<1> USE DEF adminVars, rollVars
<1>1. CASE UNCHANGED vars
  BY <1>1 DEF vars
<1>2. CASE Tick \/ BeginSweep \/ EndSweep
  BY <1>2 DEF Tick, BeginSweep, EndSweep
<1>3. ASSUME NEW c \in Cards, DepositStep(c)
      PROVE  UNCHANGED <<batches, open_batches, pending_roll_liability>>
  BY <1>3 DEF DepositStep, Deposit, ApproveDeposit, RejectDeposit, ReturnRejected
<1>4. ASSUME NEW c \in Cards, ValueStep(c)
      PROVE  UNCHANGED <<batches, open_batches, pending_roll_liability>>
  BY <1>4 DEF ValueStep, RecordRefresh, RecordClose
<1>5. ASSUME NEW c \in Cards, ExitStep(c)
      PROVE  UNCHANGED <<batches, open_batches, pending_roll_liability>>
  BY <1>5 DEF ExitStep, Withdraw, ClaimNft, SeizeActive, SeizeWeightless
<1>6. ASSUME NEW c \in Cards, UpdateTier(c) \/ CollateralMoves(c)
      PROVE  UNCHANGED <<batches, open_batches, pending_roll_liability>>
  BY <1>6 DEF UpdateTier, CollateralMoves
<1>7. CASE AdminStep
  BY <1>7 DEF AdminStep, UpdateConfig, SetPause
<1> QED
  BY <1>1, <1>2, <1>3, <1>4, <1>5, <1>6, <1>7 DEF Next

\* The batch a commit appends, and what the append leaves alone.
LEMMA CommitAppends ==
  ASSUME TypeInv, NEW n \in RollCounts, CommitRolls(n)
  PROVE  /\ Len(batches') = Len(batches) + 1
         /\ \A b \in 1..Len(batches) : batches'[b] = batches[b]
         /\ batches'[Len(batches) + 1] =
              [state |-> "Committed", n |-> n, randomness |-> 0, s_price |-> cfg.price,
               s_ticket |-> cfg.ticket_target, s_blank_faces |-> cfg.blank_faces,
               expected_w |-> 0, expected_blanks |-> NoBlanks]
<1> DEFINE batch ==
      [state |-> "Committed", n |-> n, randomness |-> 0, s_price |-> cfg.price,
       s_ticket |-> cfg.ticket_target, s_blank_faces |-> cfg.blank_faces,
       expected_w |-> 0, expected_blanks |-> NoBlanks]
<1>1. batch \in Batch
  <2>1. n \in Nat /\ 0 \in Draws
    BY PoolAssumption
  <2> QED
    BY <2>1, ConfigFields DEF Batch, NoBlanks, TypeInv, TypeOK
<1>2. batches' = Append(batches, batch)
  BY DEF CommitRolls
<1> HIDE DEF batch
<1>3. batches \in Seq(Batch)
  BY DEF TypeInv, TypeOK
<1>4. /\ Len(batches') = Len(batches) + 1
      /\ \A b \in 1..Len(batches) : batches'[b] = batches[b]
      /\ batches'[Len(batches) + 1] = batch
  BY <1>1, <1>2, <1>3, AppendProperties
<1> QED
  BY <1>4 DEF batch

\* The batch a callback resolves, and what it leaves alone.
LEMMA CallbackResolves ==
  ASSUME TypeInv, NEW b \in DOMAIN batches, NEW r \in Draws, VrfCallback(b, r)
  PROVE  /\ DOMAIN batches' = DOMAIN batches /\ Len(batches') = Len(batches)
         /\ \A d \in DOMAIN batches : d # b => batches'[d] = batches[d]
         /\ batches[b].state = "Committed"
         /\ batches'[b].n = batches[b].n
         /\ batches'[b].s_price = batches[b].s_price
         /\ batches'[b].s_ticket = batches[b].s_ticket
         /\ batches'[b].s_blank_faces = batches[b].s_blank_faces
         /\ batches'[b].expected_w = AggregateWeight(w_real, blanks, cfg.blank_faces)
         /\ batches'[b].expected_blanks = blanks
<1> DEFINE W == AggregateWeight(w_real, blanks, cfg.blank_faces)
           batch == [batches[b] EXCEPT !.state = "Resolved", !.randomness = r,
                                       !.expected_w = W, !.expected_blanks = blanks]
<1>1. /\ batches \in Seq(Batch) /\ DOMAIN batches = 1..Len(batches)
      /\ batches[b] \in Batch
  BY LenProperties, ElementOfSeq DEF TypeInv, TypeOK
<1>2. batches' = [batches EXCEPT ![b] = batch] /\ batches[b].state = "Committed"
  BY Zenon DEF VrfCallback, Deliverable
<1> HIDE DEF W
<1>3. /\ batch.n = batches[b].n /\ batch.s_price = batches[b].s_price
      /\ batch.s_ticket = batches[b].s_ticket
      /\ batch.s_blank_faces = batches[b].s_blank_faces
      /\ batch.expected_w = W /\ batch.expected_blanks = blanks
  BY <1>1 DEF Batch
<1> HIDE DEF batch
<1>4. DOMAIN batches' = DOMAIN batches
  BY <1>2
<1>5. Len(batches') = Len(batches)
  <2>1. batches' = [d \in 1..Len(batches) |-> IF d = b THEN batch ELSE batches[d]]
    BY <1>1, <1>2
  <2>2. Len(batches) \in Nat
    BY <1>1, LenProperties
  <2> QED
    BY <2>1, <2>2
<1>6. batches'[b] = batch /\ \A d \in DOMAIN batches : d # b => batches'[d] = batches[d]
  BY <1>2
<1> QED
  BY <1>2, <1>3, <1>4, <1>5, <1>6 DEF W

\* While no batch is open none exists, because none is ever closed; with one
\* open, the freeze holds the pool still under it.
BatchInv == TypeInv /\ open_batches = Len(batches) /\ BatchSeesLivePool

LEMMA StepKeepsBatches == BatchInv /\ [Next]_vars => BatchInv'
<1> SUFFICES ASSUME BatchInv, [Next]_vars PROVE BatchInv'
  OBVIOUS
<1>0. /\ TypeInv /\ TypeInv' /\ open_batches = Len(batches) /\ BatchSeesLivePool
      /\ Len(batches) \in Nat /\ DOMAIN batches = 1..Len(batches)
      /\ DOMAIN batches' = 1..Len(batches')
  BY StepKeepsType, LenProperties DEF BatchInv, TypeInv, TypeOK
<1>1. CASE UNCHANGED <<batches, open_batches>> /\ open_batches = 0
  BY <1>0, <1>1 DEF BatchInv, BatchSeesLivePool
<1>2. CASE UNCHANGED <<batches, open_batches>> /\ open_batches > 0
  BY <1>0, <1>2, StepFreezesDrawDomain DEF BatchInv, BatchSeesLivePool
<1>3. ASSUME NEW n \in RollCounts, CommitRolls(n) PROVE BatchInv'
  <2>1. open_batches = 0 /\ open_batches' = open_batches + 1 /\ UNCHANGED cfg
    BY <1>3 DEF CommitRolls, WeightOpen, adminVars
  <2>2. Len(batches) = 0 /\ Len(batches') = 1 /\ DOMAIN batches' = {1}
    <3>1. Len(batches') = Len(batches) + 1
      BY <1>0, <1>3, CommitAppends
    <3> QED
      BY <1>0, <2>1, <3>1
  <2>3. /\ batches'[1].s_ticket = cfg.ticket_target
        /\ batches'[1].s_blank_faces = cfg.blank_faces
        /\ batches'[1].state = "Committed"
    BY <1>0, <1>3, <2>2, CommitAppends
  <2> QED
    BY <1>0, <2>1, <2>2, <2>3 DEF BatchInv, BatchSeesLivePool
<1>4. ASSUME NEW b \in DOMAIN batches, NEW r \in Draws, VrfCallback(b, r)
      PROVE  BatchInv'
  <2>1. UNCHANGED <<w_real, blanks, cfg, open_batches>>
    BY <1>4 DEF VrfCallback, books, adminVars
  <2> QED
    BY <1>0, <1>4, <2>1, CallbackResolves DEF BatchInv, BatchSeesLivePool
<1>5. CASE RollStep
  BY <1>3, <1>4, <1>5 DEF RollStep
<1>6. open_batches = 0 \/ open_batches > 0
  BY <1>0
<1> QED
  BY <1>1, <1>2, <1>5, <1>6, BatchesMoveInRolls

\* An open batch will be resolved against the pool its roller committed to: no
\* handler, and no order of handlers, moves its faces, its ticket target, or the
\* weight and blanks its callback recorded.
THEOREM BatchesSeeLivePool == Spec => []BatchSeesLivePool
<1>1. Init => BatchInv
  BY InitType DEF Init, BatchInv, BatchSeesLivePool
<1>2. BatchInv => BatchSeesLivePool
  BY DEF BatchInv
<1> QED
  BY <1>1, <1>2, StepKeepsBatches, PTL DEF Spec

\* A batch outlives every step with its terms, and a delivered draw is final: a
\* second or a late delivery finds the batch resolved and is refused.
THEOREM BatchesWrittenOnce == Spec => BatchWriteOnce
<1>1. TypeInv /\ [Next]_vars =>
        [\A b \in DOMAIN batches :
           /\ b \in DOMAIN batches'
           /\ batches'[b].s_price = batches[b].s_price /\ batches'[b].n = batches[b].n
           /\ batches[b].state = "Resolved" => batches'[b] = batches[b]]_vars
  <2> SUFFICES ASSUME TypeInv, [Next]_vars, NEW b \in DOMAIN batches
               PROVE  /\ b \in DOMAIN batches'
                      /\ batches'[b].s_price = batches[b].s_price
                      /\ batches'[b].n = batches[b].n
                      /\ batches[b].state = "Resolved" => batches'[b] = batches[b]
    OBVIOUS
  <2>0. /\ Len(batches) \in Nat /\ DOMAIN batches = 1..Len(batches)
        /\ DOMAIN batches' = 1..Len(batches')
    BY StepKeepsType, LenProperties DEF TypeInv, TypeOK
  <2>1. ASSUME NEW n \in RollCounts, CommitRolls(n)
        PROVE  b \in DOMAIN batches' /\ batches'[b] = batches[b]
    <3>1. /\ Len(batches') = Len(batches) + 1
          /\ \A i \in 1..Len(batches) : batches'[i] = batches[i]
      BY <2>1, CommitAppends
    <3> QED
      BY <2>0, <3>1
  <2>2. ASSUME NEW d \in DOMAIN batches, NEW r \in Draws, VrfCallback(d, r)
        PROVE  /\ b \in DOMAIN batches'
               /\ batches'[b].s_price = batches[b].s_price
               /\ batches'[b].n = batches[b].n
               /\ batches[b].state = "Resolved" => batches'[b] = batches[b]
    BY <2>2, CallbackResolves
  <2> QED
    BY <2>1, <2>2, BatchesMoveInRolls DEF RollStep
<1> QED
  BY <1>1, InitType, StepKeepsType, PTL DEF Spec, BatchWriteOnce

---------------------------------------------------------------------------------
(* The positions. *)

\* Seats move flags and nothing else: of the other fields only those of the card
\* of the instruction change.
LEMMA SeatsKeepFields ==
  ASSUME TypeInv, NEW c \in Cards, NEW p \in Position, NEW heirs \in SUBSET Cards,
         TakeSeat(c, p) \/ MissSeat(c, p) \/ LeaveSeat(c, p, heirs), NEW d \in Cards
  PROVE  /\ pos'[d].state = IF d = c THEN p.state ELSE pos[d].state
         /\ pos'[d].depositor = IF d = c THEN p.depositor ELSE pos[d].depositor
         /\ pos'[d].position_id = IF d = c THEN p.position_id ELSE pos[d].position_id
         /\ pos'[d].recorded_value = IF d = c THEN p.recorded_value ELSE pos[d].recorded_value
         /\ pos'[d].slot_index = IF d = c THEN p.slot_index ELSE pos[d].slot_index
         /\ pos'[d].activated_at = IF d = c THEN p.activated_at ELSE pos[d].activated_at
<1> DEFINE Agree(q, r) ==
      /\ q.state = r.state /\ q.depositor = r.depositor
      /\ q.position_id = r.position_id /\ q.recorded_value = r.recorded_value
      /\ q.slot_index = r.slot_index /\ q.activated_at = r.activated_at
<1>0. pos \in [Cards -> Position]
  BY DEF TypeInv, TypeOK
<1>1. \A q \in Position : \A b : Agree([q EXCEPT !.in_tier = b], q)
  BY DEF Position
<1>2. CASE TakeSeat(c, p)
  <2>1. pos'[d] = IF d = c THEN [p EXCEPT !.in_tier = TRUE]
                  ELSE [pos[d] EXCEPT !.in_tier =
                          @ /\ d \notin Displaced(tier, cfg.tier_size)]
    BY <1>2 DEF TakeSeat
  <2>2. pos[d] \in Position
    BY <1>0
  <2> QED
    BY <1>1, <2>1, <2>2
<1>3. CASE MissSeat(c, p) \/ pos' = [pos EXCEPT ![c] = p]
  BY <1>0, <1>3 DEF MissSeat
<1>4. ASSUME NEW h \in heirs, pos' = [pos EXCEPT ![c] = p, ![h].in_tier = TRUE]
      PROVE  Agree(pos'[d], IF d = c THEN p ELSE pos[d])
  <2> DEFINE q == [pos EXCEPT ![c] = p]
  <2>1. q \in [Cards -> Position] /\ q[d] = IF d = c THEN p ELSE pos[d]
    BY <1>0
  <2>2. pos' = [q EXCEPT ![h].in_tier = TRUE]
    BY <1>4
  <2> HIDE DEF q
  <2>3. pos'[d] = IF d = h THEN [q[d] EXCEPT !.in_tier = TRUE] ELSE q[d]
    BY <2>1, <2>2
  <2>4. q[d] \in Position
    BY <2>1
  <2>5. Agree(pos'[d], q[d])
    BY <1>1, <2>3, <2>4
  <2> QED
    BY <2>1, <2>5
<1> QED
  BY <1>2, <1>3, <1>4 DEF LeaveSeat

\* Which instructions change the state of a position, and out of or into what.
LEMMA StateMoves ==
  ASSUME TypeInv, [Next]_vars, NEW c \in Cards, pos'[c].state # pos[c].state
  PROVE  \/ Withdraw(c) /\ pos'[c].state # "Seized"
         \/ (\E v \in Values : RecordClose(c, v)) /\ pos'[c].state # "Seized"
         \/ SeizeActive(c) \/ SeizeWeightless(c)
         \/ pos[c].state # "Active" /\ pos'[c].state # "Seized"
<1> USE DEF books, adminVars, rollVars
<1>0. pos \in [Cards -> Position] /\ pos[c] \in Position
  BY DEF TypeInv, TypeOK
<1>1. CASE UNCHANGED vars
  BY <1>1 DEF vars
<1>2. CASE Tick \/ BeginSweep \/ EndSweep \/ RollStep
  BY <1>2 DEF Tick, BeginSweep, EndSweep, RollStep, CommitRolls, VrfCallback
<1>3. ASSUME NEW d \in Cards, DepositStep(d)
      PROVE  pos[c].state # "Active" /\ pos'[c].state # "Seized"
  <2>1. ASSUME NEW w \in Wallets, Deposit(d, w)
        PROVE  pos[c].state # "Active" /\ pos'[c].state # "Seized"
    BY <1>0, <2>1 DEF Deposit, NoPosition
  <2>2. ASSUME NEW v \in Values, NEW lock \in Locks, ApproveDeposit(d, v, lock)
        PROVE  pos[c].state # "Active" /\ pos'[c].state # "Seized"
    <3> DEFINE active == [pos[d] EXCEPT !.state = "Active", !.recorded_value = v,
                            !.slot_index = NextSlot(index), !.activated_at = now,
                            !.lock_until = lock]
    <3>1. active \in Position /\ active.state = "Active"
      <4>1. NextSlot(index) \in Nat
        BY <2>2 DEF ApproveDeposit, CanInsert, CanAlloc, Slots
      <4>2. v \in Nat /\ lock \in Nat /\ now \in Nat
        BY PoolAssumption DEF TypeInv, TypeOK
      <4> QED
        BY <1>0, <4>1, <4>2 DEF Position, PositionStates
    <3>2. pos[d].state = "Pending" /\ (TakeSeat(d, active) \/ MissSeat(d, active))
      BY <2>2, Zenon DEF ApproveDeposit
    <3> HIDE DEF active
    <3>3. pos'[c].state = IF c = d THEN active.state ELSE pos[c].state
      BY <3>1, <3>2, SeatsKeepFields
    <3> QED
      BY <3>1, <3>2, <3>3
  <2>3. CASE RejectDeposit(d)
    BY <1>0, <2>3 DEF RejectDeposit, Position
  <2>4. CASE ReturnRejected(d)
    BY <1>0, <2>4 DEF ReturnRejected, NoPosition
  <2> QED
    BY <1>3, <2>1, <2>2, <2>3, <2>4 DEF DepositStep
<1>4. ASSUME NEW d \in Cards, NEW v \in Values, RecordRefresh(d, v) PROVE FALSE
  <2> DEFINE p == [pos[d] EXCEPT !.recorded_value = v]
  <2>1. p \in Position /\ p.state = pos[d].state
    <3>1. v \in Nat
      BY PoolAssumption
    <3> QED
      BY <1>0, <3>1 DEF Position
  <2>2. TakeSeat(d, p) \/ MissSeat(d, p) \/ pos' = [pos EXCEPT ![d] = p]
    BY <1>4, Zenon DEF RecordRefresh
  <2> HIDE DEF p
  <2>3. CASE pos' = [pos EXCEPT ![d] = p]
    BY <1>0, <2>1, <2>3
  <2>4. CASE TakeSeat(d, p) \/ MissSeat(d, p)
    <3>1. pos'[c].state = IF c = d THEN p.state ELSE pos[c].state
      BY <2>1, <2>4, SeatsKeepFields
    <3> QED
      BY <2>1, <3>1
  <2> QED
    BY <2>2, <2>3, <2>4
<1>5. ASSUME NEW d \in Cards, NEW v \in Values, RecordClose(d, v)
      PROVE  d = c /\ pos'[c].state # "Seized"
  <2> DEFINE p == [pos[d] EXCEPT !.state = "ClosedBelowFloor", !.recorded_value = v,
                                 !.in_tier = FALSE]
  <2>1. p \in Position /\ p.state = "ClosedBelowFloor"
    <3>1. v \in Nat /\ pos[d] \in Position
      BY <1>0, PoolAssumption
    <3> QED
      BY <3>1 DEF Position, PositionStates
  <2>2. LeaveSeat(d, p, Cards)
    BY <1>5, Zenon DEF RecordClose
  <2> HIDE DEF p
  <2>3. pos'[c].state = IF c = d THEN p.state ELSE pos[c].state
    BY <2>1, <2>2, SeatsKeepFields
  <2> QED
    BY <2>1, <2>3
<1>6. ASSUME NEW d \in Cards, ExitStep(d)
      PROVE  \/ Withdraw(c) /\ pos'[c].state # "Seized"
             \/ SeizeActive(c) \/ SeizeWeightless(c)
             \/ pos[c].state # "Active" /\ pos'[c].state # "Seized"
  <2>1. CASE Withdraw(d)
    <3>1. LeaveSeat(d, NoPosition, Cards)
      BY <2>1 DEF Withdraw
    <3>2. pos'[c].state = IF c = d THEN NoPosition.state ELSE pos[c].state
      BY <3>1, NoPositionType, SeatsKeepFields
    <3> QED
      BY <2>1, <3>2 DEF NoPosition
  <2>2. CASE ClaimNft(d)
    BY <1>0, <2>2 DEF ClaimNft, NoPosition
  <2>3. CASE SeizeActive(d)
    <3> DEFINE p == [pos[d] EXCEPT !.state = "Seized", !.in_tier = FALSE]
    <3>1. p \in Position
      BY <1>0 DEF Position, PositionStates
    <3>2. LeaveSeat(d, p, {})
      BY <2>3, Zenon DEF SeizeActive
    <3> HIDE DEF p
    <3>3. pos'[c].state = IF c = d THEN p.state ELSE pos[c].state
      BY <3>1, <3>2, SeatsKeepFields
    <3> QED
      BY <2>3, <3>3
  <2>4. CASE SeizeWeightless(d)
    BY <1>0, <2>4 DEF SeizeWeightless
  <2> QED
    BY <1>6, <2>1, <2>2, <2>3, <2>4 DEF ExitStep
<1>7. ASSUME NEW d \in Cards, UpdateTier(d) PROVE FALSE
  <2>1. pos[d] \in Position /\ TakeSeat(d, pos[d])
    BY <1>0, <1>7 DEF UpdateTier
  <2>2. pos'[c].state = IF c = d THEN pos[d].state ELSE pos[c].state
    BY <2>1, SeatsKeepFields
  <2> QED
    BY <2>2
<1>8. ASSUME NEW d \in Cards, CollateralMoves(d) PROVE FALSE
  BY <1>8 DEF CollateralMoves
<1>9. CASE AdminStep
  <2>1. ASSUME NEW new \in Configs, UpdateConfig(new) PROVE FALSE
    <3>1. PICK b : pos'[c] = [pos[c] EXCEPT !.in_tier = b]
      BY <2>1 DEF UpdateConfig
    <3> QED
      BY <1>0, <3>1 DEF Position
  <2>2. ASSUME NEW x, NEW y, SetPause(x, y) PROVE FALSE
    BY <2>2 DEF SetPause
  <2> QED
    BY <1>9, <2>1, <2>2 DEF AdminStep
<1> QED
  BY <1>1, <1>2, <1>3, <1>4, <1>5, <1>6, <1>7, <1>8, <1>9 DEF Next, ValueStep

\* The lock holds against every instruction but the seizure of a burned card.
THEOREM LocksHonoured == Spec => LockHonoured
<1>1. TypeInv /\ [Next]_vars =>
        [\A c \in Cards :
           /\ pos[c].state = "Active" /\ now < pos[c].lock_until
           /\ pos'[c].state # "Active"
           => standing[c] = "burned"]_vars
  <2> SUFFICES ASSUME TypeInv, [Next]_vars, NEW c \in Cards,
                      pos[c].state = "Active", now < pos[c].lock_until,
                      pos'[c].state # "Active"
               PROVE  standing[c] = "burned"
    OBVIOUS
  <2>1. now \in Nat /\ pos[c].lock_until \in Nat
    BY PoolAssumption DEF TypeInv, TypeOK, Position
  <2>2. ~(pos[c].lock_until <= now) /\ ~(now >= pos[c].lock_until)
    BY <2>1
  <2>3. ~Withdraw(c) /\ ~(\E v \in Values : RecordClose(c, v)) /\ ~SeizeWeightless(c)
    BY <2>2 DEF Withdraw, RecordClose, FallsBelowFloor, SeizeWeightless
  <2>4. SeizeActive(c)
    BY <2>3, StateMoves
  <2> QED
    BY <2>2, <2>4 DEF SeizeActive
<1> QED
  BY <1>1, InitType, StepKeepsType, PTL DEF Spec, LockHonoured

\* A vacancy that nobody was named for stays open.
LEMMA VacancyUnfilled ==
  ASSUME NEW c, NEW p, NEW heirs, heirs = {}, LeaveSeat(c, p, heirs)
  PROVE  UNCHANGED tier \/ (c \in Holders(tier) /\ tier' = Demote(tier, c))
<1>1. ~ \E d \in heirs : d \in heirs
  OBVIOUS
<1> QED
  BY <1>1, Zenon DEF LeaveSeat

\* demote brings nobody in.
LEMMA DemoteSeatsNobody ==
  ASSUME NEW entries \in Seq(TierEntry), NEW p \in Holders(entries)
  PROVE  Holders(Demote(entries, p)) \subseteq Holders(entries)
<1> DEFINE E == {entries[i] : i \in 1..Len(entries)}
<1>1. entries \in Seq(E)
  <2>1. Len(entries) \in Nat /\ entries \in [1..Len(entries) -> E]
    BY LenProperties
  <2> QED
    BY <2>1, SeqDef
<1> HIDE DEF E
<1>2. Demote(entries, p) \in Seq(E)
  BY <1>1, DemoteType
<1>3. \A i \in 1..Len(Demote(entries, p)) : Demote(entries, p)[i] \in E
  BY <1>2, ElementOfSeq
<1>4. \A e \in E : e.position \in Holders(entries)
  BY DEF E, Holders
<1> QED
  BY <1>3, <1>4 DEF Holders

\* close_seized, which anybody may call, gives nobody a seat.
THEOREM SeizuresSeatNobody == Spec => SeizureSeatsNobody
<1>1. TypeInv /\ [Next]_vars =>
        [\A c \in Cards :
           pos[c].state # "Seized" /\ pos'[c].state = "Seized"
           => Holders(tier') \subseteq Holders(tier)]_vars
  <2> SUFFICES ASSUME TypeInv, [Next]_vars, NEW c \in Cards,
                      pos[c].state # "Seized", pos'[c].state = "Seized"
               PROVE  Holders(tier') \subseteq Holders(tier)
    OBVIOUS
  <2>1. SeizeActive(c) \/ SeizeWeightless(c)
    BY StateMoves
  <2>2. CASE SeizeWeightless(c)
    BY <2>2 DEF SeizeWeightless
  <2>3. CASE SeizeActive(c)
    <3>1. UNCHANGED tier \/ (c \in Holders(tier) /\ tier' = Demote(tier, c))
      <4> DEFINE p == [pos[c] EXCEPT !.state = "Seized", !.in_tier = FALSE]
      <4>1. LeaveSeat(c, p, {})
        BY <2>3, Zenon DEF SeizeActive
      <4> HIDE DEF p
      <4> QED
        BY <4>1, VacancyUnfilled
    <3>2. tier \in Seq(TierEntry)
      BY DEF TypeInv, TypeOK
    <3>3. c \in Holders(tier) => Holders(Demote(tier, c)) \subseteq Holders(tier)
      BY <3>2, DemoteSeatsNobody
    <3>4. CASE UNCHANGED tier
      BY <3>4
    <3>5. CASE c \in Holders(tier) /\ tier' = Demote(tier, c)
      BY <3>3, <3>5
    <3> QED
      BY <3>1, <3>4, <3>5
  <2> QED
    BY <2>1, <2>2, <2>3
<1> QED
  BY <1>1, InitType, StepKeepsType, PTL DEF Spec, SeizureSeatsNobody

---------------------------------------------------------------------------------
(* A pool implements CardLife: whatever the handlers do to books, seats,    *)
(* batches and settings, each position goes through the life the abstract   *)
(* specification promises.                                                  *)

\* A closed position is wiped, and the next deposit finds its card in reach.
LifeInv ==
  /\ TypeInv
  /\ \A c \in Cards :
       pos[c].state = "None" => pos[c].depositor = NoWallet /\ standing[c] = "settleable"

\* What a step may do to the state, the depositor and the standing of a card.
Moved(c, state, depositor, stands) ==
  pos'[c].state = state /\ pos'[c].depositor = depositor /\ standing'[c] = stands

Kept(c) == Moved(c, pos[c].state, pos[c].depositor, standing[c])
Strays(c) ==
  /\ c \in CoreCards /\ pos[c].state # "None"
  /\ pos'[c].state = pos[c].state /\ pos'[c].depositor = pos[c].depositor
Entered(c) ==
  /\ pos[c].state = "None"
  /\ \E w \in Wallets : Moved(c, "Pending", w, standing[c])
WasJudged(c) ==
  \/ pos[c].state = "Pending" /\ Moved(c, "Active", pos[c].depositor, standing[c])
  \/ pos[c].state = "Pending" /\ Moved(c, "Rejected", pos[c].depositor, standing[c])
  \/ pos[c].state = "Active" /\ Moved(c, "ClosedBelowFloor", pos[c].depositor, standing[c])
Left(c) ==
  /\ \/ pos[c].state \in {"Rejected", "Active", "ClosedBelowFloor"}
     \/ pos[c].state = "Seized" /\ c \in CoreCards
  /\ standing[c] \in {"settleable", "undecidable"}
  /\ Moved(c, "None", NoWallet, "settleable")
WasSeized(c) ==
  /\ c \in CoreCards /\ pos[c].state \in {"Pending", "Rejected", "Active", "ClosedBelowFloor"}
  /\ Moved(c, "Seized", pos[c].depositor, standing[c])

LEMMA DepositMoves ==
  ASSUME TypeInv, NEW d \in Cards, DepositStep(d), NEW c \in Cards
  PROVE  Kept(c) \/ Entered(c) \/ WasJudged(c) \/ Left(c)
<1>0. pos \in [Cards -> Position] /\ standing \in [Cards -> AllStandings]
  BY DEF TypeInv, TypeOK
<1>1. ASSUME NEW w \in Wallets, Deposit(d, w)
      PROVE  Kept(c) \/ Entered(c)
  BY <1>0, <1>1 DEF Deposit, NoPosition, Kept, Entered, Moved
<1>2. ASSUME NEW v \in Values, NEW lock \in Locks, ApproveDeposit(d, v, lock)
      PROVE  Kept(c) \/ WasJudged(c)
  <2> DEFINE active == [pos[d] EXCEPT !.state = "Active", !.recorded_value = v,
                          !.slot_index = NextSlot(index), !.activated_at = now,
                          !.lock_until = lock]
  <2>1. active \in Position /\ active.state = "Active" /\ active.depositor = pos[d].depositor
    <3>1. NextSlot(index) \in Nat
      BY <1>2 DEF ApproveDeposit, CanInsert, CanAlloc, Slots
    <3>2. v \in Nat /\ lock \in Nat /\ now \in Nat
      BY PoolAssumption DEF TypeInv, TypeOK
    <3> QED
      BY <1>0, <3>1, <3>2 DEF Position, PositionStates
  <2>2. pos[d].state = "Pending" /\ (TakeSeat(d, active) \/ MissSeat(d, active))
    BY <1>2, Zenon DEF ApproveDeposit
  <2>3. standing' = standing
    BY <1>2 DEF ApproveDeposit
  <2> HIDE DEF active
  <2>4. pos'[c].state = IF c = d THEN active.state ELSE pos[c].state
    BY <2>1, <2>2, SeatsKeepFields
  <2>5. pos'[c].depositor = IF c = d THEN active.depositor ELSE pos[c].depositor
    BY <2>1, <2>2, SeatsKeepFields
  <2> QED
    BY <2>1, <2>2, <2>3, <2>4, <2>5 DEF Kept, WasJudged, Moved
<1>3. CASE RejectDeposit(d)
  BY <1>0, <1>3 DEF RejectDeposit, Position, Kept, WasJudged, Moved
<1>4. CASE ReturnRejected(d)
  BY <1>0, <1>4 DEF ReturnRejected, CollateralSettleable, Release, NoPosition, Kept, Left, Moved
<1> QED
  BY <1>1, <1>2, <1>3, <1>4 DEF DepositStep

LEMMA ValueMoves ==
  ASSUME TypeInv, NEW d \in Cards, ValueStep(d), NEW c \in Cards
  PROVE  Kept(c) \/ WasJudged(c)
<1>0. pos \in [Cards -> Position] /\ standing \in [Cards -> AllStandings]
  BY DEF TypeInv, TypeOK
<1>1. PICK v \in Values : RecordRefresh(d, v) \/ RecordClose(d, v)
  BY DEF ValueStep
<1>2. v \in Nat /\ standing' = standing
  BY <1>1, PoolAssumption DEF RecordRefresh, RecordClose
<1>3. CASE RecordRefresh(d, v)
  <2> DEFINE p == [pos[d] EXCEPT !.recorded_value = v]
  <2>1. p \in Position /\ p.state = pos[d].state /\ p.depositor = pos[d].depositor
    BY <1>0, <1>2 DEF Position
  <2>2. TakeSeat(d, p) \/ MissSeat(d, p) \/ pos' = [pos EXCEPT ![d] = p]
    BY <1>3, Zenon DEF RecordRefresh
  <2> HIDE DEF p
  <2>3. CASE pos' = [pos EXCEPT ![d] = p]
    BY <1>0, <1>2, <2>1, <2>3 DEF Kept, Moved
  <2>4. CASE TakeSeat(d, p) \/ MissSeat(d, p)
    <3>1. /\ pos'[c].state = IF c = d THEN p.state ELSE pos[c].state
          /\ pos'[c].depositor = IF c = d THEN p.depositor ELSE pos[c].depositor
      BY <2>1, <2>4, SeatsKeepFields
    <3> QED
      BY <1>2, <2>1, <3>1 DEF Kept, Moved
  <2> QED
    BY <2>2, <2>3, <2>4
<1>4. CASE RecordClose(d, v)
  <2> DEFINE p == [pos[d] EXCEPT !.state = "ClosedBelowFloor", !.recorded_value = v,
                                 !.in_tier = FALSE]
  <2>1. /\ p \in Position /\ p.state = "ClosedBelowFloor" /\ p.depositor = pos[d].depositor
    <3>1. pos[d] \in Position
      BY <1>0
    <3> QED
      BY <1>2, <3>1 DEF Position, PositionStates
  <2>2. LeaveSeat(d, p, Cards)
    BY <1>4, Zenon DEF RecordClose
  <2>3. pos[d].state = "Active"
    BY <1>4 DEF RecordClose, Recordable
  <2> HIDE DEF p
  <2>4. /\ pos'[c].state = IF c = d THEN p.state ELSE pos[c].state
        /\ pos'[c].depositor = IF c = d THEN p.depositor ELSE pos[c].depositor
    BY <2>1, <2>2, SeatsKeepFields
  <2> QED
    BY <1>2, <2>1, <2>3, <2>4 DEF Kept, WasJudged, Moved
<1> QED
  BY <1>1, <1>3, <1>4

LEMMA ExitMoves ==
  ASSUME TypeInv, NEW d \in Cards, ExitStep(d), NEW c \in Cards
  PROVE  Kept(c) \/ Left(c) \/ WasSeized(c)
<1>0. pos \in [Cards -> Position] /\ standing \in [Cards -> AllStandings]
  BY DEF TypeInv, TypeOK
<1>1. CASE Withdraw(d)
  <2>1. LeaveSeat(d, NoPosition, Cards) /\ pos[d].state = "Active"
        /\ standing' = [standing EXCEPT ![d] = "settleable"]
        /\ standing[d] \in {"settleable", "undecidable"}
    BY <1>1, Zenon DEF Withdraw, Release, CollateralSettleable
  <2>2. /\ pos'[c].state = IF c = d THEN NoPosition.state ELSE pos[c].state
        /\ pos'[c].depositor = IF c = d THEN NoPosition.depositor ELSE pos[c].depositor
    BY <2>1, NoPositionType, SeatsKeepFields
  <2> QED
    BY <1>0, <2>1, <2>2 DEF NoPosition, Kept, Left, Moved
<1>2. CASE ClaimNft(d)
  BY <1>0, <1>2 DEF ClaimNft, CollateralSettleable, Release, NoPosition, Kept, Left, Moved
<1>3. CASE SeizeActive(d)
  <2> DEFINE p == [pos[d] EXCEPT !.state = "Seized", !.in_tier = FALSE]
  <2>1. p \in Position /\ p.state = "Seized" /\ p.depositor = pos[d].depositor
    BY <1>0 DEF Position, PositionStates
  <2>2. LeaveSeat(d, p, {})
    BY <1>3, Zenon DEF SeizeActive
  <2>3. d \in CoreCards /\ pos[d].state = "Active" /\ standing' = standing
    BY <1>3 DEF SeizeActive, CollateralUnreachable
  <2> HIDE DEF p
  <2>4. /\ pos'[c].state = IF c = d THEN p.state ELSE pos[c].state
        /\ pos'[c].depositor = IF c = d THEN p.depositor ELSE pos[c].depositor
    BY <2>1, <2>2, SeatsKeepFields
  <2> QED
    BY <2>1, <2>3, <2>4 DEF Kept, WasSeized, Moved
<1>4. CASE SeizeWeightless(d)
  BY <1>0, <1>4 DEF SeizeWeightless, CollateralUnreachable, Position, Kept, WasSeized, Moved
<1> QED
  BY <1>1, <1>2, <1>3, <1>4 DEF ExitStep

\* Every step, seen from one card.
LEMMA LifeSteps ==
  ASSUME TypeInv, [Next]_vars, NEW c \in Cards
  PROVE  Kept(c) \/ Strays(c) \/ Entered(c) \/ WasJudged(c) \/ Left(c) \/ WasSeized(c)
<1> USE DEF books, adminVars, rollVars
<1>0. pos \in [Cards -> Position] /\ standing \in [Cards -> AllStandings]
  BY DEF TypeInv, TypeOK
<1>1. CASE UNCHANGED vars
  BY <1>1 DEF vars, Kept, Moved
<1>2. CASE Tick \/ BeginSweep \/ EndSweep \/ RollStep
  BY <1>2 DEF Tick, BeginSweep, EndSweep, RollStep, CommitRolls, VrfCallback, Kept, Moved
<1>3. ASSUME NEW d \in Cards, UpdateTier(d)
      PROVE  Kept(c)
  <2>1. pos[d] \in Position /\ TakeSeat(d, pos[d]) /\ standing' = standing
    BY <1>0, <1>3 DEF UpdateTier
  <2>2. /\ pos'[c].state = IF c = d THEN pos[d].state ELSE pos[c].state
        /\ pos'[c].depositor = IF c = d THEN pos[d].depositor ELSE pos[c].depositor
    BY <2>1, SeatsKeepFields
  <2> QED
    BY <2>1, <2>2 DEF Kept, Moved
<1>4. ASSUME NEW d \in Cards, CollateralMoves(d)
      PROVE  Kept(c) \/ Strays(c)
  BY <1>0, <1>4 DEF CollateralMoves, Kept, Strays, Moved
<1>5. CASE AdminStep
  <2>1. ASSUME NEW new \in Configs, UpdateConfig(new) PROVE Kept(c)
    <3>1. PICK b : pos'[c] = [pos[c] EXCEPT !.in_tier = b]
      BY <2>1 DEF UpdateConfig
    <3>2. standing' = standing
      BY <2>1 DEF UpdateConfig
    <3> QED
      BY <1>0, <3>1, <3>2 DEF Position, Kept, Moved
  <2>2. ASSUME NEW x, NEW y, SetPause(x, y) PROVE Kept(c)
    BY <2>2 DEF SetPause, Kept, Moved
  <2> QED
    BY <1>5, <2>1, <2>2 DEF AdminStep
<1> QED
  BY <1>1, <1>2, <1>3, <1>4, <1>5, DepositMoves, ValueMoves, ExitMoves DEF Next

LEMMA StepKeepsLives ==
  ASSUME LifeInv, [Next]_vars
  PROVE  LifeInv'
<1>1. TypeInv'
  BY StepKeepsType DEF LifeInv
<1>2. ASSUME NEW c \in Cards, pos'[c].state = "None"
      PROVE  pos'[c].depositor = NoWallet /\ standing'[c] = "settleable"
  BY <1>2, LifeSteps
  DEF LifeInv, Kept, Strays, Entered, WasJudged, Left, WasSeized, Moved
<1> QED
  BY <1>1, <1>2 DEF LifeInv

---------------------------------------------------------------------------------
(* The refinement. *)

LifeOf(c) ==
  [state |-> pos[c].state, depositor |-> pos[c].depositor,
   family |-> IF pos[c].state # "None" /\ c \in CoreCards THEN "core" ELSE "token",
   card |-> IF \/ pos[c].state = "None"
               \/ standing[c] \in {"transferred", "burned"}
            THEN "away" ELSE "escrowed"]
LivesOf == [c \in Cards |-> LifeOf(c)]

LifeMoves(x, y) ==
  \/ x = y
  \/ Life!Enters(x, y) \/ Life!Judged(x, y) \/ Life!Leaves(x, y) \/ Life!Seized(x, y)
  \/ Life!TakenOrReturned(x, y)

\* A step that changes the state alone changes the state of the life alone.
LEMMA Restated ==
  ASSUME NEW c \in Cards, pos[c].state # "None", NEW to, to # "None",
         Moved(c, to, pos[c].depositor, standing[c])
  PROVE  LifeOf(c)' = [LifeOf(c) EXCEPT !.state = to] /\ LifeOf(c)'.state = to
<1> DEFINE f == IF c \in CoreCards THEN "core" ELSE "token"
           k == IF standing[c] \in {"transferred", "burned"} THEN "away" ELSE "escrowed"
           d == pos[c].depositor
<1>1. LifeOf(c) = [state |-> pos[c].state, depositor |-> d, family |-> f, card |-> k]
  BY DEF LifeOf
<1>2. LifeOf(c)' = [state |-> to, depositor |-> d, family |-> f, card |-> k]
  BY DEF LifeOf, Moved
<1> HIDE DEF f, k, d
<1> QED
  BY <1>1, <1>2

LEMMA LifeStep ==
  ASSUME LifeInv, [Next]_vars, NEW c \in Cards
  PROVE  LifeMoves(LifeOf(c), LifeOf(c)')
<1>1. TypeInv
  BY DEF LifeInv
<1>2. CASE Kept(c)
  BY <1>2 DEF Kept, Moved, LifeOf, LifeMoves
<1>3. CASE Strays(c)
  <2> DEFINE s == pos[c].state
             d == pos[c].depositor
  <2>1. /\ LifeOf(c) = [state |-> s, depositor |-> d, family |-> "core",
                        card |-> IF standing[c] \in {"transferred", "burned"}
                                 THEN "away" ELSE "escrowed"]
        /\ LifeOf(c)' = [state |-> s, depositor |-> d, family |-> "core",
                         card |-> IF standing'[c] \in {"transferred", "burned"}
                                  THEN "away" ELSE "escrowed"]
    BY <1>3 DEF Strays, LifeOf
  <2> HIDE DEF s, d
  <2> QED
    BY <2>1 DEF LifeMoves, Life!TakenOrReturned
<1>4. CASE Entered(c)
  <2>1. PICK w \in Wallets : Moved(c, "Pending", w, standing[c])
    BY <1>4 DEF Entered
  <2>2. standing[c] = "settleable" /\ pos[c].state = "None" /\ pos[c].depositor = NoWallet
    BY <1>4 DEF Entered, LifeInv
  <2>3. LifeOf(c) = Life!Unused
    BY <2>2 DEF LifeOf, Life!Unused
  <2>4. LifeOf(c)' = [state |-> "Pending", depositor |-> w,
                      family |-> IF c \in CoreCards THEN "core" ELSE "token",
                      card |-> "escrowed"]
    BY <2>1, <2>2 DEF Moved, LifeOf
  <2> QED
    BY <2>3, <2>4 DEF LifeMoves, Life!Enters
<1>5. CASE WasJudged(c)
  <2>1. LifeOf(c).state = pos[c].state
    BY DEF LifeOf
  <2> QED
    BY <1>5, <2>1, Restated DEF WasJudged, LifeMoves, Life!Judged
<1>6. CASE WasSeized(c)
  <2>1. LifeOf(c).state = pos[c].state /\ LifeOf(c).family = "core"
    BY <1>6 DEF LifeOf, WasSeized
  <2> QED
    BY <1>6, <2>1, Restated DEF WasSeized, LifeMoves, Life!Seized
<1>7. CASE Left(c)
  <2>1. LifeOf(c)' = Life!Unused
    BY <1>7 DEF Left, Moved, LifeOf, Life!Unused
  <2>2. /\ LifeOf(c).state = pos[c].state /\ LifeOf(c).card = "escrowed"
        /\ c \in CoreCards => LifeOf(c).family = "core"
    BY <1>7 DEF Left, LifeOf
  <2> QED
    BY <1>7, <2>1, <2>2 DEF Left, LifeMoves, Life!Leaves
<1> QED
  BY <1>1, <1>2, <1>3, <1>4, <1>5, <1>6, <1>7, LifeSteps

\* Every position of a pool lives as CardLife promises: no appraisal, batch, sweep,
\* promotion, repricing or pause adds a way in or out for a card.
THEOREM PoolImplementsCardLife == Spec => PositionsLive
<1>1. Init => LifeInv
  BY InitType DEF Init, LifeInv, NoPosition
<1>2. Init => LivesOf = [v \in Cards |-> Life!Unused]
  BY DEF Init, LivesOf, LifeOf, NoPosition, Life!Unused
<1>3. LifeInv /\ [Next]_vars => \A c \in Cards : LifeMoves(LifeOf(c), LifeOf(c)')
  BY LifeStep
<1>4. (\A c \in Cards : LifeMoves(LifeOf(c), LifeOf(c)')) => [Life!Next]_LivesOf
  BY DEF LifeMoves, Life!Next, LivesOf, LifeOf
<1>5. LifeInv /\ [Next]_vars => LifeInv'
  BY StepKeepsLives
<1> QED
  BY <1>1, <1>2, <1>3, <1>4, <1>5, PTL
  DEF Spec, PositionsLive, Life!Spec, Life!Init, LivesOf, LifeOf
-------------------------------------------------------------------------------
(* The books: the counters the handlers move are the sums they stand for, and *)
(* every leaf of the index has exactly one owner.                             *)

\* What the books know of a position: nothing unless it is Active.
Stays(c) ==
  /\ pos'[c].state = "Active" <=> pos[c].state = "Active"
  /\ pos[c].state = "Active" =>
       /\ pos'[c].depositor = pos[c].depositor
       /\ pos'[c].recorded_value = pos[c].recorded_value
       /\ pos'[c].slot_index = pos[c].slot_index
       /\ pos'[c].activated_at = pos[c].activated_at

\* The three steps the books take: a position enters at its first appraisal, is
\* appraised again, or leaves.
Arrives(c, v) ==
  /\ pos[c].state = "Pending" /\ Weighable(v)
  /\ pos'[c].state = "Active"
  /\ pos'[c].depositor = pos[c].depositor
  /\ pos'[c].recorded_value = v
  /\ pos'[c].slot_index = NextSlot(index)
  /\ pos'[c].activated_at = now
  /\ w_real' = w_real + WeightOf(v)
  /\ n_real' = n_real + 1
  /\ CanInsert(index, WeightOf(v), w_real')
  /\ index' = Insert(index, WeightOf(v))
  /\ stats' = [stats EXCEPT ![pos[c].depositor].active_positions = @ + 1,
                            ![pos[c].depositor].active_value = @ + v]
Revalued(c, v) ==
  LET old == pos[c].recorded_value
  IN  /\ pos[c].state = "Active" /\ Weighable(v) /\ Weighable(old)
      /\ pos'[c].state = "Active"
      /\ pos'[c].depositor = pos[c].depositor
      /\ pos'[c].recorded_value = v
      /\ pos'[c].slot_index = pos[c].slot_index
      /\ pos'[c].activated_at = pos[c].activated_at
      /\ w_real' = w_real + (WeightOf(v) - WeightOf(old))
      /\ n_real' = n_real
      /\ CanUpdate(index, pos[c].slot_index, WeightOf(old), WeightOf(v), w_real')
      /\ index' = Update(index, pos[c].slot_index, WeightOf(old), WeightOf(v))
      /\ stats' = [stats EXCEPT ![pos[c].depositor].active_value = @ + v - old]
Departs(c) ==
  /\ pos[c].state = "Active" /\ pos'[c].state # "Active"
  /\ DepartWeight(c)

BooksMove(c) ==
  /\ (\E v \in Values : Arrives(c, v) \/ Revalued(c, v)) \/ Departs(c)
  /\ \A d \in Cards \ {c} : Stays(d)
BooksRest == UNCHANGED <<stats, w_real, n_real, index>> /\ \A c \in Cards : Stays(c)

LEMMA SeatsKeepOthers ==
  ASSUME TypeInv, NEW c \in Cards, NEW p \in Position, NEW heirs \in SUBSET Cards,
         TakeSeat(c, p) \/ MissSeat(c, p) \/ LeaveSeat(c, p, heirs)
  PROVE  /\ \A d \in Cards \ {c} : Stays(d)
         /\ pos'[c].state = p.state /\ pos'[c].depositor = p.depositor
         /\ pos'[c].position_id = p.position_id
         /\ pos'[c].recorded_value = p.recorded_value
         /\ pos'[c].slot_index = p.slot_index /\ pos'[c].activated_at = p.activated_at
BY SeatsKeepFields DEF Stays

LEMMA DepositBooks ==
  ASSUME TypeInv, NEW c \in Cards, DepositStep(c)
  PROVE  BooksRest \/ BooksMove(c)
<1>0. pos \in [Cards -> Position]
  BY DEF TypeInv, TypeOK
<1>1. ASSUME NEW w \in Wallets, Deposit(c, w)
      PROVE  BooksRest
  BY <1>0, <1>1 DEF Deposit, NoPosition, BooksRest, Stays, books
<1>2. ASSUME NEW v \in Values, NEW lock \in Locks, ApproveDeposit(c, v, lock)
      PROVE  BooksMove(c)
  <2> DEFINE active == [pos[c] EXCEPT !.state = "Active", !.recorded_value = v,
                          !.slot_index = NextSlot(index), !.activated_at = now,
                          !.lock_until = lock]
  <2>1. v \in Nat /\ lock \in Nat /\ now \in Nat /\ NextSlot(index) \in Nat
    BY <1>2, PoolAssumption DEF TypeInv, TypeOK, ApproveDeposit, CanInsert, CanAlloc, Slots
  <2>2. /\ active \in Position /\ active.state = "Active" /\ active.activated_at = now
        /\ active.depositor = pos[c].depositor /\ active.recorded_value = v
        /\ active.slot_index = NextSlot(index)
    BY <1>0, <2>1 DEF Position, PositionStates
  <2>3. pos[c].state = "Pending" /\ (TakeSeat(c, active) \/ MissSeat(c, active))
    BY <1>2, Zenon DEF ApproveDeposit
  <2> HIDE DEF active
  <2>4. /\ \A d \in Cards \ {c} : Stays(d)
        /\ pos'[c].state = "Active" /\ pos'[c].depositor = pos[c].depositor
        /\ pos'[c].recorded_value = v
        /\ pos'[c].slot_index = NextSlot(index) /\ pos'[c].activated_at = now
    BY <2>2, <2>3, SeatsKeepOthers
  <2>5. /\ Weighable(v)
        /\ w_real' = w_real + WeightOf(v)
        /\ n_real' = n_real + 1
        /\ CanInsert(index, WeightOf(v), w_real')
        /\ index' = Insert(index, WeightOf(v))
        /\ stats' = [stats EXCEPT ![pos[c].depositor].active_positions = @ + 1,
                                  ![pos[c].depositor].active_value = @ + v]
    BY <1>2, Zenon DEF ApproveDeposit
  <2>6. Arrives(c, v)
    BY <2>3, <2>4, <2>5, Zenon DEF Arrives
  <2> QED
    BY <2>1, <2>4, <2>6 DEF BooksMove
<1>3. CASE RejectDeposit(c)
  BY <1>0, <1>3 DEF RejectDeposit, BooksRest, Stays, books, Position
<1>4. CASE ReturnRejected(c)
  BY <1>0, <1>4 DEF ReturnRejected, NoPosition, BooksRest, Stays, books
<1> QED
  BY <1>1, <1>2, <1>3, <1>4 DEF DepositStep

LEMMA ValueBooks ==
  ASSUME TypeInv, NEW c \in Cards, ValueStep(c)
  PROVE  BooksMove(c)
<1>0. pos \in [Cards -> Position]
  BY DEF TypeInv, TypeOK
<1>1. ASSUME NEW v \in Values, RecordRefresh(c, v) PROVE BooksMove(c)
  <2> DEFINE p == [pos[c] EXCEPT !.recorded_value = v]
             old == pos[c].recorded_value
  <2>1. /\ v \in Nat /\ p \in Position /\ p.state = pos[c].state
        /\ p.depositor = pos[c].depositor /\ p.slot_index = pos[c].slot_index
        /\ p.activated_at = pos[c].activated_at /\ p.recorded_value = v
    BY <1>0, PoolAssumption DEF Position
  <2>2. TakeSeat(c, p) \/ MissSeat(c, p) \/ pos' = [pos EXCEPT ![c] = p]
    BY <1>1, Zenon DEF RecordRefresh
  <2>3. /\ Weighable(v) /\ Weighable(old)
        /\ w_real' = w_real + (WeightOf(v) - WeightOf(old))
        /\ n_real' = n_real
        /\ CanUpdate(index, p.slot_index, WeightOf(old), WeightOf(v), w_real')
        /\ index' = Update(index, p.slot_index, WeightOf(old), WeightOf(v))
        /\ stats' = [stats EXCEPT ![p.depositor].active_value = @ + v - old]
        /\ pos[c].state = "Active"
    BY <1>1, Zenon DEF RecordRefresh, Recordable
  <2> HIDE DEF p
  <2>4. /\ \A d \in Cards \ {c} : Stays(d)
        /\ pos'[c].state = p.state /\ pos'[c].depositor = p.depositor
        /\ pos'[c].recorded_value = p.recorded_value
        /\ pos'[c].slot_index = p.slot_index /\ pos'[c].activated_at = p.activated_at
    <3>1. CASE pos' = [pos EXCEPT ![c] = p]
      BY <1>0, <3>1 DEF Stays
    <3>2. CASE TakeSeat(c, p) \/ MissSeat(c, p)
      BY <2>1, <3>2, SeatsKeepOthers
    <3> QED
      BY <2>2, <3>1, <3>2
  <2>5. Revalued(c, v)
    BY <2>1, <2>3, <2>4, Zenon DEF Revalued
  <2> QED
    BY <2>1, <2>4, <2>5 DEF BooksMove
<1>2. ASSUME NEW v \in Values, RecordClose(c, v) PROVE BooksMove(c)
  <2> DEFINE p == [pos[c] EXCEPT !.state = "ClosedBelowFloor", !.recorded_value = v,
                                 !.in_tier = FALSE]
  <2>1. p \in Position /\ p.state # "Active"
    BY <1>0, PoolAssumption DEF Position, PositionStates
  <2>2. /\ DepartWeight(c) /\ LeaveSeat(c, p, Cards) /\ pos[c].state = "Active"
    BY <1>2 DEF RecordClose, Recordable
  <2> HIDE DEF p
  <2> QED
    BY <2>1, <2>2, SeatsKeepOthers DEF BooksMove, Departs
<1> QED
  BY <1>1, <1>2 DEF ValueStep

LEMMA ExitBooks ==
  ASSUME TypeInv, NEW c \in Cards, ExitStep(c)
  PROVE  BooksRest \/ BooksMove(c)
<1>0. pos \in [Cards -> Position]
  BY DEF TypeInv, TypeOK
<1>1. CASE Withdraw(c)
  <2>1. DepartWeight(c) /\ LeaveSeat(c, NoPosition, Cards) /\ pos[c].state = "Active"
    BY <1>1 DEF Withdraw
  <2>2. NoPosition \in Position /\ NoPosition.state # "Active"
    BY NoPositionType DEF NoPosition
  <2> QED
    BY <2>1, <2>2, SeatsKeepOthers DEF BooksMove, Departs
<1>2. CASE SeizeActive(c)
  <2> DEFINE p == [pos[c] EXCEPT !.state = "Seized", !.in_tier = FALSE]
  <2>1. p \in Position /\ p.state # "Active"
    BY <1>0 DEF Position, PositionStates
  <2>2. DepartWeight(c) /\ LeaveSeat(c, p, {}) /\ pos[c].state = "Active"
    BY <1>2 DEF SeizeActive
  <2> HIDE DEF p
  <2> QED
    BY <2>1, <2>2, SeatsKeepOthers DEF BooksMove, Departs
<1>3. CASE ClaimNft(c)
  BY <1>0, <1>3 DEF ClaimNft, NoPosition, BooksRest, Stays, books
<1>4. CASE SeizeWeightless(c)
  BY <1>0, <1>4 DEF SeizeWeightless, BooksRest, Stays, books, Position
<1> QED
  BY <1>1, <1>2, <1>3, <1>4 DEF ExitStep

\* Every step leaves the books alone or moves them for one position.
LEMMA StepMovesBooks ==
  ASSUME TypeInv, [Next]_vars
  PROVE  BooksRest \/ \E c \in Cards : BooksMove(c)
<1>0. pos \in [Cards -> Position]
  BY DEF TypeInv, TypeOK
<1>1. CASE UNCHANGED vars
  BY <1>1 DEF vars, books, BooksRest, Stays
<1>2. CASE Tick \/ BeginSweep \/ EndSweep \/ RollStep
  BY <1>2 DEF Tick, BeginSweep, EndSweep, RollStep, CommitRolls, VrfCallback, books,
              BooksRest, Stays
<1>3. ASSUME NEW c \in Cards, DepositStep(c) \/ ValueStep(c) \/ ExitStep(c)
      PROVE  BooksRest \/ BooksMove(c)
  BY <1>3, DepositBooks, ValueBooks, ExitBooks
<1>4. ASSUME NEW c \in Cards, UpdateTier(c) PROVE BooksRest
  <2>1. pos[c] \in Position /\ TakeSeat(c, pos[c])
    BY <1>0, <1>4 DEF UpdateTier
  <2>2. Stays(c) /\ \A d \in Cards \ {c} : Stays(d)
    BY <2>1, SeatsKeepOthers DEF Stays
  <2> QED
    BY <1>4, <2>2 DEF UpdateTier, books, BooksRest
<1>5. ASSUME NEW c \in Cards, CollateralMoves(c) PROVE BooksRest
  BY <1>5 DEF CollateralMoves, books, BooksRest, Stays
<1>6. CASE AdminStep
  <2>1. ASSUME NEW new \in Configs, UpdateConfig(new) PROVE BooksRest
    <3>1. ASSUME NEW c \in Cards PROVE Stays(c)
      <4>1. pos[c] \in Position /\ \E b : pos'[c] = [pos[c] EXCEPT !.in_tier = b]
        BY <1>0, <2>1 DEF UpdateConfig
      <4> QED
        BY <4>1 DEF Position, Stays
    <3> QED
      BY <2>1, <3>1 DEF UpdateConfig, books, BooksRest
  <2>2. ASSUME NEW x, NEW y, SetPause(x, y) PROVE BooksRest
    BY <2>2 DEF SetPause, books, BooksRest, Stays
  <2> QED
    BY <1>6, <2>1, <2>2 DEF AdminStep
<1> QED
  BY <1>1, <1>2, <1>3, <1>4, <1>5, <1>6 DEF Next

---------------------------------------------------------------------------------
(* The slots. *)

FreeSlots(l) == {l.free[i] : i \in 1..Len(l.free)}
FreedOnce(l) == \A i, j \in 1..Len(l.free) : l.free[i] = l.free[j] => i = j

\* What insert does to the slots: the one it takes leaves the free stack, or is
\* the first above the mark.
LEMMA InsertSlots ==
  ASSUME NEW l \in LedgerType, NEW w \in Nat, CanAlloc(l), FreedOnce(l)
  PROVE  LET n == Insert(l, w)
             s == NextSlot(l)
         IN  /\ s \in Slots /\ n.leaf = [l.leaf EXCEPT ![s] = w]
             /\ FreedOnce(n)
             /\ \/ n.high = l.high /\ s \in FreeSlots(l) /\ FreeSlots(n) = FreeSlots(l) \ {s}
                \/ n.high = l.high + 1 /\ s = l.high /\ FreeSlots(n) = {} /\ FreeSlots(l) = {}
<1> DEFINE n == Insert(l, w)
           s == NextSlot(l)
           free == IF l.free # << >> THEN SubSeq(l.free, 1, Len(l.free) - 1) ELSE l.free
<1>0. /\ l.free \in Seq(Slots) /\ Len(l.free) \in Nat
      /\ \A i \in 1..Len(l.free) : l.free[i] \in Slots
  BY LenProperties, ElementOfSeq DEF LedgerType
<1>1. /\ n.leaf = [l.leaf EXCEPT ![s] = w] /\ n.free = free
      /\ n.high = IF l.free # << >> THEN l.high ELSE l.high + 1
      /\ s \in Slots
  BY DEF Insert, CanAlloc
<1> HIDE DEF n
<1>2. CASE l.free = << >>
  <2>1. s = l.high /\ n.free = << >> /\ n.high = l.high + 1
    BY <1>1, <1>2 DEF NextSlot
  <2>2. 1..Len(n.free) = {} /\ 1..Len(l.free) = {}
    BY <1>2, <2>1
  <2> QED
    BY <1>1, <2>1, <2>2 DEF FreeSlots, FreedOnce, n
<1>3. CASE l.free # << >>
  <2> DEFINE k == Len(l.free) - 1
  <2>1. Len(l.free) \in Nat \ {0}
    BY <1>0, <1>3, EmptySeq
  <2>2. s = l.free[Len(l.free)] /\ n.free = SubSeq(l.free, 1, k) /\ n.high = l.high
    BY <1>1, <1>3 DEF NextSlot
  <2>3. k \in Nat /\ k \in Int /\ 1 \in Int /\ \A i \in 1..k : l.free[i] \in Slots
    BY <1>0, <2>1
  <2>4. /\ Len(n.free) = IF 1 <= k THEN k - 1 + 1 ELSE 0
        /\ \A i \in 1..k-1+1 : n.free[i] = l.free[1 + i - 1]
    <3> HIDE DEF k
    <3> QED
      BY <2>2, <2>3, SubSeqProperties
  <2>5. Len(n.free) = k
    BY <2>3, <2>4
  <2>6. ASSUME NEW i \in 1..k PROVE n.free[i] = l.free[i]
    <3>1. i \in 1..k-1+1 /\ 1 + i - 1 = i
      BY <2>3
    <3> HIDE DEF k
    <3> QED
      BY <2>4, <3>1, Zenon
  <2>7. \A i \in 1..Len(l.free) : i \in 1..k \/ i = Len(l.free)
    BY <2>1
  <2>8. \A i \in 1..k : i \in 1..Len(l.free) /\ i # Len(l.free)
    BY <2>1
  <2> HIDE DEF k
  <2>9. FreedOnce(n)
    BY <2>5, <2>6, <2>8 DEF FreedOnce
  <2>10. s \in FreeSlots(l)
    BY <2>1, <2>2 DEF FreeSlots
  <2>11. FreeSlots(n) = FreeSlots(l) \ {s}
    <3>1. ASSUME NEW i \in 1..k PROVE l.free[i] \in FreeSlots(l) \ {s}
      BY <2>1, <2>2, <2>8 DEF FreeSlots, FreedOnce
    <3>2. ASSUME NEW i \in 1..Len(l.free), l.free[i] # s PROVE i \in 1..k
      BY <2>2, <2>7, <3>2
    <3> QED
      BY <2>5, <2>6, <3>1, <3>2 DEF FreeSlots
  <2> QED
    BY <1>1, <2>2, <2>9, <2>10, <2>11 DEF n
<1> QED
  BY <1>2, <1>3

\* What remove does to the slots: the one it frees goes on the stack.
LEMMA RemoveSlots ==
  ASSUME NEW l \in LedgerType, NEW s \in Slots, NEW w, FreedOnce(l), s \notin FreeSlots(l)
  PROVE  LET n == Remove(l, s, w)
         IN  /\ n.leaf = [l.leaf EXCEPT ![s] = 0] /\ n.high = l.high
             /\ FreedOnce(n) /\ FreeSlots(n) = FreeSlots(l) \cup {s}
<1> DEFINE n == Remove(l, s, w)
<1>0. l.free \in Seq(Slots) /\ Len(l.free) \in Nat
  BY LenProperties DEF LedgerType
<1>1. n.leaf = [l.leaf EXCEPT ![s] = 0] /\ n.high = l.high /\ n.free = Append(l.free, s)
  BY DEF Remove
<1> HIDE DEF n
<1>2. /\ Len(n.free) = Len(l.free) + 1 /\ n.free[Len(l.free) + 1] = s
      /\ \A i \in 1..Len(l.free) : n.free[i] = l.free[i]
  BY <1>0, <1>1, AppendProperties
<1>3. \A i \in 1..Len(n.free) : i \in 1..Len(l.free) \/ i = Len(l.free) + 1
  BY <1>0, <1>2
<1>4. /\ \A i \in 1..Len(l.free) : i \in 1..Len(n.free)
      /\ Len(l.free) + 1 \in 1..Len(n.free)
  BY <1>0, <1>2
<1>5. \A i \in 1..Len(l.free) : l.free[i] # s
  BY DEF FreeSlots
<1>6. FreedOnce(n)
  BY <1>2, <1>3, <1>5 DEF FreedOnce
<1>7. FreeSlots(n) = FreeSlots(l) \cup {s}
  BY <1>2, <1>3, <1>4 DEF FreeSlots
<1> QED
  BY <1>1, <1>6, <1>7 DEF n

\* SlotsOwned alone is not inductive: a slot owned above the mark would be handed
\* out a second time when the mark reaches it, and would be lost when freed.
SlotInv ==
  /\ TypeInv
  /\ SlotsOwned
  /\ \A c \in ActiveCards : pos[c].slot_index \in Slots /\ pos[c].slot_index < index.high

LEMMA SlotFacts ==
  ASSUME SlotInv
  PROVE  /\ FreedOnce(index)
         /\ FreeSlots(index) = (0 .. index.high - 1) \ OwnedSlots
         /\ index.leaf \in [Slots -> Nat] /\ index.high \in Nat
BY CapacityAssumption DEF SlotInv, SlotsOwned, FreedOnce, FreeSlots, TypeInv, TypeOK, LedgerType

\* The first appraisal takes a slot nobody owns.
LEMMA ArrivalSlots ==
  ASSUME SlotInv, TypeInv', NEW c \in Cards, NEW v \in Nat, Arrives(c, v),
         \A d \in Cards \ {c} : Stays(d)
  PROVE  SlotInv'
<1> DEFINE s == NextSlot(index)
           w == WeightOf(v)
<1>0. /\ index \in LedgerType /\ CanAlloc(index) /\ index' = Insert(index, w) /\ w \in Nat
  BY WeightOfType DEF SlotInv, TypeInv, TypeOK, Arrives, CanInsert
<1> HIDE DEF w
<1>1. /\ s \in Slots /\ index'.leaf = [index.leaf EXCEPT ![s] = w]
      /\ FreedOnce(index')
      /\ \/ /\ index'.high = index.high /\ s \in FreeSlots(index)
            /\ FreeSlots(index') = FreeSlots(index) \ {s}
         \/ /\ index'.high = index.high + 1 /\ s = index.high
            /\ FreeSlots(index') = {} /\ FreeSlots(index) = {}
  BY <1>0, SlotFacts, InsertSlots
<1>2. /\ ActiveCards' = ActiveCards \cup {c} /\ c \notin ActiveCards
      /\ pos'[c].slot_index = s /\ pos'[c].recorded_value = v
      /\ \A d \in ActiveCards : /\ pos'[d].slot_index = pos[d].slot_index
                                /\ pos'[d].recorded_value = pos[d].recorded_value
  BY DEF Arrives, Stays, ActiveCards
<1>3. OwnedSlots' = OwnedSlots \cup {s}
  BY <1>2 DEF OwnedSlots
<1> HIDE DEF s
<1>4. s \notin OwnedSlots /\ s \in Nat
  BY <1>1, SlotFacts DEF SlotInv, OwnedSlots, Slots
<1>5. FreeSlots(index') = (0 .. index'.high - 1) \ OwnedSlots'
  BY <1>1, <1>3, <1>4, SlotFacts
<1>6. \A d \in ActiveCards : pos[d].slot_index # s
  BY <1>4 DEF OwnedSlots
<1>7. \A d \in ActiveCards' : pos'[d].slot_index \in Slots /\ pos'[d].slot_index < index'.high
  <2>1. s < index'.high
    BY <1>1, SlotFacts
  <2>2. index.high <= index'.high
    BY <1>1, SlotFacts
  <2> QED
    BY <1>1, <1>2, <2>1, <2>2, SlotFacts DEF SlotInv, Slots
<1>8. SlotsOwned'
  <2>1. \A d, e \in ActiveCards' : pos'[d].slot_index = pos'[e].slot_index => d = e
    BY <1>2, <1>6 DEF SlotInv, SlotsOwned
  <2>2. \A d \in ActiveCards' : index'.leaf[pos'[d].slot_index] = WeightOf(pos'[d].recorded_value)
    BY <1>1, <1>2, <1>6, SlotFacts DEF SlotInv, SlotsOwned, w
  <2>3. \A t \in Slots \ OwnedSlots' : index'.leaf[t] = 0
    BY <1>1, <1>3, SlotFacts DEF SlotInv, SlotsOwned
  <2> QED
    BY <1>1, <1>5, <2>1, <2>2, <2>3 DEF SlotsOwned, FreedOnce, FreeSlots
<1> QED
  BY <1>7, <1>8 DEF SlotInv

\* A later appraisal moves one leaf in place.
LEMMA RevaluationSlots ==
  ASSUME SlotInv, TypeInv', NEW c \in Cards, NEW v \in Nat, Revalued(c, v),
         \A d \in Cards \ {c} : Stays(d)
  PROVE  SlotInv'
<1> DEFINE s == pos[c].slot_index
           w == WeightOf(v)
           old == WeightOf(pos[c].recorded_value)
<1>0. index \in LedgerType /\ index' = Update(index, s, old, w) /\ s \in Slots
  BY DEF SlotInv, TypeInv, TypeOK, Revalued, CanUpdate
<1>1. /\ index'.leaf = [index.leaf EXCEPT ![s] = w]
      /\ index'.free = index.free /\ index'.high = index.high
  BY <1>0 DEF Update, LedgerType
<1>2. /\ ActiveCards' = ActiveCards /\ c \in ActiveCards
      /\ pos'[c].recorded_value = v
      /\ \A d \in ActiveCards : pos'[d].slot_index = pos[d].slot_index
      /\ \A d \in ActiveCards \ {c} : pos'[d].recorded_value = pos[d].recorded_value
  BY DEF Revalued, Stays, ActiveCards
<1>3. OwnedSlots' = OwnedSlots
  BY <1>2 DEF OwnedSlots
<1>4. \A d \in ActiveCards \ {c} : pos[d].slot_index # s
  BY <1>2 DEF SlotInv, SlotsOwned
<1>5. s \in OwnedSlots
  BY <1>2 DEF OwnedSlots
<1> HIDE DEF w
<1>6. \A d \in ActiveCards' : index'.leaf[pos'[d].slot_index] = WeightOf(pos'[d].recorded_value)
  BY <1>0, <1>1, <1>2, <1>4, SlotFacts DEF SlotInv, SlotsOwned, w
<1> HIDE DEF s
<1>7. \A t \in Slots \ OwnedSlots' : index'.leaf[t] = 0
  BY <1>1, <1>3, <1>5, SlotFacts DEF SlotInv, SlotsOwned
<1> QED
  BY <1>1, <1>2, <1>3, <1>6, <1>7 DEF SlotInv, SlotsOwned

\* A departure empties its leaf and frees its slot.
LEMMA DepartureSlots ==
  ASSUME SlotInv, TypeInv', NEW c \in Cards, Departs(c), \A d \in Cards \ {c} : Stays(d)
  PROVE  SlotInv'
<1> DEFINE s == pos[c].slot_index
           w == WeightOf(pos[c].recorded_value)
<1>0. index \in LedgerType /\ index' = Remove(index, s, w) /\ s \in Slots
  BY DEF SlotInv, TypeInv, TypeOK, Departs, DepartWeight, CanRemove
<1>1. /\ ActiveCards' = ActiveCards \ {c} /\ c \in ActiveCards
      /\ \A d \in ActiveCards \ {c} : /\ pos'[d].slot_index = pos[d].slot_index
                                      /\ pos'[d].recorded_value = pos[d].recorded_value
  BY DEF Departs, Stays, ActiveCards
<1>2. \A d \in ActiveCards \ {c} : pos[d].slot_index # s
  BY <1>1 DEF SlotInv, SlotsOwned
<1>3. s \in OwnedSlots /\ s < index.high /\ s \in Nat
  BY <1>0, <1>1 DEF OwnedSlots, SlotInv, Slots
<1>4. OwnedSlots' = OwnedSlots \ {s}
  BY <1>1, <1>2 DEF OwnedSlots
<1> HIDE DEF s, w
<1>5. s \notin FreeSlots(index)
  BY <1>3, SlotFacts
<1>6. /\ index'.leaf = [index.leaf EXCEPT ![s] = 0] /\ index'.high = index.high
      /\ FreedOnce(index') /\ FreeSlots(index') = FreeSlots(index) \cup {s}
  BY <1>0, <1>5, SlotFacts, RemoveSlots
<1>7. FreeSlots(index') = (0 .. index'.high - 1) \ OwnedSlots'
  BY <1>3, <1>4, <1>6, SlotFacts
<1>8. \A d \in ActiveCards' : index'.leaf[pos'[d].slot_index] = WeightOf(pos'[d].recorded_value)
  BY <1>1, <1>2, <1>6, SlotFacts DEF SlotInv, SlotsOwned
<1>9. \A t \in Slots \ OwnedSlots' : index'.leaf[t] = 0
  BY <1>4, <1>6, SlotFacts DEF SlotInv, SlotsOwned
<1>10. \A d, e \in ActiveCards' : pos'[d].slot_index = pos'[e].slot_index => d = e
  BY <1>1 DEF SlotInv, SlotsOwned
<1> QED
  BY <1>1, <1>6, <1>7, <1>8, <1>9, <1>10 DEF SlotInv, SlotsOwned, FreedOnce, FreeSlots

LEMMA StepKeepsSlots == SlotInv /\ [Next]_vars => SlotInv'
<1> SUFFICES ASSUME SlotInv, [Next]_vars PROVE SlotInv'
  OBVIOUS
<1>0. TypeInv /\ TypeInv'
  BY StepKeepsType DEF SlotInv
<1>1. CASE BooksRest
  <2>1. /\ ActiveCards' = ActiveCards /\ index' = index
        /\ \A d \in ActiveCards : /\ pos'[d].slot_index = pos[d].slot_index
                                  /\ pos'[d].recorded_value = pos[d].recorded_value
    BY <1>1 DEF BooksRest, Stays, ActiveCards
  <2>2. OwnedSlots' = OwnedSlots
    BY <2>1 DEF OwnedSlots
  <2> QED
    BY <1>0, <2>1, <2>2 DEF SlotInv, SlotsOwned
<1>2. ASSUME NEW c \in Cards, BooksMove(c) PROVE SlotInv'
  BY <1>0, <1>2, PoolAssumption, ArrivalSlots, RevaluationSlots, DepartureSlots DEF BooksMove
<1> QED
  BY <1>0, <1>1, <1>2, StepMovesBooks

LEMMA InitSlots == Init => SlotInv
<1> SUFFICES ASSUME Init PROVE SlotInv
  OBVIOUS
<1>1. ActiveCards = {} /\ OwnedSlots = {}
  BY DEF Init, NoPosition, ActiveCards, OwnedSlots
<1>2. /\ index.free = << >> /\ index.high = 0 /\ index.leaf = [t \in Slots |-> 0]
  BY DEF Init, EmptyLedger
<1> QED
  BY <1>1, <1>2, InitType DEF SlotInv, SlotsOwned

\* A leaf of the weight index has one owner and holds its weight, and the slots
\* nobody owns are on the free stack once: no order of deposits, appraisals,
\* closures, withdrawals and seizures frees a slot twice or loses one.
THEOREM SlotsAlwaysOwned == Spec => []SlotsOwned
<1>1. SlotInv => SlotsOwned
  BY DEF SlotInv
<1> QED
  BY <1>1, InitSlots, StepKeepsSlots, PTL DEF Spec

---------------------------------------------------------------------------------
(* The counters. *)

CardWeights == [c \in Cards |-> WeightOf(pos[c].recorded_value)]
CardValues == [c \in Cards |-> pos[c].recorded_value]

\* BooksBalance, its sums written as the sums of a function.
BooksTally ==
  /\ n_real = Cardinality(ActiveCards)
  /\ w_real = Tally(CardWeights, ActiveCards)
  /\ index.total = w_real
  /\ \A w \in Wallets :
       /\ stats[w].active_positions = Cardinality(CardsOf(w))
       /\ stats[w].active_value = Tally(CardValues, CardsOf(w))

\* A wallet's counters follow an arrival or a departure only if the position has
\* an owner, and the weight of a departing position is known only if it was
\* weighable when it was appraised.
BookInv ==
  /\ TypeInv
  /\ BooksTally
  /\ \A c \in Cards : pos[c].state # "None" => pos[c].depositor \in Wallets
  /\ \A c \in ActiveCards : Weighable(pos[c].recorded_value)

LEMMA WeightsTallied ==
  ASSUME NEW p, NEW S \in SUBSET Cards
  PROVE  MapThenSumSet(LAMBDA c : WeightOf(p[c].recorded_value), S)
           = Tally([c \in Cards |-> WeightOf(p[c].recorded_value)], S)
BY Zenon DEF MapThenSumSet, MapThenFoldSet, Tally, SumTable

LEMMA ValuesTallied ==
  ASSUME NEW p, NEW S \in SUBSET Cards
  PROVE  MapThenSumSet(LAMBDA c : p[c].recorded_value, S)
           = Tally([c \in Cards |-> p[c].recorded_value], S)
BY Zenon DEF MapThenSumSet, MapThenFoldSet, Tally, SumTable

LEMMA BooksRestated == BooksTally => BooksBalance
<1> SUFFICES ASSUME BooksTally PROVE BooksBalance
  OBVIOUS
<1>1. ActiveCards \in SUBSET Cards /\ \A w : CardsOf(w) \in SUBSET Cards
  BY DEF ActiveCards, CardsOf
<1>2. w_real = MapThenSumSet(LAMBDA c : WeightOf(pos[c].recorded_value), ActiveCards)
  BY <1>1, WeightsTallied, Zenon DEF BooksTally, CardWeights
<1>3. \A w \in Wallets : stats[w].active_value =
                           MapThenSumSet(LAMBDA c : pos[c].recorded_value, CardsOf(w))
  BY <1>1, ValuesTallied, Zenon DEF BooksTally, CardValues
<1> QED
  BY <1>2, <1>3, Zenon DEF BooksTally, BooksBalance

\* What the sums are taken over.
LEMMA BookFacts ==
  ASSUME BookInv
  PROVE  /\ pos \in [Cards -> Position] /\ index \in LedgerType
         /\ stats \in [Wallets -> [active_positions: Nat, active_value: Nat]]
         /\ w_real \in Nat /\ n_real \in Nat
         /\ IsFiniteSet(ActiveCards) /\ \A w : IsFiniteSet(CardsOf(w))
         /\ \A c \in Cards : CardValues[c] \in Nat
         /\ \A c \in ActiveCards : CardWeights[c] \in Nat
<1>1. TypeOK
  BY DEF BookInv, TypeInv
<1>2. pos \in [Cards -> Position]
  BY <1>1 DEF TypeOK
<1>3. ActiveCards \in SUBSET Cards /\ \A w : CardsOf(w) \in SUBSET Cards
  BY DEF ActiveCards, CardsOf
<1>4. IsFiniteSet(ActiveCards) /\ \A w : IsFiniteSet(CardsOf(w))
  BY <1>3, FS_Subset, PoolAssumption
<1>7. stats \in [Wallets -> [active_positions: Nat, active_value: Nat]]
  BY <1>1, WordsAreNaturals DEF TypeOK
<1>5. \A c \in Cards : pos[c].recorded_value \in Nat
  BY <1>2 DEF Position
<1>6. \A c \in ActiveCards : WeightOf(pos[c].recorded_value) \in Nat
  BY <1>3, <1>5, WeightOfType DEF BookInv
<1> QED
  BY <1>1, <1>2, <1>3, <1>4, <1>5, <1>6, <1>7 DEF TypeOK, CardValues, CardWeights

\* A wallet that does not own c keeps its cards and their values.
LEMMA OthersCounters ==
  ASSUME BookInv, NEW c \in Cards, pos[c].depositor \in Wallets,
         pos'[c].state = "Active" => pos'[c].depositor = pos[c].depositor,
         \A d \in Cards \ {c} : Stays(d),
         NEW w \in Wallets, w # pos[c].depositor
  PROVE  CardsOf(w)' = CardsOf(w) /\ Tally(CardValues', CardsOf(w)') = Tally(CardValues, CardsOf(w))
<1>1. \A d \in Cards \ {c} : d \in CardsOf(w)' <=> d \in CardsOf(w)
  BY DEF CardsOf, ActiveCards, Stays
<1>2. c \notin CardsOf(w)' /\ c \notin CardsOf(w)
  BY DEF CardsOf, ActiveCards
<1>3. CardsOf(w)' \subseteq Cards /\ CardsOf(w) \subseteq Cards
  BY DEF CardsOf, ActiveCards
<1>4. CardsOf(w)' = CardsOf(w)
  BY <1>1, <1>2, <1>3
<1>5. \A d \in CardsOf(w) : CardValues'[d] = CardValues[d]
  BY <1>2, <1>3 DEF CardValues, Stays, CardsOf, ActiveCards
<1>6. IsFiniteSet(CardsOf(w))
  BY BookFacts
<1>7. Tally(CardValues', CardsOf(w)) = Tally(CardValues, CardsOf(w))
  BY <1>5, <1>6, TallyAgree
<1> QED
  BY <1>4, <1>7

LEMMA ArrivalCounters ==
  ASSUME BookInv, NEW c \in Cards, NEW v \in Nat, Arrives(c, v),
         \A d \in Cards \ {c} : Stays(d)
  PROVE  BooksTally'
<1>0. /\ pos[c].depositor \in Wallets /\ c \notin ActiveCards
      /\ ActiveCards \subseteq Cards /\ WeightOf(v) \in Nat
  BY WeightOfType DEF Arrives, BookInv, ActiveCards
<1>1. /\ ActiveCards' = ActiveCards \cup {c}
      /\ CardWeights'[c] = WeightOf(v) /\ CardValues'[c] = v
      /\ \A d \in ActiveCards : CardWeights'[d] = CardWeights[d] /\ CardValues'[d] = CardValues[d]
  <2>1. ActiveCards' = ActiveCards \cup {c}
    BY DEF Arrives, Stays, ActiveCards
  <2>2. \A d \in ActiveCards : pos'[d].recorded_value = pos[d].recorded_value
    BY <1>0 DEF Stays, ActiveCards
  <2> QED
    BY <1>0, <2>1, <2>2 DEF Arrives, CardWeights, CardValues
<1>2. n_real' = Cardinality(ActiveCards')
  BY <1>0, <1>1, BookFacts, FS_AddElement DEF BookInv, BooksTally, Arrives
<1>3. w_real' = Tally(CardWeights', ActiveCards')
  <2>1. \A d \in ActiveCards : CardWeights[d] \in Nat /\ CardWeights'[d] = CardWeights[d]
    BY <1>1, BookFacts
  <2>2. Tally(CardWeights', ActiveCards \cup {c}) = Tally(CardWeights, ActiveCards) + CardWeights'[c]
    BY <1>0, <1>1, <2>1, BookFacts, TallyAdd
  <2> QED
    BY <1>1, <2>2 DEF BookInv, BooksTally, Arrives
<1>4. index'.total = w_real'
  BY DEF BookInv, BooksTally, Arrives, Insert
<1>5. ASSUME NEW w \in Wallets
      PROVE  /\ stats'[w].active_positions = Cardinality(CardsOf(w)')
             /\ stats'[w].active_value = Tally(CardValues', CardsOf(w)')
  <2>1. CASE w = pos[c].depositor
    <3>0. /\ c \notin CardsOf(w) /\ CardsOf(w) \subseteq ActiveCards
          /\ CardsOf(w)' = CardsOf(w) \cup {c}
      BY <1>0, <1>1, <2>1 DEF Arrives, Stays, ActiveCards, CardsOf
    <3>1. /\ stats'[w].active_positions = stats[w].active_positions + 1
          /\ stats'[w].active_value = stats[w].active_value + v
      BY <1>0, <2>1, BookFacts DEF Arrives
    <3>2. Cardinality(CardsOf(w)') = Cardinality(CardsOf(w)) + 1
      BY <3>0, BookFacts, FS_AddElement
    <3>3. \A d \in CardsOf(w) : CardValues[d] \in Nat /\ CardValues'[d] = CardValues[d]
      BY <1>0, <1>1, <3>0, BookFacts
    <3>4. Tally(CardValues', CardsOf(w) \cup {c}) = Tally(CardValues, CardsOf(w)) + CardValues'[c]
      BY <1>1, <3>0, <3>3, BookFacts, TallyAdd
    <3> QED
      BY <1>1, <3>0, <3>1, <3>2, <3>4 DEF BookInv, BooksTally
  <2>2. CASE w # pos[c].depositor
    <3>1. stats'[w] = stats[w]
      BY <2>2, BookFacts DEF Arrives
    <3>2. /\ CardsOf(w)' = CardsOf(w)
          /\ Tally(CardValues', CardsOf(w)') = Tally(CardValues, CardsOf(w))
      BY <1>0, <2>2, OthersCounters DEF Arrives
    <3> QED
      BY <3>1, <3>2 DEF BookInv, BooksTally
  <2> QED
    BY <2>1, <2>2
<1> QED
  BY <1>2, <1>3, <1>4, <1>5 DEF BooksTally

LEMMA RevaluationCounters ==
  ASSUME BookInv, NEW c \in Cards, NEW v \in Nat, Revalued(c, v),
         \A d \in Cards \ {c} : Stays(d)
  PROVE  BooksTally'
<1> DEFINE old == pos[c].recorded_value
<1>0. /\ pos[c].depositor \in Wallets /\ c \in ActiveCards /\ ActiveCards \subseteq Cards
      /\ WeightOf(v) \in Nat /\ WeightOf(old) \in Nat /\ old \in Nat
      /\ CardWeights[c] = WeightOf(old) /\ CardValues[c] = old
  BY WeightOfType, BookFacts DEF Revalued, BookInv, ActiveCards, CardWeights, CardValues
<1>1. /\ ActiveCards' = ActiveCards
      /\ CardWeights'[c] = WeightOf(v) /\ CardValues'[c] = v
      /\ \A d \in ActiveCards \ {c} :
           CardWeights'[d] = CardWeights[d] /\ CardValues'[d] = CardValues[d]
  <2>1. ActiveCards' = ActiveCards
    BY DEF Revalued, Stays, ActiveCards
  <2>2. \A d \in ActiveCards \ {c} : pos'[d].recorded_value = pos[d].recorded_value
    BY <1>0 DEF Stays, ActiveCards
  <2> QED
    BY <1>0, <2>1, <2>2 DEF Revalued, CardWeights, CardValues
<1>2. n_real' = Cardinality(ActiveCards')
  BY <1>1 DEF BookInv, BooksTally, Revalued
<1>3. w_real' = Tally(CardWeights', ActiveCards')
  <2>1. \A d \in ActiveCards : /\ CardWeights[d] \in Nat /\ CardWeights'[d] \in Nat
                               /\ d # c => CardWeights'[d] = CardWeights[d]
    BY <1>0, <1>1, BookFacts
  <2>2. Tally(CardWeights', ActiveCards)
          = Tally(CardWeights, ActiveCards) + CardWeights'[c] - CardWeights[c]
    BY <1>0, <1>1, <2>1, BookFacts, TallyMove
  <2>3. w_real' = w_real + (WeightOf(v) - WeightOf(old)) /\ w_real = Tally(CardWeights, ActiveCards)
    BY Zenon DEF Revalued, BookInv, BooksTally
  <2> QED
    BY <1>0, <1>1, <2>2, <2>3, BookFacts
<1>4. index'.total = w_real'
  <2>1. /\ index' = Update(index, pos[c].slot_index, WeightOf(old), WeightOf(v))
        /\ w_real' = w_real + (WeightOf(v) - WeightOf(old)) /\ index.total = w_real
    BY Zenon DEF Revalued, BookInv, BooksTally
  <2>2. index'.total = index.total + WeightOf(v) - WeightOf(old)
    BY <2>1, BookFacts DEF Update, LedgerType
  <2> QED
    BY <1>0, <2>1, <2>2, BookFacts
<1>5. ASSUME NEW w \in Wallets
      PROVE  /\ stats'[w].active_positions = Cardinality(CardsOf(w)')
             /\ stats'[w].active_value = Tally(CardValues', CardsOf(w)')
  <2>1. CASE w = pos[c].depositor
    <3>0. /\ c \in CardsOf(w) /\ CardsOf(w) \subseteq ActiveCards
          /\ CardsOf(w)' = CardsOf(w)
      <4>1. \A d \in ActiveCards : pos'[d].depositor = pos[d].depositor
        BY <1>0 DEF Revalued, Stays, ActiveCards
      <4> QED
        BY <1>0, <1>1, <2>1, <4>1 DEF CardsOf
    <3>1. /\ stats'[w].active_positions = stats[w].active_positions
          /\ stats'[w].active_value = stats[w].active_value + v - old
      BY <1>0, <2>1, BookFacts DEF Revalued
    <3>3. \A d \in CardsOf(w) : /\ CardValues[d] \in Nat /\ CardValues'[d] \in Nat
                                /\ d # c => CardValues'[d] = CardValues[d]
      BY <1>0, <1>1, <3>0, BookFacts
    <3>4. Tally(CardValues', CardsOf(w))
            = Tally(CardValues, CardsOf(w)) + CardValues'[c] - CardValues[c]
      BY <1>1, <3>0, <3>3, BookFacts, TallyMove
    <3> QED
      BY <1>0, <1>1, <3>0, <3>1, <3>4 DEF BookInv, BooksTally
  <2>2. CASE w # pos[c].depositor
    <3>1. stats'[w] = stats[w]
      BY <2>2, BookFacts DEF Revalued
    <3>2. /\ CardsOf(w)' = CardsOf(w)
          /\ Tally(CardValues', CardsOf(w)') = Tally(CardValues, CardsOf(w))
      BY <1>0, <2>2, OthersCounters DEF Revalued
    <3> QED
      BY <3>1, <3>2 DEF BookInv, BooksTally
  <2> QED
    BY <2>1, <2>2
<1> QED
  BY <1>2, <1>3, <1>4, <1>5 DEF BooksTally

LEMMA DepartureCounters ==
  ASSUME BookInv, NEW c \in Cards, Departs(c), \A d \in Cards \ {c} : Stays(d)
  PROVE  BooksTally'
<1> DEFINE v == pos[c].recorded_value
<1>0. /\ pos[c].depositor \in Wallets /\ c \in ActiveCards /\ ActiveCards \subseteq Cards
      /\ CardWeights[c] = WeightOf(v) /\ CardValues[c] = v
  BY DEF Departs, BookInv, ActiveCards, CardWeights, CardValues
<1>1. /\ ActiveCards' = ActiveCards \ {c}
      /\ \A d \in ActiveCards \ {c} :
           CardWeights'[d] = CardWeights[d] /\ CardValues'[d] = CardValues[d]
  <2>1. ActiveCards' = ActiveCards \ {c}
    BY DEF Departs, Stays, ActiveCards
  <2>2. \A d \in ActiveCards \ {c} : pos'[d].recorded_value = pos[d].recorded_value
    BY <1>0 DEF Stays, ActiveCards
  <2> QED
    BY <1>0, <2>1, <2>2 DEF CardWeights, CardValues
<1>2. /\ w_real' = w_real - WeightOf(v) /\ n_real' = n_real - 1
      /\ stats' = [stats EXCEPT ![pos[c].depositor].active_positions = @ - 1,
                                ![pos[c].depositor].active_value = @ - v]
      /\ index' = Remove(index, pos[c].slot_index, WeightOf(v))
  BY Zenon DEF Departs, DepartWeight
<1>3. n_real' = Cardinality(ActiveCards')
  BY <1>0, <1>1, <1>2, BookFacts, FS_RemoveElement DEF BookInv, BooksTally
<1>4. w_real' = Tally(CardWeights', ActiveCards')
  <2>1. \A d \in ActiveCards :
          CardWeights[d] \in Nat /\ (d # c => CardWeights'[d] = CardWeights[d])
    BY <1>1, BookFacts
  <2>2. Tally(CardWeights', ActiveCards \ {c}) = Tally(CardWeights, ActiveCards) - CardWeights[c]
    BY <1>0, <1>1, <2>1, BookFacts, TallyDrop
  <2> QED
    BY <1>0, <1>1, <1>2, <2>2 DEF BookInv, BooksTally
<1>5. index'.total = w_real'
  BY <1>2 DEF BookInv, BooksTally, Remove
<1>6. ASSUME NEW w \in Wallets
      PROVE  /\ stats'[w].active_positions = Cardinality(CardsOf(w)')
             /\ stats'[w].active_value = Tally(CardValues', CardsOf(w)')
  <2>1. CASE w = pos[c].depositor
    <3>0. c \in CardsOf(w) /\ CardsOf(w) \subseteq ActiveCards /\ CardsOf(w)' = CardsOf(w) \ {c}
      <4>1. \A d \in ActiveCards' : pos'[d].depositor = pos[d].depositor
        BY <1>0, <1>1 DEF Stays, ActiveCards
      <4> QED
        BY <1>0, <1>1, <2>1, <4>1 DEF CardsOf
    <3>1. /\ stats'[w].active_positions = stats[w].active_positions - 1
          /\ stats'[w].active_value = stats[w].active_value - v
      BY <1>0, <1>2, <2>1, BookFacts
    <3>2. Cardinality(CardsOf(w)') = Cardinality(CardsOf(w)) - 1
      BY <3>0, BookFacts, FS_RemoveElement
    <3>3. \A d \in CardsOf(w) :
            CardValues[d] \in Nat /\ (d # c => CardValues'[d] = CardValues[d])
      BY <1>0, <1>1, <3>0, BookFacts
    <3>4. Tally(CardValues', CardsOf(w) \ {c}) = Tally(CardValues, CardsOf(w)) - CardValues[c]
      <4> DEFINE all == Tally(CardValues, CardsOf(w))
                 rest == Tally(CardValues, CardsOf(w) \ {c})
                 gone == CardValues[c]
      <4>1. IsFiniteSet(CardsOf(w)) /\ IsFiniteSet(CardsOf(w) \ {c})
        BY BookFacts, FS_RemoveElement
      <4>2. \A d \in CardsOf(w) : CardValues[d] \in Nat
        BY <3>3, Zenon
      <4>3. \A d \in CardsOf(w) \ {c} : CardValues'[d] = CardValues[d]
        BY <3>3, Zenon
      <4>4. Tally(CardValues', CardsOf(w) \ {c}) = rest
        BY <4>1, <4>3, TallyAgree
      <4>5. \A d \in CardsOf(w) : all = CardValues[d] + Tally(CardValues, CardsOf(w) \ {d})
        BY <4>1, <4>2, TallyOfNaturals
      <4>6. all = gone + rest
        BY <3>0, <4>5, Zenon
      <4>7. gone \in Nat
        BY <3>0, <4>2, Zenon
      <4>8. rest \in Nat
        BY <4>1, <4>2, TallyOfNaturals
      <4> HIDE DEF all, rest, gone
      <4>9. rest = all - gone
        BY <4>6, <4>7, <4>8
      <4> QED
        BY <4>4, <4>9, Zenon DEF all, rest, gone
    <3> QED
      BY <1>0, <3>0, <3>1, <3>2, <3>4 DEF BookInv, BooksTally
  <2>2. CASE w # pos[c].depositor
    <3>1. stats'[w] = stats[w]
      BY <1>2, <2>2, BookFacts
    <3>2. /\ CardsOf(w)' = CardsOf(w)
          /\ Tally(CardValues', CardsOf(w)') = Tally(CardValues, CardsOf(w))
      BY <1>0, <2>2, OthersCounters DEF Departs
    <3> QED
      BY <3>1, <3>2 DEF BookInv, BooksTally
  <2> QED
    BY <2>1, <2>2
<1> QED
  BY <1>3, <1>4, <1>5, <1>6 DEF BooksTally

\* A position belongs to the wallet that deposited it until its account closes.
LEMMA OwnersStay ==
  ASSUME LifeInv, [Next]_vars,
         \A c \in Cards : pos[c].state # "None" => pos[c].depositor \in Wallets
  PROVE  \A c \in Cards : pos'[c].state # "None" => pos'[c].depositor \in Wallets
BY LifeSteps DEF LifeInv, Kept, Strays, Entered, WasJudged, Left, WasSeized, Moved

LEMMA StepKeepsBooks == LifeInv /\ BookInv /\ [Next]_vars => BookInv'
<1> SUFFICES ASSUME LifeInv, BookInv, [Next]_vars PROVE BookInv'
  OBVIOUS
<1>1. TypeInv'
  BY StepKeepsType DEF BookInv
<1>2. \A c \in Cards : pos'[c].state # "None" => pos'[c].depositor \in Wallets
  BY OwnersStay DEF BookInv
<1>3. BooksTally' /\ \A c \in ActiveCards' : Weighable(pos'[c].recorded_value)
  <2>1. CASE BooksRest
    <3>1. /\ ActiveCards' = ActiveCards
          /\ \A d \in ActiveCards : /\ pos'[d].depositor = pos[d].depositor
                                    /\ pos'[d].recorded_value = pos[d].recorded_value
      BY <2>1 DEF BooksRest, Stays, ActiveCards
    <3>2. \A d \in ActiveCards : CardWeights'[d] = CardWeights[d] /\ CardValues'[d] = CardValues[d]
      BY <3>1 DEF CardWeights, CardValues, ActiveCards
    <3>3. Tally(CardWeights', ActiveCards) = Tally(CardWeights, ActiveCards)
      BY <3>2, BookFacts, TallyAgree
    <3>4. ASSUME NEW w \in Wallets
          PROVE  /\ CardsOf(w)' = CardsOf(w)
                 /\ Tally(CardValues', CardsOf(w)) = Tally(CardValues, CardsOf(w))
      <4>1. CardsOf(w)' = CardsOf(w)
        BY <3>1 DEF CardsOf
      <4>2. \A d \in CardsOf(w) : CardValues'[d] = CardValues[d]
        BY <3>2 DEF CardsOf
      <4> QED
        BY <4>1, <4>2, BookFacts, TallyAgree
    <3>5. /\ n_real' = n_real /\ w_real' = w_real /\ index' = index /\ stats' = stats
      BY <2>1 DEF BooksRest
    <3>6. BooksTally'
      BY <3>1, <3>3, <3>4, <3>5 DEF BookInv, BooksTally
    <3> QED
      BY <3>1, <3>6 DEF BookInv
  <2>2. ASSUME NEW c \in Cards, BooksMove(c)
        PROVE  BooksTally' /\ \A d \in ActiveCards' : Weighable(pos'[d].recorded_value)
    <3>1. BooksTally'
      BY <2>2, PoolAssumption, ArrivalCounters, RevaluationCounters, DepartureCounters DEF BooksMove
    <3>2. pos'[c].state = "Active" => Weighable(pos'[c].recorded_value)
      BY <2>2 DEF BooksMove, Arrives, Revalued, Departs
    <3>3. \A d \in Cards \ {c} : pos'[d].state = "Active" => Weighable(pos'[d].recorded_value)
      BY <2>2 DEF BooksMove, Stays, BookInv, ActiveCards
    <3> QED
      BY <3>1, <3>2, <3>3 DEF ActiveCards
  <2> QED
    BY <2>1, <2>2, StepMovesBooks DEF BookInv
<1> QED
  BY <1>1, <1>2, <1>3 DEF BookInv

LEMMA InitBooks == Init => LifeInv /\ BookInv
<1> SUFFICES ASSUME Init PROVE LifeInv /\ BookInv
  OBVIOUS
<1>1. ActiveCards = {} /\ \A w : CardsOf(w) = {}
  BY DEF Init, NoPosition, ActiveCards, CardsOf
<1>2. \A f : Tally(f, {}) = 0
  BY TallyEmpty
<1>3. Cardinality({}) = 0
  BY FS_EmptySet
<1>4. BooksTally
  BY <1>1, <1>2, <1>3 DEF Init, EmptyLedger, BooksTally
<1> QED
  BY <1>1, <1>4, InitType DEF Init, NoPosition, BookInv, LifeInv

\* The counters the handlers move one checked step at a time never drift from the
\* positions they count: every path in, every appraisal and every path out adds
\* and takes away the weight and the value the position had, for its own wallet.
THEOREM BooksAlwaysBalance == Spec => []BooksBalance
<1>1. BookInv => BooksBalance
  BY BooksRestated DEF BookInv
<1> QED
  BY <1>1, InitBooks, StepKeepsLives, StepKeepsBooks, PTL DEF Spec

---------------------------------------------------------------------------------
(* The draw. *)

\* A batch is open only over a pool that holds a real card: it was opened over one,
\* and the freeze keeps every card in.
StockInv == open_batches \in Nat /\ (open_batches > 0 => n_real > 0)

LEMMA StepKeepsStock == TypeInv /\ StockInv /\ [Next]_vars => StockInv'
<1> SUFFICES ASSUME TypeInv, StockInv, [Next]_vars PROVE StockInv'
  OBVIOUS
<1>0. open_batches' \in Nat
  BY StepKeepsType DEF TypeInv, TypeOK
<1>1. CASE open_batches > 0
  BY <1>0, <1>1, StepFreezesDrawDomain DEF StockInv
<1>2. CASE UNCHANGED <<batches, open_batches, pending_roll_liability>> /\ open_batches = 0
  BY <1>0, <1>2 DEF StockInv
<1>3. ASSUME NEW n \in RollCounts, CommitRolls(n) PROVE n_real' > 0
  BY <1>3 DEF CommitRolls, Stocked, books
<1>4. ASSUME NEW b \in DOMAIN batches, NEW r \in Draws, VrfCallback(b, r)
      PROVE  UNCHANGED <<open_batches, n_real>>
  BY <1>4 DEF VrfCallback, books
<1>5. CASE RollStep
  BY <1>0, <1>3, <1>4, <1>5 DEF RollStep, StockInv
<1>6. open_batches = 0 \/ open_batches > 0
  BY DEF StockInv
<1> QED
  BY <1>1, <1>2, <1>5, <1>6, BatchesMoveInRolls

\* Where there is a real card there is real weight: every Active position weighs.
LEMMA RealWeight ==
  ASSUME BookInv, n_real > 0
  PROVE  ActiveCards # {} /\ w_real > 0
<1>1. /\ IsFiniteSet(ActiveCards) /\ n_real = Cardinality(ActiveCards)
      /\ w_real = Tally(CardWeights, ActiveCards)
      /\ \A c \in ActiveCards : CardWeights[c] \in Nat
  BY BookFacts DEF BookInv, BooksTally
<1>2. PICK c \in ActiveCards : TRUE
  BY <1>1, FS_EmptySet
<1>3. CardWeights[c] > 0
  <2>1. c \in Cards /\ pos[c].recorded_value \in Nat /\ Weighable(pos[c].recorded_value)
    BY <1>2, BookFacts DEF ActiveCards, BookInv, Position
  <2>2. CardWeights[c] = WeightOf(pos[c].recorded_value)
    BY <2>1 DEF CardWeights
  <2> QED
    BY <2>1, <2>2, WeightOfType
<1>4. w_real = CardWeights[c] + Tally(CardWeights, ActiveCards \ {c})
  BY <1>1, TallyOfNaturals
<1>5. Tally(CardWeights, ActiveCards \ {c}) \in Nat
  <2>1. /\ IsFiniteSet(ActiveCards \ {c})
        /\ \A d \in ActiveCards \ {c} : CardWeights[d] \in Nat
    BY <1>1, FS_RemoveElement
  <2> QED
    BY <2>1, TallyOfNaturals
<1> QED
  BY <1>1, <1>2, <1>3, <1>4, <1>5

\* Every roller draws from a pool with real cards in it: the pool had one when the
\* batch was opened, no exit, closure or seizure takes it out from under the batch,
\* and its weight is in the domain the callback records.
THEOREM DrawsAlwaysHoldRealCards == Spec => []RealCardsInEveryDraw
<1>1. Init => BatchInv /\ StockInv
  BY InitType DEF Init, BatchInv, BatchSeesLivePool, StockInv
<1>2. BatchInv /\ BookInv /\ StockInv => RealCardsInEveryDraw
  <2> SUFFICES ASSUME BatchInv, BookInv, StockInv, NEW b \in DOMAIN batches
               PROVE  /\ ActiveCards # {}
                      /\ batches[b].state = "Resolved" =>
                           AggregateWeight(0, batches[b].expected_blanks,
                                           batches[b].s_blank_faces)
                             < batches[b].expected_w
    BY DEF RealCardsInEveryDraw
  <2>1. Len(batches) \in Nat /\ DOMAIN batches = 1..Len(batches) /\ open_batches = Len(batches)
    BY LenProperties DEF BatchInv, TypeInv, TypeOK
  <2>2. n_real > 0
    BY <2>1 DEF StockInv
  <2>3. ActiveCards # {} /\ w_real > 0 /\ w_real \in Nat
    BY <2>2, RealWeight, BookFacts
  <2> DEFINE bw == BlankWeight(blanks, cfg.blank_faces)
  <2>4. bw \in Int
    <3>1. /\ cfg.blank_faces \in Nat \X Nat \X Nat /\ blanks \in Nat \X Nat \X Nat
          /\ \A i \in 1..3 : cfg.blank_faces[i] > 0
      BY ConfigFields DEF BatchInv, TypeInv, TypeOK, ValidConfig
    <3>2. \A i \in 1..3 : WeightOf(cfg.blank_faces[i]) \in Nat
      BY <3>1, RebalanceAssumption DEF WeightOf
    <3> QED
      BY <3>1, <3>2 DEF BlankWeight
  <2> HIDE DEF bw
  <2>5. ASSUME batches[b].state = "Resolved"
        PROVE  AggregateWeight(0, batches[b].expected_blanks, batches[b].s_blank_faces)
                 < batches[b].expected_w
    <3>1. /\ batches[b].s_blank_faces = cfg.blank_faces
          /\ batches[b].expected_blanks = blanks
          /\ batches[b].expected_w = AggregateWeight(w_real, blanks, cfg.blank_faces)
      BY <2>5 DEF BatchInv, BatchSeesLivePool
    <3>2. /\ batches[b].expected_w = w_real + bw
          /\ AggregateWeight(0, batches[b].expected_blanks, batches[b].s_blank_faces) = 0 + bw
      BY <3>1 DEF AggregateWeight, bw
    <3> QED
      BY <2>3, <2>4, <3>2
  <2> QED
    BY <2>3, <2>5
<1>3. BatchInv => TypeInv
  BY DEF BatchInv
<1> QED
  BY <1>1, <1>2, <1>3, InitBooks, StepKeepsLives, StepKeepsBooks, StepKeepsBatches,
     StepKeepsStock, PTL DEF Spec

---------------------------------------------------------------------------------
(* The liability. *)

Dues == [b \in Nat |-> batches[b].n * batches[b].s_price]

LiabilityInv ==
  /\ TypeInv
  /\ open_batches = Len(batches)
  /\ pending_roll_liability = Tally(Dues, 1..Len(batches))

LEMMA DuesTallied ==
  ASSUME NEW bs, NEW S \in SUBSET Nat
  PROVE  MapThenSumSet(LAMBDA b : bs[b].n * bs[b].s_price, S)
           = Tally([b \in Nat |-> bs[b].n * bs[b].s_price], S)
BY ZenonT(30) DEF MapThenSumSet, MapThenFoldSet, Tally, SumTable

LEMMA DueType ==
  ASSUME TypeInv, NEW b \in 1..Len(batches)
  PROVE  b \in Nat /\ Dues[b] \in Nat
<1>1. batches \in Seq(Batch) /\ Len(batches) \in Nat
  BY LenProperties DEF TypeInv, TypeOK
<1>2. batches[b] \in Batch /\ b \in Nat
  BY <1>1, ElementOfSeq
<1>3. batches[b].n \in Nat /\ batches[b].s_price \in Nat
  BY <1>2 DEF Batch
<1>4. \A x, y \in Nat : x * y \in Nat
  OBVIOUS
<1> QED
  BY <1>2, <1>3, <1>4 DEF Dues

LEMMA StepKeepsLiability == LiabilityInv /\ [Next]_vars => LiabilityInv'
<1> SUFFICES ASSUME LiabilityInv, [Next]_vars PROVE LiabilityInv'
  OBVIOUS
<1>0. /\ TypeInv /\ TypeInv' /\ Len(batches) \in Nat
      /\ DOMAIN batches = 1..Len(batches)
      /\ IsFiniteSet(1..Len(batches))
      /\ \A b \in 1..Len(batches) : b \in Nat /\ Dues[b] \in Nat
  <2>1. TypeInv /\ TypeInv'
    BY StepKeepsType DEF LiabilityInv
  <2>2. Len(batches) \in Nat /\ DOMAIN batches = 1..Len(batches)
    BY <2>1, LenProperties DEF TypeInv, TypeOK
  <2>3. IsFiniteSet(1..Len(batches))
    BY <2>2, FS_Interval
  <2>4. \A b \in 1..Len(batches) : b \in Nat /\ Dues[b] \in Nat
    BY <2>1, DueType
  <2> QED
    BY <2>1, <2>2, <2>3, <2>4
<1>1. CASE UNCHANGED <<batches, open_batches, pending_roll_liability>>
  <2>1. Dues' = Dues
    BY <1>1 DEF Dues
  <2> QED
    BY <1>0, <1>1, <2>1 DEF LiabilityInv
<1>2. ASSUME NEW n \in RollCounts, CommitRolls(n) PROVE LiabilityInv'
  <2> DEFINE k == Len(batches)
             due == n * cfg.price
  <2>1. /\ Len(batches') = k + 1 /\ \A b \in 1..k : batches'[b] = batches[b]
        /\ batches'[k + 1].n = n /\ batches'[k + 1].s_price = cfg.price
    <3>1. /\ Len(batches') = k + 1 /\ \A b \in 1..k : batches'[b] = batches[b]
          /\ batches'[k + 1] =
              [state |-> "Committed", n |-> n, randomness |-> 0, s_price |-> cfg.price,
               s_ticket |-> cfg.ticket_target, s_blank_faces |-> cfg.blank_faces,
               expected_w |-> 0, expected_blanks |-> NoBlanks]
      BY <1>0, <1>2, CommitAppends, Zenon
    <3> QED
      BY <3>1
  <2>2. /\ pending_roll_liability' = pending_roll_liability + due
        /\ open_batches' = open_batches + 1
    BY <1>2 DEF CommitRolls, Liability
  <2>3. due \in Nat
    <3>1. n \in Nat /\ cfg.price \in Nat
      BY <1>0, PoolAssumption, ConfigFields DEF TypeInv, TypeOK
    <3> QED
      BY <3>1
  <2>4. k + 1 \in Nat /\ k + 1 \notin 1..k /\ 1..k+1 = (1..k) \cup {k + 1}
    BY <1>0
  <2>5. Dues'[k + 1] = due /\ \A b \in 1..k : Dues[b] \in Nat /\ Dues'[b] = Dues[b]
    BY <1>0, <2>1, <2>4 DEF Dues
  <2> HIDE DEF due
  <2>6. Tally(Dues', (1..k) \cup {k + 1}) = Tally(Dues, 1..k) + Dues'[k + 1]
    <3> DEFINE f == Dues
               e == Dues'
               S == 1..k
               b == k + 1
    <3>1. /\ IsFiniteSet(S) /\ b \notin S /\ e[b] \in Nat
          /\ \A d \in S : f[d] \in Nat /\ e[d] = f[d]
      BY <1>0, <2>3, <2>4, <2>5
    <3> HIDE DEF f, e, S, b
    <3>2. Tally(e, S \cup {b}) = Tally(f, S) + e[b]
      BY ONLY <3>1, TallyAdd
    <3> QED
      BY <3>2 DEF f, e, S, b
  <2>7. pending_roll_liability' = Tally(Dues', 1..Len(batches'))
    BY <2>1, <2>2, <2>4, <2>5, <2>6 DEF LiabilityInv
  <2> QED
    BY <1>0, <2>1, <2>2, <2>7 DEF LiabilityInv
<1>3. ASSUME NEW b \in DOMAIN batches, NEW r \in Draws, VrfCallback(b, r)
      PROVE  LiabilityInv'
  <2>1. /\ Len(batches') = Len(batches)
        /\ \A d \in 1..Len(batches) : /\ batches'[d].n = batches[d].n
                                      /\ batches'[d].s_price = batches[d].s_price
    BY <1>0, <1>3, CallbackResolves
  <2>2. \A d \in 1..Len(batches) : Dues'[d] = Dues[d]
    BY <1>0, <2>1 DEF Dues
  <2>3. Tally(Dues', 1..Len(batches)) = Tally(Dues, 1..Len(batches))
    BY <1>0, <2>2, TallyAgree
  <2>4. UNCHANGED <<open_batches, pending_roll_liability>>
    BY <1>3 DEF VrfCallback
  <2> QED
    BY <1>0, <2>1, <2>3, <2>4 DEF LiabilityInv
<1> QED
  BY <1>1, <1>2, <1>3, BatchesMoveInRolls DEF RollStep

\* What the pool owes a roller is fixed when the batch is opened: no repricing,
\* pause, seizure or delivery moves it, and nothing takes it back.
THEOREM LiabilityStaysOnOpeningTerms == Spec => []LiabilityOnOpeningTerms
<1>1. Init => LiabilityInv
  <2> SUFFICES ASSUME Init PROVE LiabilityInv
    OBVIOUS
  <2>1. batches = << >> /\ 1..Len(batches) = {}
    BY DEF Init
  <2>2. Tally(Dues, {}) = 0
    BY TallyEmpty
  <2> QED
    BY <2>1, <2>2, InitType DEF Init, LiabilityInv
<1>2. LiabilityInv => LiabilityOnOpeningTerms
  <2> SUFFICES ASSUME LiabilityInv PROVE LiabilityOnOpeningTerms
    OBVIOUS
  <2>1. Len(batches) \in Nat /\ DOMAIN batches = 1..Len(batches)
    BY LenProperties DEF LiabilityInv, TypeInv, TypeOK
  <2>2. DOMAIN batches \in SUBSET Nat
    BY <2>1
  <2>3. pending_roll_liability = Tally(Dues, DOMAIN batches) /\ open_batches = Len(batches)
    BY <2>1 DEF LiabilityInv
  <2>4. pending_roll_liability =
          MapThenSumSet(LAMBDA b : batches[b].n * batches[b].s_price, DOMAIN batches)
    BY <2>2, <2>3, DuesTallied, Zenon DEF Dues
  <2> QED
    BY <2>3, <2>4, Zenon DEF LiabilityOnOpeningTerms
<1> QED
  BY <1>1, <1>2, StepKeepsLiability, PTL DEF Spec
=================================================================================
