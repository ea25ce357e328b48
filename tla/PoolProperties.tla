----------------------------- MODULE PoolProperties -----------------------------
(***************************************************************************)
(* What one pool must keep true whatever the order its instructions arrive  *)
(* in.  Invariants first, then action properties, then liveness, then the   *)
(* sentences of the repository that the code does not bear out.             *)
(***************************************************************************)
EXTENDS TierResolve, FiniteSetsExt

ActiveCards == {c \in Cards : pos[c].state = "Active"}
CardsOf(w) == {c \in ActiveCards : pos[c].depositor = w}
OwnedSlots == {pos[c].slot_index : c \in ActiveCards}

\* Every account holds values of its fields' types.
TypeOK ==
  /\ pos \in [Cards -> Position]
  /\ standing \in [Cards -> AllStandings]
  /\ position_counter \in Nat
  /\ stats \in [Wallets -> [active_positions: Nat, active_value: Words]]
  /\ w_real \in Nat /\ n_real \in Nat /\ blanks \in Nat \X Nat \X Nat
  /\ index \in LedgerType
  /\ tier \in Seq(TierEntry)
  /\ cfg \in Configs /\ ValidConfig(cfg)
  /\ {deposits_paused, rolls_paused, sweep_pending} \subseteq BOOLEAN
  /\ open_batches \in Nat /\ pending_roll_liability \in Nat
  /\ batches \in Seq(Batch)
  /\ now \in 0..MaxTime

\* The counters a handler moves one checked step at a time are at every moment
\* the sums over the Active positions they stand for: the pool's real weight
\* and count, the index's total, and each wallet's own counters.
BooksBalance ==
  /\ n_real = Cardinality(ActiveCards)
  /\ w_real = MapThenSumSet(LAMBDA c : WeightOf(pos[c].recorded_value), ActiveCards)
  /\ index.total = w_real
  /\ \A w \in Wallets :
       /\ stats[w].active_positions = Cardinality(CardsOf(w))
       /\ stats[w].active_value =
            MapThenSumSet(LAMBDA c : pos[c].recorded_value, CardsOf(w))

\* A leaf belongs to exactly one Active position and holds its weight; every
\* slot below the high-water mark that nobody owns is on the free stack once,
\* empty.  A slot released twice, or kept by a closed position, breaks this.
SlotsOwned ==
  /\ \A c, d \in ActiveCards : pos[c].slot_index = pos[d].slot_index => c = d
  /\ \A c \in ActiveCards : index.leaf[pos[c].slot_index] = WeightOf(pos[c].recorded_value)
  /\ \A s \in Slots \ OwnedSlots : index.leaf[s] = 0
  /\ \A i, j \in 1..Len(index.free) : index.free[i] = index.free[j] => i = j
  /\ {index.free[i] : i \in 1..Len(index.free)} = (0 .. index.high - 1) \ OwnedSlots

\* The flag on a position and the entry in the tier account never part: a
\* member that is displaced, shrunk away, closed or seized loses both, and the
\* entry of one that stays carries its current value.
TierMirrorsMembers ==
  /\ \A i, j \in 1..Len(tier) : tier[i].position = tier[j].position => i = j
  /\ Holders(tier) = {c \in Cards : pos[c].in_tier}
  /\ \A i \in 1..Len(tier) :
       LET c == tier[i].position
       IN  pos[c].state = "Active" /\ tier[i] = Entry(c, pos[c])

\* The tier is in strict rank order and no longer than its size, through
\* insertions, refreshes, vacancies and size changes.
TierRanked ==
  /\ Len(tier) <= cfg.tier_size
  /\ \A i, j \in 1..Len(tier) : i < j => Outranks(tier[i], tier[j])

\* A short tier keeps commit_rolls shut, and update_tier can always mend it: with
\* fewer seats taken than there are real cards to take them, some Active
\* position is eligible and would be seated, batch open or not.
ShortTierCurable ==
  ~TierFull => \E c \in Cards : EligibleCandidate(c) /\ Admits(tier, cfg.tier_size, Entry(c, pos[c]))

\* What the handlers must find among the accounts they are passed when they seat
\* an entry: the member it displaces.
DisplacedBy(entry) ==
  IF Admits(tier, cfg.tier_size, entry) THEN Displaced(tier, cfg.tier_size) ELSE {}

\* The activation of a position that was deposited before the last member, but in
\* the same second as the last member's and at the same value.
OlderTwin(entry) ==
  tier # << >> /\ LET member == tier[Len(tier)]
                 IN  /\ entry.value = member.value
                     /\ entry.activated_at = member.activated_at
                     /\ entry.position_id < member.position_id

\* tier-resolve.ts:237: read from the accounts alone, in whatever order positions
\* were deposited, activated, revalued and displaced, the script names the very
\* member the handler will settle.  The one exception is an older twin, which
\* tier-resolve.ts:39 overlooks: its activation fails until the next second.
ResolvedDisplacementsMatch ==
  \A c \in Cards, v \in Values :
    LET stored == Entry(c, [pos[c] EXCEPT !.recorded_value = v])
        fresh == [stored EXCEPT !.activated_at = now]
    IN  /\ EligibleCandidate(c) => ResolveDisplaced(FALSE, stored) = DisplacedBy(stored)
        /\ pos[c].state = "Pending" /\ ~OlderTwin(fresh)
             => ResolveDisplaced(TRUE, fresh) = DisplacedBy(fresh)

\* While a batch is open the pool it will be drawn from is the pool it was
\* opened on: same faces, same ticket, and once the randomness is in, the very
\* weight and blanks the callback recorded.
BatchSeesLivePool ==
  \A b \in DOMAIN batches :
    /\ batches[b].s_ticket = cfg.ticket_target
    /\ batches[b].s_blank_faces = cfg.blank_faces
    /\ batches[b].state = "Resolved" =>
         /\ batches[b].expected_w = AggregateWeight(w_real, blanks, cfg.blank_faces)
         /\ batches[b].expected_blanks = blanks

\* A roller can win a card: from its commit on, whatever is withdrawn, seized, closed
\* or updated, the pool under a batch holds real cards, and the draw recorded for it
\* ranges over more than its blanks.
RealCardsInEveryDraw ==
  \A b \in DOMAIN batches :
    /\ ActiveCards # {}
    /\ batches[b].state = "Resolved" =>
         AggregateWeight(0, batches[b].expected_blanks, batches[b].s_blank_faces)
           < batches[b].expected_w

\* Repricing while a batch is open does not move what the pool owes its roller:
\* the liability is the batches' rolls at the prices they were committed at.
LiabilityOnOpeningTerms ==
  /\ open_batches = Len(batches)
  /\ pending_roll_liability =
       MapThenSumSet(LAMBDA b : batches[b].n * batches[b].s_price, DOMAIN batches)

\* No state of the books, the index, the tier or the card's account shuts a
\* depositor in.  Once the pool is not frozen and the lock has passed, an Active
\* position can be withdrawn or, where the card might not move, seized; a
\* position that carries no weight can always be handed back or seized.  (No
\* classification of a card is refused by both gates, no exit rests on a transfer
\* that MPL Core may veto, and no checked subtraction or rebalance error strands
\* a position.)
ExitOpen ==
  \A c \in Cards :
    LET sure == standing[c] = "settleable"
        free == open_batches = 0 /\ now >= pos[c].lock_until
    IN  /\ pos[c].state = "Active" /\ free =>
             IF sure THEN ENABLED Withdraw(c) ELSE ENABLED SeizeActive(c)
        /\ pos[c].state = "Rejected" =>
             IF sure THEN ENABLED ReturnRejected(c) ELSE ENABLED SeizeWeightless(c)
        /\ pos[c].state = "ClosedBelowFloor" =>
             IF sure THEN ENABLED ClaimNft(c) ELSE ENABLED SeizeWeightless(c)
        /\ pos[c].state = "Seized" /\ sure => ENABLED ClaimNft(c)

---------------------------------------------------------------------------------

\* No step changes what an open batch's draw ranges over: the real weight, its
\* leaves, the real count, the blanks, their faces or the ticket target.
DrawDomainFrozen ==
  [][open_batches > 0 =>
       /\ UNCHANGED <<w_real, n_real, blanks, index>>
       /\ cfg'.blank_faces = cfg.blank_faces
       /\ cfg'.ticket_target = cfg.ticket_target]_vars

\* Whatever moves the real weight or the real count re-targets the blanks to it
\* in the same step, so no later instruction reads blanks for another pool.
BlanksFollowWeight ==
  [][w_real' # w_real \/ n_real' # n_real =>
       blanks' = Evaluate(n_real', w_real', cfg'.blank_faces, cfg'.ticket_target)]_vars

\* No position outside the tier outranks one inside.
TierIsTop ==
  \A d \in Eligible : \A i \in DOMAIN tier : ~Outranks(Entry(d, pos[d]), tier[i])

\* tier-resolve.ts:186: nothing on chain ranks successors or asks for one.  A closing
\* that names the successor the script resolves leaves the tier no shorter than
\* commit_rolls wants it, and the members still the highest-ranked positions of all.
ResolvedClosingsKeepTheTop ==
  [][\A c \in Cards :
       /\ pos[c].state = "Active" /\ pos'[c].state # "Active"
       /\ Holders(tier') = (Holders(tier) \ {c}) \cup ResolveSuccessor(c)
       => (TierFull => TierFull') /\ (TierIsTop => TierIsTop')]_vars

\* A locked position leaves Active only if its card was burned: no appraisal,
\* withdrawal, freeze or transfer-out frees it early.
LockHonoured ==
  [][\A c \in Cards :
       /\ pos[c].state = "Active" /\ now < pos[c].lock_until
       /\ pos'[c].state # "Active"
       => standing[c] = "burned"]_vars

\* close_seized is permissionless, so it gives nobody a seat: in a step that
\* seizes a position no other position enters the tier.
SeizureSeatsNobody ==
  [][\A c \in Cards :
       pos[c].state # "Seized" /\ pos'[c].state = "Seized"
       => Holders(tier') \subseteq Holders(tier)]_vars

\* A batch account outlives every later step with the terms it was opened on,
\* and a delivered draw is never replaced by a second or late delivery.
BatchWriteOnce ==
  [][\A b \in DOMAIN batches :
       /\ b \in DOMAIN batches'
       /\ batches'[b].s_price = batches[b].s_price /\ batches'[b].n = batches[b].n
       /\ batches[b].state = "Resolved" => batches'[b] = batches[b]]_vars

\* The positions of a pool live as CardLife promises: appraisals, batches, sweeps, tiers
\* and fees do nothing to a card's way in and out.
Life == INSTANCE CardLife WITH
  Positions <- Cards,
  life <- [c \in Cards |->
             [state |-> pos[c].state, depositor |-> pos[c].depositor,
              family |-> IF pos[c].state # "None" /\ c \in CoreCards THEN "core" ELSE "token",
              card |-> IF \/ pos[c].state = "None"
                          \/ standing[c] \in {"transferred", "burned"}
                       THEN "away" ELSE "escrowed"]]
PositionsLive == Life!Spec

---------------------------------------------------------------------------------

\* The oracle serves the requests it accepted and the clock advances; nothing
\* else is owed to anybody.
FairSpec ==
  /\ Spec
  /\ WF_vars(Tick)
  /\ WF_vars(\E b \in DOMAIN batches, r \in Draws : VrfCallback(b, r))

\* A committed batch resolves: no pause, sweep, repricing, seizure or tier
\* change after the commit can make the callback fail.
BatchResolves ==
  open_batches > 0 ~> /\ batches # << >>
                      /\ \A b \in DOMAIN batches : batches[b].state = "Resolved"

---------------------------------------------------------------------------------
(* Sentences of the repository that the code does not bear out. *)

\* README.md:42 and constants.rs:7 say a batch that has waited VRF_TIMEOUT_SLOTS
\* on the oracle's queue becomes recoverable; an open batch should thus close.
BatchRecovered == open_batches > 0 ~> open_batches = 0

\* exit_accounting.rs:13 says close_seized's Active row reads no open_batches.
SeizureNeedsNoRollGate ==
  \A c \in CoreCards :
    pos[c].state = "Active" /\ standing[c] = "burned" => ENABLED SeizeActive(c)

\* commit_rolls.rs:39 says update_tier runs only while no batch is open.
NoPromotionWhileOpen ==
  [][open_batches > 0 => Holders(tier') \subseteq Holders(tier)]_vars

\* update_config.rs:109 says a change of the faces or of the ticket target
\* re-targets the controller.
BlanksMatchSettings == blanks = Evaluate(n_real, w_real, cfg.blank_faces, cfg.ticket_target)
=================================================================================
