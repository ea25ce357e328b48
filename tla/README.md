# Verification of the bye_machine program

This directory holds TLA+ models of the Solana program `programs/bye_machine`
of this repository and of the operator script that picks its accounts, the TLC
configurations that check them on small instances, and TLAPS proofs of their main
theorems for every value of the constants. Paths below are relative to
`programs/bye_machine/src/` unless they start with `scripts/` or `tests/`.

A pool takes NFTs in, has an operator appraise them, gives each a draw weight
inverse to its value, fills up with valueless *blank* tickets until the average
ticket costs what the pool is priced at, and sells batches of rolls whose 32
random bytes come from a VRF oracle.

## The system

| Part | State | Operations | What makes it correct |
|---|---|---|---|
| Deposits (`instructions/deposit`) | `Position`, `WalletStats` | deposit, deposit_core, approve, reject, return_rejected(_core) | a card has one position; limits hold; activation moves every book at once |
| Valuation sweep (`instructions/value`) | `sweep_pending`, recorded values | begin, record_value, end | a new appraisal moves leaf, totals and rank together, or closes the position |
| Exits (`instructions/exit`, `common/exit_accounting.rs`) | positions, books, vault | withdraw(_core), claim_nft(_core), close_seized | nobody shut in, no lock evaded, books undone exactly |
| Weight index (`state/weight_index.rs`) | Fenwick tree, recycled slots, total | insert, remove, update, prefix_search | one interval per active position; no node overflows |
| Blank controller (`common/rebalance.rs`, `math.rs`) | `blanks` | evaluate after every weight operation | price as near the target as eight candidates allow; never an error for an accepted pool |
| Top tier (`common/tier.rs`, `instructions/tier`) | ranked entries, `in_tier` flags | promote, demote, refresh, vacate, fill, shrink | entries and flags agree; strict rank order |
| Rolls (`instructions/roll`) | `open_batches`, liability, `RollBatch` | commit_rolls, vrf_callback | the draw's domain is frozen; a draw is written once |
| Configuration (`instructions/admin`) | `Pool` fields, pauses | update_config, set_pause, init_pool | invariants between fields; no effect on an open batch |
| Core collateral census (`common/core_asset.rs`) | the card's and its collection's plugin registries | census, two gates, release | each classification is served by at least one gate; a seizure has a cause of the card's own |
| Escrow (`common/escrow.rs`) | vaults | deposit and release legs | the card leaves with its position, to the recorded depositor |
| Collection admission (`admit_collection`, `withdraw_collection`, `state/pool_collection.rs`, `common/standards.rs`) | `PoolCollection` | admit, narrow, withdraw | a card enters only under the record of its own collection; a narrowing carries a reason and strands nobody |
| Authorities and protocol configuration (`set_authorities`, `init_protocol`, `update_vrf_config`, `init_pool`) | `ProtocolConfig`, the list of pools | two-step rotation, queue migration, pool creation | a role goes only where its administrator sent it; a pool's index is its own |
| VRF queue reader (`common/vrf_queue.rs`) | none; reads the oracle's account | scan for a live request | exact on every queue the oracle leaves |
| Account resolution (`scripts/lib/tier-resolve.ts`) | none | displaced member, successor | agrees with the program; keeps the top of the ranking seated |
| Fee legs | accumulators, `owed_fees` | settled on exit and vacate | zero at this commit: nothing accrues |
| Other scripts, tests, IDL | none on chain | encoders, decoders | outside the program |

Every instruction is one atomic Solana transaction; instructions of different
actors interleave in any order between transactions, and whatever a handler
checks may have changed since its caller looked. They interact through shared
accounts only: `Pool` (books, settings, `open_batches`, `sweep_pending`),
`WeightIndex`, `TopTier`, `WalletStats` and the positions. Two outside parties
matter: the oracle, whose queue is shared with other programs and which may deliver
late, twice or never, and the authorities of an MPL Core card, who can freeze, move
or burn it while the vault holds it. Most accounts a handler reads are handed to it by
the caller, who may pick another pool's, another card's or a stale one.

What is hard to test here: a step in the middle of a batch; a member displaced
by somebody else's instruction; recycled slots; a closure that leaves the tier
short; a card that changes under an escrowed position; a substituted account; an
admission withdrawn, a role rotated or a queue migrated in the middle of
something; boundary draws; the controller's floors. `PROJECT.json` lists each with the line where it bites.

## The modules

| Module | Models | Relation |
|---|---|---|
| `Tier` | `common/tier.rs`: rank, promote, demote, refresh_member, shrink | pure operators on a sequence of entries, best first |
| `Rebalance` | `rebalance::evaluate`, `math::weight_of`, `aggregate_weight` | pure operators |
| `WeightLedger` | what the weight index promises, as operators on a record; the total is a word | used by `Pool`, and by `Ledger` |
| `Ledger` | the abstract machine over `WeightLedger` | the specification `WeightIndex` implements |
| `WeightIndex` | `state/weight_index.rs`, the tree itself | `INSTANCE Ledger WITH ledger <- LedgerView`, property `ImplementsLedger` |
| `Retargeting` | the controller driven by arbitrary weight operations | composes `Rebalance` alone, with more values |
| `Pool` | a pool and every handler that changes it | composes `Tier`, `Rebalance`, `WeightLedger` |
| `TierResolve` | `scripts/lib/tier-resolve.ts`: the accounts a script passes | operators over the state of `Pool`, which it extends |
| `PoolProperties` | invariants, action properties, liveness of `Pool` | extends `TierResolve`; `INSTANCE CardLife`, property `PositionsLive` |
| `CoreCensus` | `core_asset.rs`: the census of the two registries, the classification, the gates | pure operators |
| `Custody` | admission, both intakes, all exits, `close_seized`, over several pools and all standards | composes `CoreCensus`; `INSTANCE CardLife`, property `LivesAsPromised` |
| `CardLife` | what a pool promises about a card, one position at a time | the specification `Custody` and `Pool` both implement |
| `Protocol` | `ProtocolConfig`, `set_authorities`, `init_protocol`, `update_vrf_config`, `init_pool` | used by `Requests` |
| `VrfQueue` | `common/vrf_queue.rs` over cells, and the oracle's writing half | used by `Requests` |
| `Requests` | the batches of all pools as requests on the shared oracle queues | composes `Protocol` and `VrfQueue` |
| `MCPool`, `MCRetargeting`, `MCCustody`, `MCRequests` | constant values | for TLC |
| `OperatorProofs` | lemmas on `Tier`, `Rebalance` (its price and its bound), `WeightLedger`, and on sums over finite sets | for TLAPS |
| `TypeProofs` | type correctness of `Pool` | extends `OperatorProofs`; for TLAPS |
| `PoolProofs` | the books, slots, liability, batches and lives of `Pool` | extends `TypeProofs`; for TLAPS |
| `TierProofs` | the tier of `Pool`, what scripts resolve, and that no exit, appraisal or admission is refused | extends `PoolProofs`; for TLAPS |
| `RetargetingProofs` | the theorems on the controller | extends `OperatorProofs` and `Retargeting`; for TLAPS |
| `WeightIndexProofs` | the theorems on the tree, and that it implements `Ledger` | extends `WeightIndex`; for TLAPS |
| `CustodyProofs` | the theorems on `CoreCensus` and `Custody` | extends `Custody`; for TLAPS |
| `RequestProofs` | the theorems on `Protocol`, `VrfQueue` and `Requests` | extends `Requests`; for TLAPS |

### How Pool corresponds to the code

`pos[c]` is the `Position` account of card `c` (its address is derived from the
mint, so a card has at most one); state `"None"` is an account that does not
exist. `stats` are the `WalletStats`; `w_real`, `n_real`, `blanks`, `cfg`,
`deposits_paused`, `rolls_paused`, `sweep_pending`, `open_batches` and
`pending_roll_liability` are fields of `Pool`; `index` is the weight index as its
callers see it; `tier` is `TopTier.entries[..len]`; `batches` are the
`RollBatch` accounts, whose number is `batch_counter`. `standing[c]` is what
the escrowed card's own account shows, in the terms of `core_asset.rs`.

One action per handler. A `require!`, a checked subtraction or a failing call
aborts the transaction and leaves every account as it was, so it is a guard of
the action; the order of checks therefore shows only in the error code. Two pairs of
handlers that do the same to this state are one action: `deposit` and
`deposit_core`, `withdraw` and `withdraw_core`, `return_rejected` and its Core
twin, `claim_nft` and its Core twin (whose additional `Seized` source is a
disjunct). `record_value` and `close_seized` are split by outcome.

- `ApproveDeposit`: limits, weight and count, index insertion, wallet counters,
  promotion with settlement of a displaced member, controller: one step.
- `RecordRefresh`, `RecordClose`: the three outcomes of `classify`; *Refresh* and
  *Retained* do the same to this state.
- These three refuse what does not fit a u64: the total weight (`checked_add` in the index,
  `narrow_expected_total`; `WeightDesync`) and the wallet's `active_value`. `Lands` and `Words`
  state the two limits.
- `Withdraw`, `SeizeActive`, `RecordClose` share `DepartWeight`, the six books
  each of the three handlers moves, and `LeaveSeat`, the vacated seat and its
  optional successor. Which successor is the caller's choice, so it is an input.
- `UpdateConfig`: one `ConfigUpdate` variant, `validate` on the merged settings,
  the weight freeze where `requires_weight_freeze` asks for it, and the eviction
  of the tail when `tier_size` shrinks.
- `CommitRolls`, `VrfCallback`: `apply_commit` and `apply_resolve`. A delivery
  is possible any number of times at any later moment.
- `Tick` is the clock; `CollateralMoves` are the authorities of a Core card.

Left out of `Pool`: fee amounts and accumulators (nothing at this commit
increments one, so every payout is zero), the sweep's report counters (a u32 of
appraisals per sweep, a u64 of sweeps) and observation stamps, settings nobody reads (allocation, fee, buyback, T-04,
cadence), account addresses and signers, collection admission (a deposit of an
admitted card is any deposit; `Custody` has it), the refusal of the treasury's own
position, the USDC transfer of a commit.

### How Custody corresponds to the code

`family[c]` is what a card's own account declares: its standard and its
collection. Which standards `resolve_standard` tells apart is data here, `"edition"`
standing for those of neither family and `"unverified"` for a collection without
a verified creator. `holder[c]` is the card's owner: a wallet, the vault of a
position, or nobody once it is burned. `asset` and `group` are the plugin registries of a Core
card and of a collection; a registry is readable or not and holds internal records
and the events its external adapters check. `CoreCensus` follows
`core_asset.rs` type by type: which plugins are inert, which are decided by a field,
which are unknown, what outweighs what. The two operators `CoreRefuses` and `CoreMoves`
are MPL Core's side as far as the comments record measurements of it; in between
Core may do either, and a release is then allowed and not promised.

Every account that the handler takes from its caller and checks itself is an input
with its check beside it: the admission record (`RequireAdmits`), the collection account
(`BoundCollection`), the destination of a release (`OwnDestination`). Addresses derived
from seeds (the position, the vault) are not inputs. `ReleaseToken` and
`ReleaseCore` are `release_from_vault` and `release_core_from_vault`, one action
per exit handler on top. `approve`, `reject` and the closing `record_value` are
reduced to the state of the position; their books are in `Pool`, and so are the
lock and the freeze of an open batch, which only forbid some of these steps.
`DelegateMoves` may return a card to the vault of any standing position, the
reversible seizure `close_seized.rs` keeps the account for. Not modelled: a Core
asset that leaves its collection while escrowed (`core_asset.rs` says MPL Core offers no way).

### How Requests corresponds to the code

`VrfQueue` keeps the account as a header and cells; the discriminator, the callback
metas and the arguments of an item are one length, and the checks that
an item's regions follow it inside the account are `WellFormed`. The oracle is not in
this repository: `Enqueue` and `RemoveItem` are what
`tests/fixtures/vrf/PROVENANCE.md` records of it, an append at the cursor, a cleared
`used` in place and a trim of trailing holes, and the oracle's own write of a shorter
item over a longer dead one, which leaves half items above the cursor.
`Requests.CommitRolls` pins the queue to the configured one, as the accounts of
`commit_rolls` do; `Fulfil` is the oracle's removal of the item and
`vrf_callback` in one transaction. `Purge` removes a request that is never answered.
`mandate`, `asked` and `outstanding` are history variables no action reads.

## What the runs check

| Run | Instance | What it shows |
|---|---|---|
| `pool_books` | 3 cards, 3 leaves, tier of 1 or 2 seats, values below, at and above the floor, 4 deposits | `BooksBalance`, `SlotsOwned`, `TierMirrorsMembers`, `TierRanked`, `ShortTierCurable`, `BlanksFollowWeight`, `ResolvedDisplacementsMatch`, `ResolvedClosingsKeepTheTop`, `TypeOK` |
| `pool_custody` | a Core card in 5 standings and a plain card, locks of 0 and 2, clock to 2, batches | `ExitOpen`, `LockHonoured`, `SeizureSeatsNobody`, `PositionsLive` |
| `pool_config` | 2 cards, 9 settings reached by every kind of update, all pauses, batches of 1 or 2 rolls, two draws | `DrawDomainFrozen`, `BatchSeesLivePool`, `RealCardsInEveryDraw`, `LiabilityOnOpeningTerms`, `BatchWriteOnce`, `BatchResolves` |
| `custody` | one card that starts as any standard of any collection, 2 pools, 2 collections, 2 wallets, 3 masks, 3 card registries, 2 collection registries | `VaultsBacked`, `NothingStranded`, `CardGoesHome`, `SeizedForCause`, `EnteredUnderOwnRecord`, `LivesAsPromised`, `TypeOK` |
| `requests` | 2 pools, 2 oracle queues of 5 cells, items of 1 and 2 cells, one foreign request, 2 roles, 2 keys, 3 index accounts of which one is not blank | `ScanIsExact`, `AbsenceIsFinal`, `IndexesAreTheirPools`, `RotationsAreMandated`, `TypeOK` |
| `weight_index` | 5 leaves (not a power of two), weights 1 and 3, a word of 11, arbitrary callers | `NodesFit`, `SearchFindsTheInterval`, `SlotsPartition`, `GrantsWhatTheLedgerGrants`, `ImplementsLedger` |
| `retargeting` | 3 settings, up to 3 positions of each of 5 values, blank counts up to 25 | `TooHeavyHoldsNoBlanks`, `PriceWithinHalfABlank`, `NoMiddleFillDoesBetter`, `NoRefusalWithinBound` |

The bounds are chosen for the cases. Three cards and two seats are the least
with a displacement, a vacancy and a successor at once; four deposits let a slot
be recycled and reused; a full index is reached with three leaves. Two cards
suffice for custody and configuration, whose actions concern one card or none.
The tree has internal nodes of several levels, a last node that is not a power of
two, and totals that hit the word. `WEIGHT_C` is scaled to 420 or 1000, which
divide some values exactly and leave remainders for others; `MaxTime`,
`MaxDeposits`, `MaxHeld`, `MaxWord` and `MaxCount` are the remaining bounds. `MaxCount` stands
for the largest u32; the 25 of `retargeting` holds one more card under two settings for every
pool of the run, and under the third for pools of up to three cards only. `MaxWord` stands
for the largest u64. In `pool_books` its 180 is exactly the largest total that three cards
reach. In `pool_custody` its 160 is less: two locked cards appraised below the floor are
retained at 84 each, so the second such appraisal is refused. Elsewhere it is out of reach;
`weight_index` meets it with arbitrary callers. Deadlock
is checked in every run: there is always a promised step, a pause or a delivery.

One card suffices for `custody`: cards meet only in shared collections and
records, whose content changes freely around the one card, while two pools and two
collections are what a substituted record or account needs. The card's registry
takes each of the three verdicts, the collection's is clear or frozen; the census over every content
of two registries is the theorem `GatesFollowCore`. Five cells hold two long
requests of this program and a short foreign one between them, so holes, trims,
overwritten items and a full queue all occur; the second queue is what a migration
needs, and `MaxPools` and `MaxForeign` are the bounds.

Symmetry is used where no model value of a set is singled out and no
liveness is checked: cards and wallets in `pool_books`, wallets and pools in `custody`,
the queues and the blank index accounts in `requests`.

### Fairness

`FairSpec` assumes weak fairness of the clock and of the oracle's delivery: a
request that stays acceptable is eventually served. The code cannot make the
oracle answer; `BatchResolves` says that *if* it does, no pause, sweep,
repricing, seizure or tier change in between makes the program refuse. Nothing
else is fair: no operator, depositor or administrator has to act.

### Where the repository's text and code differ

Five runs expect a violation; each checks one sentence of a comment or of
`README.md` against the code.

| Run | Sentence | Code |
|---|---|---|
| `batch_recovery` | a batch that waits too long becomes recoverable (`README.md`, `constants.rs`) | no instruction closes or recovers a batch; `open_batches` only grows, so one batch freezes the pool's weight for good |
| `seize_gate` | the Active row of `close_seized` reads no `open_batches` and no `lock_until` (`exit_accounting.rs`) | it reads both |
| `tier_gate` | `update_tier` runs only while no batch is open (`commit_rolls.rs`) | it has no such check |
| `stale_blanks` | a change of faces or ticket target re-targets the controller (`update_config.rs`) | the handler never evaluates it |
| `retargeting_faces` | every accepted face has `T*w_d > C` (`rebalance.rs`) | false after the floor division for faces above 10^9 units next to the target; every weight operation then fails |

A sixth difference has no run of its own. `scripts/lib/tier-resolve.ts:36` says a position
about to be activated never wins a tie against a member, because it is activated later
and `position_id` is monotonic. `position_id` is assigned by the deposit, not by the
approval: a position deposited earlier, approved in the same second as a member of
equal value was, outranks it (`common/tier.rs`, `rank`). The script then resolves no
displaced member, and the approval fails until the clock moves. `ResolvedDisplacementsMatch`
states the agreement with this one exception, `OlderTwin`; without the exception TLC
finds the violation in `pool_books`.

Because no batch closes at this commit, runs with batches see at most one; the
recovery and settlement handlers the comments speak of are not modelled, since there
is no code to model.

## What is proved

Every theorem is a consequence of `Spec` (no fairness) under the assumptions named
in the modules: `RebalanceAssumption`, `CapacityAssumption`, `WordAssumption`, `PoolAssumption`,
`ConfigAssumption` for `Pool`, and `WeightIndexAssumption`, `RetargetingAssumption`,
`CustodyAssumption`, `ProtocolAssumption`, `QueueAssumption`, `RequestsAssumption` for the
others. They bound the kinds of the constants and nothing else: any set
of cards (finite), wallets, pools, collections, registries, keys, roles, appraisals (finite in
`Retargeting`), locks,
draws and settings, any tier size up to 20, any capacity, any queue and any
number of steps. TLC evaluates them in the runs. Four theorems have a hypothesis of their
own on the settings or appraisals, `SmallFaces`, `ConfigsServe` or `ValuesFit`; all are explained below.

| Theorem on `Pool` | Property | Argument |
|---|---|---|
| `TypeCorrect` | `TypeOK` | inductive invariant `TypeInv` |
| `BooksAlwaysBalance` | `BooksBalance` | inductive invariant `BookInv`, from one lemma on what a step does to the books |
| `SlotsAlwaysOwned` | `SlotsOwned` | inductive invariant `SlotInv`, from the same lemma |
| `TierAlwaysRanked`, `TierAlwaysMirrors` | `TierRanked`, `TierMirrorsMembers` | inductive invariant `RosterInv` |
| `ShortTierAlwaysCurable` | `ShortTierCurable` | counting: the tier holds distinct Active positions, `n_real` counts all of them |
| `DisplacementsAlwaysMatch` | `ResolvedDisplacementsMatch` | `RosterInv` and `StampsPast`: nobody was activated in the future |
| `ClosingsAlwaysKeepTheTop` | `ResolvedClosingsKeepTheTop` | `RosterInv` and `BooksBalance`; the top of a finite ranking is unique |
| `ExitsAlwaysGranted` | `ExitOpen` without `ENABLED` | `BookInv`, `SlotInv`, `RosterInv` together |
| `RefusedOnlyByLimits` | the index refuses an appraisal just when the total does not fit a word, an admission just when it is full or the total does not fit | the same three; a pigeonhole between slots and positions |
| `FittingValuesAlwaysFit` | no sum leaves its word | under `ValuesFit`; fewer positions than leaves, each at most a leaf's share |
| `ControllerAlwaysServes` | what `ExitsAlwaysGranted` and `RefusedOnlyByLimits` assume of the controller | under `ConfigsServe`; the positions own distinct slots, so the index bounds the pool |
| `LiabilityStaysOnOpeningTerms` | `LiabilityOnOpeningTerms` | inductive invariant `LiabilityInv` |
| `BatchesSeeLivePool` | `BatchSeesLivePool` | inductive invariant `BatchInv` |
| `DrawDomainStaysFrozen` | `DrawDomainFrozen` | one case per handler: those that move the domain ask for `open_batches = 0` |
| `BlanksAlwaysFollow` | `BlanksFollowWeight` | one case per handler: those that move weight or count run the controller last |
| `PricesAlwaysFollow` | `PriceWithinHalfABlank`, as an action property of `Pool` | the lemmas `StepRetargets` and `BestPrice` |
| `DrawsAlwaysHoldRealCards` | `RealCardsInEveryDraw` | inductive invariant `StockInv`, with `BookInv` for the weight |
| `BatchesWrittenOnce` | `BatchWriteOnce` | from `TypeInv`: an append keeps what is before it, a delivery finds its batch committed |
| `LocksHonoured` | `LockHonoured` | `StateMoves`: three handlers take a position out of Active |
| `SeizuresSeatNobody` | `SeizureSeatsNobody` | `StateMoves` and `DemoteSeatsNobody` |
| `PoolImplementsCardLife` | `PositionsLive` | inductive invariant `LifeInv`; `LifeSteps` sorts the moves of one position into those of `CardLife` |

| Theorem on `WeightIndex` and `Retargeting` | Property | Argument |
|---|---|---|
| `NodesAlwaysFit` | `NodesFit` | inductive invariant `IndexInv`; a node is the difference of two prefixes, and prefixes only grow |
| `SlotsAlwaysPartition` | `SlotsPartition` | part of `IndexInv` |
| `SearchAlwaysFindsTheInterval` | `SearchFindsTheInterval` | an invariant of the descent, by halving steps down to zero |
| `TreeImplementsLedger` | `ImplementsLedger` | `PrefixStep`: one walk up the tree moves exactly the prefixes from its leaf on |
| `IndexAlwaysHasRoom` | `GrantsWhatTheLedgerGrants` without `ENABLED` | a pigeonhole over the free stack |
| `PriceAlwaysWithinHalfABlank` | `PriceWithinHalfABlank` | `BestPrice`: `EvaluateBest` and a case split on the two anchors |
| `BooksNeverRefusedWithinBound` | `NoRefusalWithinBound` | `BoundGrants`: the deficit is largest where no card weighs anything |
| `NoMiddleFillEverDoesBetter` | `NoMiddleFillDoesBetter` | the error is linear in the middle face; the anchors enclose its zero |
| `HeavyPoolsHoldNoBlanks` | `TooHeavyHoldsNoBlanks` | under `SmallFaces`: every blank would add to the error |
| `SmallFacesEvaluate` | complement of a finding | under `SmallFaces`, every accepted setting evaluates |

| Theorem on `Custody` and `Requests` | Property | Argument |
|---|---|---|
| `NoCardBetweenTheGates`, `GatesFollowCore` | on every classification and every content of two registries | by the census' precedence |
| `CustodyTypeCorrect` | `TypeOK` | part of the inductive invariant `CustodyInv` |
| `VaultsStayBacked` | `VaultsBacked` | `CustodyInv` |
| `NobodyIsStranded` | `NothingStranded` without `ENABLED` | `CustodyInv`, `GatesFollowCore`, and that every position has an owner |
| `CardsGoHome` | `CardGoesHome` | one case per exit; a token card's place is `CustodyInv`'s, a Core card's is read by the gate |
| `SeizuresHaveCause` | `SeizedForCause` | `Reads` binds the collection before the census |
| `EntriesUnderOwnRecord` | `EnteredUnderOwnRecord` | only the two intakes create a position |
| `CustodyImplementsCardLife` | `LivesAsPromised` | a lemma on how one step moves one position, another on how it moves its card |
| `AuthorityIsMandated` | `RotationsAreMandated` | inductive invariant `RoleInv`: what is pending is what the standing mandate says |
| `IndexesNeverShared` | `IndexesAreTheirPools` | inductive invariant: an index names a pool that exists, or none |
| `RequestsTypeCorrect` | `TypeOK` | the shape of a queue under `Enqueue` and `RemoveItem` |
| `ReaderAlwaysExact` | `ScanIsExact` | inductive invariant `RequestInv`; on a tiled queue the walk meets every live item |
| `AbsenceStaysFinal` | `AbsenceIsFinal` | `RequestInv` and `ScanIsExact` on both sides of a step |

*Types.* `TypeOK` is not inductive. `promote` evicts at most one entry, so the tier
stays within `tier_size`, and `demote` followed by `promote` fits, only if it was
within it before; `TypeInv` adds that, the first conjunct of `TierRanked`. The step lemmas
rest on what the operators return
(`OperatorProofs`). `SeatExists`: the backward scan of `promote` ends, because a
set of naturals has a least element. `DemoteType`: a member's first entry exists and
exactly one entry goes. `EvaluateType`: the controller's `CHOOSE` has a witness,
because the order score, count of blanks, face 1, face 5 is total on the eight
candidates; minimising one key after another finds the best. Hence no successful
rebalance stores anything but three counts, and no counter a handler subtracts
from falls below zero.

*Books and slots.* `StepMovesBooks` says what any step can do to the books: nothing, or
one card arrives, is revalued or departs, the others stay. `SlotInv` adds to `SlotsOwned`
that owned slots lie below the high-water mark, without which the mark would hand one
out again. `BookInv` adds that an existing position has a known depositor and an Active one
a weighable value: otherwise a departure would subtract something other than what
its arrival added. `LiabilityInv` adds that the batches are those the counter numbers.

*Sums and walks.* The counters are sums over sets, the tree's prefixes and its search are
recursive functions. No induction theorem can be cited here, because each takes an
operator as a parameter; the proofs use least or greatest counterexamples instead: of the sets, depths or
nodes a claim fails for, take an extreme one and contradict it. That a recursive
definition has a value at all is shown the same way (`SumTableExists`, `TableExists`: a rule
that only reads smaller arguments has a table).

*The tier.* Rank order survives an insertion only if no two entries tie, so `RosterInv` carries
`IdsApart`: positions that exist have different ids, below the counter. It then keeps the
entries equal to those of the flagged positions, through displacement, succession,
shrinking and refresh. What scripts resolve is read from the accounts alone; with
the mirror and the order it coincides with what the handlers settle, and a closing
with the resolved successor leaves the highest-ranked positions seated.

*Exits.* `ExitGranted` lists what the exits ask of the books: a weight and a value no larger
than the counters, a leaf that holds the weight, room on the free stack (pigeonhole: an
occupied slot is not on it), a tier entry where there is a flag, and a gate for
every standing of the card. `GrantedExitsAreSteps` shows that the list is complete: with
the handler's assignments it makes a step of `Withdraw` or of `SeizeActive`; `WaysOutAreSteps` and
`GrantedCallsAreSteps` do the same for `Custody` and `WeightIndex`. The controller
is granted under `ControllerServes`: faces it can mix to the target, and
`n_real * WeightC < MaxCount * Den2`, which keeps the blank count within its u32. It cannot be
dropped: the run `retargeting_faces` shows accepted settings the controller refuses.
`ConfigsServe` asks the same of every valid setting, for as many cards as the index has leaves;
with 16384 leaves and 32-bit counts it holds unless a middle face lies within a few
parts in a million of the ticket target, or a face weighs nothing. Then
`ControllerAlwaysServes` removes the hypothesis: in no reachable state is an exit refused.

*Appraisals and admissions.* `AppraisalGranted` and `AdmissionGranted` are the same list for
`record_value` and `approve_deposit`, complete by `GrantedAppraisalsAreSteps`: the old weight is in
the leaf, a member fits back into the tier it left, and while the pool is smaller than the index
a free or unused leaf is left and clean (`SlotToTake`); in a pool as large as the index none is
(`SlotTaken`). What remains to refuse is what the
operator decides or waits for, the limits, the lock, the sweep, an open batch, a full index, and
two words: `WeightDesync` where the total weight would pass a u64, `ArithmeticFailure` where the
wallet's `active_value` would. The first can be met: a locked position is retained at any
appraisal below the floor, and at an appraisal of one its weight is all of `WEIGHT_C = 10^18`, so nineteen of
them are too many. Such an appraisal is refused before anything is written, and
an exit, which only lowers the total, never is. `FittingValuesAlwaysFit` says when the limit is out of
reach: `ValuesFit` asks that every appraisal's value and weight be at most `MaxWord \div Capacity`,
which with a u64, 16384 leaves and `WEIGHT_C = 10^18` is any appraisal of 889 to 2^50 millionths of a dollar.

*The index.* `IndexInv` says that the prefixes grow, that the last one is the total and fits
a word, that recycled slots lie below the mark and that slots fall apart into occupied,
recycled and unused. The lowest set bit and the path of a node are characterised without
reference to the recursion (`RangesNest`, `PathUpCovers`: the path from a leaf visits exactly
the nodes whose range covers it), so one update is one case distinction over nodes. The
descent keeps its position a multiple of twice the step and the draw within the
remaining range, hence ends in the interval the draw belongs to.

*The controller.* `PriceInv` keeps the two counters equal to the sums over what is held and
the blanks equal to `Evaluate` of them. `SmallFaces` says that no squared face exceeds `WEIGHT_C`:
faces up to 1000 dollars with the program's 10^18 and values in millionths; the
fixtures have faces of 1, 2 and 5. There the floor division loses less than a blank gains, so a
heavy pool is left without blanks and no accepted setting is refused. The properties are
false without it: with `WEIGHT_C = 1000` a face of 48 under a ticket of 49 weighs 20, and
`49 * 20 < 1000`.

`BoundGrants` bounds the blanks by what the same number of weightless cards would need. Its bound
grows with the number of cards alone, so it does not matter which cards left: `NoRefusalWithinBound`
looks at every single step that could follow, `ConfigsServe` at a full index.

*Batches.* `BatchSeesLivePool` alone says nothing about a pool without open batches
whose settings then move. `BatchInv` adds `open_batches = Len(batches)`: when the freeze
is off there is no batch to disturb, when it is on `StepFreezesDrawDomain` holds
the pool still, and a commit is refused while a batch is open, so the new batch is the
only one. The invariant therefore also records that, at this commit, no batch ever closes.
`StockInv`, real cards while a batch is open, is kept for the same reason; that they weigh
something is a matter of the books, every Active position being weighable.

*Positions.* `StateMoves` lists which instruction can change the state of a card's
position: none run on another card can, although displacement, succession and
shrinking write to other cards' accounts. `LifeInv` adds to the types that an account that
does not exist has neither a depositor nor a card in trouble, so that an entry starts
from `Unused`.

*Custody.* `VaultsBacked` needs the types and one fact more: a position that does not exist
is `NoPosition`. Then a deposit finds its vault empty, an exit finds a token card where
the position says, and no trade or delegate reaches a token card in a vault.

*Roles.* The mandate is history: whoever named the key that is pending held the
administrator role then. `RotationsAreMandated` is not about the one signer check but
about proposals that outlive each other; `RoleInv` says nothing is pending without a
standing mandate, through withdrawn, repeated and orphaned proposals.

*Queues.* The oracle overwrites dead items with shorter ones and trims holes, so what an
item's length says matters. `Tiled` states that below the cursor the items lie end to end, and that
no item's cells start another; appends, removals and trims keep it, and on a tiled
queue the reader's walk ends at the cursor having met every live item. `RequestInv` adds that
a live request of this program belongs to one outstanding batch, on the queue it was made
on, and that every outstanding batch has its request: so a request reported absent
was answered or purged, and neither happens twice.

## What only TLC checks

Liveness (`BatchResolves`) is out of the prover's reach. `ExitOpen`, `NothingStranded` and
`GrantsWhatTheLedgerGrants` speak of `ENABLED`, which is too; what they rest on is proved
without the word, and that those guards are all the guards there are. The sentences of
the five finding runs are refuted, not proved.

## Not modelled

- Fee legs (`common/math.rs`, the settle functions of `common/exit_accounting.rs`):
  nothing at this commit increments an accumulator, a checkpoint or `owed_fees`, so every
  leg moves zero; a model would have to invent the instruction that pays in.
- The USDC transfer of a commit, rent and account sizes: effects of other programs on
  accounts no handler reads back.
- Byte layouts: borsh and Metaplex parsing, the master edition's bytes, event and error
  codes, address derivation, and the scripts that encode and decode them.
- Settlement and recovery of batches: described in comments, absent from the code.

More than two thirds of the program's lines are unit tests inside the source files, which
no definition translates; the map covers most of the handlers and of `common/` outside them.

## Plan

Done: `Tier`, `Rebalance`, `WeightLedger`, `WeightIndex`, `Pool`, `TierResolve`,
`CoreCensus`, `Custody`, `Protocol`, `VrfQueue`, `Requests`, their runs, the refinements
of `CardLife` and `Ledger`, and the theorems above: every invariant and action property
the passing runs check, but for the three that speak of `ENABLED`, is a theorem. Left:

1. `Pool` over the tree itself instead of the ledger, as one specification. Its two halves are
   proved: `Pool` makes no call the ledger refuses but for a full index or a total that does not
   fit a u64 (`ExitsAlwaysGranted`, `RefusedOnlyByLimits`), and the tree, which has the same two
   limits, grants what the ledger grants (`IndexAlwaysHasRoom`, `TreeImplementsLedger`);
2. settlement, recovery and fees, when the program has them: the freeze of an open batch, on
   which `BatchInv` and `StockInv` rest, will then end.
