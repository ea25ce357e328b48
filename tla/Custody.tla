---------------------------------- MODULE Custody ----------------------------------
(***************************************************************************)
(* Who holds a card, from the admission of its collection to the wallet it  *)
(* goes back to, over several pools and both asset families.                *)
(*                                                                          *)
(* A pool admits a collection for a set of token standards.  A deposit      *)
(* moves the card to the vault of a new position; the exits of its family   *)
(* move it to the recorded depositor; close_seized, open to anyone, marks   *)
(* the position of a Core card that is out of the program's reach.  All     *)
(* accounts a handler is handed are the caller's choice: the collection     *)
(* record, the collection account, the destination of a release.            *)
(*                                                                          *)
(* The books a position's weight lives in, the lock and the freeze of an    *)
(* open batch are those of module Pool, which reads a card only through its *)
(* classification; here the same handlers may run whenever the card and the *)
(* position allow them.                                                     *)
(***************************************************************************)
EXTENDS CoreCensus

CONSTANTS
  Cards, Wallets, Pools, Collections,
  NoWallet,
  Masks,           \* values of the standards byte an administrator submits
  AssetAccounts,   \* what a Core card's own registry may hold
  GroupAccounts    \* what a collection's registry may hold

\* The three standards, and a bit of the byte no standard is given.
TokenStandards == {"pNFT", "legacy"}
DefinedStandards == TokenStandards \cup {"Core"}

ASSUME CustodyAssumption ==
  /\ NoWallet \notin Wallets
  /\ Masks \subseteq SUBSET (DefinedStandards \cup {"spare"})
  /\ AssetAccounts \subseteq PluginAccount /\ GroupAccounts \subseteq PluginAccount
  /\ (Wallets \cup {NoWallet}) \cap (Pools \X Cards) = {}

VARIABLES
  family,     \* Cards -> the standard and the collection the asset itself declares
  holder,     \* Cards -> its owner: a wallet, a vault <<pool, card>>, NoWallet once burned
  asset,      \* Cards -> the registry of a Core card
  group,      \* Collections -> the registry of a Core collection
  admitted,   \* <<pool, collection>> -> the standards of its PoolCollection, {} without one
  pos         \* <<pool, card>> -> the Position account

vars == <<family, holder, asset, group, admitted, pos>>

Vault(p, c) == <<p, c>>
Holders == Wallets \cup (Pools \X Cards) \cup {NoWallet}
PositionStates == {"None", "Pending", "Active", "ClosedBelowFloor", "Rejected", "Seized"}
NoPosition == [state |-> "None", depositor |-> NoWallet, standard |-> "unset"]

\* A standard of neither family, such as an edition print, and an unverified or
\* missing collection, are things an asset may declare too.
Declarations ==
  [standard: DefinedStandards \cup {"edition"}, collection: Collections]
    \cup [standard: {"legacy"}, collection: {"unverified"}]

TypeOK ==
  /\ family \in [Cards -> Declarations]
  /\ holder \in [Cards -> Holders]
  /\ asset \in [Cards -> AssetAccounts]
  /\ group \in [Collections -> GroupAccounts]
  /\ admitted \in [Pools \X Collections -> SUBSET DefinedStandards]
  /\ pos \in [Pools \X Cards ->
                [state: PositionStates, depositor: Wallets \cup {NoWallet},
                 standard: DefinedStandards \cup {"unset"}]]

Init ==
  /\ family \in [Cards -> Declarations]
  /\ holder \in [Cards -> Wallets]
  /\ asset \in [Cards -> AssetAccounts]
  /\ group \in [Collections -> GroupAccounts]
  /\ admitted = [r \in Pools \X Collections |-> {}]
  /\ pos = [v \in Pools \X Cards |-> NoPosition]

---------------------------------------------------------------------------------
(* Admission of collections. *)

\* Variant: only the empty mask is refused.
NonEmptyMask(mask) == mask # {}

\* mask_is_valid, and check_update's rule that a reason comes with a narrowing alone.
ValidMask(mask) == mask # {} /\ mask \subseteq DefinedStandards
MayUpdate(old, mask, reason) ==
  /\ ValidMask(mask)
  /\ mask # old
  /\ reason = ~(old \subseteq mask)

\* admit_collection, signed by the administrator: creates or rewrites the record.
AdmitCollection(p, k) ==
  /\ \E mask \in Masks, reason \in BOOLEAN :
       /\ MayUpdate(admitted[<<p, k>>], mask, reason)
       /\ admitted' = [admitted EXCEPT ![<<p, k>>] = mask]
  /\ UNCHANGED <<family, holder, asset, group, pos>>

\* withdraw_collection: the record closes; nothing else is touched.
WithdrawCollection(p, k) ==
  /\ admitted[<<p, k>>] # {}
  /\ admitted' = [admitted EXCEPT ![<<p, k>>] = {}]
  /\ UNCHANGED <<family, holder, asset, group, pos>>

\* Variant: any record that admits the standard will do.
RequireAdmitsAnyRecord(p, c, record) == family[c].standard \in admitted[record]

\* require_admits: the presented record is the one of this pool and of the collection
\* the asset declares, and its mask has the standard's bit.
RequireAdmits(p, c, record) ==
  /\ record = <<p, family[c].collection>>
  /\ family[c].standard \in admitted[record]

---------------------------------------------------------------------------------
(* Deposits. *)

\* The card moves into the vault of a fresh position.
TakeIn(p, c, w) ==
  /\ holder[c] = w
  /\ pos[<<p, c>>].state = "None"
  /\ holder' = [holder EXCEPT ![c] = Vault(p, c)]
  /\ pos' = [pos EXCEPT ![<<p, c>>] =
               [state |-> "Pending", depositor |-> w, standard |-> family[c].standard]]
  /\ UNCHANGED <<family, asset, group, admitted>>

\* deposit: standard and collection come from the card's metadata.
Deposit(p, c, w) ==
  /\ family[c].standard \in TokenStandards
  /\ \E record \in DOMAIN admitted : RequireAdmits(p, c, record)
  /\ TakeIn(p, c, w)

\* deposit_core: the collection is the asset's update authority; there is no census
\* at intake, but MPL Core does not move a card it holds frozen.
DepositCore(p, c, w) ==
  /\ family[c].standard = "Core"
  /\ \E record \in DOMAIN admitted : RequireAdmits(p, c, record)
  /\ ~CoreRefuses(asset[c], group[family[c].collection])
  /\ TakeIn(p, c, w)

---------------------------------------------------------------------------------
(* What the rest of the program does to a position that keeps its card. *)

Judge(p, c, from, to) ==
  /\ pos[<<p, c>>].state = from
  /\ pos' = [pos EXCEPT ![<<p, c>>].state = to]
  /\ UNCHANGED <<family, holder, asset, group, admitted>>

ApproveDeposit(p, c) == Judge(p, c, "Pending", "Active")
RejectDeposit(p, c) == Judge(p, c, "Pending", "Rejected")
RecordClose(p, c) == Judge(p, c, "Active", "ClosedBelowFloor")

---------------------------------------------------------------------------------
(* Exits. *)

\* Variant: the registry walked is the one the transaction supplied.
AnyCollection(c, k) == k \in Collections

\* read_collateral refuses a collection account the asset does not name.
BoundCollection(c, k) == k = family[c].collection

\* The classification of position <<p, c>>'s card, with collection account k supplied:
\* a card that is gone or elsewhere is classified before the collection is looked at.
Reads(p, c, k, class) ==
  /\ holder[c] = Vault(p, c) => BoundCollection(c, k)
  /\ class = Classify(holder[c] # NoWallet, holder[c] = Vault(p, c), asset[c], group[k])

\* The card goes to the wallet and the position closes.
HandOver(p, c, w) ==
  /\ holder' = [holder EXCEPT ![c] = w]
  /\ pos' = [pos EXCEPT ![<<p, c>>] = NoPosition]
  /\ UNCHANGED <<family, asset, group, admitted>>

\* Variant: whatever token account the caller names.
AnyDestination(p, c, w) == w \in Wallets

\* The destination of a release: for a legacy card the depositor's own associated
\* token account, otherwise the depositor's account the exit is bound to.
OwnDestination(p, c, w) == w = pos[<<p, c>>].depositor

ReleaseToken(p, c, w) ==
  /\ pos[<<p, c>>].standard \in TokenStandards
  /\ OwnDestination(p, c, w)
  /\ HandOver(p, c, w)

\* release_core_from_vault: the gate runs first, then MPL Core decides on the move; it
\* wants the collection the asset names.
ReleaseCore(p, c, w) ==
  /\ pos[<<p, c>>].standard = "Core"
  /\ \E k \in Collections, class \in Classifications :
       /\ Reads(p, c, k, class)
       /\ SettleableGate(class)
       /\ k = family[c].collection
       /\ ~CoreRefuses(asset[c], group[k])
  /\ OwnDestination(p, c, w)
  /\ HandOver(p, c, w)

Withdraw(p, c, w) == pos[<<p, c>>].state = "Active" /\ ReleaseToken(p, c, w)
WithdrawCore(p, c, w) == pos[<<p, c>>].state = "Active" /\ ReleaseCore(p, c, w)

ReturnRejected(p, c, w) == pos[<<p, c>>].state = "Rejected" /\ ReleaseToken(p, c, w)
ReturnRejectedCore(p, c, w) == pos[<<p, c>>].state = "Rejected" /\ ReleaseCore(p, c, w)

\* Variant: a deposit nobody has judged may be claimed as well.
ClaimableUnjudged(standard) == {"Pending", "ClosedBelowFloor"}

\* What claim_nft serves, and claim_nft_core: also a seizure that was undone.
Claimable(standard) ==
  {"ClosedBelowFloor"} \cup (IF standard = "Core" THEN {"Seized"} ELSE {})

ClaimNft(p, c, w) ==
  pos[<<p, c>>].state \in Claimable(pos[<<p, c>>].standard) /\ ReleaseToken(p, c, w)
ClaimNftCore(p, c, w) ==
  pos[<<p, c>>].state \in Claimable(pos[<<p, c>>].standard) /\ ReleaseCore(p, c, w)

\* Variant: an undecidable card is left to the exits.
SeizableIfCertain(class) == class \in {"burned", "transferred", "frozen"}
Seizable(class) == UnreachableGate(class)

SeizableStates == {"Pending", "Active", "ClosedBelowFloor", "Rejected"}

\* Variant: the position closes with the seizure.
CloseAccount(v) == [pos EXCEPT ![v] = NoPosition]
MarkSeized(v) == [pos EXCEPT ![v].state = "Seized"]

\* close_seized: anyone's call; the position's account stays.
CloseSeized(p, c) ==
  /\ pos[<<p, c>>].standard = "Core"
  /\ pos[<<p, c>>].state \in SeizableStates
  /\ \E k \in Collections, class \in Classifications :
       Reads(p, c, k, class) /\ Seizable(class)
  /\ pos' = MarkSeized(<<p, c>>)
  /\ UNCHANGED <<family, holder, asset, group, admitted>>

---------------------------------------------------------------------------------
(* The world outside: wallets trade, collection authorities act on Core cards. *)

Trade(c) ==
  /\ holder[c] \in Wallets
  /\ \E w \in Wallets \ {holder[c]} : holder' = [holder EXCEPT ![c] = w]
  /\ UNCHANGED <<family, asset, group, admitted, pos>>

\* A permanent delegate takes the card out of a vault, returns it to the vault of a
\* position that lost it, or burns it.
DelegateMoves(c) ==
  /\ family[c].standard = "Core" /\ holder[c] # NoWallet
  /\ \E h \in Wallets \cup {NoWallet}
            \cup {v \in DOMAIN pos : v[2] = c /\ pos[v].state # "None"} :
       h # holder[c] /\ holder' = [holder EXCEPT ![c] = h]
  /\ UNCHANGED <<family, asset, group, admitted, pos>>

\* Plugins are added, removed and switched on a card or on a collection.
PluginsChange ==
  /\ \/ \E c \in Cards, a \in AssetAccounts :
          /\ family[c].standard = "Core"
          /\ asset' = [asset EXCEPT ![c] = a]
          /\ UNCHANGED group
     \/ \E k \in Collections, a \in GroupAccounts :
          group' = [group EXCEPT ![k] = a] /\ UNCHANGED asset
  /\ UNCHANGED <<family, holder, admitted, pos>>

---------------------------------------------------------------------------------

AdminStep == \E p \in Pools, k \in Collections : AdmitCollection(p, k) \/ WithdrawCollection(p, k)

TokenExit(p, c, w) == Withdraw(p, c, w) \/ ReturnRejected(p, c, w) \/ ClaimNft(p, c, w)
CoreExit(p, c, w) ==
  WithdrawCore(p, c, w) \/ ReturnRejectedCore(p, c, w) \/ ClaimNftCore(p, c, w)

PositionStep(p, c) ==
  \/ \E w \in Wallets :
       \/ Deposit(p, c, w) \/ DepositCore(p, c, w)
       \/ TokenExit(p, c, w) \/ CoreExit(p, c, w)
  \/ ApproveDeposit(p, c) \/ RejectDeposit(p, c) \/ RecordClose(p, c)
  \/ CloseSeized(p, c)

OutsideStep == PluginsChange \/ \E c \in Cards : Trade(c) \/ DelegateMoves(c)

Next == AdminStep \/ OutsideStep \/ \E p \in Pools, c \in Cards : PositionStep(p, c)

Spec == Init /\ [][Next]_vars

---------------------------------------------------------------------------------
(* Properties. *)

Exists(v) == pos[v].state # "None"

\* claim_nft.rs:49, return_rejected_core.rs:46: a vault holds a card only for a
\* position, a token card never leaves the vault of its position, and the standard
\* the exits dispatch on is the card's own, whatever became of the collection's
\* record since.
VaultsBacked ==
  \A v \in DOMAIN pos :
    /\ holder[v[2]] = v => Exists(v)
    /\ Exists(v) => pos[v].standard = family[v[2]].standard
    /\ Exists(v) /\ pos[v].standard \in TokenStandards => holder[v[2]] = v

\* core_asset.rs:30: no card is stranded.  One that MPL Core must move can be taken out
\* by its depositor from every state an exit serves, and one it may refuse to move, or
\* that is gone, can be taken off the books by anyone from every state with no
\* other way out.
NothingStranded ==
  \A p \in Pools, c \in Cards :
    LET v == <<p, c>>
        k == family[c].collection
        mine == holder[c] = Vault(p, c)
    IN  Exists(v) /\ pos[v].standard = "Core" =>
          /\ mine /\ CoreMoves(asset[c], group[k]) /\ pos[v].state # "Pending"
               => ENABLED CoreExit(p, c, pos[v].depositor)
          /\ ~(mine /\ CoreMoves(asset[c], group[k])) /\ pos[v].state # "Seized"
               => ENABLED CloseSeized(p, c)

\* escrow.rs:197: releases are open to callers who are not the depositor, and a card may
\* have been in other hands and vaults meanwhile; the step that closes a position
\* gives its depositor the card out of its own vault.
CardGoesHome ==
  [][\A v \in DOMAIN pos :
       Exists(v) /\ ~Exists(v)' => holder[v[2]] = v /\ holder'[v[2]] = pos[v].depositor]_vars

\* core_asset.rs:586: whatever collection account a stranger supplies, a position is
\* seized only when its card left the vault or its own registries hold something
\* that could keep it there.
SeizedForCause ==
  [][\A v \in DOMAIN pos :
       pos[v].state # "Seized" /\ pos'[v].state = "Seized"
         => ~(holder[v[2]] = v
              /\ TransferSurface(asset[v[2]], group[family[v[2]].collection]) = "Clear")]_vars

\* pool_collection.rs:60: whatever record is presented, a card enters a pool only under
\* the record that pool keeps for the collection the card declares, while that
\* record admits the card's standard.
EnteredUnderOwnRecord ==
  [][\A p \in Pools, c \in Cards :
       ~Exists(<<p, c>>) /\ Exists(<<p, c>>)'
         => /\ <<p, family[c].collection>> \in DOMAIN admitted
            /\ family[c].standard \in admitted[<<p, family[c].collection>>]]_vars

\* The positions of all pools live as CardLife promises, each on its own, whatever the
\* others do and however a card wanders between wallets and vaults.
Life == INSTANCE CardLife WITH
  Positions <- Pools \X Cards,
  life <- [v \in Pools \X Cards |->
             [state |-> pos[v].state, depositor |-> pos[v].depositor,
              family |-> IF pos[v].standard = "Core" THEN "core" ELSE "token",
              card |-> IF holder[v[2]] = v THEN "escrowed" ELSE "away"]]
LivesAsPromised == Life!Spec
=================================================================================
