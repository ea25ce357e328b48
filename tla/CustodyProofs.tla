------------------------------- MODULE CustodyProofs -------------------------------
(***************************************************************************)
(* Theorems on the custody of cards, for any number of cards, pools,        *)
(* collections, wallets, masks and plugin registries.  All of them rest on  *)
(* one inductive invariant and on one lemma, StepKinds: whatever a step is  *)
(* called, it does one of seven things to the cards and the positions.      *)
(***************************************************************************)
EXTENDS Custody, TLAPS

Vaults == Pools \X Cards

\* VaultsBacked, with closed positions wiped clean: what is stored under a vault that
\* has no position would otherwise leak into its next one.
CustodyInv ==
  /\ family \in [Cards -> Declarations]
  /\ holder \in [Cards -> Holders]
  /\ admitted \in [Pools \X Collections -> SUBSET DefinedStandards]
  /\ pos \in [Vaults -> [state: PositionStates, depositor: Wallets \cup {NoWallet},
                         standard: DefinedStandards \cup {"unset"}]]
  /\ VaultsBacked
  /\ \A v \in Vaults : ~Exists(v) => pos[v] = NoPosition

---------------------------------------------------------------------------------
(* The census and the two gates. *)

\* core_asset.rs:30: a card whose classification one gate refuses passes the other, and
\* only an undecidable one passes both.
THEOREM NoCardBetweenTheGates ==
  \A class \in Classifications :
    /\ SettleableGate(class) \/ UnreachableGate(class)
    /\ SettleableGate(class) /\ UnreachableGate(class) <=> class = "undecidable"
BY DEF Classifications, SettleableGate, UnreachableGate

LEMMA ClearMoves ==
  ASSUME NEW a \in PluginAccount, NEW g \in PluginAccount
  PROVE  /\ TransferSurface(a, g) = "Clear" <=> CoreMoves(a, g)
         /\ TransferSurface(a, g) = "Freeze" => CoreRefuses(a, g)
<1>1. /\ RegistryVerdict(a, "Asset") \in {"Freeze", "Undecidable", "Clear"}
      /\ RegistryVerdict(g, "Collection") \in {"Freeze", "Undecidable", "Clear"}
  BY DEF RegistryVerdict
<1>2. RegistryVerdict(a, "Asset") = "Clear" <=>
        /\ a.readable /\ "Transfer" \notin a.external
        /\ \A r \in a.internal : ~Freezes(r) /\ ~Undecided(r, "Asset")
  BY DEF RegistryVerdict
<1>3. RegistryVerdict(g, "Collection") = "Clear" <=>
        /\ g.readable /\ "Transfer" \notin g.external
        /\ \A r \in g.internal : ~Freezes(r) /\ ~Undecided(r, "Collection")
  BY DEF RegistryVerdict
<1>4. /\ RegistryVerdict(a, "Asset") = "Freeze" <=>
           a.readable /\ \E r \in a.internal : Freezes(r)
      /\ RegistryVerdict(g, "Collection") = "Freeze" <=>
           g.readable /\ \E r \in g.internal : Freezes(r)
  BY DEF RegistryVerdict
<1>5. TransferSurface(a, g) = "Clear" <=>
        RegistryVerdict(a, "Asset") = "Clear" /\ RegistryVerdict(g, "Collection") = "Clear"
  BY <1>1 DEF TransferSurface, Worst
<1>6. TransferSurface(a, g) = "Freeze" <=>
        RegistryVerdict(a, "Asset") = "Freeze" \/ RegistryVerdict(g, "Collection") = "Freeze"
  BY <1>1 DEF TransferSurface, Worst
<1>7. TransferSurface(a, g) = "Clear" <=> CoreMoves(a, g)
  BY <1>2, <1>3, <1>5 DEF CoreMoves
<1>8. TransferSurface(a, g) = "Freeze" => CoreRefuses(a, g)
  BY <1>4, <1>6 DEF CoreRefuses
<1> QED
  BY <1>7, <1>8

\* core_asset.rs:30: for every content of the two registries, a card in its vault that
\* MPL Core must move passes the exit gate and not the seizure gate, and one
\* that Core is known to hold frozen the other way round.
THEOREM GatesFollowCore ==
  ASSUME NEW a \in PluginAccount, NEW g \in PluginAccount
  PROVE  LET class == Classify(TRUE, TRUE, a, g)
         IN  /\ CoreMoves(a, g) <=> ~UnreachableGate(class)
             /\ ~SettleableGate(class) => CoreRefuses(a, g)
<1>1. Classify(TRUE, TRUE, a, g) =
        IF TransferSurface(a, g) = "Freeze" THEN "frozen"
        ELSE IF TransferSurface(a, g) = "Undecidable" THEN "undecidable" ELSE "settleable"
  BY DEF Classify
<1>2. TransferSurface(a, g) \in {"Freeze", "Undecidable", "Clear"}
  BY DEF TransferSurface, Worst
<1> QED
  BY <1>1, <1>2, ClearMoves DEF SettleableGate, UnreachableGate

---------------------------------------------------------------------------------
(* What a step does to the cards and the positions. *)

Enters(p, c, w) ==
  /\ TakeIn(p, c, w)
  /\ family[c].standard \in DefinedStandards
  /\ <<p, family[c].collection>> \in DOMAIN admitted
  /\ family[c].standard \in admitted[<<p, family[c].collection>>]

Judged(p, c) ==
  \/ Judge(p, c, "Pending", "Active")
  \/ Judge(p, c, "Pending", "Rejected")
  \/ Judge(p, c, "Active", "ClosedBelowFloor")

Leaves(p, c) ==
  /\ \/ pos[<<p, c>>].state \in {"Rejected", "Active", "ClosedBelowFloor"}
     \/ pos[<<p, c>>].state = "Seized" /\ pos[<<p, c>>].standard = "Core"
  /\ holder[c] = Vault(p, c)
  /\ HandOver(p, c, pos[<<p, c>>].depositor)

Seizes(p, c) ==
  /\ pos[<<p, c>>].standard = "Core"
  /\ pos[<<p, c>>].state \in SeizableStates
  /\ ~(/\ holder[c] = Vault(p, c)
       /\ TransferSurface(asset[c], group[family[c].collection]) = "Clear")
  /\ pos' = [pos EXCEPT ![<<p, c>>].state = "Seized"]
  /\ UNCHANGED <<family, holder, asset, group, admitted>>

\* A release of a card that passed the exit gate finds it in the vault.
LEMMA CoreLeavesVault ==
  ASSUME CustodyInv, NEW p \in Pools, NEW c \in Cards, NEW w \in Wallets, ReleaseCore(p, c, w)
  PROVE  /\ pos[<<p, c>>].standard = "Core" /\ holder[c] = Vault(p, c)
         /\ HandOver(p, c, pos[<<p, c>>].depositor)
<1>1. PICK k \in Collections, class \in Classifications :
        Reads(p, c, k, class) /\ SettleableGate(class)
  BY DEF ReleaseCore
<1>2. holder[c] = Vault(p, c)
  BY <1>1, Zenon DEF Reads, Classify, SettleableGate
<1>3. pos[<<p, c>>].standard = "Core" /\ w = pos[<<p, c>>].depositor /\ HandOver(p, c, w)
  BY Zenon DEF ReleaseCore, OwnDestination
<1> QED
  BY <1>2, <1>3

LEMMA TokenLeavesVault ==
  ASSUME CustodyInv, NEW p \in Pools, NEW c \in Cards, NEW w \in Wallets, ReleaseToken(p, c, w),
         Exists(<<p, c>>)
  PROVE  /\ pos[<<p, c>>].standard \in TokenStandards /\ holder[c] = Vault(p, c)
         /\ HandOver(p, c, pos[<<p, c>>].depositor)
<1>1. <<p, c>> \in Vaults /\ DOMAIN pos = Vaults /\ <<p, c>>[2] = c
  BY DEF CustodyInv, Vaults
<1>2. pos[<<p, c>>].standard \in TokenStandards /\ w = pos[<<p, c>>].depositor
      /\ HandOver(p, c, w)
  BY Zenon DEF ReleaseToken, OwnDestination
<1>3. holder[c] = Vault(p, c)
  BY <1>1, <1>2 DEF CustodyInv, VaultsBacked, Vault
<1> QED
  BY <1>2, <1>3

LEMMA ExitLeaves ==
  ASSUME CustodyInv, NEW p \in Pools, NEW c \in Cards, NEW w \in Wallets,
         TokenExit(p, c, w) \/ CoreExit(p, c, w)
  PROVE  Leaves(p, c)
<1>1. CASE TokenExit(p, c, w)
  <2>1. ReleaseToken(p, c, w)
    BY <1>1 DEF TokenExit, Withdraw, ReturnRejected, ClaimNft
  <2>2. pos[<<p, c>>].standard # "Core"
    BY <2>1 DEF ReleaseToken, TokenStandards
  <2>3. pos[<<p, c>>].state \in {"Rejected", "Active", "ClosedBelowFloor"}
    BY <1>1, <2>2 DEF TokenExit, Withdraw, ReturnRejected, ClaimNft, Claimable
  <2>4. Exists(<<p, c>>)
    BY <2>3 DEF Exists
  <2> QED
    BY <2>1, <2>3, <2>4, TokenLeavesVault DEF Leaves
<1>2. CASE CoreExit(p, c, w)
  <2>1. ReleaseCore(p, c, w)
    BY <1>2 DEF CoreExit, WithdrawCore, ReturnRejectedCore, ClaimNftCore
  <2>2. pos[<<p, c>>].state \in {"Rejected", "Active", "ClosedBelowFloor", "Seized"}
    BY <1>2 DEF CoreExit, WithdrawCore, ReturnRejectedCore, ClaimNftCore, Claimable
  <2> QED
    BY <2>1, <2>2, CoreLeavesVault DEF Leaves
<1> QED
  BY <1>1, <1>2

LEMMA CloseSeizedSeizes ==
  ASSUME NEW p \in Pools, NEW c \in Cards, CloseSeized(p, c)
  PROVE  Seizes(p, c)
<1>1. PICK k \in Collections, class \in Classifications :
        Reads(p, c, k, class) /\ Seizable(class)
  BY DEF CloseSeized
<1>2. ~(/\ holder[c] = Vault(p, c)
        /\ TransferSurface(asset[c], group[family[c].collection]) = "Clear")
  <2> SUFFICES ASSUME holder[c] = Vault(p, c),
                      TransferSurface(asset[c], group[family[c].collection]) = "Clear"
               PROVE  FALSE
    OBVIOUS
  <2>3. Vault(p, c) # NoWallet
    BY CustodyAssumption DEF Vault
  <2>1. k = family[c].collection
    BY <1>1 DEF Reads, BoundCollection
  <2>2. class = "settleable"
    BY <1>1, <2>1, <2>3 DEF Reads, Classify
  <2> QED
    BY <1>1, <2>2 DEF Seizable, UnreachableGate
<1> QED
  BY <1>2 DEF CloseSeized, MarkSeized, Seizes

LEMMA DepositEnters ==
  ASSUME NEW p \in Pools, NEW c \in Cards, NEW w \in Wallets,
         Deposit(p, c, w) \/ DepositCore(p, c, w)
  PROVE  Enters(p, c, w)
<1>1. TakeIn(p, c, w)
  BY Zenon DEF Deposit, DepositCore
<1>2. family[c].standard \in DefinedStandards
  BY DEF Deposit, DepositCore, DefinedStandards
<1>3. \E record \in DOMAIN admitted : RequireAdmits(p, c, record)
  BY DEF Deposit, DepositCore
<1> QED
  BY <1>1, <1>2, <1>3 DEF RequireAdmits, Enters

LEMMA StepKinds ==
  ASSUME CustodyInv, Next
  PROVE  \/ \E p \in Pools, c \in Cards, w \in Wallets : Enters(p, c, w)
         \/ \E p \in Pools, c \in Cards : Judged(p, c) \/ Leaves(p, c) \/ Seizes(p, c)
         \/ \E c \in Cards : Trade(c) \/ DelegateMoves(c)
         \/ /\ UNCHANGED <<family, holder, pos>>
            /\ admitted' \in [Pools \X Collections -> SUBSET DefinedStandards]
<1>1. CASE AdminStep
  <2>1. PICK p \in Pools, k \in Collections : AdmitCollection(p, k) \/ WithdrawCollection(p, k)
    BY <1>1 DEF AdminStep
  <2>2. PICK mask \in SUBSET DefinedStandards :
          admitted' = [admitted EXCEPT ![<<p, k>>] = mask]
    BY <2>1 DEF AdmitCollection, WithdrawCollection, MayUpdate, ValidMask
  <2>3. UNCHANGED <<family, holder, pos>>
    BY <2>1 DEF AdmitCollection, WithdrawCollection
  <2> QED
    BY <2>2, <2>3 DEF CustodyInv
<1>2. CASE OutsideStep
  BY <1>2 DEF OutsideStep, PluginsChange, CustodyInv
<1>3. ASSUME NEW p \in Pools, NEW c \in Cards, PositionStep(p, c)
      PROVE  (\E w \in Wallets : Enters(p, c, w)) \/ Judged(p, c) \/ Leaves(p, c) \/ Seizes(p, c)
  BY <1>3, DepositEnters, ExitLeaves, CloseSeizedSeizes
  DEF PositionStep, ApproveDeposit, RejectDeposit, RecordClose, Judged
<1> QED
  BY <1>1, <1>2, <1>3 DEF Next

---------------------------------------------------------------------------------
(* The invariant. *)

LEMMA EntersKeeps ==
  ASSUME CustodyInv, NEW p \in Pools, NEW c \in Cards, NEW w \in Wallets, Enters(p, c, w)
  PROVE  CustodyInv'
<1> DEFINE u == <<p, c>>
           fresh == [state |-> "Pending", depositor |-> w, standard |-> family[c].standard]
<1>1. u \in Vaults /\ holder[c] = w /\ pos[u].state = "None"
      /\ holder' = [holder EXCEPT ![c] = u] /\ pos' = [pos EXCEPT ![u] = fresh]
      /\ family' = family /\ admitted' = admitted
  BY DEF Enters, TakeIn, Vault, Vaults
<1>2. fresh \in [state: PositionStates, depositor: Wallets \cup {NoWallet},
                 standard: DefinedStandards \cup {"unset"}]
  BY DEF Enters, PositionStates
<1>3. fresh.state = "Pending" /\ fresh.standard = family[c].standard
  OBVIOUS
<1> HIDE DEF fresh
<1>4. \A v \in Vaults : v[2] \in Cards
  BY DEF Vaults
<1>5. w \notin Vaults /\ u[2] = c
  BY CustodyAssumption DEF Vaults
<1>6. /\ holder' \in [Cards -> Holders]
      /\ pos' \in [Vaults -> [state: PositionStates, depositor: Wallets \cup {NoWallet},
                              standard: DefinedStandards \cup {"unset"}]]
  BY <1>1, <1>2 DEF CustodyInv, Holders, Vaults
<1>7. ASSUME NEW v \in Vaults
      PROVE  /\ holder'[v[2]] = v => pos'[v].state # "None"
             /\ pos'[v].state # "None" => pos'[v].standard = family[v[2]].standard
             /\ pos'[v].state # "None" /\ pos'[v].standard \in TokenStandards
                  => holder'[v[2]] = v
             /\ pos'[v].state = "None" => pos'[v] = NoPosition
  <2>1. CASE v = u
    BY <1>1, <1>3, <1>5, <2>1 DEF CustodyInv
  <2>2. CASE v # u
    <3>1. pos'[v] = pos[v]
      BY <1>1, <2>2 DEF CustodyInv
    <3>2. v[2] # c => holder'[v[2]] = holder[v[2]]
      BY <1>1, <1>4 DEF CustodyInv
    <3>3. v[2] = c => holder'[v[2]] # v /\ holder[v[2]] # v
      BY <1>1, <1>5, <2>2 DEF CustodyInv
    <3> QED
      BY <3>1, <3>2, <3>3 DEF CustodyInv, VaultsBacked, Exists
  <2> QED
    BY <2>1, <2>2
<1> QED
  BY <1>1, <1>6, <1>7 DEF CustodyInv, VaultsBacked, Exists

\* A position whose state alone moves, from one that exists to another that does.
LEMMA RestateKeeps ==
  ASSUME CustodyInv, NEW u \in Vaults, NEW to \in PositionStates \ {"None"},
         pos[u].state # "None", pos' = [pos EXCEPT ![u].state = to],
         UNCHANGED <<family, holder>>,
         admitted' \in [Pools \X Collections -> SUBSET DefinedStandards]
  PROVE  CustodyInv'
<1>1. pos' \in [Vaults -> [state: PositionStates, depositor: Wallets \cup {NoWallet},
                          standard: DefinedStandards \cup {"unset"}]]
  BY DEF CustodyInv
<1>2. ASSUME NEW v \in Vaults
      PROVE  /\ pos'[v].standard = pos[v].standard
             /\ pos'[v].state = "None" <=> pos[v].state = "None"
             /\ pos'[v].state = "None" => pos'[v] = pos[v]
  BY DEF CustodyInv
<1> QED
  BY <1>1, <1>2 DEF CustodyInv, VaultsBacked, Exists

LEMMA LeavesKeeps ==
  ASSUME CustodyInv, NEW p \in Pools, NEW c \in Cards, Leaves(p, c)
  PROVE  CustodyInv'
<1> DEFINE u == <<p, c>>
           d == pos[u].depositor
<1>1. u \in Vaults /\ holder[c] = u /\ pos[u].state # "None"
      /\ holder' = [holder EXCEPT ![c] = d] /\ pos' = [pos EXCEPT ![u] = NoPosition]
      /\ family' = family /\ admitted' = admitted
  BY DEF Leaves, HandOver, Vault, Vaults
<1>2. NoPosition \in [state: PositionStates, depositor: Wallets \cup {NoWallet},
                      standard: DefinedStandards \cup {"unset"}]
      /\ NoPosition.state = "None"
  BY DEF NoPosition, PositionStates
<1>3. d \in Wallets \cup {NoWallet}
  BY <1>1 DEF CustodyInv
<1> HIDE DEF d
<1>4. \A v \in Vaults : v[2] \in Cards
  BY DEF Vaults
<1>5. d \notin Vaults /\ u[2] = c
  BY <1>3, CustodyAssumption DEF Vaults
<1>6. /\ holder' \in [Cards -> Holders]
      /\ pos' \in [Vaults -> [state: PositionStates, depositor: Wallets \cup {NoWallet},
                              standard: DefinedStandards \cup {"unset"}]]
  BY <1>1, <1>2, <1>3 DEF CustodyInv, Holders
<1>7. ASSUME NEW v \in Vaults
      PROVE  /\ holder'[v[2]] = v => pos'[v].state # "None"
             /\ pos'[v].state # "None" => pos'[v].standard = family[v[2]].standard
             /\ pos'[v].state # "None" /\ pos'[v].standard \in TokenStandards
                  => holder'[v[2]] = v
             /\ pos'[v].state = "None" => pos'[v] = NoPosition
  <2>1. CASE v = u
    BY <1>1, <1>2, <1>5, <2>1 DEF CustodyInv
  <2>2. CASE v # u
    <3>1. pos'[v] = pos[v]
      BY <1>1, <2>2 DEF CustodyInv
    <3>2. v[2] # c => holder'[v[2]] = holder[v[2]]
      BY <1>1, <1>4 DEF CustodyInv
    <3>3. v[2] = c => holder'[v[2]] # v /\ holder[v[2]] # v
      BY <1>1, <1>5, <2>2 DEF CustodyInv
    <3> QED
      BY <3>1, <3>2, <3>3 DEF CustodyInv, VaultsBacked, Exists
  <2> QED
    BY <2>1, <2>2
<1> QED
  BY <1>1, <1>6, <1>7 DEF CustodyInv, VaultsBacked, Exists

\* A card that is in no vault of a token position may wander, as long as a vault it
\* reaches has a position.
LEMMA WanderKeeps ==
  ASSUME CustodyInv, NEW c \in Cards, NEW h \in Holders,
         holder' = [holder EXCEPT ![c] = h],
         UNCHANGED <<family, admitted, pos>>,
         holder[c] \in Wallets \/ family[c].standard = "Core",
         h \in Vaults => pos[h].state # "None"
  PROVE  CustodyInv'
<1>1. holder' \in [Cards -> Holders]
  BY DEF CustodyInv
<1>2. ASSUME NEW v \in Vaults
      PROVE  /\ holder'[v[2]] = v => pos[v].state # "None"
             /\ pos[v].state # "None" /\ pos[v].standard \in TokenStandards
                  => holder'[v[2]] = v
  <2>1. v[2] \in Cards
    BY DEF Vaults
  <2>2. CASE v[2] # c
    BY <2>1, <2>2 DEF CustodyInv, VaultsBacked, Exists
  <2>3. CASE v[2] = c
    <3>1. holder'[v[2]] = h
      BY <2>3 DEF CustodyInv
    <3>2. ~(pos[v].state # "None" /\ pos[v].standard \in TokenStandards)
      <4>1. holder[c] \in Wallets => holder[c] # v
        BY CustodyAssumption DEF Vaults
      <4>2. family[c].standard = "Core" => family[c].standard \notin TokenStandards
        BY DEF TokenStandards
      <4> QED
        BY <2>3, <4>1, <4>2 DEF CustodyInv, VaultsBacked, Exists
    <3> QED
      BY <3>1, <3>2
  <2> QED
    BY <2>2, <2>3
<1> QED
  BY <1>1, <1>2 DEF CustodyInv, VaultsBacked, Exists

LEMMA OutsideKeeps ==
  ASSUME CustodyInv, NEW c \in Cards, Trade(c) \/ DelegateMoves(c)
  PROVE  CustodyInv'
<1>1. PICK h \in Holders :
        /\ holder' = [holder EXCEPT ![c] = h]
        /\ h \in Vaults => pos[h].state # "None"
  <2>1. CASE Trade(c)
    BY <2>1, CustodyAssumption DEF Trade, Holders, Vaults
  <2>2. CASE DelegateMoves(c)
    <3>1. DOMAIN pos = Vaults
      BY DEF CustodyInv
    <3> QED
      BY <2>2, <3>1, CustodyAssumption DEF DelegateMoves, Holders, Vaults
  <2> QED
    BY <2>1, <2>2
<1>2. holder[c] \in Wallets \/ family[c].standard = "Core"
  BY DEF Trade, DelegateMoves
<1>3. UNCHANGED <<family, admitted, pos>>
  BY DEF Trade, DelegateMoves
<1> QED
  BY <1>1, <1>2, <1>3, WanderKeeps

LEMMA StepKeepsCustody ==
  ASSUME CustodyInv, [Next]_vars
  PROVE  CustodyInv'
<1>1. ASSUME NEW p \in Pools, NEW c \in Cards, Judged(p, c) \/ Seizes(p, c)
      PROVE  CustodyInv'
  <2>1. PICK to \in PositionStates \ {"None"} :
          pos[<<p, c>>].state # "None" /\ pos' = [pos EXCEPT ![<<p, c>>].state = to]
    BY <1>1 DEF Judged, Judge, Seizes, SeizableStates, PositionStates
  <2>2. UNCHANGED <<family, holder>>
    BY <1>1 DEF Judged, Judge, Seizes
  <2>3. admitted' = admitted
    BY <1>1 DEF Judged, Judge, Seizes
  <2> QED
    BY <2>1, <2>2, <2>3, RestateKeeps DEF Vaults, CustodyInv
<1>2. CASE UNCHANGED vars
  BY <1>2 DEF vars, CustodyInv, VaultsBacked, Exists
<1>3. CASE /\ UNCHANGED <<family, holder, pos>>
           /\ admitted' \in [Pools \X Collections -> SUBSET DefinedStandards]
  BY <1>3 DEF CustodyInv, VaultsBacked, Exists
<1> QED
  BY <1>1, <1>2, <1>3, StepKinds, EntersKeeps, LeavesKeeps, OutsideKeeps

LEMMA InitCustody ==
  ASSUME Init
  PROVE  CustodyInv
<1>1. NoPosition \in [state: PositionStates, depositor: Wallets \cup {NoWallet},
                      standard: DefinedStandards \cup {"unset"}]
      /\ NoPosition.state = "None"
  BY DEF NoPosition, PositionStates
<1>2. /\ family \in [Cards -> Declarations] /\ holder \in [Cards -> Wallets]
      /\ admitted = [r \in Pools \X Collections |-> {}]
      /\ pos = [v \in Vaults |-> NoPosition]
  BY DEF Init, Vaults
<1>3. ASSUME NEW v \in Vaults
      PROVE  holder[v[2]] # v /\ pos[v].state = "None" /\ pos[v] = NoPosition
  BY <1>1, <1>2, CustodyAssumption DEF Vaults
<1> QED
  BY <1>1, <1>2, <1>3 DEF CustodyInv, VaultsBacked, Exists, Holders

\* Nothing but PluginsChange writes a registry.
LEMMA RegistriesKeepType ==
  ASSUME asset \in [Cards -> AssetAccounts], group \in [Collections -> GroupAccounts],
         [Next]_vars
  PROVE  asset' \in [Cards -> AssetAccounts] /\ group' \in [Collections -> GroupAccounts]
<1>1. CASE PluginsChange
  BY <1>1 DEF PluginsChange
<1>2. CASE UNCHANGED <<asset, group>>
  BY <1>2
<1>3. ASSUME NEW p \in Pools, NEW c \in Cards, PositionStep(p, c)
      PROVE  UNCHANGED <<asset, group>>
  <2>1. ASSUME NEW w \in Wallets, TokenExit(p, c, w) \/ CoreExit(p, c, w)
        PROVE  UNCHANGED <<asset, group>>
    <3>1. HandOver(p, c, w)
      BY <2>1, Zenon DEF TokenExit, CoreExit, Withdraw, WithdrawCore, ReturnRejected,
         ReturnRejectedCore, ClaimNft, ClaimNftCore, ReleaseToken, ReleaseCore
    <3> QED
      BY <3>1 DEF HandOver
  <2>2. ASSUME NEW w \in Wallets, Deposit(p, c, w) \/ DepositCore(p, c, w)
        PROVE  UNCHANGED <<asset, group>>
    BY <2>2, DepositEnters DEF Enters, TakeIn
  <2>3. CASE CloseSeized(p, c)
    BY <2>3, CloseSeizedSeizes DEF Seizes
  <2> QED
    BY <1>3, <2>1, <2>2, <2>3
    DEF PositionStep, ApproveDeposit, RejectDeposit, RecordClose, Judge
<1>4. AdminStep => UNCHANGED <<asset, group>>
  BY DEF AdminStep, AdmitCollection, WithdrawCollection
<1>5. OutsideStep => PluginsChange \/ UNCHANGED <<asset, group>>
  BY DEF OutsideStep, Trade, DelegateMoves
<1> QED
  BY <1>1, <1>2, <1>3, <1>4, <1>5 DEF Next, vars

---------------------------------------------------------------------------------
(* The theorems. *)

\* Every account keeps its type; in particular no mask ever holds a bit that
\* check_update would not have let in.
THEOREM CustodyTypeCorrect == Spec => []TypeOK
<1> DEFINE Registries == asset \in [Cards -> AssetAccounts] /\ group \in [Collections -> GroupAccounts]
<1>1. Init => CustodyInv /\ Registries
  BY InitCustody DEF Init
<1>2. CustodyInv /\ Registries /\ [Next]_vars => (CustodyInv /\ Registries)'
  BY StepKeepsCustody, RegistriesKeepType
<1>3. CustodyInv /\ Registries => TypeOK
  BY DEF CustodyInv, TypeOK, Vaults
<1> QED
  BY <1>1, <1>2, <1>3, PTL DEF Spec

\* A vault holds a card only for a position of the card's own standard, and a token card
\* stays in it as long as the position stands.
THEOREM VaultsStayBacked == Spec => []VaultsBacked
<1>1. CustodyInv => VaultsBacked
  BY DEF CustodyInv
<1> QED
  BY <1>1, InitCustody, StepKeepsCustody, PTL DEF Spec

\* What each kind of step does to another vault's position: nothing.
LEMMA OtherPositions ==
  ASSUME CustodyInv, [Next]_vars, NEW v \in Vaults, pos'[v] # pos[v]
  PROVE  \/ \E w \in Wallets : Enters(v[1], v[2], w)
         \/ Judged(v[1], v[2]) \/ Leaves(v[1], v[2]) \/ Seizes(v[1], v[2])
<1>1. ASSUME NEW p \in Pools, NEW c \in Cards, v # <<p, c>>
      PROVE  /\ \A w \in Wallets : ~Enters(p, c, w)
             /\ ~Judged(p, c) /\ ~Leaves(p, c) /\ ~Seizes(p, c)
  BY <1>1 DEF CustodyInv, Enters, TakeIn, Judged, Judge, Leaves, HandOver, Seizes
<1>2. v[1] \in Pools /\ v[2] \in Cards /\ v = <<v[1], v[2]>>
  BY DEF Vaults
<1>3. pos' # pos
  OBVIOUS
<1>4. \/ \E p \in Pools, c \in Cards, w \in Wallets : Enters(p, c, w)
      \/ \E p \in Pools, c \in Cards : Judged(p, c) \/ Leaves(p, c) \/ Seizes(p, c)
  BY <1>3, StepKinds DEF Trade, DelegateMoves, vars
<1> QED
  BY <1>1, <1>2, <1>4

\* Whoever sends the exit and wherever the card has been, the step that closes a
\* position hands its depositor the card out of its own vault.
THEOREM CardsGoHome == Spec => CardGoesHome
<1>1. CustodyInv /\ [Next]_vars =>
        [\A v \in DOMAIN pos :
           Exists(v) /\ ~Exists(v)' => holder[v[2]] = v /\ holder'[v[2]] = pos[v].depositor]_vars
  <2> SUFFICES ASSUME CustodyInv, [Next]_vars, NEW v \in Vaults, Exists(v), ~Exists(v)'
               PROVE  holder[v[2]] = v /\ holder'[v[2]] = pos[v].depositor
    BY DEF CustodyInv
  <2>1. v[1] \in Pools /\ v[2] \in Cards /\ v = <<v[1], v[2]>>
    BY DEF Vaults
  <2>2. ~(\E w \in Wallets : Enters(v[1], v[2], w))
    BY <2>1 DEF Enters, TakeIn, Exists
  <2>3. ~Judged(v[1], v[2]) /\ ~Seizes(v[1], v[2])
    BY <2>1 DEF Judged, Judge, Seizes, Exists, CustodyInv
  <2>4. Leaves(v[1], v[2])
    BY <2>2, <2>3, OtherPositions DEF Exists
  <2> QED
    BY <2>1, <2>4 DEF Leaves, HandOver, Vault, CustodyInv
<1> QED
  BY <1>1, InitCustody, StepKeepsCustody, PTL DEF Spec, CardGoesHome

\* No collection account a caller can supply gets a position seized whose card is in
\* its vault and cleared by its own registries.
THEOREM SeizuresHaveCause == Spec => SeizedForCause
<1>1. CustodyInv /\ [Next]_vars =>
        [\A v \in DOMAIN pos :
           pos[v].state # "Seized" /\ pos'[v].state = "Seized"
             => ~(holder[v[2]] = v
                  /\ TransferSurface(asset[v[2]], group[family[v[2]].collection]) = "Clear")]_vars
  <2> SUFFICES ASSUME CustodyInv, [Next]_vars, NEW v \in Vaults,
                      pos[v].state # "Seized", pos'[v].state = "Seized"
               PROVE  ~(/\ holder[v[2]] = v
                        /\ TransferSurface(asset[v[2]], group[family[v[2]].collection]) = "Clear")
    BY DEF CustodyInv
  <2>1. v[1] \in Pools /\ v[2] \in Cards /\ v = <<v[1], v[2]>>
    BY DEF Vaults
  <2>2. ASSUME NEW w \in Wallets, Enters(v[1], v[2], w)
        PROVE  FALSE
    <3>1. pos'[v] = [state |-> "Pending", depositor |-> w, standard |-> family[v[2]].standard]
      BY <2>1, <2>2 DEF Enters, TakeIn, CustodyInv
    <3> QED
      BY <3>1
  <2>3. ~Judged(v[1], v[2]) /\ ~Leaves(v[1], v[2])
    <3>1. v \in DOMAIN pos
      BY DEF CustodyInv
    <3>2. ASSUME NEW from, NEW to, Judge(v[1], v[2], from, to), to # "Seized" PROVE FALSE
      <4>1. pos' = [pos EXCEPT ![v].state = to] /\ pos[v] \in [state: PositionStates,
                      depositor: Wallets \cup {NoWallet}, standard: DefinedStandards \cup {"unset"}]
        BY <2>1, <3>2 DEF Judge, CustodyInv
      <4> QED
        BY <3>1, <3>2, <4>1
    <3>3. ASSUME Leaves(v[1], v[2]) PROVE FALSE
      <4>1. pos' = [pos EXCEPT ![v] = NoPosition]
        BY <2>1, <3>3 DEF Leaves, HandOver
      <4>2. pos'[v].state = "None"
        BY <3>1, <4>1 DEF NoPosition
      <4> QED
        BY <4>2
    <3> QED
      BY <3>2, <3>3 DEF Judged
  <2>4. Seizes(v[1], v[2])
    BY <2>2, <2>3, OtherPositions
  <2> QED
    BY <2>1, <2>4 DEF Seizes, Vault
<1> QED
  BY <1>1, InitCustody, StepKeepsCustody, PTL DEF Spec, SeizedForCause

\* No record of another pool or collection lets a card in.
THEOREM EntriesUnderOwnRecord == Spec => EnteredUnderOwnRecord
<1>1. CustodyInv /\ [Next]_vars =>
        [\A p \in Pools, c \in Cards :
           ~Exists(<<p, c>>) /\ Exists(<<p, c>>)'
             => /\ <<p, family[c].collection>> \in DOMAIN admitted
                /\ family[c].standard \in admitted[<<p, family[c].collection>>]]_vars
  <2> SUFFICES ASSUME CustodyInv, [Next]_vars, NEW p \in Pools, NEW c \in Cards,
                      ~Exists(<<p, c>>), Exists(<<p, c>>)'
               PROVE  \E w \in Wallets : Enters(p, c, w)
    BY DEF Enters
  <2>1. <<p, c>> \in Vaults /\ <<p, c>>[1] = p /\ <<p, c>>[2] = c
    BY DEF Vaults
  <2>2. ~Judged(p, c) /\ ~Leaves(p, c) /\ ~Seizes(p, c)
    BY DEF Judged, Judge, Leaves, Seizes, SeizableStates, Exists
  <2> QED
    BY <2>1, <2>2, OtherPositions DEF Exists
<1> QED
  BY <1>1, InitCustody, StepKeepsCustody, PTL DEF Spec, EnteredUnderOwnRecord

---------------------------------------------------------------------------------
(* Custody implements CardLife. *)

\* The life of one position, as the refinement mapping reads it.
LifeOf(v) ==
  [state |-> pos[v].state, depositor |-> pos[v].depositor,
   family |-> IF pos[v].standard = "Core" THEN "core" ELSE "token",
   card |-> IF holder[v[2]] = v THEN "escrowed" ELSE "away"]
LivesOf == [v \in Pools \X Cards |-> LifeOf(v)]

\* What a step may do to one life, CardLife's Next for one position.
LifeMoves(x, y) ==
  \/ x = y
  \/ Life!Enters(x, y) \/ Life!Judged(x, y) \/ Life!Leaves(x, y) \/ Life!Seized(x, y)
  \/ Life!TakenOrReturned(x, y)

LEMMA UnusedLife ==
  ASSUME CustodyInv, NEW v \in Vaults, pos[v].state = "None"
  PROVE  LifeOf(v) = Life!Unused
<1>1. pos[v] = NoPosition /\ holder[v[2]] # v
  BY DEF CustodyInv, VaultsBacked, Exists
<1> QED
  BY <1>1 DEF LifeOf, NoPosition, Life!Unused

\* The cases in which the position itself changes.
LEMMA PositionMoves ==
  ASSUME CustodyInv, CustodyInv', NEW p \in Pools, NEW c \in Cards,
         \/ \E w \in Wallets : Enters(p, c, w)
         \/ Judged(p, c) \/ Leaves(p, c) \/ Seizes(p, c)
  PROVE  LifeMoves(LifeOf(<<p, c>>), LifeOf(<<p, c>>)')
<1> DEFINE v == <<p, c>>
<1>1. v \in Vaults /\ v[2] = c /\ v[1] = p
  BY DEF Vaults
<1>2. ASSUME NEW w \in Wallets, Enters(p, c, w)
      PROVE  Life!Enters(LifeOf(v), LifeOf(v)')
  <2>1. /\ pos' = [pos EXCEPT ![v] =
                     [state |-> "Pending", depositor |-> w, standard |-> family[c].standard]]
        /\ holder' = [holder EXCEPT ![c] = v] /\ pos[v].state = "None"
    BY <1>2, Zenon DEF Enters, TakeIn, Vault
  <2>2. pos'[v] = [state |-> "Pending", depositor |-> w, standard |-> family[c].standard]
        /\ holder'[c] = v
    BY <1>1, <2>1 DEF CustodyInv
  <2>3. LifeOf(v)' = [state |-> "Pending", depositor |-> w,
                      family |-> IF family[c].standard = "Core" THEN "core" ELSE "token",
                      card |-> "escrowed"]
    BY <1>1, <2>2 DEF LifeOf
  <2> QED
    BY <1>1, <2>1, <2>3, UnusedLife DEF Life!Enters
<1>3. CASE Judged(p, c) \/ Seizes(p, c)
  <2>1. PICK to \in PositionStates :
          /\ pos' = [pos EXCEPT ![v].state = to] /\ holder' = holder
          /\ \/ <<pos[v].state, to>> \in
                  {<<"Pending", "Active">>, <<"Pending", "Rejected">>,
                   <<"Active", "ClosedBelowFloor">>}
             \/ /\ pos[v].standard = "Core" /\ to = "Seized"
                /\ pos[v].state \in {"Pending", "Rejected", "Active", "ClosedBelowFloor"}
    BY <1>3 DEF Judged, Judge, Seizes, SeizableStates, PositionStates
  <2>2. pos'[v] = [pos[v] EXCEPT !.state = to]
    BY <1>1, <2>1 DEF CustodyInv
  <2>3. LifeOf(v)' = [LifeOf(v) EXCEPT !.state = to]
    <3>1. pos'[v].state = to /\ pos'[v].depositor = pos[v].depositor
          /\ pos'[v].standard = pos[v].standard
      BY <1>1, <2>2 DEF CustodyInv
    <3> QED
      <4> DEFINE f == IF pos[v].standard = "Core" THEN "core" ELSE "token"
                 k == IF holder[v[2]] = v THEN "escrowed" ELSE "away"
                 d == pos[v].depositor
      <4>1. LifeOf(v) = [state |-> pos[v].state, depositor |-> d, family |-> f, card |-> k]
        BY DEF LifeOf
      <4>2. LifeOf(v)' = [state |-> to, depositor |-> d, family |-> f, card |-> k]
        BY <2>1, <3>1 DEF LifeOf
      <4> HIDE DEF f, k, d
      <4> QED
        BY <4>1, <4>2
  <2>4. LifeOf(v)'.state = to /\ LifeOf(v).state = pos[v].state
        /\ (LifeOf(v).family = "core" <=> pos[v].standard = "Core")
    BY <2>3 DEF LifeOf
  <2> QED
    BY <2>1, <2>3, <2>4 DEF LifeMoves, Life!Judged, Life!Seized
<1>4. CASE Leaves(p, c)
  <2>1. pos'[v] = NoPosition
    BY <1>1, <1>4 DEF Leaves, HandOver, CustodyInv
  <2>2. LifeOf(v)' = Life!Unused
    <3>1. pos'[v].state = "None"
      BY <2>1 DEF NoPosition
    <3>2. \A u \in Vaults : pos'[u].state = "None" => holder'[u[2]] # u
      BY DEF CustodyInv, VaultsBacked, Exists
    <3>3. holder'[v[2]] # v
      BY <1>1, <3>1, <3>2
    <3> QED
      BY <2>1, <3>3 DEF LifeOf, NoPosition, Life!Unused
  <2>3. LifeOf(v).card = "escrowed" /\ LifeOf(v).state = pos[v].state
        /\ (LifeOf(v).family = "core" <=> pos[v].standard = "Core")
    BY <1>1, <1>4 DEF LifeOf, Leaves, Vault
  <2> QED
    BY <1>4, <2>2, <2>3 DEF LifeMoves, Life!Leaves, Leaves
<1> QED
  BY <1>2, <1>3, <1>4 DEF LifeMoves

\* A position nobody touches sees its card come and go at most, and only a Core card.
LEMMA CardMoves ==
  ASSUME CustodyInv, CustodyInv', [Next]_vars, NEW v \in Vaults, pos'[v] = pos[v]
  PROVE  LifeMoves(LifeOf(v), LifeOf(v)')
<1> DEFINE s == pos[v].state
           d == pos[v].depositor
           f == IF pos[v].standard = "Core" THEN "core" ELSE "token"
<1>1. /\ LifeOf(v) = [state |-> s, depositor |-> d, family |-> f,
                       card |-> IF holder[v[2]] = v THEN "escrowed" ELSE "away"]
      /\ LifeOf(v)' = [state |-> s, depositor |-> d, family |-> f,
                        card |-> IF holder'[v[2]] = v THEN "escrowed" ELSE "away"]
  BY DEF LifeOf
<1>2. CASE (holder[v[2]] = v) <=> (holder'[v[2]] = v)
  BY <1>1, <1>2 DEF LifeMoves
<1>3. CASE ~((holder[v[2]] = v) <=> (holder'[v[2]] = v))
  <2>1. f = "core"
    <3>1. s # "None"
      BY <1>3 DEF CustodyInv, VaultsBacked, Exists
    <3>2. ~(s # "None" /\ pos[v].standard \in TokenStandards)
      BY <1>3 DEF CustodyInv, VaultsBacked, Exists
    <3>3. pos[v].standard \in DefinedStandards
      <4>1. pos[v].standard = family[v[2]].standard
        BY <3>1 DEF CustodyInv, VaultsBacked, Exists
      <4>2. family[v[2]].standard # "unset"
        BY DEF CustodyInv, Vaults, Declarations, DefinedStandards, TokenStandards
      <4> QED
        BY <4>1, <4>2 DEF CustodyInv
    <3> QED
      BY <3>1, <3>2, <3>3 DEF DefinedStandards
  <2> HIDE DEF s, d, f
  <2> QED
    BY <1>1, <1>3, <2>1 DEF LifeMoves, Life!TakenOrReturned
<1> QED
  BY <1>2, <1>3

\* Every position of every pool lives as CardLife promises, whatever is admitted or
\* withdrawn, whoever trades, delegates or calls.
THEOREM CustodyImplementsCardLife == Spec => LivesAsPromised
<1>1. Init => LivesOf = [v \in Pools \X Cards |-> Life!Unused]
  BY InitCustody, UnusedLife DEF LivesOf, Init, NoPosition, Vaults
<1>2. CustodyInv /\ CustodyInv' /\ [Next]_vars =>
        \A v \in Vaults : LifeMoves(LifeOf(v), LifeOf(v)')
  <2> SUFFICES ASSUME CustodyInv, CustodyInv', [Next]_vars, NEW v \in Vaults
               PROVE  LifeMoves(LifeOf(v), LifeOf(v)')
    OBVIOUS
  <2>1. CASE pos'[v] = pos[v]
    BY <2>1, CardMoves
  <2>2. CASE pos'[v] # pos[v]
    <3>1. v[1] \in Pools /\ v[2] \in Cards /\ v = <<v[1], v[2]>>
      BY DEF Vaults
    <3>2. LifeMoves(LifeOf(<<v[1], v[2]>>), LifeOf(<<v[1], v[2]>>)')
      BY <2>2, <3>1, OtherPositions, PositionMoves
    <3> QED
      BY <3>1, <3>2
  <2> QED
    BY <2>1, <2>2
<1>3. (\A v \in Vaults : LifeMoves(LifeOf(v), LifeOf(v)')) => [Life!Next]_LivesOf
  BY DEF LifeMoves, Life!Next, LivesOf, LifeOf, Vaults
<1> QED
  BY <1>1, <1>2, <1>3, InitCustody, StepKeepsCustody, PTL
  DEF Spec, LivesAsPromised, Life!Spec, Life!Init, LivesOf, LifeOf

---------------------------------------------------------------------------------
(* Nothing is stranded. *)

\* The guards of the three Core exits, in the depositor's own hand: a state one of
\* them serves, a reading of the card the exit gate lets through, no refusal of Core.
MayLeave(p, c) ==
  LET v == <<p, c>>
  IN  /\ pos[v].standard = "Core" /\ pos[v].depositor \in Wallets
      /\ pos[v].state \in {"Active", "Rejected"} \cup Claimable("Core")
      /\ \E k \in Collections, class \in Classifications :
           /\ Reads(p, c, k, class) /\ SettleableGate(class)
           /\ k = family[c].collection /\ ~CoreRefuses(asset[c], group[k])

\* The guards of close_seized, in anyone's.
MaySeize(p, c) ==
  /\ pos[<<p, c>>].standard = "Core" /\ pos[<<p, c>>].state \in SeizableStates
  /\ \E k \in Collections, class \in Classifications : Reads(p, c, k, class) /\ Seizable(class)

\* NothingStranded without ENABLED.
WayOut ==
  \A p \in Pools, c \in Cards :
    LET v == <<p, c>>
        mine == holder[c] = Vault(p, c)
        moves == CoreMoves(asset[c], group[family[c].collection])
    IN  Exists(v) /\ pos[v].standard = "Core" =>
          /\ mine /\ moves /\ pos[v].state # "Pending" => MayLeave(p, c)
          /\ ~(mine /\ moves) /\ pos[v].state # "Seized" => MaySeize(p, c)

\* They are all the guards there are: with what the handler then writes they make a
\* step of it.
LEMMA WaysOutAreSteps ==
  ASSUME NEW p \in Pools, NEW c \in Cards
  PROVE  /\ MayLeave(p, c) /\ HandOver(p, c, pos[<<p, c>>].depositor)
              => CoreExit(p, c, pos[<<p, c>>].depositor)
         /\ /\ MaySeize(p, c) /\ pos' = MarkSeized(<<p, c>>)
            /\ UNCHANGED <<family, holder, asset, group, admitted>>
            => CloseSeized(p, c)
<1> DEFINE v == <<p, c>>
<1>1. ASSUME MayLeave(p, c), HandOver(p, c, pos[v].depositor)
      PROVE  CoreExit(p, c, pos[v].depositor)
  <2>1. ReleaseCore(p, c, pos[v].depositor)
    BY <1>1 DEF MayLeave, ReleaseCore, OwnDestination
  <2>2. pos[v].state \in {"Active", "Rejected"} \cup Claimable(pos[v].standard)
    BY <1>1 DEF MayLeave
  <2> QED
    BY <2>1, <2>2 DEF CoreExit, WithdrawCore, ReturnRejectedCore, ClaimNftCore
<1>2. ASSUME MaySeize(p, c), pos' = MarkSeized(v),
             UNCHANGED <<family, holder, asset, group, admitted>>
      PROVE  CloseSeized(p, c)
  BY <1>2 DEF MaySeize, CloseSeized
<1> QED
  BY <1>1, <1>2

\* The release of a position goes to its depositor, so it must have one.
Owned == \A v \in Vaults : Exists(v) => pos[v].depositor \in Wallets

LEMMA StepKeepsOwners == CustodyInv /\ Owned /\ [Next]_vars => Owned'
<1> SUFFICES ASSUME CustodyInv, Owned, [Next]_vars, NEW v \in Vaults, Exists(v)'
             PROVE  pos'[v].depositor \in Wallets
  BY DEF Owned
<1> DEFINE p == v[1]
           c == v[2]
<1>0. /\ p \in Pools /\ c \in Cards /\ v = <<p, c>>
      /\ pos \in [Vaults -> [state: PositionStates, depositor: Wallets \cup {NoWallet},
                            standard: DefinedStandards \cup {"unset"}]]
  BY DEF Vaults, CustodyInv
<1>1. CASE pos'[v] = pos[v]
  BY <1>1 DEF Owned, Exists
<1>2. ASSUME NEW w \in Wallets, Enters(p, c, w) PROVE pos'[v].depositor \in Wallets
  BY <1>0, <1>2 DEF Enters, TakeIn
<1>3. CASE Judged(p, c) \/ Seizes(p, c)
  <2>1. PICK to : pos' = [pos EXCEPT ![v].state = to] /\ pos[v].state # "None"
    BY <1>0, <1>3 DEF Judged, Judge, Seizes, SeizableStates
  <2> QED
    BY <1>0, <2>1 DEF Owned, Exists
<1>4. CASE Leaves(p, c)
  BY <1>0, <1>4 DEF Leaves, HandOver, NoPosition, Exists
<1> QED
  BY <1>1, <1>2, <1>3, <1>4, OtherPositions

\* core_asset.rs:30: whatever its authorities put on a card or its collection and
\* wherever they take it, a card Core must move can leave with its depositor and any
\* other can be written off, whatever happened to the collection's record meanwhile.
THEOREM NobodyIsStranded == Spec => []WayOut
<1> DEFINE Registries == asset \in [Cards -> AssetAccounts] /\ group \in [Collections -> GroupAccounts]
<1>1. ASSUME CustodyInv, Owned, Registries
      PROVE  WayOut
  <2> SUFFICES ASSUME NEW p \in Pools, NEW c \in Cards,
                      Exists(<<p, c>>), pos[<<p, c>>].standard = "Core"
               PROVE  LET v == <<p, c>>
                          mine == holder[c] = Vault(p, c)
                          moves == CoreMoves(asset[c], group[family[c].collection])
                      IN  /\ mine /\ moves /\ pos[v].state # "Pending" => MayLeave(p, c)
                          /\ ~(mine /\ moves) /\ pos[v].state # "Seized" => MaySeize(p, c)
    BY DEF WayOut
  <2> DEFINE v == <<p, c>>
             k == family[c].collection
             mine == holder[c] = Vault(p, c)
             class == Classify(holder[c] # NoWallet, mine, asset[c], group[k])
  <2>1. /\ v \in Vaults /\ pos[v].state \in PositionStates \ {"None"}
    BY <1>1 DEF CustodyInv, Vaults, Exists
  <2>6. k \in Collections
    <3>1. family[c].standard = "Core" /\ family[c] \in Declarations
      BY <1>1, <2>1 DEF CustodyInv, VaultsBacked, Vaults
    <3> QED
      BY <3>1 DEF Declarations, DefinedStandards
  <2>7. asset[c] \in PluginAccount /\ group[k] \in PluginAccount
    BY <1>1, <2>6, CustodyAssumption
  <2>2. class \in Classifications /\ Reads(p, c, k, class)
    BY DEF Classify, Classifications, Reads, BoundCollection
  <2>3. mine => class = Classify(TRUE, TRUE, asset[c], group[k])
    <3>1. Vault(p, c) # NoWallet
      BY CustodyAssumption DEF Vault
    <3>2. mine => (holder[c] # NoWallet) = TRUE /\ mine = TRUE
      BY <3>1
    <3> QED
      BY <3>2, Zenon
  <2>4. ASSUME mine, CoreMoves(asset[c], group[k]), pos[v].state # "Pending" PROVE MayLeave(p, c)
    <3>1. ~CoreRefuses(asset[c], group[k])
      BY <2>4 DEF CoreMoves, CoreRefuses
    <3>2. SettleableGate(class)
      BY <2>3, <2>4, <2>7, <3>1, GatesFollowCore
    <3>3. pos[v].depositor \in Wallets
      BY <1>1, <2>1 DEF Owned
    <3>4. pos[v].state \in {"Active", "Rejected"} \cup Claimable("Core")
      BY <2>1, <2>4 DEF PositionStates, Claimable
    <3> QED
      BY <2>2, <2>6, <3>1, <3>2, <3>3, <3>4 DEF MayLeave
  <2>5. ASSUME ~(mine /\ CoreMoves(asset[c], group[k])), pos[v].state # "Seized"
        PROVE  MaySeize(p, c)
    <3>1. pos[v].state \in SeizableStates
      BY <2>1, <2>5 DEF PositionStates, SeizableStates
    <3>2. UnreachableGate(class)
      <4>1. CASE mine
        BY <2>3, <2>5, <2>7, <4>1, GatesFollowCore
      <4>2. CASE ~mine
        BY <4>2 DEF Classify, UnreachableGate
      <4> QED
        BY <4>1, <4>2
    <3> QED
      BY <2>2, <2>6, <3>1, <3>2 DEF MaySeize, Seizable
  <2> QED
    BY <2>4, <2>5
<1>2. Init => CustodyInv /\ Registries /\ Owned
  BY InitCustody DEF Init, Owned, Exists, NoPosition, Vaults
<1>3. CustodyInv /\ Registries /\ [Next]_vars => (CustodyInv /\ Registries)'
  BY StepKeepsCustody, RegistriesKeepType
<1> QED
  BY <1>1, <1>2, <1>3, StepKeepsOwners, PTL DEF Spec
=================================================================================
