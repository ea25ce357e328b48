--------------------------------- MODULE Protocol ---------------------------------
(***************************************************************************)
(* The protocol configuration: who holds each authority role, who is named  *)
(* to take one over, which oracle queue rolls are requested on, and which   *)
(* pools exist.  The configuration account is created once, by a payer      *)
(* pinned in the program; from then on a role changes hands in two signed   *)
(* steps, a proposal of the administrator and an acceptance of the proposed *)
(* key.  Both steps are one instruction, set_authorities.                   *)
(*                                                                          *)
(* vrf_program and swap_pool are stored beside oracle_queue and no          *)
(* instruction reads them, so only the queue is kept here.                  *)
(***************************************************************************)
EXTENDS Naturals, Sequences

CONSTANTS
  Keys,                  \* wallets that may sign
  NoKey,                 \* Pubkey::default()
  InitialAdministrator,  \* the payer init_protocol is pinned to
  Roles,                 \* AuthorityRole
  Queues,                \* oracle queue accounts a configuration may name
  IndexAccounts,         \* accounts offered as the weight index of a pool
  SeededAccounts,        \* the ones among them whose payload is not all zeroes
  MaxPools               \* bound on pool_counter

ASSUME ProtocolAssumption ==
  /\ NoKey \notin Keys /\ InitialAdministrator \in Keys
  /\ "Administrator" \in Roles
  /\ SeededAccounts \subseteq IndexAccounts
  /\ MaxPools \in Nat

VARIABLES
  initialized,   \* the ProtocolConfig account exists
  live,          \* Roles -> the key that holds the role
  pending,       \* Roles -> the key proposed for it
  oracle_queue,
  pools,         \* the weight_index field of each Pool, by pool_id + 1
  index_pool,    \* the pool field of each index account; 0 before its discriminator is set
  mandate        \* history: Roles -> the standing word of the administration

authorityVars == <<live, pending, mandate>>
poolVars == <<pools, index_pool>>
protocolVars == <<initialized, authorityVars, oracle_queue, poolVars>>

NoMandate == [by |-> NoKey, key |-> NoKey]
Administrator == live["Administrator"]

ProtocolTypeOK ==
  /\ initialized \in BOOLEAN
  /\ live \in [Roles -> Keys \cup {NoKey}]
  /\ pending \in [Roles -> Keys \cup {NoKey}]
  /\ oracle_queue \in Queues
  /\ pools \in Seq(IndexAccounts) /\ Len(pools) <= MaxPools
  /\ index_pool \in [IndexAccounts -> 0..MaxPools]
  /\ mandate \in [Roles -> [by: Keys, key: Keys] \cup {NoMandate}]

ProtocolInit ==
  /\ initialized = FALSE
  /\ live = [r \in Roles |-> NoKey]
  /\ pending = [r \in Roles |-> NoKey]
  /\ oracle_queue \in Queues
  /\ pools = << >>
  /\ index_pool = [x \in IndexAccounts |-> 0]
  /\ mandate = [r \in Roles |-> NoMandate]

MayInitialize(payer) == ~initialized /\ payer = InitialAdministrator

\* init_protocol: the payer becomes the administrator, the other roles are arguments.
InitProtocol(payer) ==
  /\ MayInitialize(payer)
  /\ initialized' = TRUE
  /\ \E holders \in [Roles -> Keys] :
       /\ holders["Administrator"] = payer
       /\ live' = holders
  /\ oracle_queue' \in Queues
  /\ UNCHANGED <<pending, mandate, poolVars>>

MayPropose(signer) == signer = Administrator

\* set_authorities(role, Some(proposed)): the proposal replaces any earlier one;
\* proposing Pubkey::default() withdraws it.
Propose(signer, role, proposed) ==
  /\ initialized /\ MayPropose(signer)
  /\ pending' = [pending EXCEPT ![role] = proposed]
  /\ mandate' = [mandate EXCEPT ![role] =
                   IF proposed = NoKey THEN NoMandate ELSE [by |-> signer, key |-> proposed]]
  /\ UNCHANGED <<initialized, live, oracle_queue, poolVars>>

\* Variant: any key accepts as long as a proposal stands.
MayAcceptUnnamed(signer, role) == pending[role] # NoKey
MayAccept(signer, role) == pending[role] # NoKey /\ signer = pending[role]

\* set_authorities(role, None): the proposed key takes the role.
Accept(signer, role) ==
  /\ initialized /\ MayAccept(signer, role)
  /\ live' = [live EXCEPT ![role] = signer]
  /\ pending' = [pending EXCEPT ![role] = NoKey]
  /\ mandate' = [mandate EXCEPT ![role] = NoMandate]
  /\ UNCHANGED <<initialized, oracle_queue, poolVars>>

\* update_vrf_config: the queue moves whether or not a batch is open on the old one.
UpdateVrfConfig(signer, queue) ==
  /\ initialized /\ signer = Administrator
  /\ oracle_queue' = queue
  /\ UNCHANGED <<initialized, authorityVars, poolVars>>

\* Variant: an index account is taken whatever pool it already serves.
BlankPayload(x) == x \notin SeededAccounts
\* #[account(zero)] and assert_weight_index_blank.
BlankIndex(x) == index_pool[x] = 0 /\ x \notin SeededAccounts

\* init_pool: pool_id is the counter, and the index account records its pool.
InitPool(signer, x) ==
  /\ initialized /\ signer = Administrator
  /\ Len(pools) < MaxPools
  /\ BlankIndex(x)
  /\ pools' = Append(pools, x)
  /\ index_pool' = [index_pool EXCEPT ![x] = Len(pools) + 1]
  /\ UNCHANGED <<initialized, authorityVars, oracle_queue>>

AuthorityStep ==
  \E signer \in Keys, role \in Roles :
    \/ Accept(signer, role)
    \/ \E proposed \in Keys \cup {NoKey} : Propose(signer, role, proposed)

ProtocolStep ==
  \E signer \in Keys :
    \/ InitProtocol(signer)
    \/ \E queue \in Queues : UpdateVrfConfig(signer, queue)
    \/ \E x \in IndexAccounts : InitPool(signer, x)

---------------------------------------------------------------------------------
(* Properties. *)

\* set_authorities.rs:8: proposals of one role overlap, are withdrawn and outlive the
\* administrator who made them.  The administration starts with the pinned payer;
\* from then on a role goes only to the key whose naming still stands, and only
\* whoever held the administrator role at that moment ever named anyone.
RotationsAreMandated ==
  [][\A r \in Roles :
       /\ initialized /\ live'[r] # live[r] => live'[r] = mandate[r].key
       /\ ~initialized => live'["Administrator"] \in {NoKey, InitialAdministrator}
       /\ mandate'[r] \notin {mandate[r], NoMandate}
            => mandate'[r].by = Administrator]_protocolVars

\* init_pool.rs:88: the index account a pool is created with is its own: no two
\* pools keep their leaves in one account, and none starts with leaves it never
\* inserted.
IndexesAreTheirPools ==
  \A i \in DOMAIN pools :
    index_pool[pools[i]] = i /\ pools[i] \notin SeededAccounts
=================================================================================
