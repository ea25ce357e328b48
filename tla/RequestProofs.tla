------------------------------- MODULE RequestProofs -------------------------------
(***************************************************************************)
(* Theorems on the protocol configuration and the oracle queues, for every  *)
(* set of keys, roles, queues, lengths and index accounts: authority moves  *)
(* only by the administration's standing word, no two pools share a weight  *)
(* index, and the queue reader answers exactly what is live.                *)
(***************************************************************************)
EXTENDS Requests, FiniteSetTheorems, Integers, TLAPS

\* The part of ProtocolTypeOK the theorems need, a proposal and its mandate being one,
\* and nobody holding the administrator role before init_protocol.
RoleInv ==
  /\ live \in [Roles -> Keys \cup {NoKey}]
  /\ pending \in [Roles -> Keys \cup {NoKey}]
  /\ mandate \in [Roles -> [by: Keys \cup {NoKey}, key: Keys \cup {NoKey}]]
  /\ \A r \in Roles : pending[r] # NoKey => mandate[r].key = pending[r]
  /\ ~initialized => live["Administrator"] = NoKey

IndexInv ==
  /\ pools \in Seq(IndexAccounts)
  /\ index_pool \in [IndexAccounts -> Nat]
  /\ IndexesAreTheirPools

\* Requests and their answers leave the configuration alone.
LEMMA ProtocolMoves ==
  ASSUME [Next]_vars
  PROVE  AuthorityStep \/ ProtocolStep \/ UNCHANGED protocolVars
BY DEF Next, vars, CommitRolls, ProviderStep, ForeignRequest, Fulfil, Purge

\* What one step may do to the roles: the content of RotationsAreMandated.
RolesMove ==
  \A r \in Roles :
    /\ initialized /\ live'[r] # live[r] => live'[r] = mandate[r].key
    /\ ~initialized => live'["Administrator"] \in {NoKey, InitialAdministrator}
    /\ mandate'[r] \notin {mandate[r], NoMandate} => mandate'[r].by = Administrator

LEMMA AcceptMoves ==
  ASSUME RoleInv, NEW signer \in Keys, NEW role \in Roles, Accept(signer, role)
  PROVE  RoleInv' /\ RolesMove
<1>1. initialized /\ initialized' /\ signer # NoKey /\ signer = pending[role]
  BY ProtocolAssumption DEF Accept, MayAccept
<1>2. /\ live' = [live EXCEPT ![role] = signer]
      /\ pending' = [pending EXCEPT ![role] = NoKey]
      /\ mandate' = [mandate EXCEPT ![role] = NoMandate]
  BY DEF Accept
<1>3. NoMandate \in [by: Keys \cup {NoKey}, key: Keys \cup {NoKey}]
  BY DEF NoMandate
<1>4. RoleInv'
  BY <1>1, <1>2, <1>3 DEF RoleInv
<1>5. RolesMove
  BY <1>1, <1>2 DEF RoleInv, RolesMove
<1> QED
  BY <1>4, <1>5

LEMMA ProposeMoves ==
  ASSUME RoleInv, NEW signer \in Keys, NEW role \in Roles, NEW proposed \in Keys \cup {NoKey},
         Propose(signer, role, proposed)
  PROVE  RoleInv' /\ RolesMove
<1> DEFINE word == IF proposed = NoKey THEN NoMandate ELSE [by |-> signer, key |-> proposed]
<1>1. initialized /\ initialized' /\ signer = Administrator
  BY DEF Propose, MayPropose
<1>2. /\ live' = live
      /\ pending' = [pending EXCEPT ![role] = proposed]
      /\ mandate' = [mandate EXCEPT ![role] = word]
  BY DEF Propose
<1>3. /\ word \in [by: Keys \cup {NoKey}, key: Keys \cup {NoKey}]
      /\ proposed # NoKey => word.key = proposed
      /\ word # NoMandate => word.by = signer
  BY DEF NoMandate
<1> HIDE DEF word
<1>4. RoleInv'
  BY <1>1, <1>2, <1>3 DEF RoleInv
<1>5. RolesMove
  BY <1>1, <1>2, <1>3 DEF RoleInv, RolesMove
<1> QED
  BY <1>4, <1>5

LEMMA InitProtocolMoves ==
  ASSUME RoleInv, NEW payer \in Keys, InitProtocol(payer)
  PROVE  RoleInv' /\ RolesMove
<1>1. PICK holders \in [Roles -> Keys] : holders["Administrator"] = payer /\ live' = holders
  BY DEF InitProtocol
<1>2. ~initialized /\ initialized' /\ payer = InitialAdministrator
      /\ pending' = pending /\ mandate' = mandate
  BY DEF InitProtocol, MayInitialize
<1> QED
  BY <1>1, <1>2 DEF RoleInv, RolesMove

LEMMA RolesStep ==
  ASSUME RoleInv, [Next]_vars
  PROVE  RoleInv' /\ RolesMove
<1>1. CASE AuthorityStep
  BY <1>1, AcceptMoves, ProposeMoves DEF AuthorityStep
<1>2. CASE ProtocolStep
  <2>1. ASSUME NEW signer \in Keys, InitProtocol(signer)
        PROVE  RoleInv' /\ RolesMove
    BY <2>1, InitProtocolMoves
  <2>2. CASE UNCHANGED <<initialized, live, pending, mandate>>
    BY <2>2 DEF RoleInv, RolesMove
  <2> QED
    BY <1>2, <2>1, <2>2 DEF ProtocolStep, UpdateVrfConfig, InitPool, authorityVars
<1>3. CASE UNCHANGED protocolVars
  BY <1>3 DEF protocolVars, authorityVars, RoleInv, RolesMove
<1> QED
  BY <1>1, <1>2, <1>3, ProtocolMoves

\* set_authorities: under any interleaving of proposals, withdrawals, acceptances and changes
\* of administrator, a role goes only to the key the standing proposal names.
THEOREM AuthorityIsMandated == Spec => RotationsAreMandated
<1>1. Init => RoleInv
  BY ProtocolAssumption DEF Init, ProtocolInit, RoleInv, NoMandate
<1>2. RoleInv /\ [Next]_vars => RoleInv'
  BY RolesStep
<1>3. RoleInv /\ [Next]_vars =>
        [\A r \in Roles :
           /\ initialized /\ live'[r] # live[r] => live'[r] = mandate[r].key
           /\ ~initialized => live'["Administrator"] \in {NoKey, InitialAdministrator}
           /\ mandate'[r] \notin {mandate[r], NoMandate}
                => mandate'[r].by = Administrator]_protocolVars
  BY RolesStep DEF RolesMove
<1> QED
  BY <1>1, <1>2, <1>3, PTL DEF Spec, RotationsAreMandated

---------------------------------------------------------------------------------

LEMMA InitPoolMoves ==
  ASSUME IndexInv, NEW signer \in Keys, NEW x \in IndexAccounts, InitPool(signer, x)
  PROVE  IndexInv'
<1>1. /\ pools' = Append(pools, x) /\ pools' \in Seq(IndexAccounts)
      /\ index_pool' = [index_pool EXCEPT ![x] = Len(pools) + 1]
      /\ index_pool[x] = 0 /\ x \notin SeededAccounts
  BY DEF InitPool, BlankIndex, IndexInv
<1>2. Len(pools) \in Nat /\ DOMAIN pools = 1..Len(pools)
      /\ DOMAIN pools' = 1..(Len(pools) + 1)
  BY <1>1 DEF IndexInv
<1>3. ASSUME NEW i \in DOMAIN pools'
      PROVE  index_pool'[pools'[i]] = i /\ pools'[i] \notin SeededAccounts
  <2>1. CASE i = Len(pools) + 1
    BY <1>1, <1>2, <2>1 DEF IndexInv
  <2>2. CASE i \in DOMAIN pools
    <3>1. pools'[i] = pools[i] /\ pools[i] \in IndexAccounts
      BY <1>1, <1>2, <2>2 DEF IndexInv
    <3>2. index_pool[pools[i]] = i /\ pools[i] \notin SeededAccounts /\ i # 0
      BY <1>2, <2>2 DEF IndexInv, IndexesAreTheirPools
    <3> QED
      BY <1>1, <3>1, <3>2 DEF IndexInv
  <2> QED
    BY <1>2, <1>3, <2>1, <2>2
<1> QED
  BY <1>1, <1>2, <1>3 DEF IndexInv, IndexesAreTheirPools

\* init_pool: every pool's index account is its own and started empty, however many
\* accounts are offered and whoever signs.
THEOREM IndexesNeverShared == Spec => []IndexesAreTheirPools
<1>1. Init => IndexInv
  BY DEF Init, ProtocolInit, IndexInv, IndexesAreTheirPools
<1>2. IndexInv /\ [Next]_vars => IndexInv'
  <2> SUFFICES ASSUME IndexInv, [Next]_vars
               PROVE  IndexInv'
    OBVIOUS
  <2>1. CASE \E signer \in Keys, x \in IndexAccounts : InitPool(signer, x)
    BY <2>1, InitPoolMoves
  <2>2. CASE UNCHANGED poolVars
    BY <2>2 DEF poolVars, IndexInv, IndexesAreTheirPools
  <2> QED
    BY <2>1, <2>2, ProtocolMoves
    DEF AuthorityStep, ProtocolStep, Accept, Propose, InitProtocol, UpdateVrfConfig,
        protocolVars
<1>3. IndexInv => IndexesAreTheirPools
  BY DEF IndexInv
<1> QED
  BY <1>1, <1>2, <1>3, PTL DEF Spec

---------------------------------------------------------------------------------
(* Greatest elements. *)

LEMMA MaxOf ==
  ASSUME NEW S, S \subseteq Nat, S # {}, IsFiniteSet(S)
  PROVE  Max(S) \in S /\ \A s \in S : s <= Max(S)
<1> DEFINE Bad(T) == T # {} /\ \A m \in T : \E s \in T : ~(s <= m)
           sizes == {Cardinality(T) : T \in {T \in SUBSET S : Bad(T)}}
<1>1. sizes = {}
  <2> SUFFICES ASSUME sizes # {} PROVE FALSE
    OBVIOUS
  <2>1. sizes \subseteq Nat
    BY FS_Subset, FS_CardinalityType
  <2>2. PICK n \in sizes : \A m \in sizes : n <= m
    <3> HIDE DEF sizes
    <3>1. PICK n \in sizes : \A m \in sizes : <<m, n>> \notin OpToRel(<, Nat)
      BY <2>1, NatLessThanWellFounded, WFMin, Zenon
    <3>2. ASSUME NEW m \in sizes PROVE n <= m
      <4>1. ~(m < n)
        <5>1. m \in Nat /\ n \in Nat
          BY <2>1
        <5> QED
          BY <3>1, <5>1, Zenon DEF OpToRel
      <4> QED
        BY <2>1, <4>1
    <3> QED
      BY <3>2
  <2>3. PICK T \in SUBSET S : Bad(T) /\ Cardinality(T) = n
    BY <2>2
  <2>4. PICK e \in T : TRUE
    BY <2>3
  <2> DEFINE R == T \ {e}
  <2>5. IsFiniteSet(T) /\ Cardinality(R) = n - 1 /\ n \in Nat /\ R \in SUBSET S
    BY <2>1, <2>2, <2>3, <2>4, FS_Subset, FS_RemoveElement
  <2>6. ~Bad(R)
    <3>1. Bad(R) => Cardinality(R) \in sizes
      BY <2>5
    <3> HIDE DEF Bad, sizes
    <3> QED
      BY <2>2, <2>5, <3>1
  <2>7. e \in Nat /\ \A s \in T : s \in Nat /\ (s = e \/ s \in R)
    BY <2>4
  <2>8. CASE R = {}
    BY <2>3, <2>4, <2>7, <2>8
  <2>9. CASE R # {}
    <3>1. PICK m \in R : \A s \in R : s <= m
      BY <2>6, <2>9
    <3>2. m \in T /\ m \in Nat
      BY <2>7, <3>1
    <3>3. (\A s \in T : s <= m) \/ (\A s \in T : s <= e)
      BY <2>7, <3>1, <3>2
    <3> QED
      BY <2>3, <2>4, <3>2, <3>3
  <2> QED
    BY <2>8, <2>9
<1>2. ~Bad(S)
  BY <1>1
<1>3. \E m \in S : \A s \in S : s <= m
  BY <1>2
<1>4. \A m \in S, s \in S : s <= m <=> m >= s
  OBVIOUS
<1>5. \E m \in S : \A s \in S : m >= s
  BY <1>3, <1>4
<1>6. Max(S) \in S /\ \A s \in S : Max(S) >= s
  BY <1>5, Zenon DEF Max
<1> QED
  BY <1>4, <1>6

---------------------------------------------------------------------------------
(* What the provider leaves in a queue. *)

Cells == ItemsStart..(ItemsStart + BodyLength - 1)
Limit == ItemsStart + BodyLength

\* The cells an item of the live region starts at.
Starts(q) == {p \in Cells : p < LiveEnd(q) /\ q.body[p] # Bytes}
Boundary(q, p) == p = LiveEnd(q) \/ p \in Starts(q)

\* The items tile the live region, each over cells that start no other, and the
\* header counts the live ones.
Tiled(q) ==
  /\ Boundary(q, ItemsStart)
  /\ \A p \in Starts(q) :
       /\ Boundary(q, p + q.body[p].len)
       /\ p + q.body[p].len <= LiveEnd(q)
       /\ \A c \in Starts(q) : c <= p \/ p + q.body[p].len <= c

QueueInv(q) ==
  /\ q \in Queue /\ Tiled(q)
  /\ q.item_count = Cardinality(LivePositions(q))

\* Bytes is the only cell without a length.
LEMMA CellKinds ==
  /\ ItemsStart \in Nat /\ Limit \in Nat /\ ItemsStart <= Limit /\ ItemsStart > 0
  /\ \A c \in Item \cup {Bytes} :
       /\ c.len \in Nat
       /\ c = Bytes <=> c.len = 0
       /\ c # Bytes <=> c \in Item
       /\ c # Bytes => c.len \in Lengths /\ c.len > 0
<1>1. Lengths \subseteq Nat \ {0} /\ BodyLength \in Nat
  BY QueueAssumption
<1>2. Bytes.len = 0
  BY DEF Bytes
<1>3. \A c \in Item : c.len \in Lengths
  BY DEF Item
<1>4. ASSUME NEW c \in Item \cup {Bytes}
      PROVE  /\ c.len \in Nat
             /\ c = Bytes <=> c.len = 0
             /\ c # Bytes <=> c \in Item
             /\ c # Bytes => c.len \in Lengths /\ c.len > 0
  <2>0. \A l \in Lengths : l \in Nat /\ l > 0 /\ l # 0
    BY <1>1
  <2>1. c \in Item => c.len \in Nat /\ c.len > 0 /\ c.len \in Lengths /\ c.len # 0
    BY ONLY <1>3, <2>0
  <2>2. c \in Item \/ c = Bytes
    OBVIOUS
  <2> QED
    BY <1>2, <2>1, <2>2
<1> QED
  BY <1>1, <1>4 DEF ItemsStart, Limit

LEMMA QueueFields ==
  ASSUME NEW q \in Queue
  PROVE  /\ q.item_count \in Nat /\ q.cursor \in {0} \cup ItemsStart..Limit
         /\ q.body \in [Cells -> Item \cup {Bytes}] /\ DOMAIN q.body = Cells
         /\ LiveEnd(q) \in Nat /\ ItemsStart <= LiveEnd(q) /\ LiveEnd(q) <= Limit
         /\ q = [item_count |-> q.item_count, cursor |-> q.cursor, body |-> q.body]
<1>1. /\ q.item_count \in Nat /\ q.cursor \in {0} \cup ItemsStart..Limit
      /\ q.body \in [Cells -> Item \cup {Bytes}]
      /\ q = [item_count |-> q.item_count, cursor |-> q.cursor, body |-> q.body]
  BY DEF Queue, Cells, Limit
<1>2. DOMAIN q.body = Cells
  BY <1>1
<1>3. LiveEnd(q) \in Nat /\ ItemsStart <= LiveEnd(q) /\ LiveEnd(q) <= Limit
  BY <1>1, CellKinds DEF LiveEnd
<1> QED
  BY <1>1, <1>2, <1>3

LEMMA LiveFinite ==
  ASSUME NEW q \in Queue
  PROVE  /\ IsFiniteSet(LivePositions(q)) /\ LivePositions(q) \subseteq Starts(q)
         /\ LivePositions(q) = {p \in Starts(q) : q.body[p].used}
         /\ IsFiniteSet(Starts(q)) /\ Starts(q) \subseteq Cells /\ Cells \subseteq Nat
         /\ \A p \in Starts(q) : /\ p \in Nat /\ p < LiveEnd(q) /\ q.body[p] \in Item
                                 /\ q.body[p].len \in Nat /\ q.body[p].len > 0
<1>1. DOMAIN q.body = Cells /\ q.body \in [Cells -> Item \cup {Bytes}]
  BY QueueFields
<1>2. LivePositions(q) = {p \in Starts(q) : q.body[p].used}
  BY <1>1, Zenon DEF LivePositions, Starts
<1>3. Starts(q) \subseteq Cells /\ Cells \subseteq Nat /\ IsFiniteSet(Cells)
  <2>1. ItemsStart \in Int /\ ItemsStart + BodyLength - 1 \in Int /\ ItemsStart \in Nat
    BY QueueAssumption DEF ItemsStart
  <2>2. IsFiniteSet(Cells)
    BY <2>1, FS_Interval DEF Cells
  <2>3. Cells \subseteq Nat
    BY <2>1 DEF Cells
  <2> QED
    BY <2>2, <2>3 DEF Starts
<1>4. LivePositions(q) \subseteq Starts(q)
  BY <1>2, Zenon
<1>5. IsFiniteSet(Starts(q)) /\ IsFiniteSet(LivePositions(q))
  BY <1>3, <1>4, FS_Subset
<1>6. \A p \in Starts(q) : /\ p \in Nat /\ p < LiveEnd(q) /\ q.body[p] \in Item
                           /\ q.body[p].len \in Nat /\ q.body[p].len > 0
  <2> SUFFICES ASSUME NEW p \in Starts(q)
               PROVE  /\ p \in Nat /\ p < LiveEnd(q) /\ q.body[p] \in Item
                      /\ q.body[p].len \in Nat /\ q.body[p].len > 0
    OBVIOUS
  <2>1. p \in Cells /\ p < LiveEnd(q) /\ q.body[p] # Bytes /\ q.body[p] \in Item \cup {Bytes}
    BY <1>1 DEF Starts
  <2> QED
    BY <1>3, <2>1, CellKinds
<1> QED
  BY <1>2, <1>3, <1>4, <1>5, <1>6

LEMMA EnqueueForm ==
  ASSUME NEW q, NEW item
  PROVE  Enqueue(q, item) =
           [item_count |-> q.item_count + 1, cursor |-> LiveEnd(q) + item.len,
            body |-> [p \in DOMAIN q.body |->
                        IF p = LiveEnd(q) THEN item
                        ELSE IF p \in LiveEnd(q)..(LiveEnd(q) + item.len - 1) THEN Bytes
                        ELSE q.body[p]]]
BY DEF Enqueue

LEMMA EnqueueKeeps ==
  ASSUME NEW q, QueueInv(q), NEW item \in Item, item.used, Accepts(q, item.len)
  PROVE  LET at == LiveEnd(q)
             r == Enqueue(q, item)
         IN  /\ QueueInv(r)
             /\ at \notin LivePositions(q)
             /\ LivePositions(r) = LivePositions(q) \cup {at}
             /\ r.body[at] = item
             /\ \A p \in LivePositions(q) : r.body[p] = q.body[p]
<1> DEFINE at == LiveEnd(q)
           r == Enqueue(q, item)
           end == LiveEnd(q) + item.len
           body == [p \in DOMAIN q.body |->
                      IF p = LiveEnd(q) THEN item
                      ELSE IF p \in LiveEnd(q)..(LiveEnd(q) + item.len - 1) THEN Bytes
                      ELSE q.body[p]]
           count == q.item_count + 1
<1>0. end = at + item.len
  OBVIOUS
<1>1. /\ q \in Queue /\ Tiled(q) /\ q.item_count = Cardinality(LivePositions(q))
      /\ q.item_count \in Nat /\ q.body \in [Cells -> Item \cup {Bytes}]
      /\ DOMAIN q.body = Cells
      /\ at \in Nat /\ ItemsStart <= at /\ at <= Limit
      /\ q = [item_count |-> q.item_count, cursor |-> q.cursor, body |-> q.body]
  BY QueueFields DEF QueueInv
<1>2. item.len \in Nat /\ item.len > 0 /\ item # Bytes /\ item \in Item \cup {Bytes}
  <2>1. item.len \in Lengths
    BY DEF Item
  <2>2. \A l \in Lengths : l \in Nat /\ l > 0
    BY QueueAssumption
  <2>3. Bytes.len = 0
    BY DEF Bytes
  <2>4. item.len \in Nat /\ item.len > 0
    BY ONLY <2>1, <2>2
  <2>5. item # Bytes
    BY ONLY <2>3, <2>4
  <2> QED
    BY <2>4, <2>5
<1>3. end <= Limit
  BY DEF Accepts, Limit
<1>4. r = [item_count |-> count, cursor |-> end, body |-> body]
  BY EnqueueForm, Zenon
<1>5. r.item_count = count /\ r.cursor = end /\ r.body = body
  BY <1>4
<1>6. at \in Cells /\ end \in Nat /\ end > at /\ end \in ItemsStart..Limit /\ end # 0
  <2>1. Limit = ItemsStart + BodyLength /\ BodyLength \in Nat /\ ItemsStart = 1
    BY QueueAssumption DEF Limit, ItemsStart
  <2> HIDE DEF at, end
  <2> QED
    BY ONLY <1>0, <1>1, <1>2, <1>3, <2>1 DEF Cells
<1>7. /\ body \in [Cells -> Item \cup {Bytes}] /\ body[at] = item
      /\ \A p \in Cells : /\ p < at => body[p] = q.body[p]
                          /\ p > at /\ p < end => body[p] = Bytes
  <2>1. \A p \in Cells : p \in Nat
    BY LiveFinite, <1>1
  <2>2. \A p \in Cells :
          /\ p < at => p # LiveEnd(q) /\ p \notin LiveEnd(q)..(LiveEnd(q) + item.len - 1)
          /\ p > at /\ p < end =>
               p # LiveEnd(q) /\ p \in LiveEnd(q)..(LiveEnd(q) + item.len - 1)
    BY <1>1, <1>2, <1>6, <2>1
  <2>0. body = [p \in Cells |-> IF p = LiveEnd(q) THEN item
                               ELSE IF p \in LiveEnd(q)..(LiveEnd(q) + item.len - 1)
                                    THEN Bytes
                               ELSE q.body[p]]
    BY <1>1
  <2> HIDE DEF end, body
  <2>3. ASSUME NEW p \in Cells PROVE body[p] \in Item \cup {Bytes}
    BY <1>1, <1>2, <2>0
  <2>4. body[at] = item
    BY <1>6, <2>0
  <2>5. body \in [Cells -> Item \cup {Bytes}]
    BY <2>0, <2>3
  <2>6. \A p \in Cells : /\ p < at => body[p] = q.body[p]
                         /\ p > at /\ p < end => body[p] = Bytes
    BY <2>0, <2>2, Zenon
  <2> QED
    BY <2>4, <2>5, <2>6
<1>8. LiveEnd(r) = end
  BY <1>5, <1>6 DEF LiveEnd
<1> HIDE DEF at, r, end, body, count
<1>9. /\ Starts(r) = Starts(q) \cup {at} /\ at \notin Starts(q)
      /\ \A p \in Starts(q) : p \in Cells /\ p \in Nat /\ p < at /\ r.body[p] = q.body[p]
                              /\ q.body[p].len \in Nat
  <2>1. \A p \in Cells : p \in Nat
    BY LiveFinite, <1>1
  <2>2. \A p \in Starts(q) : p \in Cells /\ p \in Nat /\ p < at /\ r.body[p] = q.body[p]
                              /\ q.body[p].len \in Nat
    BY <1>1, <1>5, <1>7, LiveFinite DEF at
  <2>3. \A p \in Cells : p < end /\ body[p] # Bytes => p = at \/ p < at
    BY <1>1, <1>6, <1>7, <2>1
  <2>4. Starts(q) = {p \in Cells : p < at /\ q.body[p] # Bytes}
    BY DEF Starts, at
  <2>5. Starts(r) = {p \in Cells : p < end /\ body[p] # Bytes}
    BY <1>5, <1>8 DEF Starts
  <2>6. ASSUME NEW p \in Cells
        PROVE  p \in Starts(r) <=> p \in Starts(q) \/ p = at
    <3>1. CASE p = at
      BY <1>2, <1>6, <1>7, <2>5, <3>1
    <3>2. CASE p # at
      <4>1. p < end /\ body[p] # Bytes => p < at /\ q.body[p] # Bytes
        BY <1>7, <2>3, <3>2
      <4>2. p < at => p < end
        BY <1>1, <1>6, <2>1
      <4>3. p < at /\ q.body[p] # Bytes => p < end /\ body[p] # Bytes
        BY <1>7, <4>2
      <4> QED
        BY <2>4, <2>5, <3>2, <4>1, <4>3, Zenon
    <3> QED
      BY <3>1, <3>2
  <2>7. Starts(r) \subseteq Cells /\ Starts(q) \subseteq Cells
    BY <2>4, <2>5, Zenon
  <2>8. at \notin Starts(q)
    BY <1>1, <2>2
  <2> QED
    BY <1>6, <2>2, <2>6, <2>7, <2>8
<1>10. r \in Queue
  <2>1. count \in Nat
    BY <1>1 DEF count
  <2> QED
    BY <1>4, <1>6, <1>7, <2>1 DEF Queue, Cells, Limit
<1>11. LivePositions(r) = LivePositions(q) \cup {at} /\ at \notin LivePositions(q)
  <2>1. LivePositions(r) = {p \in Starts(r) : r.body[p].used}
    BY <1>10, LiveFinite
  <2>2. LivePositions(q) = {p \in Starts(q) : q.body[p].used}
    BY <1>1, LiveFinite
  <2>3. r.body[at].used
    BY <1>5, <1>7
  <2> QED
    BY <1>9, <2>1, <2>2, <2>3, Zenon
<1>12. Tiled(r)
  <2>1. \A p \in Starts(q) \cup {at} : Boundary(r, p)
    BY <1>9 DEF Boundary
  <2>2. Boundary(r, ItemsStart)
    <3>1. Boundary(q, ItemsStart)
      BY <1>1 DEF Tiled
    <3> QED
      BY <2>1, <3>1 DEF Boundary, at
  <2>3. ASSUME NEW p \in Starts(q)
        PROVE  /\ Boundary(r, p + r.body[p].len)
               /\ p + r.body[p].len <= LiveEnd(r)
               /\ \A c \in Starts(r) : c <= p \/ p + r.body[p].len <= c
    <3>1. /\ Boundary(q, p + q.body[p].len) /\ p + q.body[p].len <= at
          /\ \A c \in Starts(q) : c <= p \/ p + q.body[p].len <= c
      BY <1>1 DEF Tiled, at
    <3>2. r.body[p] = q.body[p] /\ p \in Nat /\ q.body[p].len \in Nat
      BY <1>9
    <3>3. Boundary(r, p + q.body[p].len)
      BY <2>1, <3>1 DEF Boundary, at
    <3>4. p + q.body[p].len <= end
      BY <1>1, <1>6, <3>1, <3>2
    <3> QED
      BY <1>8, <1>9, <3>1, <3>2, <3>3, <3>4
  <2>4. /\ Boundary(r, at + r.body[at].len)
        /\ at + r.body[at].len <= LiveEnd(r)
        /\ \A c \in Starts(r) : c <= at \/ at + r.body[at].len <= c
    <3>1. at + r.body[at].len = end
      BY <1>0, <1>5, <1>7
    <3>2. \A c \in Starts(r) : c <= at
      BY <1>1, <1>9
    <3> QED
      BY <1>6, <1>8, <3>1, <3>2 DEF Boundary
  <2> QED
    BY <1>9, <2>2, <2>3, <2>4 DEF Tiled
<1>13. r.item_count = Cardinality(LivePositions(r))
  <2> DEFINE S == LivePositions(q)
  <2>1. IsFiniteSet(S) /\ q.item_count = Cardinality(S) /\ r.item_count = q.item_count + 1
    BY <1>1, <1>5, LiveFinite DEF count
  <2>2. Cardinality(S \cup {at}) = Cardinality(S) + 1
    BY <1>11, <2>1, FS_AddElement
  <2> QED
    BY <1>11, <2>1, <2>2
<1>14. \A p \in LivePositions(q) : r.body[p] = q.body[p]
  BY <1>1, <1>9, LiveFinite
<1> QED
  BY <1>5, <1>7, <1>10, <1>11, <1>12, <1>13, <1>14 DEF QueueInv, r, at

LEMMA ItemDies ==
  ASSUME NEW item \in Item
  PROVE  LET dead == [item EXCEPT !.used = FALSE]
         IN  dead \in Item /\ dead.len = item.len /\ ~dead.used
<1> DEFINE dead == [item EXCEPT !.used = FALSE]
<1>1. dead \in Item
  BY DEF Item
<1>2. dead.len = item.len
  BY DEF Item
<1>3. ~dead.used
  BY Zenon DEF Item
<1> QED
  BY <1>1, <1>2, <1>3

LEMMA RemoveForm ==
  ASSUME NEW q, NEW p
  PROVE  RemoveItem(q, p) =
           [item_count |-> q.item_count - 1,
            cursor |-> Max({ItemsStart} \cup
                           {d + [q.body EXCEPT ![p].used = FALSE][d].len :
                              d \in LivePositions(q) \ {p}}),
            body |-> [q.body EXCEPT ![p].used = FALSE]]
BY DEF RemoveItem

LEMMA RemoveKeeps ==
  ASSUME NEW q, QueueInv(q), NEW p \in LivePositions(q)
  PROVE  LET r == RemoveItem(q, p)
         IN  /\ QueueInv(r)
             /\ LivePositions(r) = LivePositions(q) \ {p}
             /\ \A d \in LivePositions(r) : r.body[d] = q.body[d]
<1> DEFINE r == RemoveItem(q, p)
           old == q.body
           body == [q.body EXCEPT ![p].used = FALSE]
           alive == LivePositions(q)
           left == alive \ {p}
           ends == {ItemsStart} \cup {d + body[d].len : d \in left}
           end == Max(ends)
           top == LiveEnd(q)
<1>1. /\ q \in Queue /\ Tiled(q) /\ q.item_count = Cardinality(alive)
      /\ q.item_count \in Nat /\ old \in [Cells -> Item \cup {Bytes}]
      /\ DOMAIN old = Cells
      /\ top \in Nat /\ ItemsStart <= top /\ top <= Limit
  BY QueueFields DEF QueueInv
<1>2. /\ IsFiniteSet(alive) /\ alive \subseteq Starts(q) /\ alive = {d \in Starts(q) : old[d].used}
      /\ Starts(q) \subseteq Cells /\ Cells \subseteq Nat
      /\ \A d \in Starts(q) : /\ d \in Nat /\ d < top /\ old[d] \in Item
                              /\ old[d].len \in Nat /\ old[d].len > 0
  BY <1>1, LiveFinite
<1>3. /\ \A s \in Starts(q) : /\ Boundary(q, s + old[s].len) /\ s + old[s].len <= top
                              /\ \A c \in Starts(q) : c <= s \/ s + old[s].len <= c
      /\ Boundary(q, ItemsStart)
  BY <1>1 DEF Tiled
<1>4. /\ r.item_count = q.item_count - 1 /\ r.cursor = end /\ r.body = body
      /\ r = [item_count |-> q.item_count - 1, cursor |-> end, body |-> body]
  BY RemoveForm, Zenon
<1>5. p \in Starts(q) /\ p \in Cells /\ old[p] \in Item
  BY <1>2
<1>6. /\ body \in [Cells -> Item \cup {Bytes}]
      /\ body[p] \in Item /\ body[p].len = old[p].len /\ ~body[p].used
      /\ \A d \in Cells \ {p} : body[d] = old[d]
  <2> DEFINE dead == [old[p] EXCEPT !.used = FALSE]
  <2>1. dead \in Item /\ dead.len = old[p].len /\ ~dead.used
    BY <1>5, ItemDies
  <2>2. body = [old EXCEPT ![p] = dead]
    OBVIOUS
  <2> HIDE DEF body, dead, old
  <2>3. body[p] = dead /\ \A d \in Cells \ {p} : body[d] = old[d]
    BY <1>1, <1>5, <2>2
  <2>4. body \in [Cells -> Item \cup {Bytes}]
    BY <1>1, <1>5, <2>1, <2>2
  <2> QED
    BY <2>1, <2>3, <2>4, Zenon
<1> HIDE DEF r, body, old, alive, top
<1>7. \A d \in Cells : body[d].len = old[d].len /\ (body[d] = Bytes <=> old[d] = Bytes)
  <2>1. old[p] # Bytes /\ body[p] # Bytes
    BY <1>5, <1>6, CellKinds
  <2> QED
    BY <1>6, <2>1
<1>8. /\ end \in ends /\ \A e \in ends : e <= end
      /\ \A e \in ends : e \in Nat /\ ItemsStart <= e /\ e <= top
  <2>1. \A e \in ends : e \in Nat /\ ItemsStart <= e /\ e <= top
    <3>1. \A d \in left : d + body[d].len \in Nat /\ ItemsStart <= d + body[d].len
                          /\ d + body[d].len <= top
      <4> SUFFICES ASSUME NEW d \in left
                   PROVE  /\ d + body[d].len \in Nat /\ ItemsStart <= d + body[d].len
                          /\ d + body[d].len <= top
        OBVIOUS
      <4>1. d \in Starts(q) /\ d \in Cells
        BY <1>2
      <4>2. body[d].len = old[d].len /\ d + old[d].len <= top
        BY <1>3, <1>7, <4>1
      <4>3. ItemsStart <= d /\ ItemsStart \in Nat
        BY <4>1, QueueAssumption DEF Cells, ItemsStart
      <4>4. d \in Nat /\ old[d].len \in Nat
        BY <1>2, <4>1
      <4> QED
        BY ONLY <4>2, <4>3, <4>4
    <3> QED
      BY <1>1, <3>1, CellKinds
  <2>2. ends \subseteq Nat /\ ends # {}
    BY <2>1
  <2>3. IsFiniteSet(ends)
    BY <1>1, <2>1, <2>2, FS_BoundedSetOfNaturals
  <2> HIDE DEF ends
  <2> QED
    BY <2>1, <2>2, <2>3, MaxOf
<1>9. \A d \in left : d + old[d].len <= end
  <2>1. \A d \in left : d \in Cells
    BY <1>2
  <2>2. \A d \in left : d + body[d].len \in ends
    OBVIOUS
  <2> QED
    BY <1>7, <1>8, <2>1, <2>2
<1>10. end = ItemsStart \/ \E d \in Starts(q) : end = d + old[d].len
  BY <1>2, <1>7, <1>8
<1> HIDE DEF ends, end
<1>11. end \in Nat /\ ItemsStart <= end /\ end <= top /\ end # 0
  BY <1>8, CellKinds
<1>12. LiveEnd(r) = end
  BY <1>4, <1>11 DEF LiveEnd
<1>13. Starts(r) = {s \in Starts(q) : s < end}
  <2>1. Starts(q) = {s \in Cells : s < top /\ old[s] # Bytes}
    BY Zenon DEF Starts, top, old
  <2>2. Starts(r) = {s \in Cells : s < end /\ body[s] # Bytes}
    BY <1>4, <1>12 DEF Starts
  <2>3. \A s \in Cells : s < end => s < top
    BY <1>1, <1>2, <1>11
  <2> QED
    BY <1>7, <2>1, <2>2, <2>3, Zenon
<1>14. r \in Queue
  <2>1. q.item_count - 1 \in Nat
    <3>1. Cardinality(alive) # 0
      BY <1>2, FS_EmptySet DEF alive
    <3> QED
      BY <1>1, <3>1
  <2>2. end \in ItemsStart..Limit
    BY <1>1, <1>11, CellKinds
  <2> QED
    BY <1>4, <1>6, <2>1, <2>2 DEF Queue, Cells, Limit
<1>15. LivePositions(r) = left
  <2>1. LivePositions(r) = {s \in Starts(r) : body[s].used}
    BY <1>4, <1>14, LiveFinite, Zenon
  <2>2. \A s \in Starts(q) : s \in Cells
    BY <1>2
  <2>3. \A s \in left : s < end
    BY <1>2, <1>9, <1>11
  <2> QED
    BY <1>2, <1>6, <1>13, <2>1, <2>2, <2>3, Zenon
<1>16. Tiled(r)
  <2>1. \A c \in Nat : c <= end /\ Boundary(q, c) => Boundary(r, c)
    BY <1>1, <1>11, <1>12, <1>13 DEF Boundary, top
  <2>2. Boundary(r, ItemsStart)
    BY <1>3, <1>11, <2>1, CellKinds
  <2>3. ASSUME NEW s \in Starts(r)
        PROVE  /\ Boundary(r, s + r.body[s].len) /\ s + r.body[s].len <= LiveEnd(r)
               /\ \A c \in Starts(r) : c <= s \/ s + r.body[s].len <= c
    <3>1. s \in Starts(q) /\ s < end /\ s \in Nat /\ s \in Cells /\ old[s].len \in Nat
      BY <1>2, <1>13
    <3>2. r.body[s].len = old[s].len
      BY <1>4, <1>7, <3>1
    <3>3. s + old[s].len <= end
      <4>1. CASE end = ItemsStart
        BY <3>1, <4>1 DEF Cells, ItemsStart
      <4>2. CASE \E d \in Starts(q) : end = d + old[d].len
        <5>1. PICK d \in Starts(q) : end = d + old[d].len
          BY <4>2
        <5>2. d \in Nat /\ old[d].len \in Nat /\ old[d].len > 0
          BY <1>2
        <5>3. d <= s \/ s + old[s].len <= d
          BY <1>3, <3>1
        <5>4. s <= d \/ d + old[d].len <= s
          BY <1>3, <3>1
        <5>5. CASE s = d
          BY <5>1, <5>5, <3>1
        <5> QED
          BY <3>1, <5>1, <5>2, <5>3, <5>4, <5>5
      <4> QED
        BY <1>10, <4>1, <4>2
    <3>4. Boundary(r, s + old[s].len)
      BY <1>3, <2>1, <3>1, <3>3
    <3>5. \A c \in Starts(r) : c <= s \/ s + old[s].len <= c
      BY <1>3, <1>13, <3>1
    <3> QED
      BY <1>12, <3>2, <3>3, <3>4, <3>5
  <2> QED
    BY <2>2, <2>3 DEF Tiled
<1>17. r.item_count = Cardinality(LivePositions(r))
  <2>1. p \in alive
    BY DEF alive
  <2>2. Cardinality(alive \ {p}) = Cardinality(alive) - 1
    BY <1>2, <2>1, FS_RemoveElement
  <2> QED
    BY <1>1, <1>4, <1>15, <2>2
<1>18. \A d \in LivePositions(r) : r.body[d] = q.body[d]
  BY <1>2, <1>4, <1>6, <1>15 DEF old
<1> QED
  BY <1>14, <1>15, <1>16, <1>17, <1>18 DEF QueueInv, r, alive

\* The table the walk is defined by.
WalkTable(q, program, key, f) ==
  f = [p \in ItemsStart..Limit |->
        IF p = LiveEnd(q) THEN [ok |-> TRUE, live_items |-> 0, found |-> FALSE]
        ELSE IF p > LiveEnd(q) \/ ~WellFormed(q, p)
             THEN [ok |-> FALSE, live_items |-> 0, found |-> FALSE]
        ELSE [ok |-> f[p + q.body[p].len].ok,
              live_items |-> f[p + q.body[p].len].live_items
                               + (IF q.body[p].used THEN 1 ELSE 0),
              found |-> f[p + q.body[p].len].found \/ Targets(q.body[p], program, key)]]

LEMMA WalkIsATable ==
  ASSUME NEW q, NEW program, NEW key, \E f : WalkTable(q, program, key, f)
  PROVE  \E f : WalkTable(q, program, key, f) /\ Walk(q, program, key) = f[ItemsStart]
<1> DEFINE W == CHOOSE f : WalkTable(q, program, key, f)
<1>1. WalkTable(q, program, key, W)
  OBVIOUS
<1>2. Walk(q, program, key) = W[ItemsStart]
  BY Zenon DEF Walk, WalkTable, Limit
<1> QED
  BY <1>1, <1>2

\* The live items from a cell on, and whether one of them is looked for.
Above(q, p) == {d \in LivePositions(q) : d >= p}
Hit(q, program, key, p) == \E d \in Above(q, p) : Targets(q.body[d], program, key)

LEMMA AboveFacts ==
  ASSUME NEW q, QueueInv(q)
  PROVE  /\ Above(q, ItemsStart) = LivePositions(q) /\ Above(q, LiveEnd(q)) = {}
         /\ \A p : IsFiniteSet(Above(q, p)) /\ Cardinality(Above(q, p)) \in Nat
         /\ \A s \in Starts(q) :
              LET next == s + q.body[s].len
              IN  /\ q.body[s].used => Above(q, s) = Above(q, next) \cup {s}
                  /\ ~q.body[s].used => Above(q, s) = Above(q, next)
                  /\ s \notin Above(q, next)
                  /\ next \in Nat /\ next > s
<1>1. q \in Queue /\ Tiled(q)
  BY DEF QueueInv
<1>2. /\ IsFiniteSet(LivePositions(q)) /\ LivePositions(q) \subseteq Starts(q)
      /\ LivePositions(q) = {p \in Starts(q) : q.body[p].used}
      /\ Starts(q) \subseteq Cells /\ Cells \subseteq Nat
      /\ \A p \in Starts(q) : /\ p \in Nat /\ p < LiveEnd(q) /\ q.body[p] \in Item
                              /\ q.body[p].len \in Nat /\ q.body[p].len > 0
  BY <1>1, LiveFinite
<1>3. LiveEnd(q) \in Nat /\ BodyLength \in Nat
  BY <1>1, QueueFields, QueueAssumption
<1>4. Above(q, ItemsStart) = LivePositions(q)
  <2>1. \A p \in Cells : p >= ItemsStart
    BY <1>3 DEF Cells, ItemsStart
  <2> QED
    BY <1>2, <2>1 DEF Above
<1>5. Above(q, LiveEnd(q)) = {}
  <2>1. \A p \in LivePositions(q) : ~(p >= LiveEnd(q))
    BY <1>2, <1>3
  <2> QED
    BY <2>1 DEF Above
<1>6. \A p : IsFiniteSet(Above(q, p)) /\ Cardinality(Above(q, p)) \in Nat
  <2> SUFFICES ASSUME NEW p
               PROVE  IsFiniteSet(Above(q, p)) /\ Cardinality(Above(q, p)) \in Nat
    OBVIOUS
  <2>1. Above(q, p) \in SUBSET LivePositions(q)
    BY DEF Above
  <2> QED
    BY <1>2, <2>1, FS_Subset, FS_CardinalityType
<1>7. ASSUME NEW s \in Starts(q)
      PROVE  LET next == s + q.body[s].len
             IN  /\ q.body[s].used => Above(q, s) = Above(q, next) \cup {s}
                 /\ ~q.body[s].used => Above(q, s) = Above(q, next)
                 /\ s \notin Above(q, next)
                 /\ next \in Nat /\ next > s
  <2> DEFINE next == s + q.body[s].len
  <2>1. s \in Nat /\ next \in Nat /\ next > s
    BY <1>2
  <2>2. \A c \in Starts(q) : c <= s \/ next <= c
    BY <1>1 DEF Tiled
  <2> HIDE DEF next
  <2>3. \A d \in LivePositions(q) : d \in Nat /\ (d >= s <=> d = s \/ d >= next)
    <3> SUFFICES ASSUME NEW d \in LivePositions(q)
                 PROVE  d \in Nat /\ (d >= s <=> d = s \/ d >= next)
      OBVIOUS
    <3>1. d \in Nat /\ (d <= s \/ next <= d)
      BY <1>2, <2>2
    <3> QED
      BY ONLY <2>1, <3>1
  <2>4. s \notin Above(q, next)
    BY <2>1 DEF Above
  <2>5. s \in LivePositions(q) <=> q.body[s].used
    BY <1>2, Zenon
  <2>6. q.body[s].used => Above(q, s) = Above(q, next) \cup {s}
    BY <2>3, <2>5, Zenon DEF Above
  <2>7. ~q.body[s].used => Above(q, s) = Above(q, next)
    BY <2>3, <2>5, Zenon DEF Above
  <2> QED
    BY <2>1, <2>4, <2>6, <2>7 DEF next
<1> QED
  BY <1>4, <1>5, <1>6, <1>7

LEMMA AboveCounts ==
  ASSUME NEW q, QueueInv(q), NEW s \in Starts(q), NEW program, NEW key
  PROVE  LET next == s + q.body[s].len
         IN  /\ Cardinality(Above(q, s)) =
                  Cardinality(Above(q, next)) + (IF q.body[s].used THEN 1 ELSE 0)
             /\ Hit(q, program, key, s) <=>
                  Hit(q, program, key, next) \/ Targets(q.body[s], program, key)
<1> DEFINE next == s + q.body[s].len
           A == Above(q, s)
           N == Above(q, next)
<1>1. /\ q.body[s].used => A = N \cup {s}
      /\ ~q.body[s].used => A = N
      /\ s \notin N /\ IsFiniteSet(N) /\ Cardinality(N) \in Nat
  BY AboveFacts
<1>2. Targets(q.body[s], program, key) => q.body[s].used
  BY Zenon DEF Targets
<1> HIDE DEF next, A, N
<1>3. CASE q.body[s].used
  <2>1. Cardinality(A) = Cardinality(N) + 1
    BY <1>1, <1>3, FS_AddElement
  <2> DEFINE T(d) == Targets(q.body[d], program, key)
  <2>2. (\E d \in A : T(d)) <=> (\E d \in N : T(d)) \/ T(s)
    <3> HIDE DEF T
    <3> QED
      BY <1>1, <1>3
  <2> QED
    BY <1>3, <2>1, <2>2 DEF Hit, A, N, next
<1>4. CASE ~q.body[s].used
  <2>1. A = N /\ ~Targets(q.body[s], program, key)
    BY <1>1, <1>2, <1>4
  <2> QED
    BY <1>1, <1>4, <2>1 DEF Hit, A, N, next
<1> QED
  BY <1>3, <1>4

\* A table says what is above each boundary.
LEMMA WalkCounts ==
  ASSUME NEW q, QueueInv(q), NEW program, NEW key, NEW f, WalkTable(q, program, key, f)
  PROVE  /\ f[ItemsStart].ok
         /\ f[ItemsStart].live_items = Cardinality(LivePositions(q))
         /\ f[ItemsStart].found <=>
              \E p \in LivePositions(q) : Targets(q.body[p], program, key)
<1> DEFINE end == LiveEnd(q)
           Right(p) == /\ f[p].ok
                       /\ f[p].live_items = Cardinality(Above(q, p))
                       /\ f[p].found <=> Hit(q, program, key, p)
           Wrong == {p \in ItemsStart..Limit : Boundary(q, p) /\ ~Right(p)}
<1>1. /\ q \in Queue /\ Boundary(q, ItemsStart)
      /\ ItemsStart \in Nat /\ Limit \in Nat /\ ItemsStart <= Limit
      /\ end \in Nat /\ ItemsStart <= end /\ end <= Limit
      /\ Limit = ItemsStart + BodyLength
  BY CellKinds, QueueFields DEF QueueInv, Tiled, Limit
<1>2. ASSUME NEW s \in Starts(q)
      PROVE  /\ s \in ItemsStart..Limit /\ s \in Nat /\ s < end
             /\ q.body[s] # Bytes
             /\ Boundary(q, s + q.body[s].len) /\ s + q.body[s].len \in ItemsStart..Limit
             /\ s + q.body[s].len > s /\ s + q.body[s].len <= end
  <2>1. s \in Cells /\ s \in Nat /\ s < end /\ q.body[s] # Bytes
    BY <1>1, LiveFinite DEF Starts
  <2>2. /\ Boundary(q, s + q.body[s].len) /\ s + q.body[s].len <= end
        /\ s + q.body[s].len \in Nat /\ s + q.body[s].len > s
    BY AboveFacts DEF QueueInv, Tiled
  <2>3. ItemsStart <= s
    BY <1>1, <2>1, QueueAssumption DEF Cells
  <2> QED
    BY <1>1, <2>1, <2>2, <2>3
<1>3. Right(end)
  <2>1. f[end] = [ok |-> TRUE, live_items |-> 0, found |-> FALSE]
    BY <1>1 DEF WalkTable
  <2>2. Cardinality(Above(q, end)) = 0 /\ ~Hit(q, program, key, end)
    BY AboveFacts, FS_EmptySet DEF Hit
  <2> QED
    BY <2>1, <2>2
<1>4. ASSUME NEW s \in Starts(q), Right(s + q.body[s].len)
      PROVE  Right(s)
  <2> DEFINE next == s + q.body[s].len
             rest == f[next]
  <2>1. ~(s > end) /\ s # end /\ WellFormed(q, s) /\ s \in ItemsStart..Limit
    BY <1>1, <1>2 DEF WellFormed
  <2>2. f[s] = [ok |-> rest.ok,
                live_items |-> rest.live_items + (IF q.body[s].used THEN 1 ELSE 0),
                found |-> rest.found \/ Targets(q.body[s], program, key)]
    BY <2>1, Zenon DEF WalkTable
  <2>3. /\ f[s].ok <=> rest.ok
        /\ f[s].live_items = rest.live_items + (IF q.body[s].used THEN 1 ELSE 0)
        /\ f[s].found <=> rest.found \/ Targets(q.body[s], program, key)
    <3> DEFINE used == q.body[s].used
               hit == rest.found \/ Targets(q.body[s], program, key)
               a == rest.ok
               count == rest.live_items + (IF used THEN 1 ELSE 0)
    <3>1. f[s] = [ok |-> a, live_items |-> count, found |-> hit]
      BY <2>2
    <3> HIDE DEF hit, a, count
    <3>2. f[s].live_items = count /\ f[s].ok = a /\ f[s].found = hit
      BY <3>1
    <3> QED
      BY <3>2, Zenon DEF hit, a, count
  <2>4. /\ Cardinality(Above(q, s)) =
             Cardinality(Above(q, next)) + (IF q.body[s].used THEN 1 ELSE 0)
        /\ Hit(q, program, key, s) <=>
             Hit(q, program, key, next) \/ Targets(q.body[s], program, key)
    BY AboveCounts
  <2>5. /\ rest.ok /\ rest.live_items = Cardinality(Above(q, next))
        /\ rest.found <=> Hit(q, program, key, next)
    BY <1>4
  <2> HIDE DEF rest, next
  <2>6. f[s].live_items = Cardinality(Above(q, s))
    BY <2>3, <2>4, <2>5
  <2> QED
    BY <2>3, <2>4, <2>5, <2>6, Zenon
<1> HIDE DEF Right
<1>5. Wrong = {}
  <2> SUFFICES ASSUME Wrong # {} PROVE FALSE
    OBVIOUS
  <2>1. Wrong \subseteq Nat /\ \A p \in Wrong : p <= Limit
    BY <1>1
  <2>2. IsFiniteSet(Wrong)
    <3> HIDE DEF Wrong
    <3> QED
      BY <1>1, <2>1, FS_BoundedSetOfNaturals
  <2> DEFINE m == Max(Wrong)
  <2>3. m \in Wrong /\ \A p \in Wrong : p <= m
    <3> HIDE DEF Wrong
    <3> QED
      BY <2>1, <2>2, MaxOf
  <2> HIDE DEF m
  <2>4. m \in Starts(q)
    BY <1>3, <2>3 DEF Boundary
  <2>5. m + q.body[m].len \in Wrong
    BY <1>2, <1>4, <2>3, <2>4
  <2>6. m + q.body[m].len > m /\ m \in Nat /\ m + q.body[m].len \in Nat
    BY <1>1, <1>2, <2>4
  <2> QED
    BY <2>3, <2>5, <2>6
<1>6. Right(ItemsStart)
  BY <1>1, <1>5
<1>7. Above(q, ItemsStart) = LivePositions(q)
  BY AboveFacts
<1> QED
  BY <1>6, <1>7, Zenon DEF Right, Hit

\* A tiled queue has a table, its closed form.
LEMMA WalkTableExists ==
  ASSUME NEW q, QueueInv(q), NEW program, NEW key
  PROVE  \E f : WalkTable(q, program, key, f)
<1> DEFINE end == LiveEnd(q)
           Cells0 == ItemsStart..Limit
           Refused == [ok |-> FALSE, live_items |-> 0, found |-> FALSE]
           Answer(p) == [ok |-> TRUE, live_items |-> Cardinality(Above(q, p)),
                         found |-> Hit(q, program, key, p)]
           f == [p \in Cells0 |-> IF Boundary(q, p) THEN Answer(p) ELSE Refused]
           Entry0(p) ==
             IF p = end THEN [ok |-> TRUE, live_items |-> 0, found |-> FALSE]
             ELSE IF p > end \/ ~WellFormed(q, p) THEN Refused
             ELSE [ok |-> f[p + q.body[p].len].ok,
                   live_items |-> f[p + q.body[p].len].live_items
                                    + (IF q.body[p].used THEN 1 ELSE 0),
                   found |-> f[p + q.body[p].len].found \/ Targets(q.body[p], program, key)]
<1>1. /\ q \in Queue /\ Limit = ItemsStart + BodyLength
      /\ ItemsStart \in Nat /\ Limit \in Nat /\ ItemsStart <= Limit
      /\ end \in Nat /\ ItemsStart <= end /\ end <= Limit
      /\ BodyLength \in Nat
  BY CellKinds, QueueFields, QueueAssumption DEF QueueInv, Limit
<1>2. ASSUME NEW s \in Starts(q)
      PROVE  /\ s \in Cells0 /\ s \in Nat /\ s < end /\ q.body[s] # Bytes
             /\ Boundary(q, s + q.body[s].len) /\ s + q.body[s].len \in Cells0
             /\ s + q.body[s].len <= Limit
  <2>1. s \in Cells /\ s \in Nat /\ s < end /\ q.body[s] # Bytes
    BY <1>1, LiveFinite DEF Starts
  <2>2. /\ Boundary(q, s + q.body[s].len) /\ s + q.body[s].len <= end
        /\ s + q.body[s].len \in Nat /\ s + q.body[s].len > s
    BY AboveFacts DEF QueueInv, Tiled
  <2>3. ItemsStart <= s
    BY <1>1, <2>1 DEF Cells
  <2> QED
    BY <1>1, <2>1, <2>2, <2>3
<1>3. f[end] = Entry0(end)
  <2>1. Boundary(q, end) /\ end \in Cells0
    BY <1>1 DEF Boundary
  <2>2. Cardinality(Above(q, end)) = 0 /\ Hit(q, program, key, end) = FALSE
    BY AboveFacts, FS_EmptySet DEF Hit
  <2>3. f[end] = Answer(end)
    BY <2>1
  <2>4. Answer(end) = [ok |-> TRUE, live_items |-> 0, found |-> FALSE]
    BY <2>2
  <2> QED
    BY <2>3, <2>4
<1>4. ASSUME NEW s \in Starts(q) PROVE f[s] = Entry0(s)
  <2> DEFINE next == s + q.body[s].len
             hit == Hit(q, program, key, next)
             target == Targets(q.body[s], program, key)
             n == Cardinality(Above(q, next))
             one == IF q.body[s].used THEN 1 ELSE 0
  <2>1. f[s] = Answer(s)
    BY <1>2 DEF Boundary
  <2>2. f[next] = Answer(next)
    BY <1>2
  <2>3. f[next].ok = TRUE /\ f[next].live_items = n /\ f[next].found = hit
    <3>1. f[next] = [ok |-> TRUE, live_items |-> n, found |-> hit]
      BY <2>2
    <3> HIDE DEF f, n, hit, next
    <3> QED
      BY <3>1
  <2>4. ~(s > end) /\ s # end /\ WellFormed(q, s)
    BY <1>1, <1>2 DEF WellFormed
  <2>5. Entry0(s) = [ok |-> f[next].ok, live_items |-> f[next].live_items + one,
                     found |-> f[next].found \/ target]
    <3> HIDE DEF f, end
    <3> QED
      BY <2>4 DEF end
  <2>6. Cardinality(Above(q, s)) = n + one /\ (Hit(q, program, key, s) <=> hit \/ target)
    BY AboveCounts
  <2>7. Hit(q, program, key, s) = (hit \/ target)
    BY <2>6 DEF Hit
  <2>8. Answer(s) = [ok |-> TRUE, live_items |-> n + one, found |-> hit \/ target]
    BY <2>6, <2>7
  <2> HIDE DEF f, Entry0, Answer, n, one, hit, target, next
  <2> QED
    BY <2>1, <2>3, <2>5, <2>8
<1>5. ASSUME NEW p \in Cells0, ~Boundary(q, p) PROVE f[p] = Entry0(p)
  <2>1. f[p] = Refused
    BY <1>5
  <2>2. p # end /\ p \notin Starts(q)
    BY <1>5 DEF Boundary
  <2>3. p > end \/ ~WellFormed(q, p)
    <3>1. CASE p > end
      BY <3>1
    <3>2. CASE p < end
      <4>1. p \in Cells
        BY <1>1, <3>2 DEF Cells
      <4> QED
        BY <2>2, <3>2, <4>1 DEF Starts, WellFormed
    <3> QED
      BY <1>1, <2>2, <3>1, <3>2
  <2> HIDE DEF f, Refused, end
  <2> QED
    BY <2>1, <2>2, <2>3
<1>6. \A p \in Cells0 : f[p] = Entry0(p)
  BY <1>3, <1>4, <1>5 DEF Boundary
<1>7. f = [p \in Cells0 |-> Entry0(p)]
  <2>1. f = [p \in Cells0 |-> f[p]]
    OBVIOUS
  <2> HIDE DEF f, Entry0
  <2> QED
    BY <1>6, <2>1
<1> QED
  <2> HIDE DEF f
  <2>1. WalkTable(q, program, key, f)
    BY <1>7, Zenon DEF WalkTable
  <2> QED
    BY <2>1

\* The reader answers live exactly for what one of the live items asks for.
LEMMA ReaderAnswers ==
  ASSUME NEW q, QueueInv(q), NEW program, NEW key
  PROVE  BatchRequestIsLive(q, program, key) =
           IF \E p \in LivePositions(q) : Targets(q.body[p], program, key)
           THEN "live" ELSE "absent"
<1>1. PICK f : WalkTable(q, program, key, f) /\ Walk(q, program, key) = f[ItemsStart]
  BY WalkTableExists, WalkIsATable
<1>2. /\ f[ItemsStart].ok
      /\ f[ItemsStart].live_items = q.item_count
      /\ f[ItemsStart].found <=>
           \E p \in LivePositions(q) : Targets(q.body[p], program, key)
  BY <1>1, WalkCounts DEF QueueInv
<1>3. HeaderOK(q)
  <2>1. q \in Queue /\ q.cursor \in {0} \cup ItemsStart..Limit
    BY QueueFields DEF QueueInv
  <2>2. q.cursor = 0 => q.item_count = 0
    <3> SUFFICES ASSUME q.cursor = 0 PROVE q.item_count = 0
      OBVIOUS
    <3>1. LiveEnd(q) = ItemsStart
      BY DEF LiveEnd
    <3>2. LivePositions(q) = {}
      BY <3>1, AboveFacts
    <3> QED
      BY <3>2, FS_EmptySet DEF QueueInv
  <2> QED
    BY <2>1, <2>2 DEF HeaderOK, Limit
<1> QED
  BY <1>1, <1>2, <1>3, Zenon DEF BatchRequestIsLive

---------------------------------------------------------------------------------
(* The requests of this program. *)

\* The live item at p of a queue is the request of batch b.
Owns(q, p, b) == p \in LivePositions(q) /\ q.body[p].program = Us /\ q.body[p].args = b

\* Every live request of this program is the one request of an outstanding batch, on
\* the queue it was made on, and every outstanding batch has its request.
RequestInv ==
  /\ TypeOK
  /\ \A x \in Queues : QueueInv(queues[x])
  /\ \A x \in Queues : \A p, b : Owns(queues[x], p, b) => b \in outstanding /\ asked[b] = x
  /\ \A x \in Queues : \A p, d, b : Owns(queues[x], p, b) /\ Owns(queues[x], d, b) => p = d
  /\ \A b \in outstanding : batches[b] = "Committed" /\ \E p : Owns(queues[asked[b]], p, b)

LEMMA OwnsEnqueued ==
  ASSUME NEW q, QueueInv(q), NEW item \in Item, item.used, Accepts(q, item.len)
  PROVE  /\ QueueInv(Enqueue(q, item))
         /\ \A p, b : Owns(Enqueue(q, item), p, b) <=>
              \/ Owns(q, p, b)
              \/ p = LiveEnd(q) /\ item.program = Us /\ item.args = b
         /\ \A b : ~Owns(q, LiveEnd(q), b)
<1> DEFINE at == LiveEnd(q)
           r == Enqueue(q, item)
<1>1. /\ QueueInv(r) /\ at \notin LivePositions(q)
      /\ LivePositions(r) = LivePositions(q) \cup {at}
      /\ r.body[at] = item
      /\ \A p \in LivePositions(q) : r.body[p] = q.body[p]
  BY EnqueueKeeps
<1> HIDE DEF at, r
<1>2. \A p, b : Owns(r, p, b) <=> Owns(q, p, b) \/ (p = at /\ item.program = Us /\ item.args = b)
  BY <1>1 DEF Owns
<1>3. \A b : ~Owns(q, at, b)
  BY <1>1 DEF Owns
<1> QED
  BY <1>1, <1>2, <1>3 DEF at, r

LEMMA OwnsRemoved ==
  ASSUME NEW q, QueueInv(q), NEW p \in LivePositions(q)
  PROVE  /\ QueueInv(RemoveItem(q, p))
         /\ \A d, b : Owns(RemoveItem(q, p), d, b) <=> Owns(q, d, b) /\ d # p
<1> DEFINE r == RemoveItem(q, p)
<1>1. /\ QueueInv(r) /\ LivePositions(r) = LivePositions(q) \ {p}
      /\ \A d \in LivePositions(r) : r.body[d] = q.body[d]
  BY RemoveKeeps
<1> HIDE DEF r
<1>2. \A d, b : Owns(r, d, b) <=> Owns(q, d, b) /\ d # p
  BY <1>1 DEF Owns
<1> QED
  BY <1>1, <1>2 DEF r

LEMMA FreshQueueInv ==
  QueueInv(FreshQueue) /\ \A p, b : ~Owns(FreshQueue, p, b)
<1> DEFINE q == FreshQueue
<1>1. /\ q.item_count = 0 /\ q.cursor = 0 /\ q.body = [p \in Cells |-> Bytes]
  BY DEF FreshQueue, Cells
<1>2. LiveEnd(q) = ItemsStart
  BY <1>1 DEF LiveEnd
<1>3. q \in Queue
  BY DEF FreshQueue, Queue
<1>4. Starts(q) = {}
  BY <1>1 DEF Starts
<1>5. LivePositions(q) = {}
  BY <1>3, <1>4, LiveFinite
<1>6. Tiled(q)
  BY <1>2, <1>4 DEF Tiled, Boundary
<1> QED
  BY <1>1, <1>3, <1>5, <1>6, FS_EmptySet DEF QueueInv, Owns

---------------------------------------------------------------------------------
(* The configuration keeps its type. *)

LEMMA AuthorityKeepsType ==
  ASSUME ProtocolTypeOK, AuthorityStep
  PROVE  ProtocolTypeOK'
<1>1. ASSUME NEW signer \in Keys, NEW role \in Roles, Accept(signer, role)
      PROVE  ProtocolTypeOK'
  <2>1. /\ live' = [live EXCEPT ![role] = signer]
        /\ pending' = [pending EXCEPT ![role] = NoKey]
        /\ mandate' = [mandate EXCEPT ![role] = NoMandate]
        /\ UNCHANGED <<initialized, oracle_queue, pools, index_pool>>
    BY <1>1 DEF Accept, poolVars
  <2> QED
    BY <2>1 DEF ProtocolTypeOK
<1>2. ASSUME NEW signer \in Keys, NEW role \in Roles, NEW proposed \in Keys \cup {NoKey},
             Propose(signer, role, proposed)
      PROVE  ProtocolTypeOK'
  <2> DEFINE word == IF proposed = NoKey THEN NoMandate ELSE [by |-> signer, key |-> proposed]
  <2>1. /\ live' = live
        /\ pending' = [pending EXCEPT ![role] = proposed]
        /\ mandate' = [mandate EXCEPT ![role] = word]
        /\ UNCHANGED <<initialized, oracle_queue, pools, index_pool>>
    BY <1>2 DEF Propose, poolVars
  <2>2. word \in [by: Keys, key: Keys] \cup {NoMandate}
    OBVIOUS
  <2> HIDE DEF word
  <2> QED
    BY <2>1, <2>2 DEF ProtocolTypeOK
<1> QED
  BY <1>1, <1>2 DEF AuthorityStep

LEMMA ProtocolKeepsType ==
  ASSUME ProtocolTypeOK, ProtocolStep
  PROVE  ProtocolTypeOK'
<1>1. ASSUME NEW payer \in Keys, InitProtocol(payer)
      PROVE  ProtocolTypeOK'
  <2>1. PICK holders \in [Roles -> Keys] : live' = holders
    BY <1>1 DEF InitProtocol
  <2>2. initialized' = TRUE /\ oracle_queue' \in Queues
        /\ UNCHANGED <<pending, mandate, pools, index_pool>>
    BY <1>1 DEF InitProtocol, poolVars
  <2> QED
    BY <2>1, <2>2 DEF ProtocolTypeOK
<1>2. ASSUME NEW signer \in Keys, NEW queue \in Queues, UpdateVrfConfig(signer, queue)
      PROVE  ProtocolTypeOK'
  BY <1>2 DEF UpdateVrfConfig, ProtocolTypeOK, authorityVars, poolVars
<1>3. ASSUME NEW signer \in Keys, NEW x \in IndexAccounts, InitPool(signer, x)
      PROVE  ProtocolTypeOK'
  <2>1. /\ pools' = Append(pools, x) /\ index_pool' = [index_pool EXCEPT ![x] = Len(pools) + 1]
        /\ Len(pools) < MaxPools
        /\ UNCHANGED <<initialized, live, pending, mandate, oracle_queue>>
    BY <1>3 DEF InitPool, authorityVars
  <2>2. /\ pools \in Seq(IndexAccounts) /\ index_pool \in [IndexAccounts -> 0..MaxPools]
        /\ MaxPools \in Nat
    BY ProtocolAssumption DEF ProtocolTypeOK
  <2>3. pools' \in Seq(IndexAccounts) /\ Len(pools') = Len(pools) + 1 /\ Len(pools) \in Nat
    BY <2>1, <2>2
  <2>4. Len(pools') <= MaxPools /\ Len(pools) + 1 \in 0..MaxPools
    BY <2>1, <2>2, <2>3
  <2>5. index_pool' \in [IndexAccounts -> 0..MaxPools]
    BY <2>1, <2>2, <2>4
  <2> QED
    BY <2>1, <2>3, <2>4, <2>5 DEF ProtocolTypeOK
<1> QED
  BY <1>1, <1>2, <1>3 DEF ProtocolStep

---------------------------------------------------------------------------------
(* The steps on the queues. *)

\* A batch that waits for no answer any more stays as it is.
Settled ==
  \A b \in BatchKeys :
    batches[b] = "Committed" /\ b \notin outstanding
      => batches'[b] = "Committed" /\ b \notin outstanding'

LEMMA CommitKeepsRequests ==
  ASSUME RequestInv, NEW pool \in DOMAIN pools, CommitRolls(pool)
  PROVE  RequestInv' /\ Settled
<1> DEFINE len == Max(Lengths)
           x == oracle_queue
           slot == <<pool, 0>>
           item == OwnItem(slot, len)
           r == Enqueue(queues[x], item)
<1>1. /\ TypeOK /\ ProtocolTypeOK /\ x \in Queues /\ QueueInv(queues[x])
      /\ queues \in [Queues -> Queue] /\ outstanding \subseteq BatchKeys
      /\ batches \in [BatchKeys -> {"None", "Committed", "Resolved"}]
      /\ asked \in [BatchKeys -> Queues]
  BY DEF RequestInv, TypeOK, ProtocolTypeOK
<1>2. slot \in BatchKeys
  <2>1. /\ pools \in Seq(IndexAccounts) /\ Len(pools) <= MaxPools /\ MaxPools \in Nat
    BY <1>1, ProtocolAssumption DEF ProtocolTypeOK
  <2>2. pool \in 1..MaxPools
    BY <2>1
  <2> QED
    BY <2>2, RequestsAssumption
<1>3. /\ Accepts(queues[x], len) /\ batches[slot] = "None"
      /\ queues' = [queues EXCEPT ![x] = r]
      /\ batches' = [batches EXCEPT ![slot] = "Committed"]
      /\ asked' = [asked EXCEPT ![slot] = x]
      /\ outstanding' = outstanding \cup {slot}
      /\ UNCHANGED <<initialized, live, pending, mandate, oracle_queue, pools, index_pool, foreign>>
  <2>1. BatchCounter(pool) = 0
    BY DEF CommitRolls, WeightOpen
  <2> QED
    BY <2>1, Zenon
    DEF CommitRolls, PinnedQueue, BatchKey, protocolVars, authorityVars, poolVars
<1>4. len \in Lengths
  <2>1. Lengths \subseteq Nat /\ Lengths # {} /\ IsFiniteSet(Lengths)
    BY QueueAssumption
  <2> QED
    BY <2>1, MaxOf
<1>5. item \in Item /\ item.used /\ item.program = Us /\ item.args = slot /\ item.len = len
  <2>1. item \in Item /\ item.program = Us /\ item.args = slot /\ item.len = len
    BY <1>2, <1>4 DEF OwnItem, Item
  <2>2. item.used
    BY Zenon DEF OwnItem
  <2> QED
    BY <2>1, <2>2
<1> HIDE DEF item, len
<1>6. /\ QueueInv(r)
      /\ \A p, b : Owns(r, p, b) <=> Owns(queues[x], p, b)
                                     \/ (p = LiveEnd(queues[x]) /\ slot = b)
      /\ \A b : ~Owns(queues[x], LiveEnd(queues[x]), b)
  BY <1>1, <1>3, <1>5, OwnsEnqueued
<1> HIDE DEF r
<1>7. /\ queues' \in [Queues -> Queue] /\ queues'[x] = r
      /\ \A y \in Queues \ {x} : queues'[y] = queues[y]
  BY <1>1, <1>3, <1>6 DEF QueueInv
<1>8. slot \notin outstanding /\ slot \in outstanding'
  BY <1>3 DEF RequestInv
<1>9. /\ batches' \in [BatchKeys -> {"None", "Committed", "Resolved"}]
      /\ batches'[slot] = "Committed" /\ \A b \in BatchKeys \ {slot} : batches'[b] = batches[b]
      /\ asked' \in [BatchKeys -> Queues]
      /\ asked'[slot] = x /\ \A b \in BatchKeys \ {slot} : asked'[b] = asked[b]
  BY <1>1, <1>2, <1>3
<1> HIDE DEF x, slot
<1>10. TypeOK'
  <2>1. ProtocolTypeOK'
    BY <1>1, <1>3 DEF ProtocolTypeOK
  <2> QED
    BY <1>1, <1>2, <1>3, <1>7, <1>9, <2>1 DEF TypeOK
<1>11. \A y \in Queues : QueueInv(queues'[y])
  BY <1>6, <1>7 DEF RequestInv
<1>12. ASSUME NEW y \in Queues, NEW p, NEW b, Owns(queues'[y], p, b)
       PROVE  b \in outstanding' /\ asked'[b] = y
  <2>1. CASE b = slot /\ y = x
    BY <1>8, <1>9, <2>1
  <2>2. CASE Owns(queues[y], p, b)
    <3>1. b \in outstanding /\ asked[b] = y
      BY <2>2 DEF RequestInv
    <3>2. b # slot /\ b \in BatchKeys
      BY <1>1, <1>8, <3>1
    <3> QED
      BY <1>3, <1>9, <3>1, <3>2
  <2> QED
    BY <1>6, <1>7, <1>12, <2>1, <2>2
<1>13. ASSUME NEW y \in Queues, NEW p, NEW d, NEW b,
              Owns(queues'[y], p, b), Owns(queues'[y], d, b)
       PROVE  p = d
  <2>0. \A e, c : Owns(queues[y], e, c) => c # slot
    BY <1>8 DEF RequestInv
  <2>1. CASE y = x
    <3>1. Owns(r, p, b) /\ Owns(r, d, b)
      BY <1>7, <1>13, <2>1
    <3>2. CASE b = slot
      <4>1. ~Owns(queues[x], p, b) /\ ~Owns(queues[x], d, b)
        BY <2>0, <2>1, <3>2, Zenon
      <4> QED
        BY <1>6, <3>1, <4>1, Zenon
    <3>3. CASE b # slot
      <4>1. Owns(queues[x], p, b) /\ Owns(queues[x], d, b)
        BY <1>6, <3>1, <3>3, Zenon
      <4> QED
        BY <2>1, <4>1, Zenon DEF RequestInv
    <3> QED
      BY <3>2, <3>3
  <2>2. CASE y # x
    <3>1. Owns(queues[y], p, b) /\ Owns(queues[y], d, b)
      BY <1>7, <1>13, <2>2
    <3> QED
      BY <3>1, Zenon DEF RequestInv
  <2> QED
    BY <2>1, <2>2
<1>14. ASSUME NEW b \in outstanding'
       PROVE  batches'[b] = "Committed" /\ \E p : Owns(queues'[asked'[b]], p, b)
  <2>1. CASE b = slot
    BY <1>6, <1>7, <1>9, <2>1
  <2>2. CASE b # slot
    <3>1. b \in outstanding /\ b \in BatchKeys
      BY <1>1, <1>3, <2>2
    <3>2. batches[b] = "Committed" /\ \E p : Owns(queues[asked[b]], p, b)
      BY <3>1 DEF RequestInv
    <3>3. asked'[b] = asked[b] /\ batches'[b] = batches[b] /\ asked[b] \in Queues
      BY <1>1, <1>9, <2>2, <3>1
    <3>4. CASE asked[b] = x
      BY <1>6, <1>7, <3>2, <3>3, <3>4
    <3>5. CASE asked[b] # x
      BY <1>7, <3>2, <3>3, <3>5
    <3> QED
      BY <3>4, <3>5
  <2> QED
    BY <2>1, <2>2
<1>15. RequestInv'
  BY <1>10, <1>11, <1>12, <1>13, <1>14 DEF RequestInv
<1>16. Settled
  BY <1>3, <1>9 DEF Settled
<1> QED
  BY <1>15, <1>16

LEMMA ForeignKeepsRequests ==
  ASSUME RequestInv, NEW x \in Queues, ForeignRequest(x)
  PROVE  RequestInv' /\ Settled
<1>1. /\ TypeOK /\ QueueInv(queues[x]) /\ queues \in [Queues -> Queue]
  BY DEF RequestInv, TypeOK
<1>2. PICK item \in [used: {TRUE}, len: Lengths, program: {Them},
                     args: BatchKeys \cup {NoKeyBytes}] :
        /\ Accepts(queues[x], item.len)
        /\ queues' = [queues EXCEPT ![x] = Enqueue(queues[x], item)]
  BY DEF ForeignRequest
<1>3. foreign < MaxForeign /\ foreign' = foreign + 1
      /\ UNCHANGED <<initialized, live, pending, mandate, oracle_queue, pools, index_pool,
                     batches, asked, outstanding>>
  BY Zenon DEF ForeignRequest, protocolVars, authorityVars, poolVars
<1>4. item \in Item /\ item.used /\ item.program # Us
  <2>1. item \in Item /\ item.program = Them
    BY DEF Item
  <2>2. item.used
    BY Zenon
  <2> QED
    BY <2>1, <2>2, QueueAssumption
<1> DEFINE r == Enqueue(queues[x], item)
<1>5. QueueInv(r) /\ \A p, b : Owns(r, p, b) <=> Owns(queues[x], p, b)
  BY <1>1, <1>2, <1>4, OwnsEnqueued
<1> HIDE DEF r
<1>6. /\ queues' \in [Queues -> Queue]
      /\ \A y \in Queues : /\ QueueInv(queues'[y])
                           /\ \A p, b : Owns(queues'[y], p, b) <=> Owns(queues[y], p, b)
  <2>1. r \in Queue
    BY <1>5 DEF QueueInv
  <2>2. queues' = [queues EXCEPT ![x] = r]
    BY <1>2 DEF r
  <2>3. \A y \in Queues : queues'[y] = r \/ queues'[y] = queues[y]
    BY <1>1, <2>2
  <2>4. queues'[x] = r /\ \A y \in Queues \ {x} : queues'[y] = queues[y]
    BY <1>1, <2>2
  <2> QED
    BY <1>1, <1>5, <2>1, <2>2, <2>4 DEF RequestInv
<1>7. TypeOK'
  <2>1. ProtocolTypeOK'
    BY <1>1, <1>3 DEF TypeOK, ProtocolTypeOK
  <2>2. foreign' \in 0..MaxForeign
    BY <1>1, <1>3, RequestsAssumption DEF TypeOK
  <2> QED
    BY <1>1, <1>3, <1>6, <2>1, <2>2 DEF TypeOK
<1>8. \A b \in outstanding : asked[b] \in Queues
  BY <1>1 DEF TypeOK
<1>9. RequestInv'
  <2>1. batches' = batches /\ asked' = asked /\ outstanding' = outstanding
    BY <1>3
  <2>2. ASSUME NEW y \in Queues, NEW p, NEW b, Owns(queues'[y], p, b)
        PROVE  b \in outstanding' /\ asked'[b] = y
    BY <1>6, <2>1, <2>2 DEF RequestInv
  <2>3. ASSUME NEW y \in Queues, NEW p, NEW d, NEW b,
               Owns(queues'[y], p, b), Owns(queues'[y], d, b)
        PROVE  p = d
    BY <1>6, <2>3 DEF RequestInv
  <2>4. ASSUME NEW b \in outstanding'
        PROVE  batches'[b] = "Committed" /\ \E p : Owns(queues'[asked'[b]], p, b)
    BY <1>6, <1>8, <2>1 DEF RequestInv
  <2> QED
    BY <1>6, <1>7, <2>2, <2>3, <2>4, Zenon DEF RequestInv
<1> QED
  BY <1>3, <1>9 DEF Settled

\* An item leaves a queue, answered or purged.
LEMMA RemovalKeepsRequests ==
  ASSUME RequestInv, NEW x \in Queues, NEW p \in LivePositions(queues[x]),
         queues' = [queues EXCEPT ![x] = RemoveItem(queues[x], p)],
         UNCHANGED <<initialized, live, pending, mandate, oracle_queue, pools, index_pool,
                     foreign, asked>>,
         NEW key, key = queues[x].body[p].args,
         queues[x].body[p].program = Us => outstanding' = outstanding \ {key},
         queues[x].body[p].program # Us => outstanding' = outstanding,
         \/ batches' = batches
         \/ queues[x].body[p].program = Us /\ batches' = [batches EXCEPT ![key] = "Resolved"]
  PROVE  RequestInv' /\ Settled
<1> DEFINE r == RemoveItem(queues[x], p)
           ours == queues[x].body[p].program = Us
<1>1. /\ TypeOK /\ ProtocolTypeOK /\ QueueInv(queues[x])
      /\ queues \in [Queues -> Queue] /\ outstanding \subseteq BatchKeys
      /\ batches \in [BatchKeys -> {"None", "Committed", "Resolved"}]
      /\ asked \in [BatchKeys -> Queues]
  BY DEF RequestInv, TypeOK
<1>2. QueueInv(r) /\ \A d, b : Owns(r, d, b) <=> Owns(queues[x], d, b) /\ d # p
  BY <1>1, OwnsRemoved
<1>3. queues' = [queues EXCEPT ![x] = r]
  OBVIOUS
<1>4. ours => Owns(queues[x], p, key) /\ key \in outstanding /\ asked[key] = x
  BY DEF RequestInv, Owns
<1> HIDE DEF r, ours
<1>5. /\ queues' \in [Queues -> Queue] /\ queues'[x] = r
      /\ \A y \in Queues \ {x} : queues'[y] = queues[y]
  BY <1>1, <1>2, <1>3 DEF QueueInv
<1>6. /\ batches' \in [BatchKeys -> {"None", "Committed", "Resolved"}]
      /\ \A b \in BatchKeys : ~ours \/ b # key => batches'[b] = batches[b]
      /\ outstanding' \subseteq BatchKeys
      /\ \A b : b \in outstanding' <=> b \in outstanding /\ (~ours \/ b # key)
  <2>1. CASE ours
    <3>1. outstanding' = outstanding \ {key}
      BY <2>1 DEF ours
    <3>2. batches' = batches \/ batches' = [batches EXCEPT ![key] = "Resolved"]
      OBVIOUS
    <3> QED
      BY <1>1, <2>1, <3>1, <3>2
  <2>2. CASE ~ours
    <3>1. outstanding' = outstanding /\ batches' = batches
      BY <2>2 DEF ours
    <3> QED
      BY <1>1, <2>2, <3>1
  <2> QED
    BY <2>1, <2>2
<1>7. TypeOK'
  <2>1. ProtocolTypeOK'
    BY <1>1 DEF ProtocolTypeOK
  <2>2. foreign' \in 0..MaxForeign /\ asked' \in [BatchKeys -> Queues]
    BY <1>1 DEF TypeOK
  <2> QED
    BY <1>5, <1>6, <2>1, <2>2 DEF TypeOK
<1>8. \A y \in Queues : QueueInv(queues'[y])
  BY <1>2, <1>5 DEF RequestInv
<1>9. \A y \in Queues : \A d, b : Owns(queues'[y], d, b) <=> Owns(queues[y], d, b) /\ (y # x \/ d # p)
  BY <1>2, <1>5
<1>10. ASSUME NEW y \in Queues, NEW d, NEW b, Owns(queues'[y], d, b)
       PROVE  b \in outstanding' /\ asked'[b] = y
  <2>1. Owns(queues[y], d, b) /\ (y # x \/ d # p)
    BY <1>9, <1>10
  <2>2. b \in outstanding /\ asked[b] = y /\ asked' = asked
    BY <2>1 DEF RequestInv
  <2>3. ~(ours /\ b = key)
    <3> SUFFICES ASSUME ours, b = key PROVE FALSE
      OBVIOUS
    <3>1. y = x
      BY <1>4, <2>2
    <3>2. d = p
      <4>1. Owns(queues[x], d, key) /\ Owns(queues[x], p, key)
        BY <1>4, <2>1, <3>1
      <4>2. \A a, c, e : Owns(queues[x], a, e) /\ Owns(queues[x], c, e) => a = c
        BY DEF RequestInv
      <4> QED
        BY <4>1, <4>2, Zenon
    <3> QED
      BY <2>1, <3>1, <3>2
  <2> QED
    BY <1>6, <2>2, <2>3
<1>11. ASSUME NEW y \in Queues, NEW d, NEW e, NEW b,
              Owns(queues'[y], d, b), Owns(queues'[y], e, b)
       PROVE  d = e
  <2>1. Owns(queues[y], d, b) /\ Owns(queues[y], e, b)
    BY <1>9, <1>11
  <2> QED
    BY <2>1, Zenon DEF RequestInv
<1>12. ASSUME NEW b \in outstanding'
       PROVE  batches'[b] = "Committed" /\ \E d : Owns(queues'[asked'[b]], d, b)
  <2>1. b \in outstanding /\ (~ours \/ b # key) /\ b \in BatchKeys
    BY <1>1, <1>6
  <2>2. batches'[b] = "Committed"
    BY <1>6, <2>1 DEF RequestInv
  <2>3. PICK d : Owns(queues[asked[b]], d, b)
    BY <2>1 DEF RequestInv
  <2>4. ~(asked[b] = x /\ d = p)
    BY <2>1, <2>3 DEF Owns, ours
  <2>5. asked[b] \in Queues /\ asked' = asked
    BY <1>1, <2>1
  <2> QED
    BY <1>9, <2>2, <2>3, <2>4, <2>5
<1>13. RequestInv'
  BY <1>7, <1>8, <1>10, <1>11, <1>12, Zenon DEF RequestInv
<1>14. Settled
  BY <1>4, <1>6 DEF Settled
<1> QED
  BY <1>13, <1>14

LEMMA RequestsStep ==
  ASSUME RequestInv, [Next]_vars
  PROVE  RequestInv' /\ Settled
<1>1. ASSUME requestVars' = requestVars, ProtocolTypeOK'
      PROVE  RequestInv' /\ Settled
  <2>1. /\ queues' = queues /\ batches' = batches /\ foreign' = foreign
        /\ asked' = asked /\ outstanding' = outstanding
    BY <1>1 DEF requestVars
  <2>2. TypeOK'
    BY <1>1, <2>1 DEF RequestInv, TypeOK
  <2> QED
    BY <2>1, <2>2 DEF RequestInv, Settled
<1>2. ProtocolTypeOK
  BY DEF RequestInv, TypeOK
<1>3. CASE (AuthorityStep \/ ProtocolStep) /\ UNCHANGED requestVars
  BY <1>1, <1>2, <1>3, AuthorityKeepsType, ProtocolKeepsType
<1>4. CASE \E pool \in DOMAIN pools : CommitRolls(pool)
  BY <1>4, CommitKeepsRequests
<1>5. ASSUME NEW x \in Queues, ForeignRequest(x)
      PROVE  RequestInv' /\ Settled
  BY <1>5, ForeignKeepsRequests
<1>6. ASSUME NEW x \in Queues, NEW p \in LivePositions(queues[x]), Fulfil(x, p)
      PROVE  RequestInv' /\ Settled
  <2> DEFINE item == queues[x].body[p]
             key == item.args
  <2>1. /\ queues' = [queues EXCEPT ![x] = RemoveItem(queues[x], p)]
        /\ UNCHANGED <<initialized, live, pending, mandate, oracle_queue, pools, index_pool,
                       foreign, asked>>
        /\ item.program = Us => /\ batches' = [batches EXCEPT ![key] = "Resolved"]
                                /\ outstanding' = outstanding \ {key}
        /\ item.program # Us => batches' = batches /\ outstanding' = outstanding
    BY <1>6 DEF Fulfil, protocolVars, authorityVars, poolVars
  <2> QED
    BY <2>1, RemovalKeepsRequests
<1>7. ASSUME NEW x \in Queues, NEW p \in LivePositions(queues[x]), Purge(x, p)
      PROVE  RequestInv' /\ Settled
  <2> DEFINE item == queues[x].body[p]
             key == item.args
  <2>1. /\ queues' = [queues EXCEPT ![x] = RemoveItem(queues[x], p)]
        /\ UNCHANGED <<initialized, live, pending, mandate, oracle_queue, pools, index_pool,
                       foreign, asked>>
        /\ batches' = batches
        /\ item.program = Us => outstanding' = outstanding \ {key}
        /\ item.program # Us => outstanding' = outstanding
    BY <1>7 DEF Purge, protocolVars, authorityVars, poolVars
  <2> QED
    BY <2>1, RemovalKeepsRequests
<1>8. CASE UNCHANGED vars
  BY <1>1, <1>2, <1>8 DEF vars, protocolVars, authorityVars, poolVars, ProtocolTypeOK
<1> QED
  BY <1>3, <1>4, <1>5, <1>6, <1>7, <1>8 DEF Next, ProviderStep

LEMMA InitRequests == Init => RequestInv
<1> SUFFICES ASSUME Init PROVE RequestInv
  OBVIOUS
<1>1. ProtocolTypeOK
  <2>1. << >> \in Seq(IndexAccounts) /\ Len(<< >>) = 0
    OBVIOUS
  <2>2. /\ initialized \in BOOLEAN /\ oracle_queue \in Queues /\ pools = << >>
        /\ live \in [Roles -> Keys \cup {NoKey}]
        /\ pending \in [Roles -> Keys \cup {NoKey}]
        /\ mandate \in [Roles -> [by: Keys, key: Keys] \cup {NoMandate}]
    BY DEF Init, ProtocolInit
  <2>3. index_pool \in [IndexAccounts -> 0..MaxPools] /\ 0 <= MaxPools
    BY ProtocolAssumption DEF Init, ProtocolInit
  <2> QED
    BY <2>1, <2>2, <2>3 DEF ProtocolTypeOK
<1>2. QueueInv(FreshQueue) /\ FreshQueue \in Queue /\ \A p, b : ~Owns(FreshQueue, p, b)
  BY FreshQueueInv DEF QueueInv
<1>3. /\ queues = [x \in Queues |-> FreshQueue] /\ outstanding = {} /\ foreign = 0
      /\ batches = [b \in BatchKeys |-> "None"] /\ asked = [b \in BatchKeys |-> oracle_queue]
  BY DEF Init
<1>4. oracle_queue \in Queues
  BY DEF Init, ProtocolInit
<1>5. TypeOK
  BY <1>1, <1>2, <1>3, <1>4, RequestsAssumption DEF TypeOK
<1> QED
  BY <1>2, <1>3, <1>5 DEF RequestInv

---------------------------------------------------------------------------------

\* Every configuration, queue and batch keeps its type: no item count falls below zero
\* and no cursor leaves its account, whatever is requested, answered and purged.
THEOREM RequestsTypeCorrect == Spec => []TypeOK
<1>1. RequestInv /\ [Next]_vars => RequestInv'
  BY RequestsStep
<1>2. RequestInv => TypeOK
  BY DEF RequestInv
<1> QED
  BY <1>1, <1>2, InitRequests, PTL DEF Spec

LEMMA RequestsAreRead == RequestInv => ScanIsExact
<1> SUFFICES ASSUME RequestInv, NEW x \in Queues, NEW b \in BatchKeys
             PROVE  Reads(x, b) = IF b \in outstanding /\ asked[b] = x THEN "live" ELSE "absent"
  BY DEF ScanIsExact
<1>1. QueueInv(queues[x])
  BY DEF RequestInv
<1>2. Reads(x, b) = IF \E p \in LivePositions(queues[x]) : Targets(queues[x].body[p], Us, b)
                    THEN "live" ELSE "absent"
  BY <1>1, ReaderAnswers DEF Reads
<1>3. (\E p \in LivePositions(queues[x]) : Targets(queues[x].body[p], Us, b))
        <=> \E p : Owns(queues[x], p, b)
  <2>1. \A p \in LivePositions(queues[x]) : queues[x].body[p].used
    BY Zenon DEF LivePositions
  <2> QED
    BY <2>1, Zenon DEF Targets, Owns
<1>4. (\E p : Owns(queues[x], p, b)) <=> b \in outstanding /\ asked[b] = x
  BY DEF RequestInv
<1> QED
  BY <1>2, <1>3, <1>4, Zenon

\* vrf_queue.rs:317: on every queue the provider's writes can leave behind, of whatever length
\* and with whatever other programs put there, the reader neither refuses nor errs.
THEOREM ReaderAlwaysExact == Spec => []ScanIsExact
<1>1. RequestInv /\ [Next]_vars => RequestInv'
  BY RequestsStep
<1> QED
  BY <1>1, InitRequests, RequestsAreRead, PTL DEF Spec

\* vrf_queue.rs:6: once the reader answers absent for a committed batch, no answer reaches the
\* batch any more and no later reading says otherwise.
THEOREM AbsenceStaysFinal == Spec => AbsenceIsFinal
<1>1. RequestInv /\ [Next]_vars => RequestInv'
  BY RequestsStep
<1>2. RequestInv /\ RequestInv' /\ [Next]_vars =>
        [\A b \in BatchKeys :
           batches[b] = "Committed" /\ Reads(asked[b], b) = "absent"
             => batches'[b] = "Committed" /\ Reads(asked[b], b)' = "absent"]_vars
  <2> SUFFICES ASSUME RequestInv, RequestInv', [Next]_vars, NEW b \in BatchKeys,
                      batches[b] = "Committed", Reads(asked[b], b) = "absent"
               PROVE  batches'[b] = "Committed" /\ Reads(asked[b], b)' = "absent"
    OBVIOUS
  <2>1. ScanIsExact /\ ScanIsExact'
    BY RequestsAreRead, PTL
  <2>2. asked[b] \in Queues /\ asked'[b] \in Queues
    BY DEF RequestInv, TypeOK
  <2>3. b \notin outstanding
    BY <2>1, <2>2 DEF ScanIsExact
  <2>4. batches'[b] = "Committed" /\ b \notin outstanding'
    BY <2>3, RequestsStep DEF Settled
  <2> QED
    BY <2>1, <2>2, <2>4 DEF ScanIsExact
<1> QED
  BY <1>1, <1>2, InitRequests, PTL DEF Spec, AbsenceIsFinal
=================================================================================
