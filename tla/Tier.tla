---------------------------------- MODULE Tier ----------------------------------
(***************************************************************************)
(* The top tier of a pool: the ranked seats whose holders share the tier   *)
(* leg of every ticket.  `TopTier.entries[..len]` is a sequence of entries  *)
(*     [position, value, activated_at, position_id]                         *)
(* best rank first.  The operators are the pure functions of                *)
(* common/tier.rs; the accounts they settle belong to module Pool.          *)
(***************************************************************************)
EXTENDS Integers, Sequences, FiniteSets

\* rank(a, b) == Ordering::Less: value descending, then seniority, then id.
Outranks(a, b) ==
  \/ a.value > b.value
  \/ /\ a.value = b.value
     /\ \/ a.activated_at < b.activated_at
        \/ /\ a.activated_at = b.activated_at
           /\ a.position_id < b.position_id

Holders(entries) == {entries[i].position : i \in 1..Len(entries)}

\* The backward scan of promote: shift every entry the candidate outranks
\* until one that it does not outrank, and sit behind it.
SeatedBehind(entries, c, k) ==
  /\ k = 0 \/ ~Outranks(c, entries[k])
  /\ \A i \in k+1..Len(entries) : Outranks(c, entries[i])

Seat(entries, c) ==
  LET k == CHOOSE j \in 0..Len(entries) : SeatedBehind(entries, c, j)
  IN  SubSeq(entries, 1, k) \o <<c>> \o SubSeq(entries, k+1, Len(entries))

\* A full tier gives a seat only to a candidate that outranks its last member.
Admits(entries, size, c) ==
  Len(entries) >= size => Outranks(c, entries[Len(entries)])

\* Variant: the displaced member is not settled.
DisplacedUnsettled(entries, size) == {}

\* The members promote displaces: none while there is room, else the last.
Displaced(entries, size) ==
  IF Len(entries) < size THEN {} ELSE {entries[Len(entries)].position}

\* `entries` after promote, for a candidate the tier admits.
Promote(entries, size, c) ==
  Seat(IF Len(entries) < size THEN entries
       ELSE SubSeq(entries, 1, Len(entries) - 1), c)

\* `entries` without the first entry of position p, which must have one.
Demote(entries, p) ==
  LET i == CHOOSE j \in 1..Len(entries) :
             /\ entries[j].position = p
             /\ \A h \in 1..j-1 : entries[h].position # p
  IN  SubSeq(entries, 1, i-1) \o SubSeq(entries, i+1, Len(entries))

\* Variant: the value is rewritten where the member sits.
RefreshInPlace(entries, size, c) ==
  [i \in 1..Len(entries) |-> IF entries[i].position = c.position THEN c ELSE entries[i]]

\* A member whose value moved is demoted and must fit back in.
RefreshMember(entries, size, c) == Promote(Demote(entries, c.position), size, c)
CanRefresh(entries, size, c) ==
  /\ c.position \in Holders(entries)
  /\ Len(entries) - 1 < size

\* Lowering tier_size cuts the tail off; the cut members are settled by key.
Shrink(entries, size) ==
  IF size >= Len(entries) THEN entries ELSE SubSeq(entries, 1, size)
=================================================================================
