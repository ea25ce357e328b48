-------------------------------- MODULE TierResolve --------------------------------
(***************************************************************************)
(* scripts/lib/tier-resolve.ts: which accounts an operator's script passes  *)
(* to an instruction that seats or unseats somebody, read from the pool     *)
(* before the instruction is sent.  The member an activation or a           *)
(* revaluation displaces must be among them, or the instruction fails; the  *)
(* successor of a closing member is the script's choice alone, because the  *)
(* program takes any eligible position.                                     *)
(***************************************************************************)
EXTENDS Pool

\* Variant: a stored key is ranked like that of an activation.
OutranksByValue(activating, entry, member) == entry.value > member.value

\* The key a candidate is ranked with: its own, or that of a position about to be
\* activated, for which the script assumes the loss of every tie.
ResolverOutranks(activating, entry, member) ==
  IF activating THEN entry.value > member.value ELSE Outranks(entry, member)

\* resolveDisplaced: the last member, if the tier is full and the key outranks it.
ResolveDisplaced(activating, entry) ==
  IF /\ tier # << >> /\ Len(tier) = cfg.tier_size
     /\ ResolverOutranks(activating, entry, tier[Len(tier)])
  THEN {tier[Len(tier)].position} ELSE {}

\* The account filters of findHighestRankedEligibleNonMember.
Eligible == {d \in Cards : pos[d].state = "Active" /\ ~pos[d].in_tier}

\* Variant: the reduction keeps the lowest rank.
LowestEligible ==
  {d \in Eligible : \A e \in Eligible \ {d} : Outranks(Entry(e, pos[e]), Entry(d, pos[d]))}

HighestEligible ==
  {d \in Eligible : \A e \in Eligible \ {d} : Outranks(Entry(d, pos[d]), Entry(e, pos[e]))}

\* resolveSuccessor: for the departure of a member, the highest-ranked position
\* outside the tier, if there is one.
ResolveSuccessor(closing) ==
  IF closing \in Holders(tier) THEN HighestEligible ELSE {}
=================================================================================
