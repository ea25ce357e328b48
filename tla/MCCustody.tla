--------------------------------- MODULE MCCustody ---------------------------------
(* One card of any family, two pools and two collections to confuse. *)
EXTENDS Custody, TLC

CONSTANTS alice, bob, p1, p2, k1, k2

\* A widening, a narrowing that drops Core, and a bit no standard has.
MCMasks == {{"legacy"}, {"Core", "legacy"}, {"legacy", "spare"}}

Registry(internal, external) ==
  [readable |-> TRUE, internal |-> internal, external |-> external]
Plugin(type, field) == [type |-> type, field |-> field]

\* Nothing; a thawed delegate the depositor may set; an oracle adapter.
MCAssets ==
  {Registry({Plugin("FreezeDelegate", "thawed")}, {}),
   Registry({Plugin("FreezeDelegate", "frozen")}, {}),
   Registry({}, {"Transfer"})}

\* The live collection's registry, and the same frozen.
MCGroups ==
  {Registry({Plugin("Royalties", "no rules"), Plugin("BubblegumV2", "thawed")}, {}),
   Registry({Plugin("Royalties", "no rules"),
             Plugin("PermanentFreezeDelegate", "frozen")}, {})}

Symmetry == {f @@ g : f \in Permutations({alice, bob}), g \in Permutations({p1, p2})}
=================================================================================
