-------------------------------- MODULE MCRequests --------------------------------
(* Two pools that share two oracle queues, two keys that rotate two roles. *)
EXTENDS Requests, TLC

MCBatchKeys == {<<1, 0>>, <<2, 0>>}
MCLengths == {1, 2}
MCRoles == {"Administrator", "Operator"}

\* Blank index accounts are alike, and so are the queues.
CONSTANTS old, new, x1, x2
Symmetry == {f @@ g : f \in Permutations({old, new}), g \in Permutations({x1, x2})}
=================================================================================
