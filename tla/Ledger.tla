---------------------------------- MODULE Ledger ----------------------------------
(***************************************************************************)
(* The weight index as its callers see it: a machine whose one variable is  *)
(* a ledger of module WeightLedger and whose steps are insert, remove and   *)
(* update.  Callers pass the total they expect, so a step happens only when *)
(* the caller's books and the ledger agree.                                 *)
(***************************************************************************)
EXTENDS WeightLedger

CONSTANT Weights   \* weights of one leaf; weight_of never returns zero

VARIABLE ledger

LedgerInit == ledger = EmptyLedger

LedgerInsert(w, expected) ==
  CanInsert(ledger, w, expected) /\ ledger' = Insert(ledger, w)
LedgerRemove(s, w, expected) ==
  CanRemove(ledger, s, w, expected) /\ ledger' = Remove(ledger, s, w)
LedgerUpdate(s, old, new, expected) ==
  CanUpdate(ledger, s, old, new, expected) /\ ledger' = Update(ledger, s, old, new)

LedgerNext ==
  \E w, old \in Weights, s \in Slots :
    \/ LedgerInsert(w, ledger.total + w)
    \/ LedgerRemove(s, w, ledger.total - w)
    \/ LedgerUpdate(s, old, w, ledger.total + w - old)

LedgerSpec == LedgerInit /\ [][LedgerNext]_ledger
=================================================================================
