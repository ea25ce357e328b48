SPECIFICATION Spec
CONSTANTS
  Capacity = 5
  Weights = {1, 3}
  MaxWord = 11
INVARIANTS NodesFit SearchFindsTheInterval SlotsPartition GrantsWhatTheLedgerGrants
PROPERTIES ImplementsLedger
