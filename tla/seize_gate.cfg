SPECIFICATION Spec
CONSTANTS
  c1 = c1
  c2 = c2
  c3 = c3
  alice = alice
  bob = bob
  NoWallet = NoWallet
  WeightC = 420
  MaxCount = 1000000
  MaxWord = 1000
  Capacity = 2
  Cards = {c1, c2}
  CoreCards = {c1}
  Wallets = {alice}
  Values = {5, 7}
  Locks = {0, 2}
  Standings = {"settleable", "undecidable", "frozen", "transferred", "burned"}
  Configs <- OneSeat
  PauseChoices <- NoPauses
  RollCounts = {1}
  Draws = {0}
  MaxTime = 2
  MaxDeposits = 2
INVARIANT SeizureNeedsNoRollGate
