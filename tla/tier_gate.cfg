SPECIFICATION Spec
CONSTANTS
  c1 = c1
  c2 = c2
  c3 = c3
  alice = alice
  bob = bob
  NoWallet = NoWallet
  WeightC = 420
  MaxCount = 1000000
  MaxWord = 1000
  Capacity = 2
  Cards = {c1, c2}
  CoreCards = {}
  Wallets = {alice}
  Values = {5, 7}
  Locks = {0}
  Standings = {"settleable"}
  Configs <- ManyConfigs
  PauseChoices <- AllPauses
  RollCounts = {1, 2}
  Draws = {0, 1}
  MaxTime = 0
  MaxDeposits = 2
PROPERTY NoPromotionWhileOpen
