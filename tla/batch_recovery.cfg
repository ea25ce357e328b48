SPECIFICATION FairSpec
CONSTANTS
  c1 = c1
  c2 = c2
  c3 = c3
  alice = alice
  bob = bob
  NoWallet = NoWallet
  WeightC = 420
  MaxCount = 1000000
  MaxWord = 1000
  Capacity = 2
  Cards = {c1}
  CoreCards = {}
  Wallets = {alice}
  Values = {5, 7}
  Locks = {0}
  Standings = {"settleable"}
  Configs <- OneConfig
  PauseChoices <- NoPauses
  RollCounts = {1}
  Draws = {0, 1}
  MaxTime = 2
  MaxDeposits = 2
PROPERTY BatchRecovered
