SPECIFICATION Spec
CONSTANTS
  c1 = c1
  c2 = c2
  c3 = c3
  alice = alice
  bob = bob
  NoWallet = NoWallet
  WeightC = 420
  MaxCount = 1000000
  MaxWord = 180
  Capacity = 3
  Cards = {c1, c2, c3}
  CoreCards = {}
  Wallets = {alice}
  Values = {5, 7, 30}
  Locks = {0}
  Standings = {"settleable"}
  Configs <- TierSizes
  PauseChoices <- NoPauses
  RollCounts = {}
  Draws = {0}
  MaxTime = 1
  MaxDeposits = 4
INVARIANTS TypeOK BooksBalance SlotsOwned TierMirrorsMembers TierRanked ShortTierCurable ResolvedDisplacementsMatch
PROPERTIES BlanksFollowWeight ResolvedClosingsKeepTheTop
SYMMETRY Symmetric
