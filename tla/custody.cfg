SPECIFICATION Spec
CONSTANTS
  alice = alice
  bob = bob
  p1 = p1
  p2 = p2
  k1 = k1
  k2 = k2
  Cards = {c}
  Wallets = {alice, bob}
  Pools = {p1, p2}
  Collections = {k1, k2}
  NoWallet = nobody
  Masks <- MCMasks
  AssetAccounts <- MCAssets
  GroupAccounts <- MCGroups
SYMMETRY Symmetry
INVARIANTS TypeOK VaultsBacked NothingStranded
PROPERTIES CardGoesHome SeizedForCause EnteredUnderOwnRecord LivesAsPromised
