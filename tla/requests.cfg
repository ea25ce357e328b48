SPECIFICATION Spec
CONSTANTS
  Keys = {alice, bob}
  NoKey = nobody
  InitialAdministrator = alice
  Roles <- MCRoles
  Queues = {old, new}
  IndexAccounts = {x1, x2, x3}
  SeededAccounts = {x3}
  MaxPools = 2
  Us = us
  Them = them
  BatchKeys <- MCBatchKeys
  NoKeyBytes = other
  Lengths <- MCLengths
  BodyLength = 5
  MaxForeign = 1
  old = old
  new = new
  x1 = x1
  x2 = x2
SYMMETRY Symmetry
INVARIANTS TypeOK ScanIsExact IndexesAreTheirPools
PROPERTIES AbsenceIsFinal RotationsAreMandated
