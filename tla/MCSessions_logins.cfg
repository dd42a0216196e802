SPECIFICATION Spec
CONSTANTS
  k1 = k1
  k2 = k2
  alice = alice
  c1 = c1
  Connection = {k1, k2}
  Account = {alice}
  Character = {c1}
  AccountOf <- SameAccount
  OwnerOf <- SameOwner
  InvalidName = {}
  max_players = 2
  MaxEntities = 4
  MaxRevision = 1
  MaxScreen = 1
  MaxQueue = 1
  None = None
INVARIANTS
  TypeOK
  AccountPaired
  PlayedOnce
  NothingLost
CHECK_DEADLOCK FALSE
SYMMETRY Symmetric
