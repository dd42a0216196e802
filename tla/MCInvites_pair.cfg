SPECIFICATION ApartSpec
CONSTANTS
  ann = ann
  bob = bob
  cyd = cyd
  dan = dan
  rex = rex
  pip = pip
  g1 = g1
  g2 = g2
  g3 = g3
  g4 = g4
  Player = {ann, bob}
  Pet = {rex, pip}
  GroupId = {g1, g2, g3, g4}
  MaxLives = 3
  MaxPets = 3
  MaxGroupSize = 2
  NoGroup = NoGroup
  NoInfo = NoInfo
  Wild = Wild
  Dead = Dead
  NoInvite = NoInvite
INVARIANTS
  TypeOK
  RegistryPaired
  PetsFollow
  InvitePaired
PROPERTIES
  ImplementsParties
  InvitesSettle
CHECK_DEADLOCK FALSE
