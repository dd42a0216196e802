SPECIFICATION StableSpec
CONSTANTS
  ann = ann
  bob = bob
  cyd = cyd
  dan = dan
  rex = rex
  pip = pip
  g1 = g1
  g2 = g2
  g3 = g3
  g4 = g4
  Player = {ann, bob, cyd, dan}
  Pet = {}
  GroupId = {g1, g2, g3}
  MaxLives = 1
  MaxPets = 3
  MaxGroupSize = 3
  NoGroup = NoGroup
  NoInfo = NoInfo
  Wild = Wild
  Dead = Dead
  NoInvite = NoInvite
INVARIANTS
  CountSound
  GroupsInhabited
  LimitKept
PROPERTIES
  ImplementsParties
SYMMETRY KeySymmetry
CHECK_DEADLOCK FALSE
