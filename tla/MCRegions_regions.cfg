SPECIFICATION Spec
CONSTANTS
  ann = ann
  bob = bob
  u1 = u1
  u2 = u2
  u3 = u3
  u4 = u4
  Entity = {1, 2, 3}
  Client = {ann, bob}
  Watcher = {ann}
  Uid = {u1, u2, u3}
  Place <- Corner
  Lookout <- Western
  SpawnPoint <- Near
  view_distance = 5
  MaxEvents = 2
  None = None
INVARIANTS
  TypeOK
  RegionsSound
  InView
  NoGhosts
SYMMETRY Symmetric
CHECK_DEADLOCK FALSE
