SPECIFICATION FairSpec
CONSTANTS
  ann = ann
  bob = bob
  j1 = j1
  j2 = j2
  j3 = j3
  Client = {ann}
  Key = {0}
  Place = {0, 4}
  view_distance = 1
  Job = {j1, j2}
  SweepTicks = 2
  MaxAsked = 1
  MaxReloads = 1
  NoJob = NoJob
  NoOne = NoOne
  Out = Out
INVARIANTS
  TypeOK
  PendingAccounted
PROPERTIES
  Served
  Unloaded
