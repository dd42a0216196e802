SPECIFICATION HistorySpec
CONSTANTS
  ann = ann
  bob = bob
  ann1 = ann1
  ann2 = ann2
  bob1 = bob1
  coin = coin
  sword = sword
  potion = potion
  Player = {ann, bob}
  Char = {ann1, ann2, bob1}
  OwnerOf <- MCOwner2
  Kind = {potion}
  Stackable = {potion}
  Equippable = {}
  Consumable = {potion}
  StartPack <- MCPotion
  StartBlocks = {}
  NSlots = 1
  MaxAmount = 1
  MaxOffer = 1
  MaxTrades = 2
  NoItem = NoItem
  Full = Full
  NoTrade = NoTrade
  NoChar = NoChar
  Gone = Gone
INVARIANTS
  AtRest
  MappingSound
PROPERTIES
  AcceptanceIsFresh
CHECK_DEADLOCK FALSE
