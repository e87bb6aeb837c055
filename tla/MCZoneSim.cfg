CONSTANTS
  ann = ann
  bob = bob
  tree = tree
  Nobody = Nobody
  NoNode = NoNode
  Player = {ann, bob}
  Node = {tree}
  Stock <- TwoUnits
  MaxHp = 1
  MobsPerZone = 1
  MobRespawn = 2
  ClearAt = 0
  Full = 4
  Rate = 2
  Decay = 1
  GatherPeriod = 2
  NodeRespawn = 2
  MaxRegions = 1
SPECIFICATION FairSpec
INVARIANTS StockConserved BarSound
PROPERTIES EarnedHold Refilled
