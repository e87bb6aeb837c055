CONSTANTS
  ann = ann
  bob = bob
  za = za
  zb = zb
  NoZone = NoZone
  NoInstance = NoInstance
  Player = {ann}
  Zone = {za, zb}
  Operator = {"admin"}
  Instance = {"a0", "b0", "n1", "n2"}
  First <- Registered
  MaxFrames = 1
  MaxFaults = 1
  Launchable = {za}
SPECIFICATION FairSpec
INVARIANTS TypeOK HandledOnce RouteIsLive SettledKept 
PROPERTY InputDelivered
CHECK_DEADLOCK FALSE
