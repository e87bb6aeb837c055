CONSTANTS
  ann = ann
  bob = bob
  za = za
  zb = zb
  NoZone = NoZone
  NoInstance = NoInstance
  Player = {ann, bob}
  Zone = {za, zb}
  Operator = {"admin"}
  Instance = {"a0", "b0", "n1", "n2"}
  First <- Registered
  MaxFrames = 1
  MaxFaults = 1
  Launchable = {za}
SPECIFICATION Spec
INVARIANT EveryEntityRecreated
CHECK_DEADLOCK FALSE
