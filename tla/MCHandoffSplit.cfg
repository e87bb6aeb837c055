CONSTANTS
  za = za
  zb = zb
  zc = zc
  zd = zd
  ann = ann
  guest = guest
  s1 = s1
  s2 = s2
  NoZone = NoZone
  Zone = {za, zb}
  Start <- OneZone
  StartOrder <- OrderOf1
  Player = {ann}
  Guest = {}
  Socket = {s1}
  Owner <- AnnOnce
  Width = 4
  Height = 2
  MaxZones = 3
  Step <- Steps
  Home = 2
  MaxMoves = 1
  MaxTicks = 1
  MaxSplits = 1
  MaxMerges = 0
SPECIFICATION FairSpec
INVARIANTS NobodyLost
PROPERTY Landing
CHECK_DEADLOCK FALSE
