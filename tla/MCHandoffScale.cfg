CONSTANTS
  za = za
  zb = zb
  zc = zc
  zd = zd
  ann = ann
  guest = guest
  s1 = s1
  s2 = s2
  NoZone = NoZone
  Zone = {za, zb, zc, zd}
  Start <- TwoZones
  StartOrder <- OrderOf2
  Player = {guest}
  Guest = {guest}
  Socket = {s1}
  Owner <- GuestOnce
  Width = 8
  Height = 2
  MaxZones = 4
  Step <- Steps
  Home = 5
  MaxMoves = 0
  MaxTicks = 0
  MaxSplits = 2
  MaxMerges = 1
SPECIFICATION Spec
INVARIANTS RegionAgreement
PROPERTY PartitionSpec
CHECK_DEADLOCK FALSE
