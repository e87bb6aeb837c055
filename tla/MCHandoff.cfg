CONSTANTS
  za = za
  zb = zb
  zc = zc
  zd = zd
  ann = ann
  guest = guest
  s1 = s1
  s2 = s2
  NoZone = NoZone
  Zone = {za, zb, zc}
  Start <- ThreeZones
  StartOrder <- OrderOf3
  Player = {ann}
  Guest = {}
  Socket = {s1, s2}
  Owner <- AnnTwice
  Width = 6
  Height = 2
  MaxZones = 3
  Step <- Steps
  Home = 3
  MaxMoves = 2
  MaxTicks = 1
  MaxSplits = 0
  MaxMerges = 0
SPECIFICATION Spec
INVARIANTS TypeOK OneHome Seamless NobodyLost RoutedRight
SYMMETRY Alike
CONSTRAINT Untraced
CHECK_DEADLOCK FALSE
