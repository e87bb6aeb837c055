CONSTANTS
  z1 = z1
  z2 = z2
  z3 = z3
  z4 = z4
  z5 = z5
  ZoneId = {z1, z2, z3, z4, z5}
  First = z1
  Start <- OneZone
  Width = 7
  Height = 6
  MaxZones = 5
SPECIFICATION Spec
INVARIANTS TypeOK Tiling AlwaysSafe
SYMMETRY Spares
