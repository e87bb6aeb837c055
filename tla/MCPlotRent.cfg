CONSTANTS
  ann = ann
  bob = bob
  Null = Null
  Character = {ann, bob}
  Starter <- Plots3
  DistrictOf <- Districts3
  Rank <- Rank3
  Period = 2
  Grace = 1
  MaxNow = 7
  MaxCrashes = 2
SPECIFICATION Spec
INVARIANTS SeededOnce OnePlotEach
PROPERTY PaidIsKept
SYMMETRY Alike
CHECK_DEADLOCK FALSE
