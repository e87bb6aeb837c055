CONSTANTS
  ann = ann
  bob = bob
  Null = Null
  Character = {ann, bob}
  Starter <- Plots3
  DistrictOf <- Districts3
  Rank <- Rank3
  Period = 2
  Grace = 1
  MaxNow = 7
  MaxCrashes = 0
SPECIFICATION Spec
PROPERTY PaidAheadStacks
CHECK_DEADLOCK FALSE
