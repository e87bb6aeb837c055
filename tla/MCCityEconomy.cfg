CONSTANTS
  ann = ann
  bob = bob
  wood = wood
  stone = stone
  zoneA = zoneA
  zoneB = zoneB
  Character = {ann, bob}
  Item = {wood, stone}
  Listener = {zoneA, zoneB}
  Authored <- Tree2
  Cost <- Cost2
  Prereq <- Prereq2
  NoOrder = "none"
  Asked = {1, 2}
  MaxCarry = 2
  XpPerUnit = 5
  GatherXp = 10
  MaxYields = 3
  MaxFaults = 1
  MaxCrashes = 1
SPECIFICATION FairSpec
INVARIANTS CarryCap Conserved Ledger TechTree PaidOnce SkillIsEarned
PROPERTIES OnlyAdvance TreeSpec ContributorsPaid DependentsOpen
CHECK_DEADLOCK FALSE
