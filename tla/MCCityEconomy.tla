--------------------------- MODULE MCCityEconomy ---------------------------
EXTENDS CityEconomy, TLC

CONSTANTS ann, bob, wood, stone, zoneA, zoneB

\* The capital's tree on a small scale: a well of two items, a wall behind it.
Tree2 == <<"town_well", "wall_section">>
Cost2 == [o \in Range(Tree2) |->
  IF o = "town_well" THEN (wood :> 1) @@ (stone :> 1) ELSE (wood :> 0) @@ (stone :> 1)]
Prereq2 == ("town_well" :> "none") @@ ("wall_section" :> "town_well")
============================================================================
