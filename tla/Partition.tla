----------------------------- MODULE Partition -----------------------------
(***************************************************************************)
(* The spatial partition the gateway promises: every point of the world    *)
(* belongs to exactly one zone, whatever the autoscaler splits and merges. *)
(*                                                                         *)
(* `zones` is the gateway's HashMap from zone id to region. The autoscaler *)
(* is one task that performs one split or one merge at a time; here each   *)
(* of them is one step. Which zone is split or merged depends on reported  *)
(* populations, which are late by any amount and have no bearing on the    *)
(* geometry: the choice is left open.                                      *)
(***************************************************************************)
EXTENDS Regions, FiniteSets

CONSTANTS
  ZoneId,     \* zone ids, the ones a split generates included
  Start,      \* the regions the zones are launched with, a function
  Width, Height, \* the world is [0, Width) x [0, Height)
  MaxZones    \* fleet limit

VARIABLE zones

World == (0 .. Width - 1) \X (0 .. Height - 1)

\* Every point of the world is in the region of some zone.
Covers(m) == \A p \in World : \E z \in DOMAIN m : Contains(m[z], p[1], p[2])

\* No point of the world is in the regions of two zones.
Apart(m) == \A a, b \in DOMAIN m, p \in World :
              /\ Contains(m[a], p[1], p[2])
              /\ Contains(m[b], p[1], p[2])
              => a = b

IsMap(m) == /\ DOMAIN m \subseteq ZoneId
            /\ m \in [DOMAIN m -> Region]

ASSUME WorldAssumption == Width \in Nat \ {0} /\ Height \in Nat \ {0}

ASSUME StartAssumption ==
  /\ IsMap(Start) /\ Covers(Start) /\ Apart(Start)
  /\ \A z \in DOMAIN Start : NonEmpty(Start[z])

----------------------------------------------------------------------------

Init == zones = Start

\* The new zone is launched on the far half, then the old one is shrunk.
Split(z, n) ==
  /\ z \in DOMAIN zones
  /\ n \in ZoneId \ DOMAIN zones
  /\ Cardinality(DOMAIN zones) < MaxZones
  /\ Splittable(zones[z])
  /\ zones' = [i \in DOMAIN zones \cup {n} |->
                 IF i = n THEN HighHalf(zones[z])
                 ELSE IF i = z THEN LowHalf(zones[z])
                 ELSE zones[i]]

\* `keep` grows to the union and `drop` leaves the map under one lock.
Merge(keep, drop) ==
  /\ keep \in DOMAIN zones /\ drop \in DOMAIN zones /\ keep # drop
  /\ Mergeable(zones[keep], zones[drop])
  /\ OriginFirst(zones[keep], zones[drop])
  /\ zones' = [i \in DOMAIN zones \ {drop} |->
                 IF i = keep THEN Merged(zones[keep], zones[drop]) ELSE zones[i]]

Next == \E a, b \in ZoneId : Split(a, b) \/ Merge(a, b)

Spec == Init /\ [][Next]_zones

----------------------------------------------------------------------------

\* The map holds well-formed regions of known zones, none of them empty.
TypeOK == IsMap(zones) /\ \A z \in DOMAIN zones : NonEmpty(zones[z])

\* The regions in the gateway's map tile the world: zone_at finds an owner for
\* every point and never has two to choose from, after any history of splits
\* and merges.
Tiling == Covers(zones) /\ Apart(zones)
============================================================================
