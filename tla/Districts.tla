----------------------------- MODULE Districts -----------------------------
(***************************************************************************)
(* The authored capital laid over the partition (rust_server/src/world.rs).*)
(* Districts are fixed bands of the world; a zone has no district of its   *)
(* own and is given the one that owns the CENTRE of its region. The label  *)
(* decides the zone's safety (no damage to players) and, in the gateway,   *)
(* which zones hear about a district's build orders.                       *)
(***************************************************************************)
EXTENDS Partition

Third == Width \div 3

\* District::region of the three bands; "none" is ground outside the capital.
DistrictAt(x, y) ==
  IF ~Contains(Box(0, 0, Width, Height), x, y) THEN "none"
  ELSE IF x < Third THEN "market"
  ELSE IF x < 2 * Third THEN "civic"
  ELSE "suburbs"

\* A slip: the wrong operand is halved.
CentreAstray(r) == r.x0 + r.x1 \div 2

CentreX(r) == (r.x0 + r.x1) \div 2
CentreY(r) == (r.y0 + r.y1) \div 2

DistrictForRegion(r) == DistrictAt(CentreX(r), CentreY(r))

\* Every district of the capital is authored Safe, anything else is wilds.
IsSafe(r) == DistrictForRegion(r) # "none"

InWorld(r) == r.x1 <= Width /\ r.y1 <= Height

ASSUME InsideAssumption == \A z \in DOMAIN Start : InWorld(Start[z])

----------------------------------------------------------------------------

\* No split or merge ever takes a zone out of the safe capital: is_safe keeps
\* answering yes, so the zone never applies damage to a player there.
AlwaysSafe == \A z \in DOMAIN zones : IsSafe(zones[z])
============================================================================
