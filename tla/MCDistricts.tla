---------------------------- MODULE MCDistricts ----------------------------
EXTENDS Districts, TLC

CONSTANT First   \* the zone that is launched by start_servers.ps1

\* One zone owns the whole world at launch.
OneZone == First :> Box(0, 0, Width, Height)

\* Ids of zones launched later are interchangeable.
Spares == Permutations(ZoneId \ {First})
============================================================================
