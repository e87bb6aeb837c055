-------------------------- MODULE PartitionProofs --------------------------
(***************************************************************************)
(* The regions tile the world in every reachable state, for every world,   *)
(* fleet size and tiling launch configuration, and the capital's zones     *)
(* stay in its safe districts.                                             *)
(***************************************************************************)
EXTENDS Districts, OperatorLemmas

LEMMA PointIsPair == ASSUME NEW p \in World PROVE p[1] \in Int /\ p[2] \in Int
BY WorldAssumption DEF World

LEMMA SplitStep ==
  ASSUME TypeOK, Tiling, NEW z \in ZoneId, NEW n \in ZoneId, Split(z, n)
  PROVE  TypeOK' /\ Tiling'
<1>. DEFINE r == zones[z]
<1>1. r \in Region /\ NonEmpty(r) /\ Splittable(r)
  BY DEF Split, TypeOK, IsMap
<1>2. /\ DOMAIN zones' = DOMAIN zones \cup {n}
      /\ n \notin DOMAIN zones /\ z \in DOMAIN zones /\ n # z
      /\ zones'[n] = HighHalf(r) /\ zones'[z] = LowHalf(r)
      /\ \A i \in DOMAIN zones \ {z} : zones'[i] = zones[i]
  BY DEF Split
<1>3. TypeOK'
  <2>1. \A i \in DOMAIN zones' : zones'[i] \in Region /\ NonEmpty(zones'[i])
    BY <1>1, <1>2, SplitHalves DEF TypeOK, IsMap
  <2>2. zones' = [i \in DOMAIN zones' |-> zones'[i]] /\ DOMAIN zones' \subseteq ZoneId
    BY DEF Split, TypeOK, IsMap
  <2>. QED  BY <2>1, <2>2 DEF TypeOK, IsMap
<1>4. ASSUME NEW p \in World
      PROVE  \E i \in DOMAIN zones' : Contains(zones'[i], p[1], p[2])
  <2>1. PICK j \in DOMAIN zones : Contains(zones[j], p[1], p[2])
    BY DEF Tiling, Covers
  <2>2. CASE j = z
    BY <1>1, <1>2, <2>1, <2>2, SplitExact, PointIsPair
  <2>3. CASE j # z
    BY <1>2, <2>1, <2>3
  <2>. QED  BY <2>2, <2>3
<1>5. ASSUME NEW p \in World, NEW a \in DOMAIN zones', NEW b \in DOMAIN zones',
             Contains(zones'[a], p[1], p[2]), Contains(zones'[b], p[1], p[2])
      PROVE  a = b
  <2>. DEFINE old(i) == IF i = n THEN z ELSE i
  <2>1. ASSUME NEW i \in DOMAIN zones', Contains(zones'[i], p[1], p[2])
        PROVE  old(i) \in DOMAIN zones /\ Contains(zones[old(i)], p[1], p[2])
    <3>1. CASE i = n \/ i = z
      BY <1>1, <1>2, <2>1, <3>1, SplitExact, PointIsPair
    <3>2. CASE i # n /\ i # z
      BY <1>2, <2>1, <3>2
    <3>. QED  BY <3>1, <3>2
  <2>2. old(a) = old(b)
    BY <1>5, <2>1 DEF Tiling, Apart
  <2>3. ~(Contains(zones'[n], p[1], p[2]) /\ Contains(zones'[z], p[1], p[2]))
    BY <1>1, <1>2, SplitExact, PointIsPair
  <2>. QED  BY <1>5, <2>2, <2>3
<1>. QED  BY <1>3, <1>4, <1>5 DEF Tiling, Covers, Apart

LEMMA MergeStep ==
  ASSUME TypeOK, Tiling, NEW k \in ZoneId, NEW d \in ZoneId, Merge(k, d)
  PROVE  TypeOK' /\ Tiling'
<1>. DEFINE m == Merged(zones[k], zones[d])
<1>1. /\ zones[k] \in Region /\ NonEmpty(zones[k])
      /\ zones[d] \in Region /\ NonEmpty(zones[d])
      /\ Mergeable(zones[k], zones[d])
  BY DEF Merge, TypeOK, IsMap
<1>2. /\ DOMAIN zones' = DOMAIN zones \ {d}
      /\ k \in DOMAIN zones /\ d \in DOMAIN zones /\ k # d
      /\ zones'[k] = m
      /\ \A i \in DOMAIN zones \ {k, d} : zones'[i] = zones[i]
  BY DEF Merge
<1>3. TypeOK'
  <2>1. m \in Region /\ NonEmpty(m)
    BY <1>1, MergeExact
  <2>2. \A i \in DOMAIN zones' : zones'[i] \in Region /\ NonEmpty(zones'[i])
    BY <1>2, <2>1 DEF TypeOK, IsMap
  <2>3. zones' = [i \in DOMAIN zones' |-> zones'[i]] /\ DOMAIN zones' \subseteq ZoneId
    BY DEF Merge, TypeOK, IsMap
  <2>. QED  BY <2>2, <2>3 DEF TypeOK, IsMap
<1>4. ASSUME NEW p \in World
      PROVE  \E i \in DOMAIN zones' : Contains(zones'[i], p[1], p[2])
  <2>1. PICK j \in DOMAIN zones : Contains(zones[j], p[1], p[2])
    BY DEF Tiling, Covers
  <2>2. CASE j \in {k, d}
    <3>1. Contains(m, p[1], p[2])
      BY <1>1, <2>1, <2>2, MergeExact, PointIsPair
    <3>. QED  BY <1>2, <3>1
  <2>3. CASE j \notin {k, d}
    BY <1>2, <2>1, <2>3
  <2>. QED  BY <2>2, <2>3
<1>5. ASSUME NEW p \in World, NEW a \in DOMAIN zones', NEW b \in DOMAIN zones',
             Contains(zones'[a], p[1], p[2]), Contains(zones'[b], p[1], p[2])
      PROVE  a = b
  <2>1. ASSUME NEW i \in DOMAIN zones', i # k, Contains(zones'[i], p[1], p[2])
        PROVE  ~Contains(zones'[k], p[1], p[2])
    <3>1. /\ i \in DOMAIN zones /\ i # d
          /\ Contains(zones[i], p[1], p[2])
      BY <1>2, <2>1
    <3>2. ~Contains(zones[k], p[1], p[2]) /\ ~Contains(zones[d], p[1], p[2])
      BY <1>2, <2>1, <3>1 DEF Tiling, Apart
    <3>. QED  BY <1>1, <1>2, <3>2, MergeExact, PointIsPair
  <2>2. CASE a = k \/ b = k
    BY <1>5, <2>1, <2>2
  <2>3. CASE a # k /\ b # k
    <3>1. /\ a \in DOMAIN zones /\ zones'[a] = zones[a]
          /\ b \in DOMAIN zones /\ zones'[b] = zones[b]
      BY <1>2, <2>3
    <3>. QED  BY <1>5, <3>1 DEF Tiling, Apart
  <2>. QED  BY <2>2, <2>3
<1>. QED  BY <1>3, <1>4, <1>5 DEF Tiling, Covers, Apart

\* TypeOK and Tiling are inductive together: a split or a merge is exact only
\* because the regions it starts from are well-formed and not empty.
LEMMA Inductive == TypeOK /\ Tiling /\ [Next]_zones => TypeOK' /\ Tiling'
<1>1. ASSUME TypeOK, Tiling, Next PROVE TypeOK' /\ Tiling'
  BY <1>1, SplitStep, MergeStep DEF Next
<1>2. ASSUME TypeOK, Tiling, UNCHANGED zones PROVE TypeOK' /\ Tiling'
  BY <1>2 DEF TypeOK, Tiling
<1>. QED  BY <1>1, <1>2

\* The map always holds well-formed, non-empty regions (the bound in split_zone
\* on the given-away half is what makes the kept half non-empty too).
THEOREM TypeCorrect == Spec => []TypeOK
<1>1. Init => TypeOK /\ Tiling
  BY StartAssumption DEF Init, TypeOK, Tiling
<1>. QED  BY <1>1, Inductive, PTL DEF Spec

\* Every point of the world always has exactly one owner in the gateway's map.
THEOREM WorldIsTiled == Spec => []Tiling
<1>1. Init => TypeOK /\ Tiling
  BY StartAssumption DEF Init, TypeOK, Tiling
<1>. QED  BY <1>1, Inductive, PTL DEF Spec

----------------------------------------------------------------------------
\* The districts laid over the partition (Districts).

Inside == \A z \in DOMAIN zones : InWorld(zones[z])

\* The centre of a region with a point in it is a point of it.
LEMMA CentreInside ==
  ASSUME NEW r \in Region, NonEmpty(r)
  PROVE  Contains(r, CentreX(r), CentreY(r))
<1>1. r.x0 \in Nat /\ r.y0 \in Nat /\ r.x1 \in Nat /\ r.y1 \in Nat
  BY DEF Region
<1>2. r.x0 <= CentreX(r) /\ CentreX(r) < r.x1
  BY <1>1 DEF NonEmpty, CentreX
<1>3. r.y0 <= CentreY(r) /\ CentreY(r) < r.y1
  BY <1>1 DEF NonEmpty, CentreY
<1>4. QED BY <1>1, <1>2, <1>3 DEF Contains

\* In the world the bands leave no ground without a district.
LEMMA CentreSafe ==
  ASSUME NEW r \in Region, NonEmpty(r), InWorld(r)
  PROVE  IsSafe(r)
<1>1. r.x0 \in Nat /\ r.y0 \in Nat /\ r.x1 \in Nat /\ r.y1 \in Nat
  BY DEF Region
<1>2. CentreX(r) \in Int /\ CentreY(r) \in Int
  BY <1>1 DEF CentreX, CentreY
<1>3. Contains(Box(0, 0, Width, Height), CentreX(r), CentreY(r))
  BY <1>1, <1>2, CentreInside, WorldAssumption DEF Contains, Box, InWorld
<1>4. QED BY <1>3 DEF IsSafe, DistrictForRegion, DistrictAt

LEMMA InsideStep ==
  ASSUME TypeOK, Inside, [Next]_zones
  PROVE  Inside'
<1>1. ASSUME NEW z \in ZoneId, NEW n \in ZoneId, Split(z, n) PROVE Inside'
  <2>1. zones[z] \in Region /\ NonEmpty(zones[z]) /\ InWorld(zones[z]) /\ Splittable(zones[z])
    BY <1>1 DEF Split, TypeOK, IsMap, Inside
  <2>2. InWorld(LowHalf(zones[z])) /\ InWorld(HighHalf(zones[z]))
    <3>1. /\ zones[z].x0 \in Nat /\ zones[z].x1 \in Nat
          /\ zones[z].y0 \in Nat /\ zones[z].y1 \in Nat
      BY <2>1 DEF Region
    <3>2. /\ SplitsOnX(zones[z]) => MidX(zones[z]) \in Nat /\ MidX(zones[z]) < zones[z].x1
          /\ ~SplitsOnX(zones[z]) => MidY(zones[z]) \in Nat /\ MidY(zones[z]) < zones[z].y1
      BY <2>1, CutInside
    <3>3. QED
      BY <2>1, <3>1, <3>2, WorldAssumption DEF LowHalf, HighHalf, Box, InWorld
  <2>3. QED BY <1>1, <2>2 DEF Split, Inside
<1>2. ASSUME NEW k \in ZoneId, NEW d \in ZoneId, Merge(k, d) PROVE Inside'
  <2>1. /\ zones[k] \in Region /\ InWorld(zones[k])
        /\ zones[d] \in Region /\ InWorld(zones[d])
    BY <1>2 DEF Merge, TypeOK, IsMap, Inside
  <2>2. InWorld(Merged(zones[k], zones[d]))
    BY <2>1, WorldAssumption DEF Region, Merged, Box, Higher, InWorld
  <2>3. QED BY <1>2, <2>2 DEF Merge, Inside
<1>3. CASE UNCHANGED zones
  BY <1>3 DEF Inside
<1>4. QED BY <1>1, <1>2, <1>3 DEF Next

\* No history of splits and merges makes a zone of the capital dangerous: the
\* centre that labels it never leaves the authored, safe districts.
THEOREM CapitalIsSafe == Spec => []AlwaysSafe
<1>1. Init => Inside
  BY InsideAssumption DEF Init, Inside
<1>2. TypeOK /\ Inside => AlwaysSafe
  BY CentreSafe DEF TypeOK, IsMap, Inside, AlwaysSafe
<1>3. QED BY <1>1, <1>2, TypeCorrect, InsideStep, PTL DEF Spec
============================================================================
