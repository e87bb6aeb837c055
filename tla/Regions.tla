------------------------------ MODULE Regions ------------------------------
(***************************************************************************)
(* The geometry the gateway partitions the world with: half-open           *)
(* rectangles [x0, x1) x [y0, y1), how one is halved by a split and when   *)
(* two of them merge (struct Region of rust_server/src/bin/proxy.rs).      *)
(* Coordinates of a partition are never negative, so Rust's truncating     *)
(* division by two is \div.                                                *)
(***************************************************************************)
EXTENDS Integers

Region == [x0 : Nat, y0 : Nat, x1 : Nat, y1 : Nat]

Box(a, b, c, d) == [x0 |-> a, y0 |-> b, x1 |-> c, y1 |-> d]

\* The point <<x, y>> lies in region r.
Contains(r, x, y) == x >= r.x0 /\ x < r.x1 /\ y >= r.y0 /\ y < r.y1

NonEmpty(r) == r.x0 < r.x1 /\ r.y0 < r.y1

----------------------------------------------------------------------------
\* The halves of a split: the region is cut in the middle of its longer axis,
\* x when the sides are equal. LowHalf stays with the zone, HighHalf is given
\* to the new one.

SplitsOnX(r) == r.x1 - r.x0 >= r.y1 - r.y0

MidX(r) == (r.x0 + r.x1) \div 2
MidY(r) == (r.y0 + r.y1) \div 2

\* A slip: the far edge taken as inclusive, which leaves a gap.
ShortHalf(r) == IF SplitsOnX(r) THEN Box(r.x0, r.y0, MidX(r) - 1, r.y1)
                                ELSE Box(r.x0, r.y0, r.x1, MidY(r) - 1)

LowHalf(r) == IF SplitsOnX(r) THEN Box(r.x0, r.y0, MidX(r), r.y1)
                              ELSE Box(r.x0, r.y0, r.x1, MidY(r))

HighHalf(r) == IF SplitsOnX(r) THEN Box(MidX(r), r.y0, r.x1, r.y1)
                               ELSE Box(r.x0, MidY(r), r.x1, r.y1)

\* A slip: any half with a point in it may be given away.
LeastSide == 1

\* split_zone refuses a region whose given-away half would be too thin. With a
\* least side of one the half that is kept could be empty: see SplitHalves.
MinSide == 2

Splittable(r) == /\ HighHalf(r).x1 - HighHalf(r).x0 >= MinSide
                 /\ HighHalf(r).y1 - HighHalf(r).y0 >= MinSide

----------------------------------------------------------------------------
\* Two regions merge when they share a whole edge.

SideBySide(r, s) == /\ r.y0 = s.y0 /\ r.y1 = s.y1
                    /\ r.x1 = s.x0 \/ s.x1 = r.x0

Stacked(r, s) == /\ r.x0 = s.x0 /\ r.x1 = s.x1
                 /\ r.y1 = s.y0 \/ s.y1 = r.y0

Mergeable(r, s) == SideBySide(r, s) \/ Stacked(r, s)

Lower(a, b) == IF a <= b THEN a ELSE b
Higher(a, b) == IF a <= b THEN b ELSE a

Merged(r, s) == Box(Lower(r.x0, s.x0), Lower(r.y0, s.y0),
                    Higher(r.x1, s.x1), Higher(r.y1, s.y1))

\* Of two merging regions the one with the lower origin (x first) is kept.
OriginFirst(r, s) == r.x0 < s.x0 \/ (r.x0 = s.x0 /\ r.y0 <= s.y0)
============================================================================
