--------------------------- MODULE OperatorLemmas ---------------------------
(***************************************************************************)
(* What the operators return that the models are built from: the halves    *)
(* and unions of rectangles (Regions), and sums over a finite set.         *)
(***************************************************************************)
EXTENDS Regions, Functions, FiniteSetTheorems, TLAPS


\* Where the cut of a splittable region falls: strictly inside the axis it cuts.
LEMMA CutInside ==
  ASSUME NEW r \in Region, Splittable(r), NonEmpty(r)
  PROVE  /\ SplitsOnX(r) => MidX(r) \in Nat /\ r.x0 < MidX(r) /\ MidX(r) < r.x1
         /\ ~SplitsOnX(r) => MidY(r) \in Nat /\ r.y0 < MidY(r) /\ MidY(r) < r.y1
<1>1. CASE SplitsOnX(r)
  <2>1. r.x0 \in Nat /\ r.x1 \in Nat /\ r.x1 - MidX(r) >= 2
    BY <1>1 DEF Region, Splittable, HighHalf, Box, MinSide
  <2>. QED  BY <1>1, <2>1 DEF MidX
<1>2. CASE ~SplitsOnX(r)
  <2>1. r.y0 \in Nat /\ r.y1 \in Nat /\ r.y1 - MidY(r) >= 2
    BY <1>2 DEF Region, Splittable, HighHalf, Box, MinSide
  <2>. QED  BY <1>2, <2>1 DEF MidY
<1>. QED  BY <1>1, <1>2

\* Both halves of a splittable region are regions with at least one point:
\* split_zone never leaves the old or the new zone without territory.
THEOREM SplitHalves ==
  ASSUME NEW r \in Region, Splittable(r), NonEmpty(r)
  PROVE  /\ LowHalf(r) \in Region  /\ NonEmpty(LowHalf(r))
         /\ HighHalf(r) \in Region /\ NonEmpty(HighHalf(r))
<1>1. CASE SplitsOnX(r)
  BY <1>1, CutInside DEF LowHalf, HighHalf, Box, Region, NonEmpty
<1>2. CASE ~SplitsOnX(r)
  BY <1>2, CutInside DEF LowHalf, HighHalf, Box, Region, NonEmpty
<1>. QED  BY <1>1, <1>2

\* A split neither loses nor duplicates a point: each point of the region is in
\* exactly one half, and the halves hold no other point.
THEOREM SplitExact ==
  ASSUME NEW r \in Region, Splittable(r), NonEmpty(r), NEW x \in Int, NEW y \in Int
  PROVE  /\ Contains(r, x, y) <=> Contains(LowHalf(r), x, y) \/ Contains(HighHalf(r), x, y)
         /\ ~(Contains(LowHalf(r), x, y) /\ Contains(HighHalf(r), x, y))
<1>. r.x0 \in Nat /\ r.x1 \in Nat /\ r.y0 \in Nat /\ r.y1 \in Nat
  BY DEF Region
<1>1. CASE SplitsOnX(r)
  BY <1>1, CutInside DEF LowHalf, HighHalf, Box, Contains
<1>2. CASE ~SplitsOnX(r)
  BY <1>2, CutInside DEF LowHalf, HighHalf, Box, Contains
<1>. QED  BY <1>1, <1>2

\* A merge neither loses nor invents a point: the merged rectangle holds exactly
\* the points of the two regions (mergeable_with and union of struct Region).
THEOREM MergeExact ==
  ASSUME NEW r \in Region, NEW s \in Region, NonEmpty(r), NonEmpty(s),
         Mergeable(r, s), NEW x \in Int, NEW y \in Int
  PROVE  /\ Merged(r, s) \in Region /\ NonEmpty(Merged(r, s))
         /\ Contains(Merged(r, s), x, y) <=> Contains(r, x, y) \/ Contains(s, x, y)
<1>. /\ r.x0 \in Nat /\ r.x1 \in Nat /\ r.y0 \in Nat /\ r.y1 \in Nat
     /\ s.x0 \in Nat /\ s.x1 \in Nat /\ s.y0 \in Nat /\ s.y1 \in Nat
  BY DEF Region
<1>1. Merged(r, s) \in Region
  BY DEF Merged, Box, Region, Lower, Higher
<1>2. CASE SideBySide(r, s)
  BY <1>1, <1>2 DEF SideBySide, Merged, Box, Lower, Higher, NonEmpty, Contains
<1>3. CASE Stacked(r, s)
  BY <1>1, <1>3 DEF Stacked, Merged, Box, Lower, Higher, NonEmpty, Contains
<1>. QED  BY <1>2, <1>3 DEF Mergeable

----------------------------------------------------------------------------
(***************************************************************************)
(* Sums. SumFunction folds a set by taking out one element after the       *)
(* other, which the definition leaves to CHOOSE. The facts below say that  *)
(* the fold is what it should be: it exists, it is the only solution of    *)
(* its equation, and the order of the summands does not matter. Induction  *)
(* is used in the form of sets: P stands for the things it is true of.     *)
(***************************************************************************)

\* Induction on the natural numbers.
LEMMA Natural ==
  ASSUME NEW P, 0 \in P, \A n \in Nat : n \in P => n + 1 \in P
  PROVE  \A n \in Nat : n \in P
<1> DEFINE T == {n \in Nat : n \notin P}
<1> SUFFICES ASSUME T # {} PROVE FALSE
  OBVIOUS
<1>1. PICK x \in T : \A y \in T : ~ (<<y, x>> \in OpToRel(<, Nat))
  <2> HIDE DEF T
  <2>1. T \subseteq Nat
    BY DEF T
  <2> QED
    BY NatLessThanWellFounded, <2>1, WFMin, Zenon
<1>2. x # 0 /\ x - 1 \in Nat
  OBVIOUS
<1>3. x - 1 \notin T
  <2>1. OpToRel(<, Nat) = {ss \in Nat \X Nat : ss[1] < ss[2]}
    BY Zenon DEF OpToRel
  <2>2. <<x - 1, x>> \in {ss \in Nat \X Nat : ss[1] < ss[2]}
    BY <1>2
  <2>3. ~(<<x - 1, x>> \in OpToRel(<, Nat)) \/ x - 1 \in Nat
    BY <1>2
  <2> QED
    BY <1>1, <2>1, <2>2
<1> QED
  BY <1>2, <1>3

\* Induction on the subsets of a finite set, one element at a time.
LEMMA Finite ==
  ASSUME NEW S, IsFiniteSet(S), NEW P, {} \in P,
         \A T \in SUBSET S, x \in S : T \in P /\ x \notin T => T \cup {x} \in P
  PROVE  S \in P
<1> DEFINE Q == {T \in SUBSET S : T \notin P}
<1> SUFFICES ASSUME Q # {} PROVE FALSE
  OBVIOUS
<1>1. PICK M \in Q : \A T \in Q : ~ (<<T, M>> \in StrictSubsetOrdering(S))
  <2> HIDE DEF Q
  <2>1. Q \subseteq FiniteSubsetsOf(S)
    BY FS_FiniteSubsetsOfFinite DEF Q
  <2> QED
    BY FS_StrictSubsetOrderingWellFounded, <2>1, WFMin
<1>2. PICK x \in M : TRUE
  OBVIOUS
<1>3. <<M \ {x}, M>> \in StrictSubsetOrdering(S)
  BY <1>2 DEF StrictSubsetOrdering
<1>4. M \ {x} \notin Q
  BY <1>1, <1>3
<1>5. M \ {x} \in SUBSET S /\ x \in S /\ x \notin M \ {x} /\ (M \ {x}) \cup {x} = M
  BY <1>2
<1>6. M \ {x} \in P
  BY <1>4, <1>5
<1> QED
  BY <1>5, <1>6

\* The element the fold takes out of a set.
Some(s) == CHOOSE x \in s : TRUE

\* The equation of the fold: one step of it, and the rest of it by g.
Peel(f, g, s) == IF s = {} THEN 0 ELSE f[Some(s)] + g[s \ {Some(s)}]

\* Taking an element out makes a finite set smaller.
LEMMA Smaller ==
  ASSUME NEW S, IsFiniteSet(S), NEW s \in SUBSET S
  PROVE  /\ Cardinality(s) \in Nat /\ (Cardinality(s) <= 0 => s = {})
         /\ s # {} => Some(s) \in s
         /\ \A x \in s : s \ {x} \in SUBSET S /\ Cardinality(s \ {x}) = Cardinality(s) - 1
<1>1. IsFiniteSet(s) /\ Cardinality(s) \in Nat
  BY FS_Subset, FS_CardinalityType
<1>2. \A x \in s : Cardinality(s \ {x}) = Cardinality(s) - 1
  BY <1>1, FS_RemoveElement
<1>3. Cardinality(s) <= 0 => s = {}
  BY <1>1, FS_EmptySet
<1> QED
  BY <1>1, <1>2, <1>3 DEF Some

\* The equation has a solution: by induction on the size of the sets it is to
\* hold for.
LEMMA Solvable ==
  ASSUME NEW S, IsFiniteSet(S), NEW f, \A x \in S : f[x] \in Int
  PROVE  \E g \in [SUBSET S -> Int] : \A s \in SUBSET S : g[s] = Peel(f, g, s)
<1> DEFINE P == {n \in Nat : \E g \in [SUBSET S -> Int] :
                   \A s \in SUBSET S : Cardinality(s) <= n => g[s] = Peel(f, g, s)}
<1>0. \A s \in SUBSET S : IsFiniteSet(s) /\ Cardinality(s) \in Nat
  BY FS_Subset, FS_CardinalityType
<1>1. \A s \in SUBSET S : s # {} =>
         /\ Some(s) \in s /\ s \ {Some(s)} \in SUBSET S
         /\ Cardinality(s \ {Some(s)}) = Cardinality(s) - 1
  BY <1>0, FS_RemoveElement DEF Some
<1>2. 0 \in P
  <2> DEFINE g == [s \in SUBSET S |-> 0]
  <2>1. g \in [SUBSET S -> Int] /\ g[{}] = 0
    OBVIOUS
  <2>2. \A s \in SUBSET S : Cardinality(s) <= 0 => s = {}
    BY <1>0, FS_EmptySet
  <2>3. \A s \in SUBSET S : Cardinality(s) <= 0 => g[s] = Peel(f, g, s)
    BY <2>1, <2>2 DEF Peel
  <2> QED
    BY <2>1, <2>3
<1>3. ASSUME NEW n \in Nat, n \in P PROVE n + 1 \in P
  <2>1. PICK g \in [SUBSET S -> Int] :
          \A s \in SUBSET S : Cardinality(s) <= n => g[s] = Peel(f, g, s)
    BY <1>3
  <2> DEFINE h == [s \in SUBSET S |-> Peel(f, g, s)]
  <2>2. h \in [SUBSET S -> Int]
    <3>1. ASSUME NEW s \in SUBSET S PROVE Peel(f, g, s) \in Int
      <4>1. CASE s = {}
        BY <4>1 DEF Peel
      <4>2. CASE s # {}
        <5>1. f[Some(s)] \in Int
          BY <1>1, <4>2
        <5>2. g[s \ {Some(s)}] \in Int
          BY <1>1, <2>1, <4>2
        <5> QED
          BY <4>2, <5>1, <5>2 DEF Peel
      <4> QED
        BY <4>1, <4>2
    <3> QED
      BY <3>1
  <2>3. ASSUME NEW s \in SUBSET S, Cardinality(s) <= n + 1
        PROVE  h[s] = Peel(f, h, s)
    <3>1. h[s] = Peel(f, g, s)
      OBVIOUS
    <3>2. CASE s = {}
      BY <3>1, <3>2 DEF Peel
    <3>3. CASE s # {}
      <4> DEFINE t == s \ {Some(s)}
      <4>1. t \in SUBSET S /\ Cardinality(t) <= n
        BY <1>0, <1>1, <2>3, <3>3
      <4>2. h[t] = g[t]
        BY <2>1, <4>1
      <4> HIDE DEF h
      <4> QED
        BY <3>1, <3>3, <4>2 DEF Peel
    <3> QED
      BY <3>2, <3>3
  <2> HIDE DEF h
  <2> QED
    BY <2>2, <2>3
<1>4. Cardinality(S) \in P
  <2> HIDE DEF P
  <2>1. \A n \in Nat : n \in P
    BY <1>2, <1>3, Natural
  <2> QED
    BY <1>0, <2>1
<1>5. \A s \in SUBSET S : Cardinality(s) <= Cardinality(S)
  BY FS_Subset
<1> QED
  BY <1>4, <1>5

\* ... and only one.
LEMMA Unique ==
  ASSUME NEW S, IsFiniteSet(S), NEW f, NEW g, NEW h,
         \A s \in SUBSET S : g[s] = Peel(f, g, s) /\ h[s] = Peel(f, h, s)
  PROVE  \A s \in SUBSET S : g[s] = h[s]
<1> DEFINE P == {n \in Nat : \A s \in SUBSET S : Cardinality(s) <= n => g[s] = h[s]}
<1>1. 0 \in P
  <2>1. \A s \in SUBSET S : Cardinality(s) <= 0 => s = {}
    BY Smaller
  <2> QED
    BY <2>1 DEF Peel
<1>2. ASSUME NEW n \in Nat, n \in P PROVE n + 1 \in P
  <2>1. ASSUME NEW s \in SUBSET S, Cardinality(s) <= n + 1, s # {}
        PROVE  g[s] = h[s]
    <3> DEFINE t == s \ {Some(s)}
    <3>1. t \in SUBSET S /\ Cardinality(t) <= n
      BY <2>1, Smaller
    <3>2. g[t] = h[t]
      BY <1>2, <3>1
    <3> QED
      BY <2>1, <3>2 DEF Peel
  <2>2. g[{}] = h[{}]
    BY DEF Peel
  <2> QED
    BY <2>1, <2>2
<1>3. Cardinality(S) \in P
  <2> HIDE DEF P
  <2>1. \A n \in Nat : n \in P
    BY <1>1, <1>2, Natural
  <2> QED
    BY <2>1, FS_CardinalityType
<1> QED
  BY <1>3, FS_Subset

\* The fold is the solution, ...
LEMMA Top ==
  ASSUME NEW S, IsFiniteSet(S), NEW f, \A x \in S : f[x] \in Int
  PROVE  \A h : (\A s \in SUBSET S : h[s] = Peel(f, h, s)) => SumFunctionOnSet(f, S) = h[S]
<1>2. PICK k \in [SUBSET S -> Int] : \A s \in SUBSET S : k[s] = Peel(f, k, s)
  BY Solvable
<1> SUFFICES ASSUME NEW h, \A s \in SUBSET S : h[s] = Peel(f, h, s)
             PROVE  SumFunctionOnSet(f, S) = h[S]
  OBVIOUS
<1> DEFINE Fold(g) == g = [s \in SUBSET S |->
                             IF s = {} THEN 0 ELSE f[CHOOSE x \in s : TRUE]
                                                   + g[s \ {CHOOSE x \in s : TRUE}]]
           g == CHOOSE g : Fold(g)
<1>3. SumFunctionOnSet(f, S) = g[S]
  BY DEF SumFunctionOnSet, FoldFunctionOnSet, MapThenFoldSet
<1>4. Fold(k)
  <2>1. k = [s \in SUBSET S |-> Peel(f, k, s)]
    BY <1>2
  <2> QED
    BY <2>1 DEF Peel, Some
<1>5. Fold(g)
  <2> HIDE DEF Fold
  <2> QED
    BY <1>4
<1> HIDE DEF g
<1>6. \A s \in SUBSET S : g[s] = Peel(f, g, s) /\ h[s] = Peel(f, h, s)
  BY <1>5 DEF Peel, Some
<1>7. \A s \in SUBSET S : g[s] = h[s]
  BY <1>6, Unique
<1> QED
  BY <1>3, <1>7

\* ... on every subset as well.
LEMMA Value ==
  ASSUME NEW S, IsFiniteSet(S), NEW f, \A x \in S : f[x] \in Int,
         NEW h, \A s \in SUBSET S : h[s] = Peel(f, h, s)
  PROVE  \A T \in SUBSET S : SumFunctionOnSet(f, T) = h[T]
<1> SUFFICES ASSUME NEW T \in SUBSET S PROVE SumFunctionOnSet(f, T) = h[T]
  OBVIOUS
<1>1. IsFiniteSet(T)
  BY FS_Subset
<1>2. \A x \in T : f[x] \in Int
  OBVIOUS
<1>3. \A s \in SUBSET T : h[s] = Peel(f, h, s)
  OBVIOUS
<1> QED
  BY <1>1, <1>2, <1>3, Top

\* The sum over nothing.
LEMMA SumEmpty == ASSUME NEW f PROVE SumFunctionOnSet(f, {}) = 0
<1> DEFINE h == [s \in SUBSET {} |-> 0]
<1>1. \A s \in SUBSET {} : h[s] = Peel(f, h, s)
  BY DEF Peel
<1>2. h[{}] = 0
  OBVIOUS
<1> HIDE DEF h
<1>3. SumFunctionOnSet(f, {}) = h[{}]
  <2>1. IsFiniteSet({}) /\ \A x \in {} : f[x] \in Int
    BY FS_EmptySet
  <2> QED
    BY <1>1, <2>1, Top
<1> QED
  BY <1>2, <1>3

\* A sum of integers is an integer.
LEMMA SumType ==
  ASSUME NEW S, IsFiniteSet(S), NEW f, \A x \in S : f[x] \in Int
  PROVE  SumFunctionOnSet(f, S) \in Int
<1>1. PICK h \in [SUBSET S -> Int] : \A s \in SUBSET S : h[s] = Peel(f, h, s)
  BY Solvable
<1>2. SumFunctionOnSet(f, S) = h[S]
  BY <1>1, Value
<1> QED
  BY <1>1, <1>2

\* Any summand may be taken out first, whichever the definition chooses.
LEMMA SumTake ==
  ASSUME NEW S, IsFiniteSet(S), NEW f, \A x \in S : f[x] \in Int, NEW a \in S
  PROVE  SumFunctionOnSet(f, S) = f[a] + SumFunctionOnSet(f, S \ {a})
<1>1. PICK h \in [SUBSET S -> Int] : \A s \in SUBSET S : h[s] = Peel(f, h, s)
  BY Solvable
<1> DEFINE P == {n \in Nat : \A s \in SUBSET S : Cardinality(s) <= n =>
                    \A x \in s : h[s] = f[x] + h[s \ {x}]}
<1>2. 0 \in P
  <2>1. \A s \in SUBSET S : Cardinality(s) <= 0 => s = {}
    BY Smaller
  <2> QED
    BY <2>1
<1>3. ASSUME NEW n \in Nat, n \in P PROVE n + 1 \in P
  <2>1. ASSUME NEW s \in SUBSET S, Cardinality(s) <= n + 1, NEW x \in s
        PROVE  h[s] = f[x] + h[s \ {x}]
    <3> DEFINE p == Some(s)
    <3>1. p \in s /\ h[s] = f[p] + h[s \ {p}]
      BY <1>1, Smaller DEF Peel
    <3>2. CASE p # x
      <4>1. /\ s \ {p} \in SUBSET S /\ Cardinality(s \ {p}) <= n /\ x \in s \ {p}
            /\ s \ {x} \in SUBSET S /\ Cardinality(s \ {x}) <= n /\ p \in s \ {x}
        BY <2>1, <3>1, <3>2, Smaller
      <4>2. /\ h[s \ {p}] = f[x] + h[(s \ {p}) \ {x}]
            /\ h[s \ {x}] = f[p] + h[(s \ {x}) \ {p}]
        BY <1>3, <4>1
      <4>3. (s \ {p}) \ {x} = (s \ {x}) \ {p}
        OBVIOUS
      <4>4. f[x] \in Int /\ f[p] \in Int /\ h[(s \ {x}) \ {p}] \in Int
        BY <1>1, <3>1
      <4>5. h[s] = f[p] + (f[x] + h[(s \ {x}) \ {p}])
        BY <3>1, <4>2, <4>3
      <4>6. h[s \ {x}] = f[p] + h[(s \ {x}) \ {p}]
        BY <4>2
      <4> HIDE DEF p
      <4> QED
        BY <4>4, <4>5, <4>6
    <3> QED
      BY <3>1, <3>2
  <2> QED
    BY <2>1
<1>4. Cardinality(S) \in P
  <2> HIDE DEF P
  <2>1. \A n \in Nat : n \in P
    BY <1>2, <1>3, Natural
  <2> QED
    BY <2>1, FS_CardinalityType
<1>5. h[S] = f[a] + h[S \ {a}]
  BY <1>4, FS_CardinalityType
<1>6. SumFunctionOnSet(f, S) = h[S] /\ SumFunctionOnSet(f, S \ {a}) = h[S \ {a}]
  BY <1>1, Value
<1> QED
  BY <1>5, <1>6

\* Equal summands, equal sums.
LEMMA SumSame ==
  ASSUME NEW S, IsFiniteSet(S), NEW f, NEW g,
         \A x \in S : f[x] \in Int /\ g[x] = f[x]
  PROVE  SumFunctionOnSet(g, S) = SumFunctionOnSet(f, S)
<1> DEFINE P == {T \in SUBSET S : SumFunctionOnSet(g, T) = SumFunctionOnSet(f, T)}
<1>1. {} \in P
  BY SumEmpty
<1>2. ASSUME NEW T \in SUBSET S, NEW x \in S, T \in P, x \notin T
      PROVE  T \cup {x} \in P
  <2> DEFINE U == T \cup {x}
  <2>1. IsFiniteSet(U) /\ U \ {x} = T /\ x \in U /\ U \in SUBSET S
    BY <1>2, FS_Subset
  <2> HIDE DEF U
  <2>2. (\A y \in U : f[y] \in Int) /\ (\A y \in U : g[y] \in Int)
    BY <2>1
  <2>3. SumFunctionOnSet(f, U) = f[x] + SumFunctionOnSet(f, U \ {x})
    BY <2>1, <2>2, SumTake
  <2>4. SumFunctionOnSet(g, U) = g[x] + SumFunctionOnSet(g, U \ {x})
    BY <2>1, <2>2, SumTake
  <2>5. U \in P
    BY <1>2, <2>1, <2>3, <2>4
  <2> QED
    BY <2>5 DEF U
<1>3. S \in P
  <2> HIDE DEF P
  <2> QED
    BY <1>1, <1>2, Finite
<1> QED
  BY <1>3

\* A sum of zeros.
LEMMA SumZero ==
  ASSUME NEW S, IsFiniteSet(S), NEW f, \A x \in S : f[x] = 0
  PROVE  SumFunctionOnSet(f, S) = 0
<1> DEFINE P == {T \in SUBSET S : SumFunctionOnSet(f, T) = 0}
<1>1. {} \in P
  BY SumEmpty
<1>2. ASSUME NEW T \in SUBSET S, NEW x \in S, T \in P, x \notin T
      PROVE  T \cup {x} \in P
  <2> DEFINE U == T \cup {x}
  <2>1. IsFiniteSet(U) /\ U \ {x} = T /\ x \in U /\ U \in SUBSET S
    BY <1>2, FS_Subset
  <2> HIDE DEF U
  <2>2. \A y \in U : f[y] \in Int
    BY <2>1
  <2>3. SumFunctionOnSet(f, U) = f[x] + SumFunctionOnSet(f, U \ {x})
    BY <2>1, <2>2, SumTake
  <2>4. U \in P
    BY <1>2, <2>1, <2>3
  <2> QED
    BY <2>4 DEF U
<1>3. S \in P
  <2> HIDE DEF P
  <2> QED
    BY <1>1, <1>2, Finite
<1> QED
  BY <1>3

\* The sum of all values of a function.
LEMMA SumOfFunction ==
  ASSUME NEW S, IsFiniteSet(S), NEW f \in [S -> Int]
  PROVE  SumFunction(f) = SumFunctionOnSet(f, S) /\ SumFunction(f) \in Int
<1>1. SumFunction(f) = SumFunctionOnSet(f, S)
  BY DEF SumFunction
<1> QED
  BY <1>1, SumType

\* The sum of a function that is zero everywhere.
LEMMA SumOfZeros ==
  ASSUME NEW S, IsFiniteSet(S), NEW f \in [S -> Int], \A x \in S : f[x] = 0
  PROVE  SumFunction(f) = 0
<1>1. SumFunction(f) = SumFunctionOnSet(f, S)
  BY SumOfFunction
<1>2. SumFunctionOnSet(f, S) = 0
  BY SumZero
<1> QED
  BY <1>1, <1>2

\* A function that changes at one place changes its sum by as much.
LEMMA SumChanged ==
  ASSUME NEW S, IsFiniteSet(S), NEW f \in [S -> Int], NEW g \in [S -> Int],
         NEW a \in S, \A x \in S : x # a => g[x] = f[x]
  PROVE  SumFunction(g) = SumFunction(f) + (g[a] - f[a])
<1>1. /\ SumFunctionOnSet(f, S) = f[a] + SumFunctionOnSet(f, S \ {a})
      /\ SumFunctionOnSet(g, S) = g[a] + SumFunctionOnSet(g, S \ {a})
  BY SumTake
<1>2. IsFiniteSet(S \ {a})
  BY FS_RemoveElement
<1>3. SumFunctionOnSet(g, S \ {a}) = SumFunctionOnSet(f, S \ {a})
  BY <1>2, SumSame
<1>4. SumFunctionOnSet(f, S \ {a}) \in Int
  BY <1>2, SumType
<1> QED
  BY <1>1, <1>3, <1>4, SumOfFunction
============================================================================
