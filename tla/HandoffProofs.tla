--------------------------- MODULE HandoffProofs ---------------------------
(***************************************************************************)
(* For any zones, players, world and interleaving of splits, merges and    *)
(* crossings: types; the gateway's map and the zones' own regions agree;   *)
(* and the autoscaler's steps amount to the atomic ones of Partition.      *)
(*                                                                         *)
(* While the autoscaler rests: a player is in one place, where it last     *)
(* was, and at rest its frames go there. While it only splits: no player   *)
(* is lost.                                                                *)
(***************************************************************************)
EXTENDS Handoff, OperatorLemmas

----------------------------------------------------------------------------
\* Sequences.

LEMMA AppendFacts ==
  ASSUME NEW S, NEW q \in Seq(S), NEW m \in S
  PROVE  /\ Append(q, m) \in Seq(S) /\ Len(q) \in Nat /\ DOMAIN q = 1 .. Len(q)
         /\ DOMAIN Append(q, m) = DOMAIN q \cup {Len(q) + 1}
         /\ Append(q, m)[Len(q) + 1] = m
         /\ \A i \in DOMAIN q : Append(q, m)[i] = q[i]
         /\ Append(q, m) # <<>>
OBVIOUS

LEMMA TailFacts ==
  ASSUME NEW S, NEW q \in Seq(S), q # <<>>
  PROVE  /\ Tail(q) \in Seq(S) /\ Head(q) \in S /\ Head(q) = q[1] /\ 1 \in DOMAIN q
         /\ \A i \in DOMAIN Tail(q) : i \in Nat \ {0} /\ i + 1 \in DOMAIN q /\ Tail(q)[i] = q[i + 1]
         /\ \A i \in DOMAIN q : i \in Nat \ {0} /\ (i # 1 => i - 1 \in DOMAIN Tail(q) /\ Tail(q)[i - 1] = q[i])
OBVIOUS

LEMMA UpTo == ASSUME NEW n \in Nat PROVE IsFiniteSet(1 .. n) /\ Cardinality(1 .. n) = n
<1>1. 1 \in Int /\ n \in Int /\ (IF 1 > n THEN 0 ELSE n - 1 + 1) = n
  OBVIOUS
<1> QED
  BY <1>1, FS_Interval

\* The greatest of some numbers below a bound.
LEMMA Greatest ==
  ASSUME NEW n \in Nat, NEW T \in SUBSET (1 .. n), T # {}
  PROVE  \E m \in T : \A j \in T : j <= m
<1> DEFINE Bounded == {k \in Nat : \A U \in SUBSET (1 .. k) : U # {} => \E m \in U : \A j \in U : j <= m}
<1>1. 0 \in Bounded
  <2>1. 1 .. 0 = {}
    OBVIOUS
  <2> QED
    BY <2>1
<1>2. ASSUME NEW k \in Nat, k \in Bounded PROVE k + 1 \in Bounded
  <2>1. ASSUME NEW U \in SUBSET (1 .. k + 1), U # {}
        PROVE  \E m \in U : \A j \in U : j <= m
    <3>1. CASE k + 1 \in U
      BY <3>1
    <3>2. CASE k + 1 \notin U
      <4>1. U \in SUBSET (1 .. k)
        BY <3>2
      <4> QED
        BY <4>1, <1>2, <2>1
    <3> QED
      BY <3>1, <3>2
  <2> QED
    BY <2>1
<1>3. n \in Bounded
  <2> HIDE DEF Bounded
  <2> QED
    BY <1>1, <1>2, Natural
<1> QED
  BY <1>3

LEMMA CatFacts ==
  ASSUME NEW S, NEW q \in Seq(S), NEW r \in Seq(S)
  PROVE  /\ q \o r \in Seq(S) /\ Len(q \o r) = Len(q) + Len(r)
         /\ \A i \in 1 .. Len(q) + Len(r) :
              (q \o r)[i] = IF i <= Len(q) THEN q[i] ELSE r[i - Len(q)]
OBVIOUS

LEMMA RemoveFacts ==
  ASSUME NEW S, NEW q \in Seq(S), NEW k \in DOMAIN q
  PROVE  /\ Seqs!RemoveAt(q, k) \in Seq(S)
         /\ Len(Seqs!RemoveAt(q, k)) = Len(q) - 1
         /\ \A i \in 1 .. Len(q) - 1 :
              Seqs!RemoveAt(q, k)[i] = IF i < k THEN q[i] ELSE q[i + 1]
<1> DEFINE a == SubSeq(q, 1, k - 1)
           b == SubSeq(q, k + 1, Len(q))
<1>1. k \in 1 .. Len(q) /\ Len(q) \in Nat
  OBVIOUS
<1>2. a \in Seq(S) /\ Len(a) = k - 1 /\ \A i \in 1 .. k - 1 : a[i] = q[i]
  BY <1>1
<1>3. b \in Seq(S) /\ Len(b) = Len(q) - k /\ \A i \in 1 .. Len(q) - k : b[i] = q[k + i]
  BY <1>1
<1> HIDE DEF a, b
<1>4. /\ a \o b \in Seq(S) /\ Len(a \o b) = Len(q) - 1
      /\ \A i \in 1 .. Len(q) - 1 : (a \o b)[i] = IF i < k THEN a[i] ELSE b[i - (k - 1)]
  <2>1. a \in Seq(S) /\ b \in Seq(S) /\ Len(a) = k - 1 /\ Len(b) = Len(q) - k
    BY <1>2, <1>3
  <2>2. k \in Int /\ Len(q) \in Int /\ (k - 1) + (Len(q) - k) = Len(q) - 1
    BY <1>1
  <2>3. /\ a \o b \in Seq(S) /\ Len(a \o b) = Len(a) + Len(b)
        /\ \A i \in 1 .. Len(a) + Len(b) :
             (a \o b)[i] = IF i <= Len(a) THEN a[i] ELSE b[i - Len(a)]
    BY ONLY <2>1, CatFacts
  <2>4. \A i \in 1 .. Len(q) - 1 : i <= k - 1 <=> i < k
    BY <2>2
  <2> QED
    BY <2>1, <2>2, <2>3, <2>4
<1>5. ASSUME NEW i \in 1 .. Len(q) - 1
      PROVE  (a \o b)[i] = IF i < k THEN q[i] ELSE q[i + 1]
  <2>1. CASE i < k
    BY <2>1, <1>1, <1>2, <1>4
  <2>2. CASE ~(i < k)
    <3>1. i - (k - 1) \in 1 .. Len(q) - k /\ k + (i - (k - 1)) = i + 1
      BY <2>2, <1>1
    <3> QED
      BY <2>2, <3>1, <1>3, <1>4
  <2> QED
    BY <2>1, <2>2
<1> QED
  BY <1>4, <1>5 DEF Seqs!RemoveAt, a, b

Telling == {Status(p, x) : p \in Player, x \in Spot}

\* The statuses a zone sends: one of each of the players in it.
LEMMA StatusesFacts ==
  ASSUME NEW R \in SUBSET Player, NEW es \in [R -> Spot \cup {Nowhere}]
  PROVE  /\ Statuses(es) \in Seq(Telling)
         /\ \A i \in DOMAIN Statuses(es) : \E p \in R :
              es[p] # Nowhere /\ Statuses(es)[i] = Status(p, es[p])
         /\ \A p \in R : es[p] # Nowhere =>
              \E i \in DOMAIN Statuses(es) : Statuses(es)[i] = Status(p, es[p])
<1> DEFINE S == {p \in R : es[p] # Nowhere}
           n == Cardinality(S)
           ps == Seqs!SetToSeq(S)
<1>0. DOMAIN es = R
  OBVIOUS
<1>1. IsFiniteSet(S)
  BY HandoffAssumption, FS_Subset
<1>2. n \in Nat /\ ExistsBijection(1 .. n, S)
  BY <1>1, FS_CardinalityType
<1>3. ps \in [1 .. n -> S] /\ Seqs!IsInjective(ps)
  <2>0. Seqs!Cardinality(S) = n
    BY DEF Cardinality, Seqs!Cardinality
  <2>1. PICK f : f \in Bijection(1 .. n, S)
    BY <1>2 DEF ExistsBijection
  <2>2. f \in [1 .. n -> S] /\ Seqs!IsInjective(f)
    BY <2>1 DEF Bijection, Injection, IsInjective, Seqs!IsInjective
  <2> HIDE DEF S
  <2>3. ps = CHOOSE g \in [1 .. n -> S] : Seqs!IsInjective(g)
    BY <2>0 DEF Seqs!SetToSeq
  <2> QED
    BY <2>2, <2>3
<1>4. \A p \in S : \E i \in 1 .. n : ps[i] = p
  <2> DEFINE T == {ps[i] : i \in 1 .. n}
  <2> HIDE DEF ps
  <2>1. T \in SUBSET S
    BY <1>3
  <2>2. ps \in Bijection(1 .. n, T)
    BY <1>3 DEF Bijection, Injection, Surjection, IsInjective, Seqs!IsInjective
  <2>3. Cardinality(T) = n
    BY <1>2, <2>2, FS_CountingElements DEF ExistsBijection
  <2> HIDE DEF T, S
  <2>4. T = S
    BY <1>1, <2>1, <2>3, FS_Subset
  <2> QED
    BY <2>4 DEF T
<1>5. Statuses(es) = [i \in 1 .. n |-> Status(ps[i], es[ps[i]])]
  <2>1. DOMAIN ps = 1 .. n
    BY <1>3
  <2> QED
    BY <1>0, <2>1 DEF Statuses
<1> HIDE DEF ps
<1>6. ASSUME NEW i \in 1 .. n
      PROVE  ps[i] \in R /\ es[ps[i]] # Nowhere /\ es[ps[i]] \in Spot
  BY <1>3
<1>7. Statuses(es) \in Seq(Telling)
  BY <1>2, <1>5, <1>6 DEF Telling
<1>8. DOMAIN Statuses(es) = 1 .. n /\ \A i \in 1 .. n : Statuses(es)[i] = Status(ps[i], es[ps[i]])
  BY <1>5
<1>9. ASSUME NEW p \in R, es[p] # Nowhere
      PROVE  \E i \in 1 .. n : Statuses(es)[i] = Status(p, es[p])
  <2>1. PICK i \in 1 .. n : ps[i] = p
    BY <1>4, <1>9
  <2> QED
    BY <2>1, <1>8
<1> HIDE DEF n, S
<1> QED
  BY <1>6, <1>7, <1>8, <1>9

----------------------------------------------------------------------------
\* Types, those of the messages and of the tasks included.

\* What the gateway writes to a zone, and a zone to the gateway.
Letter ==
  {Join(p) : p \in Player} \cup {Leave(p) : p \in Player}
    \cup {Move(p, dx) : p \in Player, dx \in Step} \cup {Spawn(p, x) : p \in Player, x \in Int}
    \cup {SetRegion(r) : r \in Region} \cup {Shutdown}

Word == {Status(p, x) : p \in Player, x \in Spot} \cup {Migrate(p, x) : p \in Player, x \in Spot}

Stages == {"offline", "authed", "admitted", "entered", "online",
           "closing", "forgotten", "saved", "gone"}

Handing == [stage : {"send", "note", "follow"}, who : Player, x : Spot, to : Zone]

Mover == [who : Player, x : Int]

Work ==
  [stage : {"launch", "shrink", "swap", "tell", "move"}, op : {"split", "merge"},
   from : Zone, to : Zone, movers : SUBSET Mover]

OneMove ==
  [stage : {"spawn", "repoint"}, op : {"split", "merge"},
   from : Zone, to : Zone, movers : SUBSET Mover, mover : Mover]

\* What a zone's handler and its game loop are at.
Pace == [stage : {"step"}, who : Player, x : Spot]
Waking == [stage : {"awake"}, area : Region]
Talking == [stage : {"flush"}, packets : Seq(Telling)]

Typed ==
  /\ zones \in [DOMAIN zones -> Region] /\ DOMAIN zones \subseteq Zone
  /\ order \in Seq(Zone)
  /\ clients \in [Player -> Zone \cup {NoZone}]
  /\ cache \in [Player -> Spot \cup {Nowhere}]
  /\ saved \in [Player -> Spot]
  /\ pc \in [Socket -> Stages]
  /\ at \in [Socket -> Zone \cup {NoZone}]
  /\ last \in [Socket -> Spot \cup {Nowhere}]
  /\ \A s \in Socket : pc[s] # "offline" => last[s] \in Spot
  /\ hand \in [Zone -> {Free} \cup Handing]
  /\ scaler \in {Resting} \cup Work \cup OneMove
  /\ children \subseteq Zone /\ alive \subseteq Zone
  /\ region \in [Zone -> Region]
  /\ ents \in [Zone -> [Player -> Spot \cup {Nowhere}]]
  /\ down \in [Zone -> Seq(Letter)] /\ up \in [Zone -> Seq(Word)]
  /\ pos \in [Player -> Spot \cup {Nowhere}]
  /\ doing \in [Zone -> {Resting} \cup Pace]
  /\ tick \in [Zone -> {Resting} \cup Waking \cup Talking]
  /\ traced \subseteq Player /\ undone \subseteq Player

LEMMA LetterIn ==
  /\ \A p \in Player : Join(p) \in Letter /\ Leave(p) \in Letter
  /\ \A p \in Player, dx \in Step : Move(p, dx) \in Letter
  /\ \A p \in Player, x \in Int : Spawn(p, x) \in Letter
  /\ \A r \in Region : SetRegion(r) \in Letter
  /\ Shutdown \in Letter
BY DEF Letter

LEMMA LetterOut ==
  ASSUME NEW m \in Letter
  PROVE  /\ m.kind = "player_join" => m.who \in Player /\ m = Join(m.who)
         /\ m.kind = "player_leave" => m.who \in Player /\ m = Leave(m.who)
         /\ m.kind = "move" => m.who \in Player /\ m.dx \in Step /\ m = Move(m.who, m.dx)
         /\ m.kind = "spawn_entity" => m.who \in Player /\ m.x \in Int /\ m = Spawn(m.who, m.x)
         /\ m.kind = "set_region" => m.region \in Region /\ m = SetRegion(m.region)
         /\ m.kind = "shutdown" => m = Shutdown
         /\ m.kind \in {"player_join", "player_leave", "move", "spawn_entity", "set_region",
                        "shutdown"}
BY DEF Letter, Join, Leave, Move, Spawn, SetRegion, Shutdown

LEMMA WordIn ==
  \A p \in Player, x \in Spot : Status(p, x) \in Word /\ Migrate(p, x) \in Word
BY DEF Word

LEMMA WordOut ==
  ASSUME NEW m \in Word
  PROVE  /\ m.who \in Player /\ m.x \in Spot
         /\ m.kind = "status_update" => m = Status(m.who, m.x)
         /\ m.kind = "migrate_request" => m = Migrate(m.who, m.x)
         /\ m.kind \in {"status_update", "migrate_request"}
BY DEF Word, Status, Migrate

LEMMA SpotFacts ==
  /\ \A x \in Spot : x \in Int /\ x # Nowhere
  /\ \A x \in Int : Clamped(x) \in Spot
  /\ \A x \in Spot : Clamped(x) = x
BY HandoffAssumption DEF Spot, Nowhere, Clamped

LEMMA HandingFacts ==
  ASSUME NEW h \in {Free} \cup Handing
  PROVE  /\ h.stage \in {"free", "send", "note", "follow"}
         /\ h.stage # "free" => h \in Handing
         /\ h.stage = "free" => h = Free
BY DEF Free, Handing

LEMMA WorkFacts ==
  ASSUME NEW w \in {Resting} \cup Work \cup OneMove
  PROVE  /\ w.stage \in {"rest", "launch", "shrink", "swap", "tell", "move", "spawn", "repoint"}
         /\ w.stage \in {"launch", "shrink", "swap", "tell", "move"} => w \in Work
         /\ w.stage \in {"spawn", "repoint"} => w \in OneMove
         /\ w.stage = "rest" => w = Resting
BY DEF Resting, Work, OneMove

LEMMA PaceFacts ==
  ASSUME NEW d \in {Resting} \cup Pace
  PROVE  /\ d.stage \in {"rest", "step"}
         /\ d.stage = "step" => d \in Pace /\ d.who \in Player /\ d.x \in Spot /\ d # Resting
         /\ d.stage = "rest" => d = Resting
         /\ d # Resting => d.stage = "step"
BY DEF Resting, Pace

LEMMA LoopFacts ==
  ASSUME NEW t \in {Resting} \cup Waking \cup Talking
  PROVE  /\ t.stage \in {"rest", "awake", "flush"}
         /\ t.stage = "awake" => t \in Waking /\ t.area \in Region /\ t # Resting
         /\ t.stage = "flush" => t \in Talking /\ t.packets \in Seq(Telling) /\ t # Resting
BY DEF Resting, Waking, Talking

----------------------------------------------------------------------------
\* The fleet: what the autoscaler relies on at each of its stages, and what is
\* in the mail of the zones.

\* Every zone of the map runs, and has a region with a point in it.
Mapped ==
  /\ IsFiniteSet(DOMAIN zones) /\ DOMAIN zones # {}
  /\ \A z \in DOMAIN zones : z \in alive /\ NonEmpty(zones[z])

\* The order lists the zones of the map, each of them once.
Ordered ==
  /\ \A i \in DOMAIN order : order[i] \in DOMAIN zones
  /\ \A z \in DOMAIN zones : \E i \in DOMAIN order : order[i] = z
  /\ \A i, j \in DOMAIN order : order[i] = order[j] => i = j
  /\ Len(order) = Cardinality(DOMAIN zones)

\* A zone that does not run, never launched or ended, has no mail and no players.
Silent ==
  /\ \A z \in alive : Launched(z)
  /\ \A z \in Zone \ alive : down[z] = <<>> /\ \A p \in Player : ents[z][p] = Nowhere
  /\ children \subseteq alive

\* The zone of a merge whose players are being moved out of it.
Emptying(z) == /\ scaler.stage \in {"tell", "move", "spawn", "repoint"} /\ scaler.op = "merge"
               /\ scaler.from = z

\* A message for z is one it may get: no empty region, no shutdown while needed.
Fit(z, m) ==
  /\ m.kind = "set_region" => NonEmpty(m.region)
  /\ m.kind = "shutdown" => z \notin DOMAIN zones /\ z \notin children /\ ~Emptying(z)

FitMail == \A z \in Zone : \A i \in DOMAIN down[z] : Fit(z, down[z][i])

Geared ==
  /\ scaler.stage = "launch" =>
       /\ scaler.op = "split" /\ scaler.from \in DOMAIN zones /\ ~Launched(scaler.to)
       /\ Splittable(zones[scaler.from]) /\ Cardinality(DOMAIN zones) < MaxZones
  /\ scaler.stage = "shrink" =>
       /\ scaler.op = "split" /\ {scaler.from, scaler.to} \subseteq DOMAIN zones
       /\ scaler.from # scaler.to /\ zones[scaler.to] = HighHalf(zones[scaler.from])
       /\ Splittable(zones[scaler.from])
       /\ Cardinality(DOMAIN zones \ {scaler.to}) < MaxZones
  /\ scaler.stage = "swap" =>
       /\ scaler.op = "merge" /\ {scaler.from, scaler.to} \subseteq DOMAIN zones
       /\ scaler.from # scaler.to /\ Mergeable(zones[scaler.to], zones[scaler.from])
       /\ OriginFirst(zones[scaler.to], zones[scaler.from])
  /\ scaler.stage = "tell" => scaler.op = "merge"
  /\ scaler.stage \in {"tell", "move", "spawn", "repoint"} =>
       /\ scaler.to \in DOMAIN zones
       /\ scaler.op = "split" => scaler.from \in DOMAIN zones
       /\ scaler.op = "merge" => scaler.from \in alive /\ scaler.from \notin DOMAIN zones

Fleet == Mapped /\ Ordered /\ Silent /\ FitMail /\ Geared

\* A handler has a player of its zone in hand, a game loop runs where a zone does.
Abreast ==
  /\ \A z \in Zone : doing[z] # Resting => ents[z][doing[z].who] # Nowhere
  /\ \A z \in Zone \ alive : tick[z] = Resting

\* The region z will have once it has read its mail is v: the one of the last
\* set_region in it, or the one it has.
Pledged(q, r, v) ==
  /\ \A i \in DOMAIN q :
       q[i].kind = "set_region" /\ (\A j \in DOMAIN q : q[j].kind = "set_region" => j <= i)
         => q[i].region = v
  /\ (\A i \in DOMAIN q : q[i].kind # "set_region") => r = v

Agreed ==
  \A z \in DOMAIN zones :
    ~(scaler.stage = "tell" /\ scaler.to = z) => Pledged(down[z], region[z], zones[z])

----------------------------------------------------------------------------
\* Types are kept.

LEMMA NoZoneFacts == Typed => NoZone \notin DOMAIN zones /\ NoZone \notin Zone
BY HandoffAssumption DEF Typed

LEMMA InitTyped == Init => Typed
<1> SUFFICES ASSUME Init PROVE Typed
  OBVIOUS
<1> USE HandoffAssumption, SpotFacts DEF Init
<1>1. zones \in [DOMAIN zones -> Region] /\ DOMAIN zones \subseteq Zone /\ order \in Seq(Zone)
  OBVIOUS
<1>2. region \in [Zone -> Region]
  BY DEF Box, Region
<1>3. pc \in [Socket -> Stages]
  BY DEF Stages
<1> QED
  BY <1>1, <1>2, <1>3 DEF Typed, Pace

\* A letter more, or one less, in the mail of one zone.
LEMMA PostType ==
  ASSUME Typed, NEW z \in Zone, NEW m \in Letter
  PROVE  [down EXCEPT ![z] = Append(@, m)] \in [Zone -> Seq(Letter)]
BY DEF Typed

LEMMA HandledType ==
  ASSUME Typed, NEW z \in Zone, down[z] # <<>>
  PROVE  Handled(z) \in [Zone -> Seq(Letter)] /\ Head(down[z]) \in Letter
BY DEF Typed, Handled

LEMMA SayType ==
  ASSUME Typed, NEW z \in Zone, NEW m \in Word
  PROVE  Say(z, m) \in [Zone -> Seq(Word)]
BY DEF Typed, Say

LEMMA HeardType ==
  ASSUME Typed, NEW z \in Zone, up[z] # <<>>
  PROVE  Heard(z) \in [Zone -> Seq(Word)] /\ Head(up[z]) \in Word
BY DEF Typed, Heard

LEMMA PutType ==
  ASSUME Typed, NEW z \in Zone, NEW p \in Player, NEW x \in Spot \cup {Nowhere}
  PROVE  Put(z, p, x) \in [Zone -> [Player -> Spot \cup {Nowhere}]]
BY DEF Typed, Put

\* A process that ends.
LEMMA EndsType ==
  ASSUME Typed, NEW z \in Zone, Ends(z)
  PROVE  /\ alive' \subseteq alive /\ ents' \in [Zone -> [Player -> Spot \cup {Nowhere}]]
         /\ doing' \in [Zone -> {Resting} \cup Pace]
         /\ tick' \in [Zone -> {Resting} \cup Waking \cup Talking]
         /\ down' \in [Zone -> Seq(Letter)] /\ up' \in [Zone -> Seq(Word)]
<1>1. up[z] \in Seq(Word)
  BY DEF Typed
<1>2. PICK n \in 0 .. Len(up[z]) : up' = [up EXCEPT ![z] = SubSeq(@, 1, n)]
  BY DEF Ends
<1>3. SubSeq(up[z], 1, n) \in Seq(Word)
  BY <1>1, <1>2
<1>4. <<>> \in Seq(Letter)
  OBVIOUS
<1> QED
  BY <1>2, <1>3, <1>4 DEF Ends, Typed

LEMMA SessionTyped ==
  ASSUME Typed, Fleet, NEW s \in Socket, Session(s)
  PROVE  Typed'
<1> USE DEF gateway, processes, bounds, sessions
<1>0. Owner[s] \in Player /\ Spot \cup {Nowhere} = Spot \cup {Nowhere} /\ \A x \in Spot : x \in Int
  BY HandoffAssumption, SpotFacts
<1>1. CASE Authenticate(s)
  BY <1>0, <1>1 DEF Authenticate, Typed, Stages
<1>2. CASE Admit(s)
  <2>1. Head(order) \in Zone
    <3>1. order # <<>> /\ order \in Seq(Zone)
      BY DEF Fleet, Mapped, Ordered, Typed
    <3> QED
      BY <3>1
  <2>2. at' \in [Socket -> Zone \cup {NoZone}]
    <3>1. \/ UNCHANGED at
          \/ \E z \in {Head(order)} \cup DOMAIN zones : at' = [at EXCEPT ![s] = z]
      BY <1>2 DEF Admit
    <3> QED
      BY <2>1, <3>1 DEF Typed
  <2>3. pc' \in [Socket -> Stages] /\ \A t \in Socket : pc'[t] # "offline" => pc[t] # "offline"
    BY <1>2 DEF Admit, Typed, Stages
  <2> QED
    BY <1>2, <2>2, <2>3 DEF Admit, Typed
<1>3. CASE Enter(s)
  BY <1>0, <1>3 DEF Enter, Typed, Stages
<1>4. CASE Appear(s)
  <2>1. last[s] \in Spot
    BY <1>4 DEF Appear, Typed
  <2>2. down' \in [Zone -> Seq(Letter)]
    <3>1. CASE at[s] \notin DOMAIN zones
      BY <1>4, <3>1 DEF Appear, Typed
    <3>2. CASE at[s] \in DOMAIN zones
      <4>1. at[s] \in Zone
        BY <3>2 DEF Typed
      <4>2. Join(Owner[s]) \in Letter /\ Spawn(Owner[s], last[s]) \in Letter
        BY <1>0, <2>1, LetterIn
      <4> DEFINE j == Join(Owner[s])
                 e == Spawn(Owner[s], last[s])
      <4>3. \/ down' = [down EXCEPT ![at[s]] = Append(@, j)]
            \/ down' = [down EXCEPT ![at[s]] = Append(@, e)]
        BY <1>4, <3>2 DEF Appear
      <4> HIDE DEF j, e
      <4>4. j \in Letter /\ e \in Letter
        BY <4>2 DEF j, e
      <4>5. ASSUME NEW m \in Letter, down' = [down EXCEPT ![at[s]] = Append(@, m)]
            PROVE  down' \in [Zone -> Seq(Letter)]
        BY ONLY <4>1, <4>5, Typed, PostType
      <4> QED
        BY ONLY <4>3, <4>4, <4>5
    <3> QED
      BY <3>1, <3>2
  <2>3. cache' \in [Player -> Spot \cup {Nowhere}] /\ pos' \in [Player -> Spot \cup {Nowhere}]
    BY <1>4, <1>0, <2>1 DEF Appear, Typed
  <2>4. pc' \in [Socket -> Stages] /\ \A t \in Socket : pc'[t] # "offline" => pc[t] # "offline"
    BY <1>4 DEF Appear, Typed, Stages
  <2> QED
    BY <1>4, <2>2, <2>3, <2>4 DEF Appear, Typed
<1>5. CASE Close(s)
  <2>1. last' \in [Socket -> Spot \cup {Nowhere}] /\ \A t \in Socket : last[t] \in Spot => last'[t] \in Spot
    BY <1>5, <1>0 DEF Close, Typed
  <2>2. pc' \in [Socket -> Stages] /\ \A t \in Socket : pc'[t] # "offline" => pc[t] # "offline"
    BY <1>5 DEF Close, Typed, Stages
  <2>3. cache' \in [Player -> Spot \cup {Nowhere}]
    BY <1>5, <1>0 DEF Close, Typed
  <2> QED
    BY <1>5, <2>1, <2>2, <2>3 DEF Close, Typed
<1>6. CASE Forget(s)
  <2>1. pc' \in [Socket -> Stages] /\ \A t \in Socket : pc'[t] # "offline" => pc[t] # "offline"
    BY <1>6 DEF Forget, Typed, Stages
  <2> QED
    BY <1>6, <1>0, <2>1 DEF Forget, Typed
<1>7. CASE Save(s)
  <2>1. pc' \in [Socket -> Stages] /\ \A t \in Socket : pc'[t] # "offline" => pc[t] # "offline"
    BY <1>7 DEF Save, Typed, Stages
  <2>2. saved' \in [Player -> Spot]
    BY <1>7, <1>0 DEF Save, Typed
  <2> QED
    BY <1>7, <2>1, <2>2 DEF Save, Typed
<1>8. CASE TellLeave(s)
  <2>1. pc' \in [Socket -> Stages] /\ \A t \in Socket : pc'[t] # "offline" => pc[t] # "offline"
    BY <1>8 DEF TellLeave, Typed, Stages
  <2>2. down' \in [Zone -> Seq(Letter)]
    <3>1. CASE at[s] \notin DOMAIN zones
      BY <1>8, <3>1 DEF TellLeave, Typed
    <3>2. CASE at[s] \in DOMAIN zones
      BY <1>8, <1>0, <3>2, LetterIn, PostType DEF TellLeave, Typed
    <3> QED
      BY <3>1, <3>2
  <2> QED
    BY <1>8, <2>1, <2>2 DEF TellLeave, Typed
<1>9. ASSUME NEW dx \in Step, Frame(s, dx)
      PROVE  Typed'
  <2>1. down' \in [Zone -> Seq(Letter)]
    <3>1. clients[Owner[s]] \in Zone /\ Move(Owner[s], dx) \in Letter
      BY <1>9, <1>0, LetterIn DEF Frame, Typed
    <3> QED
      BY <1>9, <3>1, PostType DEF Frame
  <2> QED
    BY <1>9, <2>1 DEF Frame, Typed
<1> QED
  BY <1>1, <1>2, <1>3, <1>4, <1>5, <1>6, <1>7, <1>8, <1>9 DEF Session

\* The game loop's turn in z: the players that died are somewhere in the world,
\* the others where they were.
Tick(z, died, es, ss) ==
  /\ \A p \in Player : IF p \in died THEN es[p] \in Spot ELSE es[p] = ents[z][p]
  /\ ents' = [ents EXCEPT ![z] = es]
  /\ pos' = [p \in Player |-> IF p \in died THEN es[p] ELSE pos[p]]
  /\ tick' = [tick EXCEPT ![z] = [stage |-> "flush", packets |-> ss]]
  /\ undone' = undone \cup {p \in died : doing[z].stage = "step" /\ doing[z].who = p}

LEMMA TickedFacts ==
  ASSUME Typed, NEW z \in Zone, Ticked(z)
  PROVE  \E died \in SUBSET Present(z), es \in [Player -> Spot \cup {Nowhere}],
            ss \in Seq(Telling) : Tick(z, died, es, ss)
<1>0. ents[z] \in [Player -> Spot \cup {Nowhere}]
  BY DEF Typed
<1>a. PICK R \in SUBSET Present(z) : \E died \in SUBSET R :
        \E there \in [died -> {x \in Spot : Owns(tick[z].area, x)}] :
          /\ ents' = [ents EXCEPT ![z] =
                        [p \in Player |-> IF p \in died THEN there[p] ELSE ents[z][p]]]
          /\ pos' = [p \in Player |-> IF p \in died THEN there[p] ELSE pos[p]]
          /\ tick' = [tick EXCEPT ![z] = [stage |-> "flush", packets |-> Statuses(
               [p \in R |-> [q \in Player |-> IF q \in died THEN there[q] ELSE ents[z][q]][p]])]]
          /\ undone' = undone \cup {p \in died : doing[z].stage = "step" /\ doing[z].who = p}
  BY DEF Ticked
<1>b. PICK died \in SUBSET R : \E there \in [died -> {x \in Spot : Owns(tick[z].area, x)}] :
          /\ ents' = [ents EXCEPT ![z] =
                        [p \in Player |-> IF p \in died THEN there[p] ELSE ents[z][p]]]
          /\ pos' = [p \in Player |-> IF p \in died THEN there[p] ELSE pos[p]]
          /\ tick' = [tick EXCEPT ![z] = [stage |-> "flush", packets |-> Statuses(
               [p \in R |-> [q \in Player |-> IF q \in died THEN there[q] ELSE ents[z][q]][p]])]]
          /\ undone' = undone \cup {p \in died : doing[z].stage = "step" /\ doing[z].who = p}
  BY <1>a
<1>1. PICK there \in [died -> {x \in Spot : Owns(tick[z].area, x)}] :
          /\ ents' = [ents EXCEPT ![z] =
                        [p \in Player |-> IF p \in died THEN there[p] ELSE ents[z][p]]]
          /\ pos' = [p \in Player |-> IF p \in died THEN there[p] ELSE pos[p]]
          /\ tick' = [tick EXCEPT ![z] = [stage |-> "flush", packets |-> Statuses(
               [p \in R |-> [q \in Player |-> IF q \in died THEN there[q] ELSE ents[z][q]][p]])]]
          /\ undone' = undone \cup {p \in died : doing[z].stage = "step" /\ doing[z].who = p}
  BY <1>b
<1> DEFINE es == [q \in Player |-> IF q \in died THEN there[q] ELSE ents[z][q]]
           ss == [p \in R |-> es[p]]
<1>2. R \in SUBSET Player /\ died \in SUBSET Player /\ died \in SUBSET Present(z)
  BY DEF Present
<1>3. es \in [Player -> Spot \cup {Nowhere}] /\ ss \in [R -> Spot \cup {Nowhere}]
  BY <1>0, <1>2
<1>4. \A p \in Player : IF p \in died THEN es[p] \in Spot /\ there[p] = es[p] ELSE es[p] = ents[z][p]
  OBVIOUS
<1>5. ents' = [ents EXCEPT ![z] = es] /\ tick' = [tick EXCEPT ![z] =
        [stage |-> "flush", packets |-> Statuses(ss)]]
  BY <1>1
<1> HIDE DEF es, ss
<1>6. Statuses(ss) \in Seq(Telling)
  <2>1. R \in SUBSET Player
    BY <1>2
  <2> QED
    BY ONLY <2>1, <1>3, StatusesFacts
<1>7. pos' = [p \in Player |-> IF p \in died THEN es[p] ELSE pos[p]]
  BY <1>1, <1>4
<1>8. Tick(z, died, es, Statuses(ss))
  BY <1>1, <1>4, <1>5, <1>7 DEF Tick
<1> QED
  BY <1>2, <1>3, <1>6, <1>8

LEMMA ProcessTyped ==
  ASSUME Typed, Fleet, Abreast, NEW z \in Zone, Process(z)
  PROVE  Typed'
<1> DEFINE m == Head(down[z])
<1> USE DEF gateway, processes, bounds, sessions
<1>0. ents[z] \in [Player -> Spot \cup {Nowhere}] /\ region[z] \in Region /\ up[z] \in Seq(Word)
  BY DEF Typed
<1>1. CASE Joined(z)
  <2>1. Handled(z) \in [Zone -> Seq(Letter)] /\ m.who \in Player
    BY <1>1, HandledType, LetterOut DEF Joined, Serves
  <2>2. PICK x \in Spot : /\ ents' = Put(z, m.who, x) /\ pos' = [pos EXCEPT ![m.who] = x]
                          /\ up' = [up EXCEPT ![z] = @ \o Statuses(ents'[z])]
    BY <1>1 DEF Joined
  <2>3. ents' \in [Zone -> [Player -> Spot \cup {Nowhere}]]
    BY <2>1, <2>2, PutType
  <2>4. Statuses(ents'[z]) \in Seq(Telling)
    <3>1. ents'[z] \in [Player -> Spot \cup {Nowhere}]
      BY <2>3
    <3>2. Player \in SUBSET Player
      OBVIOUS
    <3> QED
      BY ONLY <3>1, <3>2, StatusesFacts
  <2>5. Statuses(ents'[z]) \in Seq(Word)
    BY <2>4 DEF Word, Telling
  <2>6. up[z] \o Statuses(ents'[z]) \in Seq(Word)
    BY <1>0, <2>5
  <2>7. up' \in [Zone -> Seq(Word)]
    BY <2>2, <2>6 DEF Typed
  <2> QED
    BY <1>1, <2>1, <2>2, <2>3, <2>7 DEF Joined, Typed
<1>2. CASE Left(z)
  <2>1. Handled(z) \in [Zone -> Seq(Letter)] /\ m.who \in Player
    BY <1>2, HandledType, LetterOut DEF Left, Serves
  <2>2. ents' \in [Zone -> [Player -> Spot \cup {Nowhere}]]
    BY <1>2, <2>1, PutType DEF Left, Gone
  <2> QED
    BY <1>2, <2>1, <2>2 DEF Left, Typed
<1>3. CASE Moved(z)
  <2> DEFINE x == Clamped(ents[z][m.who] + m.dx)
  <2>1. Handled(z) \in [Zone -> Seq(Letter)] /\ m.who \in Player /\ m.dx \in Step
    BY <1>3, HandledType, LetterOut DEF Moved, Serves
  <2>2. CASE m.who \notin Present(z) /\ UNCHANGED <<ents, doing, pos>>
    BY <1>3, <2>1, <2>2 DEF Moved, Typed
  <2>3. CASE m.who \in Present(z)
    <3>1. ents[z][m.who] \in Int
      BY <1>0, <2>1, <2>3, SpotFacts DEF Present
    <3>2. x \in Spot
      BY <2>1, <3>1, SpotFacts, HandoffAssumption
    <3> HIDE DEF x
    <3>3. /\ ents' = Put(z, m.who, x) /\ pos' = [pos EXCEPT ![m.who] = x]
          /\ doing' = [doing EXCEPT ![z] = [stage |-> "step", who |-> m.who, x |-> x]]
      BY <1>3, <2>3 DEF Moved, x
    <3>4. ents' \in [Zone -> [Player -> Spot \cup {Nowhere}]]
      BY <2>1, <3>2, <3>3, PutType
    <3>5. [stage |-> "step", who |-> m.who, x |-> x] \in Pace
      BY <2>1, <3>2 DEF Pace
    <3>6. doing' \in [Zone -> {Resting} \cup Pace]
      BY <3>3, <3>5 DEF Typed
    <3>7. pos' \in [Player -> Spot \cup {Nowhere}]
      BY <2>1, <3>2, <3>3 DEF Typed
    <3> QED
      BY <1>3, <2>1, <3>4, <3>6, <3>7 DEF Moved, Typed
  <2> QED
    BY <1>3, <2>2, <2>3 DEF Moved
<1>4. CASE Spawned(z)
  <2>1. Handled(z) \in [Zone -> Seq(Letter)] /\ m.who \in Player /\ Clamped(m.x) \in Spot
    BY <1>4, HandledType, LetterOut, SpotFacts DEF Spawned, Serves
  <2>2. ents' \in [Zone -> [Player -> Spot \cup {Nowhere}]]
    BY <1>4, <2>1, PutType DEF Spawned
  <2>3. up' \in [Zone -> Seq(Word)]
    BY <1>4, <2>1, SayType, WordIn DEF Spawned
  <2> QED
    BY <1>4, <2>1, <2>2, <2>3 DEF Spawned, Typed
<1>5. CASE Resized(z)
  <2>1. Handled(z) \in [Zone -> Seq(Letter)] /\ m.region \in Region
    BY <1>5, HandledType, LetterOut DEF Resized, Serves
  <2> QED
    BY <1>5, <2>1 DEF Resized, Typed
<1>6. CASE Exited(z)
  BY <1>6, EndsType DEF Exited, Typed
<1>7. CASE Stepped(z)
  <2>1. doing[z] \in Pace /\ doing[z].who \in Player /\ doing[z].x \in Spot /\ doing[z] # Resting
    BY <1>7, PaceFacts DEF Stepped, Typed
  <2>2. ents[z][doing[z].who] \in Spot
    BY <1>0, <2>1 DEF Abreast
  <2>3. doing' \in [Zone -> {Resting} \cup Pace]
    BY <1>7 DEF Stepped, Typed
  <2>4. \/ up' = Say(z, Status(doing[z].who, ents[z][doing[z].who])) /\ UNCHANGED ents
        \/ up' = Say(z, Migrate(doing[z].who, doing[z].x)) /\ ents' = Put(z, doing[z].who, Nowhere)
    BY <1>7 DEF Stepped, Gone
  <2>5. up' \in [Zone -> Seq(Word)] /\ ents' \in [Zone -> [Player -> Spot \cup {Nowhere}]]
    <3>1. ents \in [Zone -> [Player -> Spot \cup {Nowhere}]]
      BY DEF Typed
    <3> DEFINE w == Status(doing[z].who, ents[z][doing[z].who])
               v == Migrate(doing[z].who, doing[z].x)
    <3>2. w \in Word /\ v \in Word
      BY <2>1, <2>2, WordIn
    <3>3. Put(z, doing[z].who, Nowhere) \in [Zone -> [Player -> Spot \cup {Nowhere}]]
      BY <2>1, PutType
    <3>4. \/ up' = Say(z, w) /\ UNCHANGED ents
          \/ up' = Say(z, v) /\ ents' = Put(z, doing[z].who, Nowhere)
      BY <2>4
    <3> HIDE DEF w, v
    <3>5. Say(z, w) \in [Zone -> Seq(Word)] /\ Say(z, v) \in [Zone -> Seq(Word)]
      BY <3>2, SayType
    <3> QED
      BY <3>1, <3>3, <3>4, <3>5
  <2> QED
    BY <1>7, <2>3, <2>5 DEF Stepped, Typed
<1>8. CASE Woke(z)
  <2>1. [stage |-> "awake", area |-> region[z]] \in Waking
    BY <1>0 DEF Waking
  <2> QED
    BY <1>8, <2>1 DEF Woke, Typed
<1>9. CASE Ticked(z)
  <2>1. PICK died \in SUBSET Present(z), es \in [Player -> Spot \cup {Nowhere}],
             ss \in Seq(Telling) : Tick(z, died, es, ss)
    BY <1>9, TickedFacts
  <2>2. pos' \in [Player -> Spot \cup {Nowhere}] /\ undone' \subseteq Player
    BY <2>1 DEF Tick, Typed, Present
  <2>3. [stage |-> "flush", packets |-> ss] \in Talking
    BY DEF Talking
  <2>4. tick' \in [Zone -> {Resting} \cup Waking \cup Talking]
    BY <2>1, <2>3 DEF Tick, Typed
  <2>5. ents' \in [Zone -> [Player -> Spot \cup {Nowhere}]]
    BY <2>1 DEF Tick, Typed
  <2>6. UNCHANGED <<gateway, sessions, hand, scaler, children, alive, region, doing, down, up>>
    BY <1>9 DEF Ticked
  <2> QED
    BY <2>2, <2>4, <2>5, <2>6 DEF Typed
<1>10. CASE Flushed(z)
  <2>1. tick[z].packets \in Seq(Telling)
    BY <1>10, LoopFacts DEF Flushed, Typed
  <2>2. tick[z].packets \in Seq(Word)
    BY <2>1 DEF Telling, Word
  <2>3. up[z] \o tick[z].packets \in Seq(Word)
    BY <1>0, <2>2
  <2>4. up' \in [Zone -> Seq(Word)] /\ tick' \in [Zone -> {Resting} \cup Waking \cup Talking]
    BY <1>10, <2>3 DEF Flushed, Typed
  <2> QED
    BY <1>10, <2>4 DEF Flushed, Typed
<1> QED
  BY <1>1, <1>2, <1>3, <1>4, <1>5, <1>6, <1>7, <1>8, <1>9, <1>10 DEF Process, Handler, Loop

LEMMA ListenerTyped ==
  ASSUME Typed, NEW z \in Zone, Listener(z)
  PROVE  Typed'
<1> DEFINE m == Head(up[z])
<1> USE DEF gateway, processes, bounds, sessions
<1>1. CASE Report(z)
  <2>1. Heard(z) \in [Zone -> Seq(Word)] /\ m.who \in Player /\ m.x \in Spot
    BY <1>1, HeardType, WordOut DEF Report, Hears
  <2> QED
    BY <1>1, <2>1 DEF Report, Typed
<1>2. CASE Lookup(z)
  <2>1. Heard(z) \in [Zone -> Seq(Word)] /\ m.who \in Player /\ m.x \in Spot
    BY <1>2, HeardType, WordOut DEF Lookup, Hears
  <2>2. ASSUME NEW t \in DOMAIN zones
        PROVE  [stage |-> "send", who |-> m.who, x |-> m.x, to |-> t] \in Handing
    BY <2>1 DEF Typed, Handing
  <2>3. \/ UNCHANGED hand
        \/ \E t \in DOMAIN zones :
             hand' = [hand EXCEPT ![z] = [stage |-> "send", who |-> m.who, x |-> m.x, to |-> t]]
    BY <1>2 DEF Lookup
  <2>4. hand' \in [Zone -> {Free} \cup Handing]
    BY <2>2, <2>3 DEF Typed
  <2> QED
    BY <1>2, <2>1, <2>4 DEF Lookup, Typed
<1>3. CASE hand[z].stage # "free" /\ (Send(z) \/ Note(z) \/ Follow(z))
  <2>1. hand[z] \in Handing
    BY <1>3, HandingFacts DEF Typed
  <2>2. hand[z].who \in Player /\ hand[z].x \in Spot /\ hand[z].to \in Zone
    BY <2>1 DEF Handing
  <2>3. CASE Send(z)
    <3>1. hand' \in [Zone -> {Free} \cup Handing]
      <4>1. [hand[z] EXCEPT !.stage = "note"] \in Handing
        BY <2>1 DEF Handing
      <4>2. \/ hand' = [hand EXCEPT ![z].stage = "note"]
            \/ hand' = [hand EXCEPT ![z] = Free]
        BY <2>3 DEF Send
      <4>3. hand \in [Zone -> {Free} \cup Handing]
        BY DEF Typed
      <4> QED
        BY ONLY <4>1, <4>2, <4>3, z \in Zone
    <3>2. down' \in [Zone -> Seq(Letter)]
      <4>1. Spawn(hand[z].who, hand[z].x) \in Letter
        BY <2>2, LetterIn, SpotFacts
      <4>2. [down EXCEPT ![hand[z].to] = Append(@, Spawn(hand[z].who, hand[z].x))]
              \in [Zone -> Seq(Letter)]
        BY <2>2, <4>1, PostType
      <4>3. \/ UNCHANGED down
            \/ down' = [down EXCEPT ![hand[z].to] = Append(@, Spawn(hand[z].who, hand[z].x))]
        BY <2>3 DEF Send
      <4>4. down \in [Zone -> Seq(Letter)]
        BY DEF Typed
      <4> QED
        BY <4>2, <4>3, <4>4
    <3> QED
      BY <2>3, <3>1, <3>2 DEF Send, Typed
  <2>4. CASE Note(z)
    <3>1. hand' \in [Zone -> {Free} \cup Handing]
      <4>1. [hand[z] EXCEPT !.stage = "follow"] \in Handing
        BY <2>1 DEF Handing
      <4> QED
        BY <2>4, <4>1 DEF Note, Typed
    <3> QED
      BY <2>2, <2>4, <3>1 DEF Note, Typed
  <2>5. CASE Follow(z)
    <3>1. clients' \in [Player -> Zone \cup {NoZone}]
      BY <2>2, <2>5 DEF Follow, Repointed, Typed
    <3> QED
      BY <2>5, <3>1 DEF Follow, Typed
  <2> QED
    BY <1>3, <2>3, <2>4, <2>5
<1> QED
  BY <1>1, <1>2, <1>3 DEF Listener, Send, Note, Follow

\* The stages of the scaler.
LEMMA StageTyped ==
  ASSUME Typed
  PROVE  /\ scaler.stage \in {"launch", "shrink", "swap", "tell", "move"} =>
              /\ scaler \in Work /\ scaler.from \in Zone /\ scaler.to \in Zone
              /\ \A e \in {"launch", "shrink", "swap", "tell", "move"} :
                   [scaler EXCEPT !.stage = e] \in Work
         /\ scaler.stage \in {"spawn", "repoint"} =>
              /\ scaler \in OneMove /\ scaler.from \in Zone /\ scaler.to \in Zone
              /\ scaler.mover.who \in Player /\ scaler.mover.x \in Int
              /\ [scaler EXCEPT !.stage = "repoint"] \in OneMove
<1>1. ASSUME scaler.stage \in {"launch", "shrink", "swap", "tell", "move"}
      PROVE  scaler \in Work
  BY <1>1, WorkFacts DEF Typed
<1>2. ASSUME scaler.stage \in {"spawn", "repoint"}
      PROVE  scaler \in OneMove
  BY <1>2, WorkFacts DEF Typed
<1>3. ASSUME scaler \in Work
      PROVE  /\ scaler.from \in Zone /\ scaler.to \in Zone
             /\ \A e \in {"launch", "shrink", "swap", "tell", "move"} :
                  [scaler EXCEPT !.stage = e] \in Work
  BY <1>3 DEF Work
<1>4. ASSUME scaler \in OneMove
      PROVE  /\ scaler.from \in Zone /\ scaler.to \in Zone
             /\ scaler.mover.who \in Player /\ scaler.mover.x \in Int
             /\ [scaler EXCEPT !.stage = "repoint"] \in OneMove
  BY <1>4 DEF OneMove, Mover
<1> QED
  BY <1>1, <1>2, <1>3, <1>4

LEMMA SnapshotTyped ==
  ASSUME Typed, NEW z, NEW x \in Nat
  PROVE  Snapshot(z, x) \subseteq Mover
BY SpotFacts, HandoffAssumption DEF Snapshot, Mover, Typed

LEMMA MergedWell ==
  ASSUME NEW r \in Region, NEW q \in Region, NonEmpty(r), NonEmpty(q), Mergeable(r, q)
  PROVE  Merged(r, q) \in Region /\ NonEmpty(Merged(r, q))
<1>1. 0 \in Int
  OBVIOUS
<1> QED
  BY <1>1, MergeExact

LEMMA ScalerTyped ==
  ASSUME Typed, Fleet, Scaler
  PROVE  Typed'
<1> USE DEF gateway, processes, bounds, sessions
<1>1. ASSUME NEW z \in Zone, NEW n \in Zone, SplitBegin(z, n)
      PROVE  Typed'
  <2>1. zones[z].x0 \in Nat
    BY <1>1 DEF SplitBegin, Typed, Region
  <2>2. Snapshot(z, zones[z].x0) \subseteq Mover
    BY <2>1, SnapshotTyped
  <2>3. scaler' \in Work
    BY <1>1, <2>2 DEF SplitBegin, Work
  <2> QED
    BY <1>1, <2>3 DEF SplitBegin, Typed
<1>2. ASSUME NEW k \in Zone, NEW d \in Zone, MergeBegin(k, d)
      PROVE  Typed'
  <2>1. Merged(zones[k], zones[d]).x0 \in Nat
    <3>1. zones[k] \in Region /\ zones[d] \in Region
      BY <1>2 DEF MergeBegin, Typed
    <3> QED
      BY <3>1 DEF Merged, Box, Lower, Region
  <2>2. Snapshot(d, Merged(zones[k], zones[d]).x0) \subseteq Mover
    BY <2>1, SnapshotTyped
  <2>3. scaler' \in Work
    BY <1>2, <2>2 DEF MergeBegin, Work
  <2> QED
    BY <1>2, <2>3 DEF MergeBegin, Typed
<1>3. CASE LaunchFails
  BY <1>3 DEF LaunchFails, Typed
<1>4. CASE Register
  <2>1. scaler.to \in Zone /\ scaler' \in Work
    BY <1>4, StageTyped DEF Register
  <2>2. HighHalf(zones[scaler.from]) \in Region
    BY <1>4, SplitHalves DEF Register, Fleet, Mapped, Geared, Typed
  <2>3. zones' \in [DOMAIN zones' -> Region] /\ DOMAIN zones' \subseteq Zone
    BY <1>4, <2>1, <2>2 DEF Register, Typed
  <2> QED
    BY <1>4, <2>1, <2>2, <2>3 DEF Register, Typed
<1>5. CASE Shrink
  <2>1. scaler.from \in Zone /\ scaler' \in Work
    BY <1>5, StageTyped DEF Shrink
  <2>2. LowHalf(zones[scaler.from]) \in Region
    BY <1>5, SplitHalves DEF Shrink, Fleet, Mapped, Geared, Typed
  <2>3. zones' \in [DOMAIN zones' -> Region] /\ DOMAIN zones' \subseteq Zone
    BY <1>5, <2>1, <2>2 DEF Shrink, Typed
  <2>4. down' \in [Zone -> Seq(Letter)]
    BY <1>5, <2>1, <2>2, LetterIn, PostType DEF Shrink
  <2> QED
    BY <1>5, <2>1, <2>3, <2>4 DEF Shrink, Typed
<1>6. CASE SplitEnd
  BY <1>6, StageTyped DEF SplitEnd, Typed
<1>7. CASE Swap
  <2>1. scaler.from \in DOMAIN zones /\ scaler.to \in DOMAIN zones /\ scaler' \in Work
    BY <1>7, StageTyped DEF Swap, Fleet, Geared
  <2>2. Merged(zones[scaler.to], zones[scaler.from]) \in Region
    BY <1>7, <2>1, MergedWell DEF Swap, Fleet, Mapped, Geared, Typed
  <2>3. zones' \in [DOMAIN zones' -> Region] /\ DOMAIN zones' \subseteq Zone
    BY <1>7, <2>1, <2>2 DEF Swap, Typed
  <2>4. order' \in Seq(Zone)
    <3>1. (CHOOSE i \in DOMAIN order : order[i] = scaler.from) \in DOMAIN order
      BY <2>1 DEF Fleet, Ordered
    <3> QED
      BY <1>7, <3>1, RemoveFacts DEF Swap, Typed
  <2> QED
    BY <1>7, <2>1, <2>3, <2>4 DEF Swap, Typed
<1>8. CASE Tell
  <2>1. scaler.to \in Zone /\ scaler.to \in DOMAIN zones /\ scaler' \in Work
    BY <1>8, StageTyped DEF Tell, Fleet, Geared
  <2>2. down' \in [Zone -> Seq(Letter)]
    BY <1>8, <2>1, LetterIn, PostType DEF Tell, Typed
  <2> QED
    BY <1>8, <2>1, <2>2 DEF Tell, Typed
<1>9. CASE Retire
  <2>1. scaler.from \in Zone
    BY <1>9, StageTyped DEF Retire
  <2>2. CASE Ends(scaler.from)
    BY <1>9, <2>1, <2>2, EndsType DEF Retire, Typed
  <2>3. CASE /\ down' = [down EXCEPT ![scaler.from] = Append(@, Shutdown)]
             /\ UNCHANGED <<alive, ents, doing, tick, up>>
    <3>1. down' \in [Zone -> Seq(Letter)]
      BY <2>1, <2>3, LetterIn, PostType
    <3> QED
      BY <1>9, <2>3, <3>1 DEF Retire, Typed
  <2> QED
    BY <1>9, <2>2, <2>3 DEF Retire
<1>10. ASSUME scaler.stage = "move", NEW m \in scaler.movers, Take(m)
       PROVE  Typed'
  <2>1. /\ scaler \in Work /\ scaler.from \in Zone /\ m.who \in Player /\ m \in Mover
        /\ scaler.op \in {"split", "merge"}
    BY <1>10, StageTyped DEF Work, Mover
  <2>2. scaler' \in OneMove
    BY <1>10, <2>1 DEF Take, Work, OneMove
  <2>3. down' \in [Zone -> Seq(Letter)]
    BY <1>10, <2>1, LetterIn, PostType DEF Take, Typed
  <2> QED
    BY <1>10, <2>2, <2>3 DEF Take, Typed
<1>11. CASE Resettle
  <2>1. /\ scaler.to \in Zone /\ scaler.mover.who \in Player /\ scaler.mover.x \in Int
        /\ scaler' \in OneMove
    BY <1>11, StageTyped DEF Resettle
  <2>2. down' \in [Zone -> Seq(Letter)]
    BY <1>11, <2>1, LetterIn, PostType DEF Resettle
  <2> QED
    BY <1>11, <2>1, <2>2 DEF Resettle, Typed
<1>12. CASE Repoint
  <2>1. scaler \in OneMove /\ scaler.to \in Zone /\ scaler.mover.who \in Player
    BY <1>12, StageTyped DEF Repoint
  <2>2. scaler' \in Work
    BY <1>12, <2>1 DEF Repoint, Work, OneMove
  <2>3. clients' \in [Player -> Zone \cup {NoZone}]
    BY <1>12, <2>1 DEF Repoint, Repointed, Typed
  <2> QED
    BY <1>12, <2>2, <2>3 DEF Repoint, Typed
<1> QED
  BY <1>1, <1>2, <1>3, <1>4, <1>5, <1>6, <1>7, <1>8, <1>9, <1>10, <1>11, <1>12 DEF Scaler

LEMMA NextTyped ==
  ASSUME Typed, Fleet, Abreast, [Next]_vars
  PROVE  Typed'
<1>1. CASE Next
  BY <1>1, SessionTyped, ProcessTyped, ListenerTyped, ScalerTyped DEF Next
<1>2. CASE UNCHANGED vars
  BY <1>2 DEF vars, gateway, sessions, processes, bounds, Typed
<1> QED
  BY <1>1, <1>2

----------------------------------------------------------------------------
\* The mail of the zones, as the fleet sees it.

LEMMA PostMail ==
  ASSUME Typed, NEW z \in Zone, NEW m \in Letter,
         down' = [down EXCEPT ![z] = Append(@, m)]
  PROVE  /\ \A y \in Zone : \A i \in DOMAIN down'[y] :
              \/ \E j \in DOMAIN down[y] : down'[y][i] = down[y][j]
              \/ y = z /\ down'[y][i] = m
         /\ \A y \in Zone \ {z} : down'[y] = down[y]
         /\ down'[z] = Append(down[z], m)
<1>1. /\ down'[z] = Append(down[z], m) /\ down[z] \in Seq(Letter)
      /\ \A y \in Zone \ {z} : down'[y] = down[y]
  BY DEF Typed
<1>2. \A i \in DOMAIN down'[z] :
        down'[z][i] = m \/ \E j \in DOMAIN down[z] : down'[z][i] = down[z][j]
  BY <1>1, AppendFacts
<1> QED
  BY <1>1, <1>2

LEMMA HandledMail ==
  ASSUME Typed, NEW z \in Zone, down[z] # <<>>, down' = Handled(z)
  PROVE  /\ \A y \in Zone : \A i \in DOMAIN down'[y] :
              \E j \in DOMAIN down[y] : down'[y][i] = down[y][j]
         /\ \A y \in Zone \ {z} : down'[y] = down[y]
         /\ down'[z] = Tail(down[z])
         /\ \E j \in DOMAIN down[z] : Head(down[z]) = down[z][j]
<1>1. /\ down'[z] = Tail(down[z]) /\ down[z] \in Seq(Letter)
      /\ \A y \in Zone \ {z} : down'[y] = down[y]
  BY DEF Typed, Handled
<1>2. \A i \in DOMAIN down'[z] : \E j \in DOMAIN down[z] : down'[z][i] = down[z][j]
  BY <1>1, TailFacts
<1>3. \E j \in DOMAIN down[z] : Head(down[z]) = down[z][j]
  BY <1>1, TailFacts
<1>4. ASSUME NEW y \in Zone, NEW i \in DOMAIN down'[y]
      PROVE  \E j \in DOMAIN down[y] : down'[y][i] = down[y][j]
  <2>1. CASE y = z
    BY <2>1, <1>2
  <2>2. CASE y # z
    <3>1. down'[y] = down[y]
      BY <2>2, <1>1
    <3> QED
      BY ONLY <3>1, <1>4
  <2> QED
    BY <2>1, <2>2
<1> QED
  BY ONLY <1>1, <1>3, <1>4

LEMMA PledgedAppend ==
  ASSUME NEW q \in Seq(Letter), NEW m \in Letter, NEW r, NEW v
  PROVE  /\ m.kind # "set_region" /\ Pledged(q, r, v) => Pledged(Append(q, m), r, v)
         /\ m.kind = "set_region" => Pledged(Append(q, m), r, m.region)
<1>1. ASSUME m.kind # "set_region", Pledged(q, r, v)
      PROVE  Pledged(Append(q, m), r, v)
  BY <1>1, AppendFacts DEF Pledged
<1>2. ASSUME m.kind = "set_region"
      PROVE  Pledged(Append(q, m), r, m.region)
  BY <1>2, AppendFacts DEF Pledged
<1> QED
  BY <1>1, <1>2

LEMMA PledgedTail ==
  ASSUME NEW q \in Seq(Letter), q # <<>>, NEW r, NEW v, Pledged(q, r, v)
  PROVE  /\ Head(q).kind # "set_region" => Pledged(Tail(q), r, v)
         /\ Head(q).kind = "set_region" => Pledged(Tail(q), Head(q).region, v)
<1> DEFINE t == Tail(q)
<1>1. /\ Head(q) = q[1] /\ 1 \in DOMAIN q
      /\ \A i \in DOMAIN t : i \in Nat \ {0} /\ i + 1 \in DOMAIN q /\ t[i] = q[i + 1]
      /\ \A i \in DOMAIN q : i \in Nat \ {0} /\ (i # 1 => i - 1 \in DOMAIN t /\ t[i - 1] = q[i])
  BY TailFacts
<1> HIDE DEF t
<1>2. ASSUME NEW i \in DOMAIN t, t[i].kind = "set_region",
             \A j \in DOMAIN t : t[j].kind = "set_region" => j <= i
      PROVE  t[i].region = v
  <2>1. ASSUME NEW j \in DOMAIN q, q[j].kind = "set_region"
        PROVE  j <= i + 1
    <3>1. CASE j = 1
      BY <3>1, <1>1
    <3>2. CASE j # 1
      <4>1. j \in Nat /\ j - 1 \in DOMAIN t /\ t[j - 1].kind = "set_region"
        BY <2>1, <3>2, <1>1
      <4>2. j - 1 <= i /\ i \in Nat
        BY <4>1, <1>2, <1>1
      <4> QED
        BY <4>1, <4>2
    <3> QED
      BY <3>1, <3>2
  <2> QED
    BY <1>1, <1>2, <2>1 DEF Pledged
<1>3. ASSUME \A i \in DOMAIN t : t[i].kind # "set_region"
      PROVE  /\ Head(q).kind # "set_region" => r = v
             /\ Head(q).kind = "set_region" => Head(q).region = v
  <2>1. \A i \in DOMAIN q : i # 1 => q[i].kind # "set_region"
    BY <1>1, <1>3
  <2>2. CASE q[1].kind # "set_region"
    <3>1. \A i \in DOMAIN q : q[i].kind # "set_region"
      BY <2>1, <2>2
    <3> QED
      BY <1>1, <2>2, <3>1 DEF Pledged
  <2>3. CASE q[1].kind = "set_region"
    <3>1. \A j \in DOMAIN q : q[j].kind = "set_region" => j <= 1
      BY <1>1, <2>1
    <3> QED
      BY <1>1, <2>3, <3>1 DEF Pledged
  <2> QED
    BY <1>1, <2>2, <2>3
<1> QED
  BY <1>2, <1>3 DEF Pledged, t

\* The region that was promised is the one Promised finds.
LEMMA PledgeIsPromise ==
  ASSUME NEW q \in Seq(Letter), NEW r, NEW v, Pledged(q, r, v)
  PROVE  (LET rs == {i \in DOMAIN q : q[i].kind = "set_region"} IN
          IF rs = {} THEN r ELSE q[CHOOSE i \in rs : \A j \in rs : j <= i].region) = v
<1> DEFINE rs == {i \in DOMAIN q : q[i].kind = "set_region"}
           k == CHOOSE i \in rs : \A j \in rs : j <= i
<1>1. CASE rs = {}
  BY <1>1 DEF Pledged
<1>2. CASE rs # {}
  <2>1. DOMAIN q = 1 .. Len(q) /\ Len(q) \in Nat
    OBVIOUS
  <2>2. rs \in SUBSET (1 .. Len(q))
    BY <2>1
  <2> HIDE DEF rs
  <2>3. \E i \in rs : \A j \in rs : j <= i
    BY <1>2, <2>1, <2>2, Greatest
  <2>4. k \in rs /\ \A j \in rs : j <= k
    BY <2>3
  <2> HIDE DEF k
  <2>5. q[k].region = v
    BY <2>4 DEF Pledged, rs
  <2> QED
    BY <1>2, <2>5 DEF k, rs
<1> QED
  BY <1>1, <1>2

----------------------------------------------------------------------------
\* The fleet is kept by every step.

LEMMA InitFleet == Init => Fleet /\ Agreed
<1> SUFFICES ASSUME Init PROVE Fleet /\ Agreed
  OBVIOUS
<1> USE HandoffAssumption DEF Init
<1>1. Mapped
  BY DEF Mapped
<1>2. Ordered
  <2> DEFINE n == Len(StartOrder)
  <2>1. n \in Nat /\ DOMAIN StartOrder = 1 .. n /\ StartOrder \in [1 .. n -> DOMAIN Start]
    BY DEF Seqs!ToSet
  <2>2. \A z \in DOMAIN Start : \E i \in DOMAIN StartOrder : StartOrder[i] = z
    BY DEF Seqs!ToSet
  <2>3. \A i, j \in DOMAIN StartOrder : StartOrder[i] = StartOrder[j] => i = j
    <3>1. StartOrder \in Surjection(1 .. n, DOMAIN Start)
      BY <2>1, <2>2 DEF Surjection
    <3>2. IsFiniteSet(1 .. n) /\ Cardinality(1 .. n) = n
      BY ONLY <2>1, UpTo
    <3>3. StartOrder \in Injection(1 .. n, DOMAIN Start)
      BY <3>1, <3>2, FS_SurjSameCardinalityImpliesInj
    <3> QED
      BY <3>3 DEF Injection, IsInjective
  <2> QED
    BY <2>1, <2>2, <2>3 DEF Ordered
<1>3. Silent
  <2>1. \A z \in alive : Launched(z)
    BY DEF Launched
  <2>2. \A z \in Zone : down[z] = <<>> /\ \A p \in Player : ents[z][p] = Nowhere
    OBVIOUS
  <2> QED
    BY <2>1, <2>2 DEF Silent
<1>4. FitMail
  BY DEF FitMail
<1>5. Geared
  BY DEF Geared, Resting
<1>6. Agreed
  BY DEF Agreed, Pledged
<1> QED
  BY <1>1, <1>2, <1>3, <1>4, <1>5, <1>6 DEF Fleet

\* What a step does to the mail of z that has no bearing on the fleet.
Mute(z) ==
  \/ down'[z] = down[z]
  \/ /\ z \in alive /\ down[z] # <<>> /\ Head(down[z]).kind # "set_region"
     /\ down'[z] = Tail(down[z])
  \/ /\ z \in alive
     /\ \E m \in Letter : /\ m.kind \notin {"set_region", "shutdown"}
                          /\ down'[z] = Append(down[z], m)

LEMMA MuteFit ==
  ASSUME Typed, NEW z \in Zone, Mute(z), NEW i \in DOMAIN down'[z]
  PROVE  \/ \E j \in DOMAIN down[z] : down'[z][i] = down[z][j]
         \/ down'[z][i].kind \notin {"set_region", "shutdown"}
<1>0. down[z] \in Seq(Letter)
  BY DEF Typed
<1>1. CASE down'[z] = down[z]
  BY <1>1
<1>2. CASE down[z] # <<>> /\ down'[z] = Tail(down[z])
  BY <1>0, <1>2, TailFacts
<1>3. ASSUME NEW m \in Letter, m.kind \notin {"set_region", "shutdown"},
             down'[z] = Append(down[z], m)
      PROVE  \/ \E j \in DOMAIN down[z] : down'[z][i] = down[z][j]
             \/ down'[z][i].kind \notin {"set_region", "shutdown"}
  BY <1>0, <1>3, AppendFacts
<1> QED
  BY <1>1, <1>2, <1>3 DEF Mute

LEMMA MutePledge ==
  ASSUME Typed, NEW z \in Zone, Mute(z), NEW r, NEW v, Pledged(down[z], r, v)
  PROVE  Pledged(down'[z], r, v)
<1>0. down[z] \in Seq(Letter)
  BY DEF Typed
<1>1. CASE down'[z] = down[z]
  BY <1>1
<1>2. CASE down[z] # <<>> /\ Head(down[z]).kind # "set_region" /\ down'[z] = Tail(down[z])
  BY <1>0, <1>2, PledgedTail
<1>3. ASSUME NEW m \in Letter, m.kind \notin {"set_region", "shutdown"},
             down'[z] = Append(down[z], m)
      PROVE  Pledged(down'[z], r, v)
  BY <1>0, <1>3, PledgedAppend
<1> QED
  BY <1>1, <1>2, <1>3 DEF Mute

\* Most steps change neither the map nor a zone's region.
LEMMA FleetKept ==
  ASSUME Typed, Fleet, Agreed,
         UNCHANGED <<zones, order, alive, region, children>>,
         \A z \in Zone : Mute(z),
         \A z \in Zone \ alive : \A p \in Player : ents'[z][p] = ents[z][p],
         Geared', \A z \in Zone : Emptying(z)' => Emptying(z),
         scaler' = scaler \/ scaler.stage # "tell"
  PROVE  Fleet' /\ Agreed'
<1>1. Mapped'
  BY DEF Fleet, Mapped
<1>2. Ordered'
  BY DEF Fleet, Ordered
<1>3. Silent'
  <2>1. \A z \in Zone \ alive : down'[z] = down[z]
    BY DEF Mute
  <2>2. \A z \in alive : Launched(z)'
    BY DEF Fleet, Silent, Launched
  <2> QED
    BY <2>1, <2>2 DEF Fleet, Silent
<1>4. FitMail'
  <2> SUFFICES ASSUME NEW z \in Zone, NEW i \in DOMAIN down'[z]
               PROVE  Fit(z, down[z][i])'
    BY DEF FitMail
  <2>1. Mute(z)
    OBVIOUS
  <2>2. CASE \E j \in DOMAIN down[z] : down'[z][i] = down[z][j]
    <3>1. Fit(z, down'[z][i])
      BY <2>2 DEF Fleet, FitMail
    <3> QED
      BY <3>1 DEF Fit
  <2>3. CASE down'[z][i].kind \notin {"set_region", "shutdown"}
    BY <2>3 DEF Fit
  <2> QED
    BY <2>1, <2>2, <2>3, MuteFit
<1>5. Agreed'
  <2> SUFFICES ASSUME NEW z \in DOMAIN zones, ~(scaler'.stage = "tell" /\ scaler'.to = z)
               PROVE  Pledged(down'[z], region'[z], zones'[z])
    BY DEF Agreed
  <2>1. z \in Zone /\ Mute(z)
    BY DEF Typed
  <2>2. Pledged(down[z], region[z], zones[z])
    BY DEF Agreed
  <2>3. Pledged(down'[z], region[z], zones[z])
    BY <2>1, <2>2, MutePledge
  <2> QED
    BY <2>3
<1> QED
  BY <1>1, <1>2, <1>3, <1>4, <1>5 DEF Fleet

\* Nothing but the mail of z, and a letter of no bearing on the fleet.
LEMMA PostIsMute ==
  ASSUME Typed, NEW z \in alive, NEW m \in Letter, m.kind \notin {"set_region", "shutdown"},
         down' = [down EXCEPT ![z] = Append(@, m)]
  PROVE  \A y \in Zone : Mute(y)
<1>1. z \in Zone
  BY DEF Typed
<1>2. /\ down'[z] = Append(down[z], m)
      /\ \A y \in Zone \ {z} : down'[y] = down[y]
  BY <1>1, PostMail
<1> QED
  BY <1>2 DEF Mute

LEMMA HandledIsMute ==
  ASSUME Typed, NEW z \in Zone, NEW k, Serves(z, k), k # "set_region", down' = Handled(z)
  PROVE  \A y \in Zone : Mute(y)
<1>1. /\ down'[z] = Tail(down[z])
      /\ \A y \in Zone \ {z} : down'[y] = down[y]
  BY HandledMail DEF Serves
<1> QED
  BY <1>1 DEF Mute, Serves

\* The scaler does not step at all.
LEMMA FleetAtRest ==
  ASSUME Typed, Fleet, Agreed,
         UNCHANGED <<zones, order, alive, region, children, scaler>>,
         \A z \in Zone : Mute(z),
         \A z \in Zone \ alive : \A p \in Player : ents'[z][p] = ents[z][p]
  PROVE  Fleet' /\ Agreed'
<1>1. Geared'
  BY DEF Fleet, Geared, Launched
<1>2. \A z \in Zone : Emptying(z)' => Emptying(z)
  BY DEF Emptying
<1> QED
  BY <1>1, <1>2, FleetKept

LEMMA StillMute == UNCHANGED down => \A z \in Zone : Mute(z)
BY DEF Mute

LEMMA SessionMute ==
  ASSUME Typed, Fleet, NEW s \in Socket, Session(s)
  PROVE  \A y \in Zone : Mute(y)
<1> USE DEF gateway, processes, bounds, sessions
<1>0. Owner[s] \in Player /\ \A z \in DOMAIN zones : z \in alive
  BY HandoffAssumption DEF Fleet, Mapped
<1>1. CASE UNCHANGED down
  BY <1>1, StillMute
<1>2. ASSUME NEW z \in DOMAIN zones, NEW m \in Letter, m.kind \notin {"set_region", "shutdown"},
             down' = [down EXCEPT ![z] = Append(@, m)]
      PROVE  \A y \in Zone : Mute(y)
  BY <1>0, <1>2, PostIsMute
<1>3. CASE Appear(s)
  <2>1. Join(Owner[s]) \in Letter /\ Join(Owner[s]).kind = "player_join"
    BY <1>0, LetterIn DEF Join
  <2>2. Spawn(Owner[s], last[s]) \in Letter /\ Spawn(Owner[s], last[s]).kind = "spawn_entity"
    <3>1. last[s] \in Int
      BY <1>3, SpotFacts DEF Appear, Typed
    <3> QED
      BY <3>1, <1>0, LetterIn DEF Spawn
  <2>3. CASE at[s] \in DOMAIN zones /\ down' = [down EXCEPT ![at[s]] = Append(@, Join(Owner[s]))]
    BY <2>3, <2>1, <1>2
  <2>4. CASE at[s] \in DOMAIN zones
             /\ down' = [down EXCEPT ![at[s]] = Append(@, Spawn(Owner[s], last[s]))]
    BY <2>4, <2>2, <1>2
  <2> QED
    BY <1>3, <1>1, <2>3, <2>4 DEF Appear
<1>4. CASE TellLeave(s)
  <2>1. Leave(Owner[s]) \in Letter /\ Leave(Owner[s]).kind = "player_leave"
    BY <1>0, LetterIn DEF Leave
  <2> QED
    BY <1>4, <1>1, <1>2, <2>1 DEF TellLeave
<1>5. ASSUME NEW dx \in Step, Frame(s, dx)
      PROVE  \A y \in Zone : Mute(y)
  <2>1. Move(Owner[s], dx) \in Letter /\ Move(Owner[s], dx).kind = "move"
    BY <1>0, LetterIn DEF Move
  <2> QED
    BY <1>5, <2>1, <1>2 DEF Frame
<1>6. \/ UNCHANGED down \/ Appear(s) \/ TellLeave(s) \/ \E dx \in Step : Frame(s, dx)
  BY DEF Session, Authenticate, Admit, Enter, Close, Forget, Save
<1> QED
  BY <1>1, <1>3, <1>4, <1>5, <1>6

LEMMA SessionFleet ==
  ASSUME Typed, Fleet, Agreed, NEW s \in Socket, Session(s)
  PROVE  Fleet' /\ Agreed'
<1>1. UNCHANGED <<zones, order, alive, region, children, scaler, ents>>
  BY DEF Session, Authenticate, Admit, Enter, Appear, Close, Forget, Save, TellLeave, Frame,
         gateway, processes, bounds, sessions
<1> QED
  BY <1>1, SessionMute, FleetAtRest

LEMMA ListenerMute ==
  ASSUME Typed, Fleet, NEW z \in Zone, Listener(z)
  PROVE  \A y \in Zone : Mute(y)
<1> USE DEF gateway, processes, bounds, sessions
<1>1. CASE UNCHANGED down
  BY <1>1, StillMute
<1>2. CASE Send(z) /\ ~UNCHANGED down
  <2>1. /\ hand[z].to \in DOMAIN zones
        /\ down' = [down EXCEPT ![hand[z].to] = Append(@, Spawn(hand[z].who, hand[z].x))]
    BY <1>2 DEF Send
  <2>2. hand[z] \in Handing
    BY <1>2, HandingFacts DEF Send, Typed
  <2>3. /\ Spawn(hand[z].who, hand[z].x) \in Letter
        /\ Spawn(hand[z].who, hand[z].x).kind = "spawn_entity"
    BY <2>2, LetterIn, SpotFacts DEF Handing, Spawn
  <2>4. hand[z].to \in alive
    BY <2>1 DEF Fleet, Mapped
  <2> QED
    BY <2>1, <2>3, <2>4, PostIsMute
<1> QED
  BY <1>1, <1>2 DEF Listener, Report, Lookup, Note, Follow

LEMMA ListenerFleet ==
  ASSUME Typed, Fleet, Agreed, NEW z \in Zone, Listener(z)
  PROVE  Fleet' /\ Agreed'
<1>1. UNCHANGED <<zones, order, alive, region, children, scaler, ents>>
  BY DEF Listener, Report, Lookup, Send, Note, Follow, gateway, processes, bounds, sessions
<1> QED
  BY <1>1, ListenerMute, FleetAtRest

\* A process that ends, when nothing needs it any more.
LEMMA EndsFleet ==
  ASSUME Typed, Fleet, Agreed, NEW z \in Zone \ DOMAIN zones, Ends(z),
         UNCHANGED <<zones, order, region>>,
         z \notin children', children' \subseteq children,
         \/ UNCHANGED scaler /\ ~Emptying(z)
         \/ scaler' = Resting /\ scaler.stage = "move"
  PROVE  Fleet' /\ Agreed'
<1>1. /\ alive' = alive \ {z} /\ down'[z] = <<>>
      /\ \A p \in Player : ents'[z][p] = Nowhere
      /\ \A y \in Zone \ {z} : down'[y] = down[y] /\ ents'[y] = ents[y]
  BY DEF Ends, Typed
<1>2. Mapped'
  BY <1>1 DEF Fleet, Mapped
<1>3. Ordered'
  BY DEF Fleet, Ordered
<1>4. Silent'
  <2>1. \A y \in alive' : Launched(y)'
    BY <1>1 DEF Fleet, Silent, Launched
  <2>2. \A y \in Zone \ alive' : down'[y] = <<>> /\ \A p \in Player : ents'[y][p] = Nowhere
    BY <1>1 DEF Fleet, Silent
  <2>3. children' \subseteq alive'
    BY <1>1 DEF Fleet, Silent
  <2> QED
    BY <2>1, <2>2, <2>3 DEF Silent
<1>5. \A y \in Zone : Emptying(y)' => Emptying(y)
  BY DEF Emptying, Resting
<1>6. FitMail'
  <2> SUFFICES ASSUME NEW y \in Zone, NEW i \in DOMAIN down'[y]
               PROVE  Fit(y, down[y][i])'
    BY DEF FitMail
  <2>1. y # z
    BY <1>1
  <2>2. down'[y] = down[y] /\ Fit(y, down[y][i])
    BY <2>1, <1>1 DEF Fleet, FitMail
  <2> QED
    BY <2>2, <1>5 DEF Fit
<1>7. Geared'
  <2>1. CASE UNCHANGED scaler /\ ~Emptying(z)
    BY <2>1, <1>1 DEF Fleet, Geared, Launched, Emptying
  <2>2. CASE scaler' = Resting
    BY <2>2 DEF Geared, Resting
  <2> QED
    BY <2>1, <2>2
<1>8. Agreed'
  BY <1>1 DEF Agreed, Typed, Resting
<1> QED
  BY <1>2, <1>3, <1>4, <1>6, <1>7, <1>8 DEF Fleet

LEMMA ResizedFleet ==
  ASSUME Typed, Fleet, Agreed, NEW z \in Zone, Resized(z)
  PROVE  Fleet' /\ Agreed'
<1> DEFINE m == Head(down[z])
<1> USE DEF gateway, processes, bounds, sessions
<1>1. /\ m \in Letter /\ m.kind = "set_region" /\ z \in alive /\ down[z] # <<>>
      /\ down' = Handled(z) /\ region' = [region EXCEPT ![z] = m.region]
      /\ UNCHANGED <<zones, order, alive, children, scaler, ents>>
  BY HandledType DEF Resized, Serves
<1>2. /\ \A y \in Zone : \A i \in DOMAIN down'[y] :
           \E j \in DOMAIN down[y] : down'[y][i] = down[y][j]
      /\ \A y \in Zone \ {z} : down'[y] = down[y]
      /\ down'[z] = Tail(down[z])
      /\ \E j \in DOMAIN down[z] : m = down[z][j]
  BY <1>1, HandledMail
<1>3. m.region \in Region /\ NonEmpty(m.region)
  <2>1. Fit(z, m)
    BY <1>2 DEF Fleet, FitMail
  <2> QED
    BY <2>1, <1>1, LetterOut DEF Fit
<1> HIDE DEF m
<1>4. /\ region'[z] = m.region /\ \A y \in Zone \ {z} : region'[y] = region[y]
      /\ \A y \in Zone : Launched(y)' <=> Launched(y)
  <2>1. region'[z] = m.region /\ \A y \in Zone \ {z} : region'[y] = region[y]
    BY <1>1 DEF Typed
  <2>2. Launched(z)
    BY <1>1 DEF Fleet, Silent
  <2> QED
    BY <2>1, <2>2, <1>3 DEF Launched
<1>5. Mapped' /\ Ordered'
  BY <1>1 DEF Fleet, Mapped, Ordered
<1>6. Silent'
  <2>1. \A y \in alive : Launched(y)'
    BY <1>4 DEF Fleet, Silent, Typed
  <2>2. \A y \in Zone \ alive : down'[y] = down[y]
    BY <1>1, <1>2
  <2> QED
    BY <1>1, <2>1, <2>2 DEF Fleet, Silent
<1>7. FitMail'
  <2> SUFFICES ASSUME NEW y \in Zone, NEW i \in DOMAIN down'[y]
               PROVE  Fit(y, down[y][i])'
    BY DEF FitMail
  <2>1. Fit(y, down'[y][i])
    BY <1>2 DEF Fleet, FitMail
  <2> QED
    BY <2>1, <1>1 DEF Fit, Emptying
<1>8. Geared'
  <2>1. scaler.stage = "launch" => scaler.to \in Zone
    BY StageTyped
  <2> QED
    BY <1>1, <1>4, <2>1 DEF Fleet, Geared
<1>9. Agreed'
  <2> SUFFICES ASSUME NEW y \in DOMAIN zones, ~(scaler.stage = "tell" /\ scaler.to = y)
               PROVE  Pledged(down'[y], region'[y], zones[y])
    BY <1>1 DEF Agreed
  <2>1. y \in Zone /\ Pledged(down[y], region[y], zones[y]) /\ down[y] \in Seq(Letter)
    BY DEF Agreed, Typed
  <2>2. CASE y = z
    <3>1. Pledged(Tail(down[z]), m.region, zones[z])
      BY <1>1, <2>1, <2>2, PledgedTail DEF m
    <3> QED
      BY <1>2, <1>4, <2>2, <3>1
  <2>3. CASE y # z
    BY <1>2, <1>4, <2>1, <2>3
  <2> QED
    BY <2>2, <2>3
<1> QED
  BY <1>5, <1>6, <1>7, <1>8, <1>9 DEF Fleet

LEMMA ProcessFleet ==
  ASSUME Typed, Fleet, Agreed, Abreast, NEW z \in Zone, Process(z)
  PROVE  Fleet' /\ Agreed'
<1> USE DEF gateway, processes, bounds, sessions
<1>1. CASE Joined(z) \/ Left(z) \/ Moved(z) \/ Spawned(z)
  <2>1. /\ UNCHANGED <<zones, order, alive, region, children, scaler>>
        /\ down' = Handled(z)
        /\ \E k \in {"player_join", "player_leave", "move", "spawn_entity"} : Serves(z, k)
        /\ z \in alive
    BY <1>1 DEF Joined, Left, Moved, Spawned, Serves
  <2>2. \A y \in Zone : Mute(y)
    BY <2>1, HandledIsMute
  <2>3. \A y \in Zone \ {z} : ents'[y] = ents[y]
    BY <1>1 DEF Joined, Left, Moved, Spawned, Put, Gone, Typed
  <2> QED
    BY <2>1, <2>2, <2>3, FleetAtRest
<1>2. CASE Resized(z)
  BY <1>2, ResizedFleet
<1>3. CASE Exited(z)
  <2>1. Head(down[z]).kind = "shutdown" /\ down[z] # <<>> /\ Ends(z)
        /\ UNCHANGED <<zones, order, region, children, scaler>>
    BY <1>3 DEF Exited, Serves
  <2>2. Head(down[z]) = down[z][1] /\ 1 \in DOMAIN down[z]
    BY <2>1 DEF Typed
  <2>3. z \notin DOMAIN zones /\ z \notin children /\ ~Emptying(z)
    BY <2>1, <2>2 DEF Fleet, FitMail, Fit
  <2> QED
    BY <2>1, <2>3, EndsFleet
<1>4. CASE Stepped(z) \/ Woke(z) \/ Ticked(z) \/ Flushed(z)
  <2>1. UNCHANGED <<zones, order, alive, region, children, scaler, down>>
    BY <1>4 DEF Stepped, Woke, Ticked, Flushed
  <2>2. \A y \in Zone \ {z} : ents'[y] = ents[y]
    BY <1>4 DEF Stepped, Woke, Ticked, Flushed, Put, Gone, Typed
  <2>3. z \in alive
    <3>1. CASE Stepped(z)
      <4>1. doing[z] # Resting /\ doing[z].who \in Player
        BY <3>1, PaceFacts DEF Stepped, Typed
      <4> QED
        BY <4>1 DEF Abreast, Fleet, Silent
    <3>2. CASE Ticked(z) \/ Flushed(z)
      <4>1. tick[z] # Resting
        BY <3>2, LoopFacts DEF Ticked, Flushed, Typed
      <4> QED
        BY <4>1 DEF Abreast
    <3>3. CASE Woke(z)
      BY <3>3 DEF Woke
    <3> QED
      BY <1>4, <3>1, <3>2, <3>3
  <2> QED
    BY <2>1, <2>2, <2>3, StillMute, FleetAtRest
<1> QED
  BY <1>1, <1>2, <1>3, <1>4 DEF Process, Handler, Loop

\* The new zone is registered.
LEMMA RegisterFleet ==
  ASSUME Typed, Fleet, Agreed, Register
  PROVE  Fleet' /\ Agreed'
<1> DEFINE n == scaler.to
           z == scaler.from
           give == HighHalf(zones[z])
<1> USE DEF gateway, processes, bounds, sessions
<1>1. /\ scaler.stage = "launch" /\ scaler.op = "split" /\ z \in DOMAIN zones /\ ~Launched(n)
      /\ Splittable(zones[z]) /\ Cardinality(DOMAIN zones) < MaxZones
      /\ n \in Zone /\ zones[z] \in Region /\ NonEmpty(zones[z])
  BY StageTyped DEF Register, Fleet, Geared, Typed, Mapped
<1>2. give \in Region /\ NonEmpty(give)
  BY <1>1, SplitHalves
<1>3. n \notin alive /\ n \notin DOMAIN zones /\ down[n] = <<>>
  BY <1>1 DEF Fleet, Silent, Mapped
<1>4. /\ alive' = alive \cup {n} /\ region' = [region EXCEPT ![n] = give]
      /\ zones' = [i \in DOMAIN zones \cup {n} |-> IF i = n THEN give ELSE zones[i]]
      /\ order' = Append(order, n) /\ scaler' = [scaler EXCEPT !.stage = "shrink"]
      /\ UNCHANGED <<children, ents, down>>
  BY DEF Register
<1>5. /\ scaler'.stage = "shrink" /\ scaler'.op = "split" /\ scaler'.from = z /\ scaler'.to = n
  BY <1>1, <1>4, StageTyped DEF Work
<1> HIDE DEF n, z, give
<1>6. /\ DOMAIN zones' = DOMAIN zones \cup {n} /\ zones'[n] = give
      /\ \A i \in DOMAIN zones : zones'[i] = zones[i]
  BY <1>3, <1>4
<1>7. region'[n] = give /\ \A y \in Zone \ {n} : region'[y] = region[y]
  BY <1>1, <1>4 DEF Typed
<1>8. /\ IsFiniteSet(DOMAIN zones')
      /\ Cardinality(DOMAIN zones') = Cardinality(DOMAIN zones) + 1
  BY <1>3, <1>6, FS_AddElement DEF Fleet, Mapped
<1>9. Mapped'
  <2>1. \A i \in DOMAIN zones' : i \in alive' /\ NonEmpty(zones'[i])
    BY <1>2, <1>4, <1>6 DEF Fleet, Mapped
  <2>2. DOMAIN zones' # {}
    BY <1>6
  <2> QED
    BY <1>8, <2>1, <2>2 DEF Mapped
<1>10. Ordered'
  <2>1. order \in Seq(Zone)
    BY DEF Typed
  <2>2. /\ DOMAIN order' = DOMAIN order \cup {Len(order) + 1} /\ order'[Len(order) + 1] = n
        /\ \A i \in DOMAIN order : order'[i] = order[i]
        /\ Len(order') = Len(order) + 1
    BY <1>1, <1>4, <2>1
  <2>3. \A i \in DOMAIN order : order[i] \in DOMAIN zones /\ order[i] # n
    BY <1>3 DEF Fleet, Ordered
  <2>4. \A i \in DOMAIN order' : order'[i] \in DOMAIN zones'
    BY <1>6, <2>2, <2>3
  <2>5. \A y \in DOMAIN zones' : \E i \in DOMAIN order' : order'[i] = y
    BY <1>6, <2>2 DEF Fleet, Ordered
  <2>6. \A i, j \in DOMAIN order' : order'[i] = order'[j] => i = j
    BY <2>2, <2>3 DEF Fleet, Ordered
  <2>7. Len(order') = Cardinality(DOMAIN zones')
    BY <1>8, <2>2 DEF Fleet, Ordered
  <2> QED
    BY <2>4, <2>5, <2>6, <2>7 DEF Ordered
<1>11. Silent'
  <2>1. \A y \in alive' : Launched(y)'
    BY <1>2, <1>4, <1>7 DEF Fleet, Silent, Launched, Typed
  <2>2. \A y \in Zone \ alive' : down'[y] = <<>> /\ \A p \in Player : ents'[y][p] = Nowhere
    BY <1>4 DEF Fleet, Silent
  <2>3. children' \subseteq alive'
    BY <1>4 DEF Fleet, Silent
  <2> QED
    BY <2>1, <2>2, <2>3 DEF Silent
<1>12. FitMail'
  <2> SUFFICES ASSUME NEW y \in Zone, NEW i \in DOMAIN down'[y]
               PROVE  Fit(y, down[y][i])'
    BY DEF FitMail
  <2>1. down'[y] = down[y] /\ y # n
    BY <1>3, <1>4
  <2>2. Fit(y, down[y][i])
    BY <2>1 DEF Fleet, FitMail
  <2>3. ~Emptying(y)'
    BY <1>5 DEF Emptying
  <2> QED
    BY <1>4, <1>6, <2>1, <2>2, <2>3 DEF Fit
<1>13. Geared'
  <2>1. (DOMAIN zones') \ {n} = DOMAIN zones
    BY <1>3, <1>6
  <2>2. zones'[n] = HighHalf(zones'[z]) /\ zones'[z] = zones[z] /\ z # n
    BY <1>1, <1>3, <1>6 DEF give
  <2> QED
    BY <1>1, <1>5, <1>6, <2>1, <2>2 DEF Geared
<1>14. Agreed'
  <2> SUFFICES ASSUME NEW y \in DOMAIN zones' PROVE Pledged(down'[y], region'[y], zones'[y])
    BY DEF Agreed
  <2>1. CASE y = n
    <3>1. down'[n] = <<>>
      BY <1>3, <1>4
    <3> QED
      BY <2>1, <3>1, <1>6, <1>7 DEF Pledged
  <2>2. CASE y # n
    <3>1. y \in DOMAIN zones /\ y \in Zone
      BY <2>2, <1>6 DEF Typed
    <3>2. Pledged(down[y], region[y], zones[y])
      BY <1>1, <3>1 DEF Agreed
    <3> QED
      BY <2>2, <3>1, <3>2, <1>4, <1>6, <1>7
  <2> QED
    BY <2>1, <2>2
<1> QED
  BY <1>9, <1>10, <1>11, <1>12, <1>13, <1>14 DEF Fleet

\* The zone that was split is shrunk, in the map and by its mail.
LEMMA ShrinkFleet ==
  ASSUME Typed, Fleet, Agreed, Shrink
  PROVE  Fleet' /\ Agreed'
<1> DEFINE n == scaler.to
           z == scaler.from
           low == LowHalf(zones[z])
<1> USE DEF gateway, processes, bounds, sessions
<1>1. /\ scaler.stage = "shrink" /\ scaler.op = "split" /\ z \in DOMAIN zones /\ n \in DOMAIN zones
      /\ z # n /\ Splittable(zones[z])
      /\ z \in Zone /\ zones[z] \in Region /\ NonEmpty(zones[z]) /\ z \in alive
  BY DEF Shrink, Fleet, Geared, Typed, Mapped
<1>2. low \in Region /\ NonEmpty(low)
  BY <1>1, SplitHalves
<1>3. /\ zones' = [zones EXCEPT ![z] = low]
      /\ down' = [down EXCEPT ![z] = Append(@, SetRegion(low))]
      /\ scaler' = [scaler EXCEPT !.stage = "move"]
      /\ UNCHANGED <<order, alive, region, children, ents>>
  BY DEF Shrink
<1>4. scaler'.stage = "move" /\ scaler'.op = "split" /\ scaler'.from = z /\ scaler'.to = n
  BY <1>1, <1>3, StageTyped DEF Work
<1>5. /\ SetRegion(low) \in Letter /\ SetRegion(low).kind = "set_region"
      /\ SetRegion(low).region = low
  BY <1>2, LetterIn DEF SetRegion
<1> HIDE DEF n, z, low
<1>6. /\ DOMAIN zones' = DOMAIN zones /\ zones'[z] = low
      /\ \A i \in DOMAIN zones \ {z} : zones'[i] = zones[i]
  BY <1>1, <1>3
<1>7. /\ \A y \in Zone : \A i \in DOMAIN down'[y] :
           \/ \E j \in DOMAIN down[y] : down'[y][i] = down[y][j]
           \/ y = z /\ down'[y][i] = SetRegion(low)
      /\ \A y \in Zone \ {z} : down'[y] = down[y]
      /\ down'[z] = Append(down[z], SetRegion(low))
  BY <1>1, <1>3, <1>5, PostMail
<1>8. Mapped'
  BY <1>2, <1>3, <1>6 DEF Fleet, Mapped
<1>9. Ordered'
  BY <1>3, <1>6 DEF Fleet, Ordered
<1>10. Silent'
  <2>1. \A y \in alive : Launched(y)'
    BY <1>3 DEF Fleet, Silent, Launched
  <2>2. \A y \in Zone \ alive : down'[y] = down[y]
    BY <1>1, <1>7
  <2> QED
    BY <1>3, <2>1, <2>2 DEF Fleet, Silent
<1>11. FitMail'
  <2> SUFFICES ASSUME NEW y \in Zone, NEW i \in DOMAIN down'[y]
               PROVE  Fit(y, down[y][i])'
    BY DEF FitMail
  <2>0. ~Emptying(y)'
    BY <1>4 DEF Emptying
  <2>1. CASE \E j \in DOMAIN down[y] : down'[y][i] = down[y][j]
    <3>1. Fit(y, down'[y][i])
      BY <2>1 DEF Fleet, FitMail
    <3> QED
      BY <1>3, <1>6, <2>0, <3>1 DEF Fit
  <2>2. CASE y = z /\ down'[y][i] = SetRegion(low)
    BY <1>2, <1>5, <2>2 DEF Fit
  <2> QED
    BY <1>7, <2>1, <2>2
<1>12. Geared'
  BY <1>1, <1>4, <1>6 DEF Geared
<1>13. Agreed'
  <2> SUFFICES ASSUME NEW y \in DOMAIN zones PROVE Pledged(down'[y], region'[y], zones'[y])
    BY <1>6 DEF Agreed
  <2>1. CASE y = z
    <3>1. down[z] \in Seq(Letter)
      BY <1>1 DEF Typed
    <3>2. Pledged(Append(down[z], SetRegion(low)), region[z], low)
      BY <1>5, <3>1, PledgedAppend
    <3> QED
      BY <1>3, <1>6, <1>7, <2>1, <3>2
  <2>2. CASE y # z
    <3>1. Pledged(down[y], region[y], zones[y]) /\ y \in Zone
      BY <1>1 DEF Agreed, Typed
    <3> QED
      BY <1>3, <1>6, <1>7, <2>2, <3>1
  <2> QED
    BY <2>1, <2>2
<1> QED
  BY <1>8, <1>9, <1>10, <1>11, <1>12, <1>13 DEF Fleet

\* One zone takes over the region of another, which leaves the map.
LEMMA SwapFleet ==
  ASSUME Typed, Fleet, Agreed, Swap
  PROVE  Fleet' /\ Agreed'
<1> DEFINE keep == scaler.to
           drop == scaler.from
           both == Merged(zones[keep], zones[drop])
           k == CHOOSE i \in DOMAIN order : order[i] = drop
<1> USE DEF gateway, processes, bounds, sessions
<1>1. /\ scaler.stage = "swap" /\ scaler.op = "merge"
      /\ keep \in DOMAIN zones /\ drop \in DOMAIN zones /\ keep # drop
      /\ Mergeable(zones[keep], zones[drop])
      /\ zones[keep] \in Region /\ NonEmpty(zones[keep])
      /\ zones[drop] \in Region /\ NonEmpty(zones[drop])
      /\ drop \in alive /\ drop \in Zone
  BY DEF Swap, Fleet, Geared, Typed, Mapped
<1>2. both \in Region /\ NonEmpty(both)
  BY <1>1, MergedWell
<1>3. /\ zones' = [y \in DOMAIN zones \ {drop} |-> IF y = keep THEN both ELSE zones[y]]
      /\ order' = Seqs!RemoveAt(order, k)
      /\ scaler' = [scaler EXCEPT !.stage = "tell"]
      /\ UNCHANGED <<alive, region, children, ents, down>>
  BY DEF Swap
<1>4. scaler'.stage = "tell" /\ scaler'.op = "merge" /\ scaler'.from = drop /\ scaler'.to = keep
  BY <1>1, <1>3, StageTyped DEF Work
<1>5. k \in DOMAIN order /\ order[k] = drop
  BY <1>1 DEF Fleet, Ordered
<1> HIDE DEF keep, drop, both, k
<1>6. /\ DOMAIN zones' = DOMAIN zones \ {drop} /\ zones'[keep] = both
      /\ \A i \in DOMAIN zones \ {drop, keep} : zones'[i] = zones[i]
  BY <1>1, <1>3
<1>7. /\ IsFiniteSet(DOMAIN zones')
      /\ Cardinality(DOMAIN zones') = Cardinality(DOMAIN zones) - 1
  BY <1>1, <1>6, FS_RemoveElement DEF Fleet, Mapped
<1>8. Mapped'
  <2>1. \A i \in DOMAIN zones' : i \in alive' /\ NonEmpty(zones'[i])
    BY <1>2, <1>3, <1>6 DEF Fleet, Mapped
  <2>2. DOMAIN zones' # {}
    BY <1>1, <1>6
  <2> QED
    BY <1>7, <2>1, <2>2 DEF Mapped
<1>9. Ordered'
  <2>1. order \in Seq(Zone) /\ DOMAIN order = 1 .. Len(order) /\ Len(order) \in Nat
    BY DEF Typed
  <2>2. /\ DOMAIN order' = 1 .. Len(order) - 1 /\ Len(order') = Len(order) - 1
        /\ \A i \in 1 .. Len(order) - 1 : order'[i] = IF i < k THEN order[i] ELSE order[i + 1]
    <3>1. /\ order' \in Seq(Zone) /\ Len(order') = Len(order) - 1
          /\ \A i \in 1 .. Len(order) - 1 : order'[i] = IF i < k THEN order[i] ELSE order[i + 1]
      BY <1>3, <1>5, <2>1, RemoveFacts
    <3> QED
      BY <3>1
  <2>3. /\ \A i \in DOMAIN order : order[i] \in DOMAIN zones
        /\ \A y \in DOMAIN zones : \E i \in DOMAIN order : order[i] = y
        /\ \A i, j \in DOMAIN order : order[i] = order[j] => i = j
    BY DEF Fleet, Ordered
  <2> DEFINE was(i) == IF i < k THEN i ELSE i + 1
  <2>4. \A i \in DOMAIN order' : was(i) \in DOMAIN order /\ was(i) # k /\ order'[i] = order[was(i)]
    BY <1>5, <2>1, <2>2
  <2>5. \A i, j \in DOMAIN order' : was(i) = was(j) => i = j
    BY <1>5, <2>1, <2>2
  <2>6. \A j \in DOMAIN order \ {k} : \E i \in DOMAIN order' : was(i) = j
    <3> SUFFICES ASSUME NEW j \in DOMAIN order \ {k} PROVE \E i \in DOMAIN order' : was(i) = j
      OBVIOUS
    <3>1. CASE j < k
      BY <3>1, <1>5, <2>1, <2>2
    <3>2. CASE j > k
      <4>1. j - 1 \in DOMAIN order' /\ was(j - 1) = j
        BY <3>2, <1>5, <2>1, <2>2
      <4> QED
        BY <4>1
    <3> QED
      BY <3>1, <3>2, <1>5, <2>1
  <2> HIDE DEF was
  <2>7. \A i \in DOMAIN order' : order'[i] \in DOMAIN zones'
    BY <1>5, <1>6, <2>3, <2>4
  <2>8. \A y \in DOMAIN zones' : \E i \in DOMAIN order' : order'[i] = y
    <3> SUFFICES ASSUME NEW y \in DOMAIN zones' PROVE \E i \in DOMAIN order' : order'[i] = y
      OBVIOUS
    <3>1. PICK j \in DOMAIN order : order[j] = y
      BY <1>6, <2>3
    <3>2. j # k
      BY <3>1, <1>5, <1>6
    <3> QED
      BY <3>1, <3>2, <2>4, <2>6
  <2>9. \A i, j \in DOMAIN order' : order'[i] = order'[j] => i = j
    BY <2>3, <2>4, <2>5
  <2>10. Len(order') = Cardinality(DOMAIN zones')
    BY <1>7, <2>2 DEF Fleet, Ordered
  <2> QED
    BY <2>7, <2>8, <2>9, <2>10 DEF Ordered
<1>10. Silent'
  BY <1>3 DEF Fleet, Silent, Launched
<1>11. FitMail'
  <2> SUFFICES ASSUME NEW y \in Zone, NEW i \in DOMAIN down'[y]
               PROVE  Fit(y, down[y][i])'
    BY DEF FitMail
  <2>1. Fit(y, down[y][i]) /\ down'[y] = down[y]
    BY <1>3 DEF Fleet, FitMail
  <2>2. Emptying(y)' => y \in DOMAIN zones
    BY <1>1, <1>4 DEF Emptying
  <2> QED
    BY <1>3, <1>6, <2>1, <2>2 DEF Fit
<1>12. Geared'
  BY <1>1, <1>3, <1>4, <1>6 DEF Geared
<1>13. Agreed'
  <2> SUFFICES ASSUME NEW y \in DOMAIN zones', y # keep
               PROVE  Pledged(down'[y], region'[y], zones'[y])
    BY <1>4 DEF Agreed
  <2>1. y \in DOMAIN zones /\ y # drop /\ Pledged(down[y], region[y], zones[y])
    BY <1>1, <1>6 DEF Agreed
  <2> QED
    BY <1>3, <1>6, <2>1
<1> QED
  BY <1>8, <1>9, <1>10, <1>11, <1>12, <1>13 DEF Fleet

\* The zone that grew is told.
LEMMA TellFleet ==
  ASSUME Typed, Fleet, Agreed, Tell
  PROVE  Fleet' /\ Agreed'
<1> DEFINE z == scaler.to
           m == SetRegion(zones[z])
<1> USE DEF gateway, processes, bounds, sessions
<1>1. /\ scaler.stage = "tell" /\ scaler.op = "merge" /\ z \in DOMAIN zones /\ z \in Zone
      /\ scaler.from \in alive /\ scaler.from \notin DOMAIN zones
      /\ zones[z] \in Region /\ NonEmpty(zones[z]) /\ z \in alive
  BY DEF Tell, Fleet, Geared, Typed, Mapped
<1>2. /\ down' = [down EXCEPT ![z] = Append(@, m)] /\ scaler' = [scaler EXCEPT !.stage = "move"]
      /\ UNCHANGED <<zones, order, alive, region, children, ents>>
  BY DEF Tell
<1>3. /\ scaler'.stage = "move" /\ scaler'.op = "merge" /\ scaler'.from = scaler.from
      /\ scaler'.to = z
  BY <1>1, <1>2, StageTyped DEF Work
<1>4. m \in Letter /\ m.kind = "set_region" /\ m.region = zones[z]
  BY <1>1, LetterIn DEF SetRegion
<1> HIDE DEF m, z
<1>5. /\ \A y \in Zone : \A i \in DOMAIN down'[y] :
           \/ \E j \in DOMAIN down[y] : down'[y][i] = down[y][j]
           \/ y = z /\ down'[y][i] = m
      /\ \A y \in Zone \ {z} : down'[y] = down[y]
      /\ down'[z] = Append(down[z], m)
  BY <1>1, <1>2, <1>4, PostMail
<1>6. Mapped' /\ Ordered'
  BY <1>2 DEF Fleet, Mapped, Ordered
<1>7. Silent'
  <2>1. \A y \in alive : Launched(y)'
    BY <1>2 DEF Fleet, Silent, Launched
  <2>2. \A y \in Zone \ alive : down'[y] = down[y]
    BY <1>1, <1>5
  <2> QED
    BY <1>2, <2>1, <2>2 DEF Fleet, Silent
<1>8. FitMail'
  <2> SUFFICES ASSUME NEW y \in Zone, NEW i \in DOMAIN down'[y]
               PROVE  Fit(y, down[y][i])'
    BY DEF FitMail
  <2>0. Emptying(y)' => Emptying(y)
    BY <1>1, <1>3 DEF Emptying
  <2>1. CASE \E j \in DOMAIN down[y] : down'[y][i] = down[y][j]
    <3>1. Fit(y, down'[y][i])
      BY <2>1 DEF Fleet, FitMail
    <3> QED
      BY <1>2, <2>0, <3>1 DEF Fit
  <2>2. CASE y = z /\ down'[y][i] = m
    BY <1>1, <1>4, <2>2 DEF Fit
  <2> QED
    BY <1>5, <2>1, <2>2
<1>9. Geared'
  BY <1>1, <1>2, <1>3 DEF Geared
<1>10. Agreed'
  <2> SUFFICES ASSUME NEW y \in DOMAIN zones PROVE Pledged(down'[y], region'[y], zones'[y])
    BY <1>2 DEF Agreed
  <2>1. CASE y = z
    <3>1. down[z] \in Seq(Letter)
      BY <1>1 DEF Typed
    <3>2. Pledged(Append(down[z], m), region[z], zones[z])
      BY <1>4, <3>1, PledgedAppend
    <3> QED
      BY <1>2, <1>5, <2>1, <3>2
  <2>2. CASE y # z
    <3>1. Pledged(down[y], region[y], zones[y]) /\ y \in Zone
      BY <2>2 DEF Agreed, Typed, z
    <3> QED
      BY <1>2, <1>5, <2>2, <3>1
  <2> QED
    BY <2>1, <2>2
<1> QED
  BY <1>6, <1>7, <1>8, <1>9, <1>10 DEF Fleet

\* The zone that was emptied is stopped.
LEMMA RetireFleet ==
  ASSUME Typed, Fleet, Agreed, Retire
  PROVE  Fleet' /\ Agreed'
<1> DEFINE z == scaler.from
<1> USE DEF gateway, processes, bounds, sessions
<1>1. /\ scaler.stage = "move" /\ scaler.op = "merge" /\ z \in Zone \ DOMAIN zones /\ z \in alive
      /\ scaler' = Resting /\ children' = children \ {z}
      /\ UNCHANGED <<zones, order, region>>
  BY DEF Retire, Fleet, Geared, Typed
<1>2. CASE Ends(z)
  BY <1>1, <1>2, EndsFleet
<1>3. CASE /\ z \notin children
           /\ down' = [down EXCEPT ![z] = Append(@, Shutdown)]
           /\ UNCHANGED <<alive, ents, up>>
  <2>1. Shutdown \in Letter /\ Shutdown.kind = "shutdown"
    BY LetterIn DEF Shutdown
  <2> HIDE DEF z
  <2>2. /\ \A y \in Zone : \A i \in DOMAIN down'[y] :
             \/ \E j \in DOMAIN down[y] : down'[y][i] = down[y][j]
             \/ y = z /\ down'[y][i] = Shutdown
        /\ \A y \in Zone \ {z} : down'[y] = down[y]
    BY <1>1, <1>3, <2>1, PostMail
  <2>3. Mapped' /\ Ordered'
    BY <1>1, <1>3 DEF Fleet, Mapped, Ordered
  <2>4. Silent'
    <3>1. \A y \in alive : Launched(y)'
      BY <1>1 DEF Fleet, Silent, Launched
    <3>2. \A y \in Zone \ alive : down'[y] = down[y]
      BY <1>1, <2>2
    <3> QED
      BY <1>1, <1>3, <3>1, <3>2 DEF Fleet, Silent
  <2>5. FitMail'
    <3> SUFFICES ASSUME NEW y \in Zone, NEW i \in DOMAIN down'[y]
                 PROVE  Fit(y, down[y][i])'
      BY DEF FitMail
    <3>0. ~Emptying(y)'
      BY <1>1 DEF Emptying, Resting
    <3>1. CASE \E j \in DOMAIN down[y] : down'[y][i] = down[y][j]
      <4>1. Fit(y, down'[y][i])
        BY <3>1 DEF Fleet, FitMail
      <4> QED
        BY <1>1, <3>0, <4>1 DEF Fit
    <3>2. CASE y = z /\ down'[y][i] = Shutdown
      BY <1>1, <1>3, <2>1, <3>0, <3>2 DEF Fit
    <3> QED
      BY <2>2, <3>1, <3>2
  <2>6. Geared'
    BY <1>1 DEF Geared, Resting
  <2>7. Agreed'
    <3>1. \A y \in DOMAIN zones : y \in Zone /\ y # z
      BY <1>1 DEF Typed
    <3>2. \A y \in DOMAIN zones : Pledged(down[y], region[y], zones[y])
      BY <1>1 DEF Agreed
    <3> QED
      BY <1>1, <2>2, <3>1, <3>2 DEF Agreed
  <2> QED
    BY <2>3, <2>4, <2>5, <2>6, <2>7 DEF Fleet
<1> QED
  BY <1>2, <1>3 DEF Retire

LEMMA ScalerFleet ==
  ASSUME Typed, Fleet, Agreed, Scaler
  PROVE  Fleet' /\ Agreed'
<1> USE DEF gateway, processes, bounds, sessions
<1>1. ASSUME NEW z \in Zone, NEW n \in Zone, SplitBegin(z, n)
      PROVE  Fleet' /\ Agreed'
  <2>1. /\ scaler' = [stage |-> "launch", op |-> "split", from |-> z, to |-> n,
                      movers |-> scaler'.movers]
        /\ scaler = Resting /\ z \in DOMAIN zones /\ ~Launched(n) /\ Splittable(zones[z])
        /\ Cardinality(DOMAIN zones) < MaxZones
        /\ UNCHANGED <<zones, order, alive, region, children, ents, down>>
    BY <1>1 DEF SplitBegin, Idle
  <2>2. /\ scaler'.stage = "launch" /\ scaler'.op = "split" /\ scaler'.from = z /\ scaler'.to = n
        /\ scaler.stage = "rest"
    BY <2>1 DEF Resting
  <2>3. Geared'
    BY <2>1, <2>2 DEF Geared, Launched
  <2>4. \A y \in Zone : Emptying(y)' => Emptying(y)
    BY <2>2 DEF Emptying
  <2> QED
    BY <2>1, <2>2, <2>3, <2>4, StillMute, FleetKept
<1>2. ASSUME NEW k \in Zone, NEW d \in Zone, MergeBegin(k, d)
      PROVE  Fleet' /\ Agreed'
  <2>1. /\ scaler' = [stage |-> "swap", op |-> "merge", from |-> d, to |-> k,
                      movers |-> scaler'.movers]
        /\ scaler = Resting /\ {d, k} \subseteq DOMAIN zones /\ d # k
        /\ Mergeable(zones[k], zones[d]) /\ OriginFirst(zones[k], zones[d])
        /\ UNCHANGED <<zones, order, alive, region, children, ents, down>>
    BY <1>2 DEF MergeBegin, Idle
  <2>2. /\ scaler'.stage = "swap" /\ scaler'.op = "merge" /\ scaler'.from = d /\ scaler'.to = k
        /\ scaler.stage = "rest"
    BY <2>1 DEF Resting
  <2>3. Geared'
    BY <2>1, <2>2 DEF Geared
  <2>4. \A y \in Zone : Emptying(y)' => Emptying(y)
    BY <2>2 DEF Emptying
  <2> QED
    BY <2>1, <2>2, <2>3, <2>4, StillMute, FleetKept
<1>3. CASE LaunchFails
  <2>1. Geared' /\ \A y \in Zone : Emptying(y)' => Emptying(y)
    BY <1>3 DEF LaunchFails, Geared, Emptying, Resting
  <2> QED
    BY <1>3, <2>1, StillMute, FleetKept DEF LaunchFails
<1>4. CASE SplitEnd
  <2>1. /\ scaler.stage = "move" /\ scaler.op = "split" /\ scaler.to \in DOMAIN zones
        /\ scaler.to \in alive /\ scaler' = Resting /\ children' = children \cup {scaler.to}
        /\ UNCHANGED <<zones, order, alive, region, ents, down>>
    BY <1>4 DEF SplitEnd, Fleet, Geared, Mapped
  <2>2. Mapped' /\ Ordered'
    BY <2>1 DEF Fleet, Mapped, Ordered
  <2>3. Silent'
    BY <2>1 DEF Fleet, Silent, Launched
  <2>4. FitMail'
    BY <2>1 DEF Fleet, FitMail, Fit, Emptying, Resting
  <2>5. Geared'
    BY <2>1 DEF Geared, Resting
  <2>6. Agreed'
    BY <2>1 DEF Agreed
  <2> QED
    BY <2>2, <2>3, <2>4, <2>5, <2>6 DEF Fleet
<1>5. ASSUME scaler.stage = "move", NEW m \in scaler.movers, Take(m)
      PROVE  Fleet' /\ Agreed'
  <2>1. /\ scaler'.stage = "spawn" /\ scaler'.op = scaler.op /\ scaler'.from = scaler.from
        /\ scaler'.to = scaler.to
        /\ UNCHANGED <<zones, order, alive, region, children, ents>>
    BY <1>5 DEF Take
  <2>2. Geared' /\ \A y \in Zone : Emptying(y)' => Emptying(y)
    BY <1>5, <2>1 DEF Fleet, Geared, Emptying
  <2>3. \A y \in Zone : Mute(y)
    <3>1. CASE scaler.op = "split"
      <4>1. m.who \in Player
        BY <1>5, StageTyped DEF Work, Mover
      <4>2. Leave(m.who) \in Letter /\ Leave(m.who).kind = "player_leave"
        BY <4>1, LetterIn DEF Leave
      <4>3. scaler.from \in alive
        BY <1>5, <3>1 DEF Fleet, Geared, Mapped
      <4> QED
        BY <1>5, <3>1, <4>2, <4>3, PostIsMute DEF Take
    <3>2. CASE scaler.op # "split"
      BY <1>5, <3>2, StillMute DEF Take
    <3> QED
      BY <3>1, <3>2
  <2> QED
    BY <1>5, <2>1, <2>2, <2>3, FleetKept
<1>6. CASE Resettle
  <2>1. /\ scaler.stage = "spawn" /\ scaler \in OneMove
        /\ scaler.to \in Zone /\ scaler.mover.who \in Player /\ scaler.mover.x \in Int
        /\ scaler' = [scaler EXCEPT !.stage = "repoint"]
        /\ UNCHANGED <<zones, order, alive, region, children, ents>>
    BY <1>6, StageTyped DEF Resettle
  <2>2. /\ scaler'.stage = "repoint" /\ scaler'.op = scaler.op /\ scaler'.from = scaler.from
        /\ scaler'.to = scaler.to
    BY <2>1 DEF OneMove
  <2>3. Geared' /\ \A y \in Zone : Emptying(y)' => Emptying(y)
    BY <2>1, <2>2 DEF Fleet, Geared, Emptying
  <2>4. /\ Spawn(scaler.mover.who, scaler.mover.x) \in Letter
        /\ Spawn(scaler.mover.who, scaler.mover.x).kind = "spawn_entity"
    BY <2>1, LetterIn DEF Spawn
  <2>5. scaler.to \in alive
    BY <2>1 DEF Fleet, Geared, Mapped
  <2>6. \A y \in Zone : Mute(y)
    BY <1>6, <2>4, <2>5, PostIsMute DEF Resettle
  <2> QED
    BY <2>1, <2>3, <2>6, FleetKept
<1>7. CASE Repoint
  <2>1. /\ scaler.stage = "repoint" /\ scaler'.stage = "move" /\ scaler'.op = scaler.op
        /\ scaler'.from = scaler.from /\ scaler'.to = scaler.to
        /\ UNCHANGED <<zones, order, alive, region, children, ents, down>>
    BY <1>7 DEF Repoint
  <2>2. Geared' /\ \A y \in Zone : Emptying(y)' => Emptying(y)
    BY <2>1 DEF Fleet, Geared, Emptying
  <2> QED
    BY <2>1, <2>2, StillMute, FleetKept
<1> QED
  BY <1>1, <1>2, <1>3, <1>4, <1>5, <1>6, <1>7, RegisterFleet, ShrinkFleet, SwapFleet, TellFleet,
     RetireFleet DEF Scaler

LEMMA NextFleet ==
  ASSUME Typed, Fleet, Agreed, Abreast, [Next]_vars
  PROVE  Fleet' /\ Agreed'
<1>1. CASE Next
  BY <1>1, SessionFleet, ProcessFleet, ListenerFleet, ScalerFleet DEF Next
<1>2. CASE UNCHANGED vars
  BY <1>2, StillMute, FleetAtRest DEF vars, gateway, processes
<1> QED
  BY <1>1, <1>2

\* A process that ends is at nothing.
LEMMA EndsAbreast ==
  ASSUME Typed, Fleet, Abreast, NEW z \in Zone, Ends(z)
  PROVE  Abreast'
<1>1. /\ doing'[z] = Resting /\ tick'[z] = Resting /\ alive' = alive \ {z}
      /\ \A y \in Zone \ {z} : doing'[y] = doing[y] /\ tick'[y] = tick[y] /\ ents'[y] = ents[y]
  BY DEF Ends, Typed
<1> QED
  BY <1>1 DEF Abreast

LEMMA ProcessAbreast ==
  ASSUME Typed, Fleet, Abreast, NEW z \in Zone, Process(z)
  PROVE  Abreast'
<1> DEFINE m == Head(down[z])
<1> USE DEF gateway, processes, bounds, sessions
<1>0. /\ ents[z] \in [Player -> Spot \cup {Nowhere}]
      /\ doing[z] \in {Resting} \cup Pace /\ tick[z] \in {Resting} \cup Waking \cup Talking
  BY DEF Typed
<1>1. ASSUME UNCHANGED <<alive, tick>>, \A y \in Zone \ {z} : ents'[y] = ents[y] /\ doing'[y] = doing[y],
             doing'[z] = Resting
      PROVE  Abreast'
  BY <1>1 DEF Abreast
<1>2. CASE Joined(z) \/ Left(z) \/ Spawned(z) \/ Resized(z) \/ Stepped(z)
  <2>1. UNCHANGED <<alive, tick>>
    BY <1>2 DEF Joined, Left, Spawned, Resized, Stepped
  <2>2. \A y \in Zone \ {z} : ents'[y] = ents[y] /\ doing'[y] = doing[y]
    BY <1>2 DEF Joined, Left, Spawned, Resized, Stepped, Put, Gone, Typed
  <2>3. doing'[z] = Resting
    BY <1>2 DEF Joined, Left, Spawned, Resized, Stepped, Serves, Typed
  <2> QED
    BY <2>1, <2>2, <2>3, <1>1
<1>3. CASE Moved(z)
  <2>1. CASE UNCHANGED <<ents, doing>>
    BY <1>3, <2>1 DEF Moved, Abreast
  <2>2. CASE m.who \in Present(z)
    <3> DEFINE x == Clamped(ents[z][m.who] + m.dx)
    <3>1. m.who \in Player /\ m.dx \in Step
      BY <1>3, HandledType, LetterOut DEF Moved, Serves
    <3>2. x # Nowhere
      <4>1. ents[z][m.who] \in Int
        BY <1>0, <3>1, <2>2, SpotFacts DEF Present
      <4> QED
        BY <3>1, <4>1, SpotFacts, HandoffAssumption
    <3> HIDE DEF x
    <3>3. /\ ents' = Put(z, m.who, x) /\ UNCHANGED <<alive, tick>>
          /\ doing' = [doing EXCEPT ![z] = [stage |-> "step", who |-> m.who, x |-> x]]
      BY <1>3, <2>2 DEF Moved, x
    <3>4. /\ doing'[z].who = m.who /\ ents'[z][m.who] = x
          /\ \A y \in Zone \ {z} : ents'[y] = ents[y] /\ doing'[y] = doing[y]
      BY <3>1, <3>3 DEF Put, Typed
    <3> QED
      BY <3>2, <3>3, <3>4 DEF Abreast
  <2> QED
    BY <1>3, <2>1, <2>2 DEF Moved
<1>4. CASE Exited(z)
  BY <1>4, EndsAbreast DEF Exited
<1>5. CASE Woke(z)
  <2>1. z \in alive /\ UNCHANGED <<alive, ents, doing>> /\ \A y \in Zone \ {z} : tick'[y] = tick[y]
    BY <1>5 DEF Woke, Typed
  <2> QED
    BY <2>1 DEF Abreast
<1>6. CASE Ticked(z)
  <2>1. PICK died \in SUBSET Present(z), es \in [Player -> Spot \cup {Nowhere}],
             ss \in Seq(Telling) : Tick(z, died, es, ss)
    BY <1>6, TickedFacts
  <2>2. /\ \A p \in Player : ents[z][p] # Nowhere => es[p] # Nowhere
        /\ ents'[z] = es /\ \A y \in Zone \ {z} : ents'[y] = ents[y] /\ tick'[y] = tick[y]
    BY <2>1, SpotFacts DEF Tick, Typed
  <2>3. UNCHANGED <<alive, doing>>
    BY <1>6 DEF Ticked
  <2>4. doing[z] # Resting => doing[z].who \in Player
    BY <1>0, PaceFacts
  <2>5. tick[z] # Resting
    BY <1>0, <1>6, LoopFacts DEF Ticked
  <2> QED
    BY <2>2, <2>3, <2>4, <2>5 DEF Abreast
<1>7. CASE Flushed(z)
  <2>1. /\ UNCHANGED <<alive, ents, doing>> /\ tick'[z] = Resting
        /\ \A y \in Zone \ {z} : tick'[y] = tick[y]
    BY <1>7 DEF Flushed, Typed
  <2> QED
    BY <2>1 DEF Abreast
<1> QED
  BY <1>2, <1>3, <1>4, <1>5, <1>6, <1>7 DEF Process, Handler, Loop

LEMMA NextAbreast ==
  ASSUME Typed, Fleet, Abreast, [Next]_vars
  PROVE  Abreast'
<1> USE DEF gateway, processes, bounds, sessions
<1>1. CASE UNCHANGED <<alive, ents, doing, tick>>
  BY <1>1 DEF Abreast
<1>2. ASSUME NEW s \in Socket, Session(s) PROVE Abreast'
  <2>1. UNCHANGED processes
    BY <1>2 DEF Session, Authenticate, Admit, Enter, Appear, Close, Forget, Save, TellLeave, Frame
  <2> QED
    BY <1>1, <2>1
<1>3. ASSUME NEW z \in Zone, Listener(z) PROVE Abreast'
  <2>1. UNCHANGED processes
    BY <1>3 DEF Listener, Report, Lookup, Send, Note, Follow
  <2> QED
    BY <1>1, <2>1
<1>4. CASE Scaler
  <2>1. CASE Register
    BY <2>1 DEF Register, Abreast
  <2>2. CASE Retire
    <3>1. scaler.from \in Zone
      BY <2>2, StageTyped DEF Retire
    <3>2. CASE Ends(scaler.from)
      BY <3>1, <3>2, EndsAbreast
    <3>3. CASE UNCHANGED <<alive, ents, doing, tick>>
      BY <1>1, <3>3
    <3> QED
      BY <2>2, <3>2, <3>3 DEF Retire
  <2>3. CASE ~Register /\ ~Retire
    <3>1. UNCHANGED processes
      BY <1>4, <2>3 DEF Scaler, SplitBegin, MergeBegin, LaunchFails, Shrink, SplitEnd, Swap, Tell,
                        Take, Resettle, Repoint
    <3> QED
      BY <1>1, <3>1
  <2> QED
    BY <2>1, <2>2, <2>3
<1>5. CASE UNCHANGED vars
  BY <1>1, <1>5 DEF vars
<1> QED
  BY <1>2, <1>3, <1>4, <1>5, ProcessAbreast DEF Next

----------------------------------------------------------------------------

Sound == Typed /\ Fleet /\ Agreed /\ Abreast

LEMMA Soundness == Spec => []Sound
<1>1. Init => Sound
  <2>1. Init => Abreast
    BY DEF Init, Abreast
  <2> QED
    BY <2>1, InitTyped, InitFleet DEF Sound
<1>2. Sound /\ [Next]_vars => Sound'
  BY NextTyped, NextFleet, NextAbreast DEF Sound
<1> QED
  BY <1>1, <1>2, PTL DEF Spec

\* Types; every zone of the gateway's map runs and has a region with a point in
\* it, the registration order lists each of them once, and a process that does
\* not run has neither mail nor players: also while zones are split and merged.
THEOREM TypeCorrect == Spec => []TypeOK
<1>1. Sound => TypeOK
  <2> SUFFICES ASSUME Sound PROVE TypeOK
    OBVIOUS
  <2>1. \A z \in DOMAIN zones : zones[z] \in Region /\ z \in alive /\ Launched(z)
    BY DEF Sound, Typed, Fleet, Mapped, Silent
  <2>2. Seqs!ToSet(order) = DOMAIN zones
    <3>1. \A i \in DOMAIN order : order[i] \in DOMAIN zones
      BY DEF Sound, Fleet, Ordered
    <3>2. \A z \in DOMAIN zones : \E i \in DOMAIN order : order[i] = z
      BY DEF Sound, Fleet, Ordered
    <3> QED
      BY ONLY <3>1, <3>2 DEF Seqs!ToSet
  <2>3. \A z \in Zone \ alive : Present(z) = {} /\ down[z] = <<>> /\ tick[z] = Resting
    BY DEF Sound, Fleet, Silent, Abreast, Present
  <2>4. ASSUME NEW z \in Zone, doing[z] # Resting PROVE doing[z].who \in Present(z)
    <3>1. doing[z].who \in Player
      BY <2>4, PaceFacts DEF Sound, Typed
    <3> QED
      BY <2>4, <3>1 DEF Sound, Abreast, Present
  <2> QED
    BY <2>1, <2>2, <2>3, <2>4 DEF Sound, Typed, Fleet, Ordered, Silent, TypeOK
<1> QED
  BY <1>1, Soundness, PTL

\* set_zone_region and merge_zones keep the gateway's map and the zones' own
\* regions in step: read to its end, a zone's mail gives it the region the map
\* has for it, unless it is just about to be told.
THEOREM RegionsAgree == Spec => []RegionAgreement
<1>1. Sound => RegionAgreement
  <2> SUFFICES ASSUME Sound, NEW z \in DOMAIN zones, ~(scaler.stage = "tell" /\ scaler.to = z)
               PROVE  Promised(z) = zones[z]
    BY DEF RegionAgreement
  <2>1. down[z] \in Seq(Letter) /\ Pledged(down[z], region[z], zones[z])
    BY DEF Sound, Typed, Agreed
  <2> QED
    BY <2>1, PledgeIsPromise DEF Promised
<1> QED
  BY <1>1, Soundness, PTL

----------------------------------------------------------------------------
\* The autoscaler implements Partition.

\* The geometry Partition talks about is the one of the gateway.
LEMMA SameHalves ==
  ASSUME NEW r
  PROVE  /\ P!HighHalf(r) = HighHalf(r) /\ P!LowHalf(r) = LowHalf(r)
         /\ P!Splittable(r) <=> Splittable(r)
<1>1. P!HighHalf(r) = HighHalf(r) /\ P!LowHalf(r) = LowHalf(r)
  BY DEF P!HighHalf, HighHalf, P!LowHalf, LowHalf, P!SplitsOnX, SplitsOnX, P!Box, Box,
         P!MidX, MidX, P!MidY, MidY
<1> QED
  BY <1>1 DEF P!Splittable, Splittable, P!MinSide, MinSide

LEMMA SameUnions ==
  ASSUME NEW r, NEW q
  PROVE  /\ P!Mergeable(r, q) <=> Mergeable(r, q)
         /\ P!OriginFirst(r, q) <=> OriginFirst(r, q)
         /\ P!Merged(r, q) = Merged(r, q)
<1>1. P!Mergeable(r, q) <=> Mergeable(r, q)
  BY DEF P!Mergeable, Mergeable, P!SideBySide, SideBySide, P!Stacked, Stacked
<1>2. P!OriginFirst(r, q) <=> OriginFirst(r, q)
  BY DEF P!OriginFirst, OriginFirst
<1>3. P!Merged(r, q) = Merged(r, q)
  BY DEF P!Merged, Merged, P!Lower, Lower, P!Higher, Higher, P!Box, Box
<1> QED
  BY <1>1, <1>2, <1>3

LEMMA SettledStays ==
  ASSUME UNCHANGED zones, scaler'.stage # "shrink", scaler.stage # "shrink"
  PROVE  UNCHANGED Settled
BY DEF Settled

LEMMA RegisterRefines ==
  ASSUME Sound, Register
  PROVE  UNCHANGED Settled
<1> DEFINE n == scaler.to
           give == HighHalf(zones[scaler.from])
<1>1. /\ scaler.stage = "launch" /\ scaler'.stage = "shrink" /\ scaler'.to = n
      /\ n \notin DOMAIN zones
      /\ zones' = [i \in DOMAIN zones \cup {n} |-> IF i = n THEN give ELSE zones[i]]
  BY StageTyped DEF Register, Sound, Typed, Fleet, Geared, Silent, Mapped, Work
<1>2. zones = [i \in DOMAIN zones |-> zones[i]]
  BY DEF Sound, Typed
<1> HIDE DEF n, give
<1>3. Settled = zones /\ Settled' = [z \in DOMAIN zones' \ {n} |-> zones'[z]]
  BY <1>1 DEF Settled
<1>4. DOMAIN zones' \ {n} = DOMAIN zones /\ \A i \in DOMAIN zones : zones'[i] = zones[i]
  BY <1>1
<1> QED
  BY <1>2, <1>3, <1>4

LEMMA ShrinkRefines ==
  ASSUME Sound, Shrink
  PROVE  P!Split(scaler.from, scaler.to)
<1> DEFINE n == scaler.to
           z == scaler.from
<1>1. /\ scaler.stage = "shrink" /\ scaler'.stage = "move"
      /\ z \in DOMAIN zones /\ n \in DOMAIN zones /\ z # n /\ n \in Zone
      /\ zones[n] = HighHalf(zones[z]) /\ Splittable(zones[z])
      /\ Cardinality(DOMAIN zones \ {n}) < MaxZones
      /\ zones' = [zones EXCEPT ![z] = LowHalf(@)]
  BY StageTyped DEF Shrink, Sound, Typed, Fleet, Geared, Work
<1> HIDE DEF n, z
<1>2. Settled = [i \in DOMAIN zones \ {n} |-> zones[i]] /\ Settled' = zones'
  BY <1>1 DEF Settled, n
<1>3. DOMAIN Settled = DOMAIN zones \ {n} /\ \A i \in DOMAIN zones \ {n} : Settled[i] = zones[i]
  BY <1>2
<1>4. DOMAIN Settled \cup {n} = DOMAIN zones
  BY <1>1, <1>3
<1>5. Settled' = [i \in DOMAIN Settled \cup {n} |->
                    IF i = n THEN HighHalf(Settled[z])
                    ELSE IF i = z THEN LowHalf(Settled[z])
                    ELSE Settled[i]]
  <2>1. DOMAIN zones' = DOMAIN zones /\ zones' = [i \in DOMAIN zones |-> zones'[i]]
    BY <1>1
  <2>2. \A i \in DOMAIN zones :
          zones'[i] = IF i = n THEN HighHalf(Settled[z])
                      ELSE IF i = z THEN LowHalf(Settled[z]) ELSE Settled[i]
    BY <1>1, <1>3
  <2> QED
    BY <1>2, <1>4, <2>1, <2>2
<1>6. /\ z \in DOMAIN Settled /\ n \in Zone \ DOMAIN Settled /\ Settled[z] = zones[z]
      /\ Cardinality(DOMAIN Settled) < MaxZones
  BY <1>1, <1>3
<1>7. Cardinality(DOMAIN Settled) = P!Cardinality(DOMAIN Settled)
  BY DEF Cardinality, P!Cardinality
<1> QED
  BY <1>1, <1>5, <1>6, <1>7, SameHalves DEF P!Split, n, z

LEMMA SwapRefines ==
  ASSUME Sound, Swap
  PROVE  P!Merge(scaler.to, scaler.from)
<1>1. /\ scaler.stage = "swap" /\ scaler'.stage = "tell"
      /\ scaler.from \in DOMAIN zones /\ scaler.to \in DOMAIN zones /\ scaler.from # scaler.to
      /\ Mergeable(zones[scaler.to], zones[scaler.from])
      /\ OriginFirst(zones[scaler.to], zones[scaler.from])
      /\ zones' = [y \in DOMAIN zones \ {scaler.from} |->
                     IF y = scaler.to THEN Merged(zones[scaler.to], zones[scaler.from])
                     ELSE zones[y]]
  BY StageTyped DEF Swap, Sound, Typed, Fleet, Geared, Work
<1>2. Settled = zones /\ Settled' = zones'
  BY <1>1 DEF Settled
<1>3. Settled' = [y \in DOMAIN Settled \ {scaler.from} |->
                    IF y = scaler.to THEN P!Merged(Settled[scaler.to], Settled[scaler.from])
                    ELSE Settled[y]]
  <2>1. P!Merged(zones[scaler.to], zones[scaler.from]) = Merged(zones[scaler.to], zones[scaler.from])
    BY ONLY SameUnions
  <2> QED
    BY ONLY <1>1, <1>2, <2>1
<1>4. /\ P!Mergeable(Settled[scaler.to], Settled[scaler.from])
      /\ P!OriginFirst(Settled[scaler.to], Settled[scaler.from])
  BY <1>1, <1>2, SameUnions
<1>5. /\ scaler.from \in DOMAIN Settled /\ scaler.to \in DOMAIN Settled
      /\ scaler.from # scaler.to
  BY <1>1, <1>2
<1> HIDE DEF Settled
<1> QED
  BY ONLY <1>3, <1>4, <1>5 DEF P!Merge

\* Every other step of the system leaves the map as Partition sees it alone.
LEMMA OthersStutter ==
  ASSUME Sound, [Next]_vars, ~Register, ~Shrink, ~Swap
  PROVE  UNCHANGED Settled
<1> USE DEF gateway, processes, bounds, sessions
<1>1. CASE UNCHANGED <<zones, scaler>>
  BY <1>1 DEF Settled
<1>2. CASE Scaler
  <2>1. UNCHANGED zones
    BY <1>2 DEF Scaler, SplitBegin, MergeBegin, LaunchFails, SplitEnd, Tell, Retire, Take,
                Resettle, Repoint
  <2>2. ASSUME Idle PROVE scaler.stage = "rest"
    BY <2>2 DEF Idle, Resting
  <2>3. scaler.stage # "shrink"
    BY <1>2, <2>2 DEF Scaler, SplitBegin, MergeBegin, LaunchFails, SplitEnd, Tell, Retire, Take,
                      Resettle, Repoint
  <2>4. scaler'.stage # "shrink"
    <3>1. CASE Tell
      BY <3>1, StageTyped DEF Tell, Sound, Work
    <3>2. CASE Resettle
      BY <3>2, StageTyped DEF Resettle, Sound, OneMove
    <3>3. CASE ~Tell /\ ~Resettle
      BY <1>2, <3>3 DEF Scaler, SplitBegin, MergeBegin, LaunchFails, SplitEnd, Retire, Take,
                        Repoint, Resting
    <3> QED
      BY <3>1, <3>2, <3>3
  <2> QED
    BY <2>1, <2>3, <2>4, SettledStays
<1>3. ASSUME NEW s \in Socket, Session(s) PROVE UNCHANGED <<zones, scaler>>
  BY <1>3 DEF Session, Authenticate, Admit, Enter, Appear, Close, Forget, Save, TellLeave, Frame
<1>4. ASSUME NEW z \in Zone, Process(z) PROVE UNCHANGED <<zones, scaler>>
  BY <1>4 DEF Process, Handler, Loop, Joined, Left, Moved, Stepped, Spawned, Resized, Exited,
              Woke, Ticked, Flushed
<1>5. ASSUME NEW z \in Zone, Listener(z) PROVE UNCHANGED <<zones, scaler>>
  BY <1>5 DEF Listener, Report, Lookup, Send, Note, Follow
<1> QED
  BY <1>1, <1>2, <1>3, <1>4, <1>5 DEF Next, vars

\* However sessions, zones, listeners and the autoscaler interleave, the map goes
\* through the atomic splits and merges of Partition: a launch that fails, a
\* new zone that overlaps the old one until it is shrunk and a retired zone that
\* still runs are not seen in it.
THEOREM ScalerIsPartition == Spec => PartitionSpec
<1>1. Init => P!Init
  BY DEF Init, P!Init, Settled, Resting
<1>2. Sound /\ [Next]_vars => [P!Next]_Settled
  <2> SUFFICES ASSUME Sound, [Next]_vars PROVE P!Next \/ UNCHANGED Settled
    OBVIOUS
  <2>1. CASE Register
    BY <2>1, RegisterRefines
  <2>2. CASE Shrink
    <3>1. scaler.from \in Zone /\ scaler.to \in Zone
      BY <2>2, StageTyped DEF Shrink, Sound
    <3> QED
      BY <2>2, <3>1, ShrinkRefines DEF P!Next
  <2>3. CASE Swap
    <3>1. scaler.from \in Zone /\ scaler.to \in Zone
      BY <2>3, StageTyped DEF Swap, Sound
    <3> QED
      BY <2>3, <3>1, SwapRefines DEF P!Next
  <2>4. CASE ~Register /\ ~Shrink /\ ~Swap
    BY <2>4, OthersStutter
  <2> QED
    BY <2>1, <2>2, <2>3, <2>4
<1> QED
  BY <1>1, <1>2, Soundness, PTL DEF Spec, PartitionSpec, P!Spec

----------------------------------------------------------------------------
(***************************************************************************)
(* Crossings, while the autoscaler rests: the zones of the start stay. It  *)
(* is all said of a player that never logged in over traces of itself; it  *)
(* may leave and come back as often as it likes. What is said of it speaks *)
(* of the messages of one kind about it in a queue, as a set of messages.  *)
(***************************************************************************)

\* No split, no merge, and the zones cover the strip.
StaticFleet ==
  /\ MaxSplits = 0 /\ MaxMerges = 0
  /\ \A x \in Spot : \E z \in DOMAIN Start : Owns(Start[z], x)

\* None of K in the queue q, at most one, and those of L before those of K.
None(q, K) == \A i \in DOMAIN q : q[i] \notin K
Once(q, K) == \A i, j \in DOMAIN q : q[i] \in K /\ q[j] \in K => i = j
Before(q, L, K) == \A i, j \in DOMAIN q : q[i] \in L /\ q[j] \in K => i < j

LEMMA NoneAppend ==
  ASSUME NEW S, NEW q \in Seq(S), NEW m \in S, NEW K
  PROVE  None(Append(q, m), K) <=> None(q, K) /\ m \notin K
BY AppendFacts DEF None

LEMMA NoneTail ==
  ASSUME NEW S, NEW q \in Seq(S), q # <<>>, NEW K
  PROVE  None(q, K) <=> None(Tail(q), K) /\ Head(q) \notin K
<1>1. /\ Head(q) = q[1] /\ 1 \in DOMAIN q
      /\ \A i \in DOMAIN Tail(q) : i + 1 \in DOMAIN q /\ Tail(q)[i] = q[i + 1]
      /\ \A i \in DOMAIN q : i # 1 => i - 1 \in DOMAIN Tail(q) /\ Tail(q)[i - 1] = q[i]
  BY TailFacts
<1>2. ASSUME None(q, K) PROVE None(Tail(q), K) /\ Head(q) \notin K
  BY <1>1, <1>2 DEF None
<1>3. ASSUME None(Tail(q), K), Head(q) \notin K, NEW i \in DOMAIN q PROVE q[i] \notin K
  BY <1>1, <1>3 DEF None
<1> QED
  BY <1>2, <1>3 DEF None

LEMMA NoneCat ==
  ASSUME NEW S, NEW q \in Seq(S), NEW r \in Seq(S), NEW K
  PROVE  None(q \o r, K) <=> None(q, K) /\ None(r, K)
<1>1. /\ DOMAIN q = 1 .. Len(q) /\ Len(q) \in Nat /\ DOMAIN r = 1 .. Len(r) /\ Len(r) \in Nat
      /\ DOMAIN (q \o r) = 1 .. Len(q) + Len(r)
      /\ \A i \in 1 .. Len(q) + Len(r) : (q \o r)[i] = IF i <= Len(q) THEN q[i] ELSE r[i - Len(q)]
  OBVIOUS
<1>2. ASSUME None(q, K), None(r, K), NEW i \in 1 .. Len(q) + Len(r)
      PROVE  (q \o r)[i] \notin K
  <2>1. CASE i <= Len(q)
    BY <1>1, <1>2, <2>1 DEF None
  <2>2. CASE ~(i <= Len(q))
    <3>1. i - Len(q) \in DOMAIN r
      BY <1>1, <2>2
    <3> QED
      BY <1>1, <1>2, <2>2, <3>1 DEF None
  <2> QED
    BY <2>1, <2>2
<1>3. ASSUME None(q \o r, K), NEW i \in DOMAIN q PROVE q[i] \notin K
  BY <1>1, <1>3 DEF None
<1>4. ASSUME None(q \o r, K), NEW i \in DOMAIN r PROVE r[i] \notin K
  <2>1. i + Len(q) \in 1 .. Len(q) + Len(r) /\ (q \o r)[i + Len(q)] = r[i]
    BY <1>1, <1>4
  <2> QED
    BY <1>1, <1>4, <2>1 DEF None
<1> QED
  BY <1>1, <1>2, <1>3, <1>4 DEF None

LEMMA OnceAppend ==
  ASSUME NEW S, NEW q \in Seq(S), NEW m \in S, NEW K, Once(q, K), m \notin K \/ None(q, K)
  PROVE  Once(Append(q, m), K)
BY AppendFacts DEF None, Once

LEMMA OnceTail ==
  ASSUME NEW S, NEW q \in Seq(S), q # <<>>, NEW K, Once(q, K)
  PROVE  Once(Tail(q), K) /\ (Head(q) \in K => None(Tail(q), K))
<1>1. /\ Head(q) = q[1] /\ 1 \in DOMAIN q
      /\ \A i \in DOMAIN Tail(q) : i \in Nat \ {0} /\ i + 1 \in DOMAIN q /\ Tail(q)[i] = q[i + 1]
  BY TailFacts
<1>2. ASSUME NEW i \in DOMAIN Tail(q), NEW j \in DOMAIN Tail(q), Tail(q)[i] \in K, Tail(q)[j] \in K
      PROVE  i = j
  <2>1. i + 1 = j + 1
    BY <1>1, <1>2 DEF Once
  <2> QED
    BY <2>1, <1>1
<1>3. ASSUME Head(q) \in K, NEW i \in DOMAIN Tail(q) PROVE Tail(q)[i] \notin K
  <2>1. i + 1 # 1
    BY <1>1
  <2> QED
    BY <2>1, <1>1, <1>3 DEF Once
<1> QED
  BY <1>2, <1>3 DEF Once, None

LEMMA OnceCat ==
  ASSUME NEW S, NEW q \in Seq(S), NEW r \in Seq(S), NEW K, Once(q, K), None(r, K)
  PROVE  Once(q \o r, K)
<1>1. /\ DOMAIN q = 1 .. Len(q) /\ Len(q) \in Nat /\ DOMAIN r = 1 .. Len(r) /\ Len(r) \in Nat
      /\ DOMAIN (q \o r) = 1 .. Len(q) + Len(r)
      /\ \A i \in 1 .. Len(q) + Len(r) : (q \o r)[i] = IF i <= Len(q) THEN q[i] ELSE r[i - Len(q)]
  OBVIOUS
<1>2. ASSUME NEW i \in 1 .. Len(q) + Len(r), (q \o r)[i] \in K
      PROVE  i \in DOMAIN q /\ q[i] \in K
  <2>1. CASE i <= Len(q)
    BY <1>1, <1>2, <2>1
  <2>2. CASE ~(i <= Len(q))
    <3>1. i - Len(q) \in DOMAIN r
      BY <1>1, <2>2
    <3> QED
      BY <1>1, <1>2, <2>2, <3>1 DEF None
  <2> QED
    BY <2>1, <2>2
<1> QED
  BY <1>1, <1>2 DEF Once

LEMMA BeforeAppend ==
  ASSUME NEW S, NEW q \in Seq(S), NEW m \in S, NEW L, NEW K, Before(q, L, K),
         m \notin L \/ (None(q, K) /\ m \notin K)
  PROVE  Before(Append(q, m), L, K)
<1>1. /\ DOMAIN q = 1 .. Len(q) /\ Len(q) \in Nat
      /\ DOMAIN Append(q, m) = DOMAIN q \cup {Len(q) + 1}
      /\ Append(q, m)[Len(q) + 1] = m
      /\ \A i \in DOMAIN q : Append(q, m)[i] = q[i]
  BY AppendFacts
<1>2. ASSUME NEW i \in DOMAIN Append(q, m), NEW j \in DOMAIN Append(q, m),
             Append(q, m)[i] \in L, Append(q, m)[j] \in K
      PROVE  i < j
  <2>1. CASE m \notin L
    <3>1. i \in DOMAIN q /\ q[i] \in L
      BY <1>1, <1>2, <2>1
    <3>2. CASE j = Len(q) + 1
      BY <1>1, <3>1, <3>2
    <3>3. CASE j # Len(q) + 1
      BY <1>1, <1>2, <3>1, <3>3 DEF Before
    <3> QED
      BY <3>2, <3>3
  <2>2. CASE None(q, K) /\ m \notin K
    BY <1>1, <1>2, <2>2 DEF None
  <2> QED
    BY <2>1, <2>2
<1> QED
  BY <1>2 DEF Before

LEMMA BeforeTail ==
  ASSUME NEW S, NEW q \in Seq(S), q # <<>>, NEW L, NEW K, Before(q, L, K)
  PROVE  Before(Tail(q), L, K) /\ (Head(q) \in K => None(Tail(q), L))
<1>1. /\ Head(q) = q[1] /\ 1 \in DOMAIN q
      /\ \A i \in DOMAIN Tail(q) : i \in Nat \ {0} /\ i + 1 \in DOMAIN q /\ Tail(q)[i] = q[i + 1]
  BY TailFacts
<1>2. ASSUME NEW i \in DOMAIN Tail(q), NEW j \in DOMAIN Tail(q), Tail(q)[i] \in L, Tail(q)[j] \in K
      PROVE  i < j
  <2>1. i + 1 < j + 1
    BY <1>1, <1>2 DEF Before
  <2> QED
    BY <2>1, <1>1
<1>3. ASSUME Head(q) \in K, NEW i \in DOMAIN Tail(q) PROVE Tail(q)[i] \notin L
  <2>1. ~(i + 1 < 1)
    BY <1>1
  <2> QED
    BY <2>1, <1>1, <1>3 DEF Before
<1> QED
  BY <1>2, <1>3 DEF Before, None

LEMMA BeforeCat ==
  ASSUME NEW S, NEW q \in Seq(S), NEW r \in Seq(S), NEW L, NEW K, Before(q, L, K),
         None(r, L), None(r, K)
  PROVE  Before(q \o r, L, K)
<1>1. /\ DOMAIN q = 1 .. Len(q) /\ Len(q) \in Nat /\ DOMAIN r = 1 .. Len(r) /\ Len(r) \in Nat
      /\ DOMAIN (q \o r) = 1 .. Len(q) + Len(r)
      /\ \A i \in 1 .. Len(q) + Len(r) : (q \o r)[i] = IF i <= Len(q) THEN q[i] ELSE r[i - Len(q)]
  OBVIOUS
<1>2. ASSUME NEW i \in 1 .. Len(q) + Len(r), (q \o r)[i] \in L \cup K
      PROVE  i \in DOMAIN q /\ q[i] = (q \o r)[i]
  <2>1. CASE i <= Len(q)
    BY <1>1, <1>2, <2>1
  <2>2. CASE ~(i <= Len(q))
    <3>1. i - Len(q) \in DOMAIN r
      BY <1>1, <2>2
    <3> QED
      BY <1>1, <1>2, <2>2, <3>1 DEF None
  <2> QED
    BY <2>1, <2>2
<1> QED
  BY <1>1, <1>2 DEF Before

\* From q to r, the queue loses its head or gains messages, none of K.
Skips(q, r, K) ==
  \/ r = q
  \/ q # <<>> /\ Head(q) \notin K /\ r = Tail(q)
  \/ \E m : m \notin K /\ r = Append(q, m)
  \/ \E ms : None(ms, K) /\ ms \in Seq(Telling) /\ r = q \o ms

\* From q to r, no message of M is new.
Dwindles(q, r, M) ==
  /\ \A K \in SUBSET M : None(q, K) => None(r, K)
  /\ Once(q, M) => Once(r, M)

LEMMA NoneLess ==
  ASSUME NEW q, NEW L, NEW K \in SUBSET L, None(q, L)
  PROVE  None(q, K)
BY DEF None

LEMMA NoneBefore ==
  ASSUME NEW q, NEW L, NEW K, None(q, L) \/ None(q, K)
  PROVE  Before(q, L, K)
BY DEF None, Before

LEMMA NoneOnce ==
  ASSUME NEW q, NEW K, None(q, K)
  PROVE  Once(q, K)
BY DEF None, Once

LEMMA SkipsLess ==
  ASSUME NEW q, NEW r, NEW M, NEW K \in SUBSET M, Skips(q, r, M)
  PROVE  Skips(q, r, K)
BY DEF Skips, None

LEMMA SkipsKeeps ==
  ASSUME NEW S, NEW q \in Seq(S), NEW r \in Seq(S), NEW M, Skips(q, r, M),
         NEW L \in SUBSET M, NEW K \in SUBSET M
  PROVE  /\ None(r, K) <=> None(q, K)
         /\ Once(q, K) => Once(r, K)
         /\ Before(q, L, K) => Before(r, L, K)
<1>1. CASE q # <<>> /\ Head(q) \notin M /\ r = Tail(q)
  BY <1>1, NoneTail, OnceTail, BeforeTail
<1>2. ASSUME NEW m, m \notin M, r = Append(q, m)
      PROVE  /\ None(r, K) <=> None(q, K)
             /\ Once(q, K) => Once(r, K)
             /\ Before(q, L, K) => Before(r, L, K)
  <2>1. m \in S
    <3>1. r[Len(q) + 1] = m /\ Len(q) + 1 \in DOMAIN r
      BY <1>2
    <3> QED
      BY <3>1
  <2>2. m \notin K /\ m \notin L
    BY <1>2
  <2> QED
    BY <2>1, <2>2, <1>2, NoneAppend, OnceAppend, BeforeAppend
<1>3. ASSUME NEW ms, None(ms, M), ms \in Seq(Telling), r = q \o ms
      PROVE  /\ None(r, K) <=> None(q, K)
             /\ Once(q, K) => Once(r, K)
             /\ Before(q, L, K) => Before(r, L, K)
  <2>1. ms \in Seq(S) /\ None(ms, K) /\ None(ms, L)
    <3>1. ms \in Seq(S)
      <4>1. ASSUME NEW i \in 1 .. Len(ms) PROVE ms[i] \in S
        <5>1. Len(q) + i \in 1 .. Len(r) /\ r[Len(q) + i] = ms[i]
          BY <1>3, <4>1
        <5> QED
          BY <5>1
      <4> QED
        BY <1>3, <4>1
    <3> QED
      BY <1>3, <3>1, NoneLess
  <2> QED
    BY <2>1, <1>3, NoneCat, OnceCat, BeforeCat
<1> QED
  BY <1>1, <1>2, <1>3 DEF Skips

LEMMA SkipsDwindle ==
  ASSUME NEW S, NEW q \in Seq(S), NEW r \in Seq(S), NEW M, Skips(q, r, M),
         NEW L \in SUBSET M
  PROVE  Dwindles(q, r, L)
<1>1. \A K \in SUBSET L : None(q, K) => None(r, K)
  <2> SUFFICES ASSUME NEW K \in SUBSET L PROVE None(q, K) => None(r, K)
    OBVIOUS
  <2>1. K \in SUBSET M
    OBVIOUS
  <2> QED
    BY <2>1, SkipsKeeps
<1>2. Once(q, L) => Once(r, L)
  BY SkipsKeeps
<1> QED
  BY <1>1, <1>2 DEF Dwindles

----------------------------------------------------------------------------
\* The messages that bear p to a zone, that p's client sent, that take p out, and
\* that hand p over, those included that the zone itself would get.
Bears(p) == {Join(p)} \cup {Spawn(p, x) : x \in Int}
Asks(p) == {Move(p, dx) : dx \in Step}
Goes(p) == {Leave(p)}
Hands(p) == {Migrate(p, x) : x \in Spot}
Vain(z, p) == {Migrate(p, x) : x \in {v \in Spot : Owns(Start[z], v)}}
Mine(p) == Bears(p) \cup Asks(p) \cup Goes(p) \cup Hands(p)

\* Where p is, with respect to the zone z: simulated, on its way to it, sent
\* away by it, or in the hands of its listener before and after the target is
\* told; and whether the handler of z has it half moved.
Held(z, p) == ents[z][p] # Nowhere
Due(z, p) == ~None(down[z], Bears(p))
Sent(z, p) == ~None(up[z], Hands(p))
Handed(z, p) == hand[z].stage = "send" /\ hand[z].who = p
Busy(z, p) == hand[z].stage \in {"note", "follow"} /\ hand[z].who = p
Stepping(z, p) == doing[z].stage = "step" /\ doing[z].who = p
At(z, p) == Held(z, p) \/ Due(z, p) \/ Sent(z, p) \/ Handed(z, p)

\* The autoscaler rests: the zones of the start, each with its region.
Still ==
  /\ splits = 0 /\ merges = 0 /\ scaler = Resting
  /\ zones = Start /\ alive = DOMAIN Start
  /\ \A z \in DOMAIN Start : region[z] = Start[z]
  /\ \A z \in Zone : \A i \in DOMAIN down[z] : down[z][i].kind \notin {"set_region", "shutdown"}

\* In one place, ...
One(p) ==
  /\ \A y, z \in Zone : At(y, p) /\ At(z, p) => y = z
  /\ \A z \in Zone :
       /\ Held(z, p) => ~Due(z, p) /\ ~Sent(z, p) /\ ~Handed(z, p)
       /\ Due(z, p) => ~Sent(z, p) /\ ~Handed(z, p)
       /\ Sent(z, p) => ~Handed(z, p)
       /\ Once(down[z], Bears(p)) /\ Once(up[z], Hands(p))

\* ... at the point where the simulation last put it, unless it died half moved, ...
Exact(p) ==
  p \notin undone => \A z \in Zone :
    /\ Held(z, p) => ents[z][p] = pos[p]
    /\ Stepping(z, p) => doing[z].x = pos[p]
    /\ None(down[z], Bears(p) \ {Join(p), Spawn(p, pos[p])})
    /\ None(down[z], {Spawn(p, Nowhere)})
    /\ None(up[z], Hands(p) \ {Migrate(p, pos[p])})
    /\ Handed(z, p) => hand[z].x = pos[p]

\* ... and as long as the client has not followed it, none of the client's moves
\* can reach it: they go to the zone it left, or are read before it arrives.
Crossing(p) ==
  /\ \A y, z \in Zone : Busy(y, p) /\ Busy(z, p) => y = z
  /\ \A y \in Zone : Busy(y, p) =>
       /\ \A z \in Zone : At(z, p) => z = hand[y].to /\ ~Sent(z, p) /\ ~Handed(z, p)
       /\ \A z \in Zone : ~Stepping(z, p)
       /\ hand[y].to \in DOMAIN Start /\ clients[p] # hand[y].to
       /\ Held(hand[y].to, p) => None(down[hand[y].to], Asks(p))
       /\ Before(down[hand[y].to], Asks(p), Bears(p)) /\ None(down[hand[y].to], {Join(p)})

\* Otherwise the client is routed to the zone p is in, or is leaving.
Routed(p) ==
  clients[p] # NoZone => \A z \in Zone : At(z, p) => clients[p] = z \/ \E y \in Zone : Busy(y, p)

\* Who is sent away does not come back to the same zone.
Outward(p) ==
  \A z \in Zone :
    /\ None(up[z], Vain(z, p))
    /\ Handed(z, p) => hand[z].to \in DOMAIN Start /\ hand[z].to # z

Placed(p) == One(p) /\ Exact(p) /\ Crossing(p) /\ Routed(p) /\ Outward(p)

Somewhere(p) == Online(p) => \E z \in Zone : At(z, p)

\* One session of p at a time is between its entry and its farewell, ...
Single(p) ==
  \A s, t \in Socket : Owner[s] = p /\ Owner[t] = p /\ pc[s] \in Active /\ pc[t] \in Active => s = t

\* ... nothing of p is there when it enters, ...
NotYet(p) ==
  \A s \in Socket : Owner[s] = p /\ pc[s] = "entered" => \A z \in Zone : ~At(z, p) /\ ~Busy(z, p)

\* ... and no farewell of an earlier session, ...
Leaving(p) ==
  \A z \in Zone : ~None(down[z], Goes(p)) =>
    \A s \in Socket : Owner[s] = p => pc[s] \notin Active

\* ... and it is routed to a zone of the map.
Entering(p) ==
  \A s \in Socket : Owner[s] = p =>
    /\ pc[s] \in {"admitted", "entered"} => at[s] \in DOMAIN Start
    /\ pc[s] = "entered" => clients[p] = at[s]
    /\ pc[s] \in {"online", "closing"} => clients[p] \in DOMAIN Start

Served(p) == Somewhere(p) /\ Single(p) /\ NotYet(p) /\ Leaving(p) /\ Entering(p)

LEMMA MineKinds ==
  ASSUME NEW p \in Player
  PROVE  /\ Bears(p) \in SUBSET Mine(p) /\ Bears(p) \cup Asks(p) \in SUBSET Mine(p)
         /\ Asks(p) \in SUBSET Mine(p) /\ Goes(p) \in SUBSET Mine(p) /\ Hands(p) \in SUBSET Mine(p)
         /\ \A z : Vain(z, p) \in SUBSET Hands(p)
         /\ \A m \in Mine(p) : m.who = p /\ m.kind # "status_update"
         /\ \A m \in Bears(p) : m.kind \in {"player_join", "spawn_entity"}
         /\ \A m \in Asks(p) : m.kind = "move"
         /\ \A m \in Goes(p) : m.kind = "player_leave"
         /\ \A m \in Hands(p) : m.kind = "migrate_request"
BY DEF Mine, Bears, Asks, Goes, Hands, Vain, Join, Spawn, Move, Leave, Migrate

LEMMA LetterOfMine ==
  ASSUME NEW p \in Player, NEW m \in Letter, m.who = p
  PROVE  /\ m.kind \in {"player_join", "spawn_entity"} => m \in Bears(p)
         /\ m.kind = "move" => m \in Asks(p)
         /\ m.kind = "player_leave" => m \in Goes(p)
BY LetterOut DEF Bears, Asks, Goes

LEMMA WordOfMine ==
  ASSUME NEW p \in Player, NEW m \in Word, m.who = p, m.kind = "migrate_request"
  PROVE  m \in Hands(p)
BY WordOut DEF Hands

LEMMA KindsApart ==
  ASSUME NEW p \in Player
  PROVE  /\ Asks(p) \cap Bears(p) = {} /\ Goes(p) \cap (Asks(p) \cup Bears(p)) = {}
         /\ Join(p) \in Bears(p) /\ (\A x \in Int : Spawn(p, x) \in Bears(p))
         /\ Leave(p) \in Goes(p) /\ (\A dx \in Step : Move(p, dx) \in Asks(p))
         /\ \A x \in Spot : Migrate(p, x) \in Hands(p)
BY DEF Bears, Asks, Goes, Hands, Join, Spawn, Move, Leave, Migrate

\* A message of another player is none of p's, nor is a report.
LEMMA NotMine ==
  ASSUME NEW p \in Player
  PROVE  /\ \A m : m.who # p => m \notin Mine(p)
         /\ \A m \in Telling : m \notin Mine(p)
         /\ \A ms \in Seq(Telling) : None(ms, Mine(p))
<1>1. \A m : m.who # p => m \notin Mine(p)
  BY MineKinds
<1>2. \A m \in Telling : m \notin Mine(p)
  BY MineKinds DEF Telling, Status
<1> QED
  BY <1>1, <1>2 DEF None

----------------------------------------------------------------------------
\* A step that brings nothing new of p.

Foreign(h, p) == h.stage = "free" \/ h.who # p

\* What there is of p, its entity, its messages, its handoffs, stays or goes; what p
\* asks of a zone may change where it is not about to arrive.
Fades(p) ==
  /\ \A z \in Zone :
       /\ ents'[z][p] \in {ents[z][p], Nowhere}
       /\ Stepping(z, p)' => Stepping(z, p) /\ doing'[z] = doing[z]
       /\ Handed(z, p)' => Handed(z, p) /\ hand'[z] = hand[z]
       /\ Busy(z, p)' <=> Busy(z, p)
       /\ Busy(z, p) => hand'[z].to = hand[z].to
       /\ Dwindles(down[z], down'[z], Bears(p))
       /\ Dwindles(up[z], up'[z], Hands(p))
       /\ \/ /\ None(down[z], Asks(p)) => None(down'[z], Asks(p))
             /\ Before(down[z], Asks(p), Bears(p)) => Before(down'[z], Asks(p), Bears(p))
          \/ \A y \in Zone : Busy(y, p) => hand[y].to # z
  /\ pos'[p] = pos[p] /\ (p \in undone => p \in undone')

LEMMA Faded ==
  ASSUME NEW p \in Player, Fades(p), NEW z \in Zone
  PROVE  /\ Held(z, p)' => Held(z, p) /\ ents'[z][p] = ents[z][p]
         /\ Due(z, p)' => Due(z, p)
         /\ Sent(z, p)' => Sent(z, p)
         /\ Stepping(z, p)' => Stepping(z, p) /\ doing'[z] = doing[z]
         /\ Handed(z, p)' => Handed(z, p) /\ hand'[z] = hand[z]
         /\ Busy(z, p)' <=> Busy(z, p)
         /\ Busy(z, p) => hand'[z].to = hand[z].to
         /\ At(z, p)' => At(z, p)
         /\ \A K \in SUBSET Bears(p) : None(down[z], K) => None(down'[z], K)
         /\ \A K \in SUBSET Hands(p) : None(up[z], K) => None(up'[z], K)
<1>1. Held(z, p)' => Held(z, p) /\ ents'[z][p] = ents[z][p]
  BY DEF Held, Fades
<1>2. /\ \A K \in SUBSET Bears(p) : None(down[z], K) => None(down'[z], K)
      /\ \A K \in SUBSET Hands(p) : None(up[z], K) => None(up'[z], K)
  BY DEF Fades, Dwindles
<1>3. (Due(z, p)' => Due(z, p)) /\ (Sent(z, p)' => Sent(z, p))
  BY <1>2 DEF Due, Sent
<1>4. /\ Stepping(z, p)' => Stepping(z, p) /\ doing'[z] = doing[z]
      /\ Handed(z, p)' => Handed(z, p) /\ hand'[z] = hand[z]
      /\ Busy(z, p)' <=> Busy(z, p)
      /\ Busy(z, p) => hand'[z].to = hand[z].to
  BY DEF Fades
<1> QED
  BY <1>1, <1>2, <1>3, <1>4 DEF At

LEMMA PlaceKept ==
  ASSUME NEW p \in Player, Fades(p), Placed(p),
         \/ clients'[p] \in {clients[p], NoZone}
         \/ \A z \in Zone : ~At(z, p) /\ ~Busy(z, p)
  PROVE  Placed(p)'
<1>1. ASSUME NEW z \in Zone
      PROVE  /\ Held(z, p)' => Held(z, p) /\ ents'[z][p] = ents[z][p]
             /\ Due(z, p)' => Due(z, p)
             /\ Sent(z, p)' => Sent(z, p)
             /\ Stepping(z, p)' => Stepping(z, p) /\ doing'[z] = doing[z]
             /\ Handed(z, p)' => Handed(z, p) /\ hand'[z] = hand[z]
             /\ Busy(z, p)' <=> Busy(z, p)
             /\ Busy(z, p) => hand'[z].to = hand[z].to
             /\ At(z, p)' => At(z, p)
  BY Faded
<1>2. ASSUME NEW z \in Zone
      PROVE  /\ \A K \in SUBSET Bears(p) : None(down[z], K) => None(down'[z], K)
             /\ \A K \in SUBSET Hands(p) : None(up[z], K) => None(up'[z], K)
             /\ Once(down[z], Bears(p)) => Once(down'[z], Bears(p))
             /\ Once(up[z], Hands(p)) => Once(up'[z], Hands(p))
  BY DEF Fades, Dwindles
<1>3. pos'[p] = pos[p] /\ (p \in undone => p \in undone')
  BY DEF Fades
<1>4. One(p)'
  BY <1>1, <1>2 DEF Placed, One
<1>5. Exact(p)'
  <2> SUFFICES ASSUME p \notin undone', NEW z \in Zone
               PROVE  /\ Held(z, p)' => ents'[z][p] = pos'[p]
                      /\ Stepping(z, p)' => doing'[z].x = pos'[p]
                      /\ None(down'[z], Bears(p) \ {Join(p), Spawn(p, pos'[p])})
                      /\ None(down'[z], {Spawn(p, Nowhere)})
                      /\ None(up'[z], Hands(p) \ {Migrate(p, pos'[p])})
                      /\ Handed(z, p)' => hand'[z].x = pos'[p]
    BY DEF Exact
  <2>1. /\ Held(z, p) => ents[z][p] = pos[p]
        /\ Stepping(z, p) => doing[z].x = pos[p]
        /\ None(down[z], Bears(p) \ {Join(p), Spawn(p, pos[p])})
        /\ None(down[z], {Spawn(p, Nowhere)})
        /\ None(up[z], Hands(p) \ {Migrate(p, pos[p])})
        /\ Handed(z, p) => hand[z].x = pos[p]
    BY <1>3 DEF Placed, Exact
  <2>2. /\ Bears(p) \ {Join(p), Spawn(p, pos[p])} \in SUBSET Bears(p)
        /\ {Spawn(p, Nowhere)} \in SUBSET Bears(p)
        /\ Hands(p) \ {Migrate(p, pos[p])} \in SUBSET Hands(p)
    BY KindsApart DEF Nowhere
  <2>3. /\ None(down'[z], Bears(p) \ {Join(p), Spawn(p, pos'[p])})
        /\ None(down'[z], {Spawn(p, Nowhere)})
        /\ None(up'[z], Hands(p) \ {Migrate(p, pos'[p])})
    BY <1>2, <1>3, <2>1, <2>2
  <2> QED
    BY <1>1, <1>3, <2>1, <2>3
<1>6. Crossing(p)'
  <2>1. ASSUME NEW y \in Zone, Busy(y, p)'
        PROVE  /\ \A z \in Zone : At(z, p)' => z = hand'[y].to /\ ~Sent(z, p)' /\ ~Handed(z, p)'
               /\ \A z \in Zone : ~Stepping(z, p)'
               /\ hand'[y].to \in DOMAIN Start /\ clients'[p] # hand'[y].to
               /\ ents'[hand'[y].to][p] # Nowhere => None(down'[hand'[y].to], Asks(p))
               /\ Before(down'[hand'[y].to], Asks(p), Bears(p))
               /\ None(down'[hand'[y].to], {Join(p)})
    <3> DEFINE t == hand[y].to
    <3>1. Busy(y, p) /\ hand'[y].to = t
      BY <1>1, <2>1
    <3>2. /\ \A z \in Zone : At(z, p) => z = t /\ ~Sent(z, p) /\ ~Handed(z, p)
          /\ \A z \in Zone : ~Stepping(z, p)
          /\ t \in DOMAIN Start /\ clients[p] # t
          /\ Held(t, p) => None(down[t], Asks(p))
          /\ Before(down[t], Asks(p), Bears(p)) /\ None(down[t], {Join(p)})
      BY <3>1 DEF Placed, Crossing
    <3>3. t \in Zone /\ t # NoZone
      BY <3>2, HandoffAssumption
    <3>4. /\ None(down[t], Asks(p)) => None(down'[t], Asks(p))
          /\ Before(down[t], Asks(p), Bears(p)) => Before(down'[t], Asks(p), Bears(p))
      BY <3>1, <3>3 DEF Fades
    <3>5. {Join(p)} \in SUBSET Bears(p)
      BY KindsApart
    <3> HIDE DEF t
    <3>6. None(down'[t], {Join(p)})
      BY <1>2, <3>2, <3>3, <3>5
    <3>7. ents'[t][p] # Nowhere => Held(t, p)
      BY <1>1, <3>3 DEF Held
    <3>8. clients'[p] # t
      BY <3>1, <3>2, <3>3
    <3> QED
      BY <1>1, <3>1, <3>2, <3>4, <3>6, <3>7, <3>8
  <2>2. \A x, y \in Zone : Busy(x, p)' /\ Busy(y, p)' => x = y
    BY <1>1 DEF Placed, Crossing
  <2> QED
    BY <2>1, <2>2 DEF Crossing, Held
<1>7. Routed(p)'
  BY <1>1 DEF Placed, Routed
<1>8. Outward(p)'
  <2>1. ASSUME NEW z \in Zone PROVE None(up'[z], Vain(z, p))
    BY <1>2, MineKinds DEF Placed, Outward
  <2> QED
    BY <1>1, <2>1 DEF Placed, Outward
<1> QED
  BY <1>4, <1>5, <1>6, <1>7, <1>8 DEF Placed

\* What p's sessions rely on, when they take no step.
LEMMA ServiceKept ==
  ASSUME NEW p \in Player, Served(p),
         (\A z \in Zone : ~At(z, p) /\ ~Busy(z, p)) => \A z \in Zone : ~At(z, p)' /\ ~Busy(z, p)',
         Online(p) /\ (\E z \in Zone : At(z, p)) => \E z \in Zone : At(z, p)',
         \A z \in Zone : None(down[z], Goes(p)) => None(down'[z], Goes(p)),
         \/ clients'[p] = clients[p]
         \/ clients'[p] \in DOMAIN Start /\ \E z \in Zone : Busy(z, p),
         \A s \in Socket : Owner[s] = p => pc'[s] = pc[s] /\ at'[s] = at[s]
  PROVE  Served(p)'
<1>1. Online(p)' <=> Online(p)
  BY DEF Online
<1>2. Somewhere(p)' /\ Single(p)'
  BY <1>1 DEF Served, Somewhere, Single
<1>3. NotYet(p)'
  BY DEF Served, NotYet
<1>4. Leaving(p)'
  BY DEF Served, Leaving
<1>5. Entering(p)'
  BY DEF Served, Entering, NotYet
<1> QED
  BY <1>2, <1>3, <1>4, <1>5 DEF Served

LEMMA Bystander ==
  ASSUME Sound, Sound', NEW p \in Player, Placed(p), Served(p),
         \A z \in Zone : ents'[z][p] = ents[z][p],
         \A z \in Zone : Stepping(z, p)' => doing'[z] = doing[z],
         \A z \in Zone : hand'[z] = hand[z] \/ (Foreign(hand[z], p) /\ Foreign(hand'[z], p)),
         \A z \in Zone : Skips(down[z], down'[z], Mine(p)) /\ Skips(up[z], up'[z], Mine(p)),
         pos'[p] = pos[p], p \in undone => p \in undone', clients'[p] = clients[p],
         \A s \in Socket : Owner[s] = p => pc'[s] = pc[s] /\ at'[s] = at[s]
  PROVE  Placed(p)' /\ Served(p)'
<1>1. /\ Bears(p) \in SUBSET Mine(p) /\ Asks(p) \in SUBSET Mine(p)
      /\ Goes(p) \in SUBSET Mine(p) /\ Hands(p) \in SUBSET Mine(p)
  BY MineKinds
<1>2. ASSUME NEW z \in Zone
      PROVE  /\ Dwindles(down[z], down'[z], Bears(p)) /\ Dwindles(up[z], up'[z], Hands(p))
             /\ None(down'[z], Bears(p)) <=> None(down[z], Bears(p))
             /\ None(down'[z], Goes(p)) <=> None(down[z], Goes(p))
             /\ None(up'[z], Hands(p)) <=> None(up[z], Hands(p))
             /\ None(down[z], Asks(p)) => None(down'[z], Asks(p))
             /\ Before(down[z], Asks(p), Bears(p)) => Before(down'[z], Asks(p), Bears(p))
  <2>1. /\ down[z] \in Seq(Letter) /\ down'[z] \in Seq(Letter)
        /\ up[z] \in Seq(Word) /\ up'[z] \in Seq(Word)
        /\ Skips(down[z], down'[z], Mine(p)) /\ Skips(up[z], up'[z], Mine(p))
    BY DEF Sound, Typed
  <2>2. Dwindles(down[z], down'[z], Bears(p)) /\ Dwindles(up[z], up'[z], Hands(p))
    BY ONLY <1>1, <2>1, SkipsDwindle
  <2>3. /\ None(down'[z], Bears(p)) <=> None(down[z], Bears(p))
        /\ None(down'[z], Goes(p)) <=> None(down[z], Goes(p))
        /\ None(down[z], Asks(p)) => None(down'[z], Asks(p))
        /\ Before(down[z], Asks(p), Bears(p)) => Before(down'[z], Asks(p), Bears(p))
    BY ONLY <1>1, <2>1, SkipsKeeps
  <2>4. None(up'[z], Hands(p)) <=> None(up[z], Hands(p))
    BY ONLY <1>1, <2>1, SkipsKeeps
  <2> QED
    BY <2>2, <2>3, <2>4
<1>3. ASSUME NEW z \in Zone
      PROVE  /\ Held(z, p)' <=> Held(z, p)
             /\ Handed(z, p)' <=> Handed(z, p)
             /\ Busy(z, p)' <=> Busy(z, p)
             /\ Handed(z, p) \/ Busy(z, p) => hand'[z] = hand[z]
             /\ Stepping(z, p)' => Stepping(z, p)
             /\ At(z, p)' <=> At(z, p)
  <2>1. hand'[z] = hand[z] \/ (Foreign(hand[z], p) /\ Foreign(hand'[z], p))
    OBVIOUS
  <2>2. /\ Handed(z, p)' <=> Handed(z, p)
        /\ Busy(z, p)' <=> Busy(z, p)
        /\ Handed(z, p) \/ Busy(z, p) => hand'[z] = hand[z]
    BY <2>1 DEF Handed, Busy, Foreign
  <2>3. (Held(z, p)' <=> Held(z, p)) /\ (Stepping(z, p)' => Stepping(z, p))
    BY DEF Held, Stepping
  <2>4. (Due(z, p)' <=> Due(z, p)) /\ (Sent(z, p)' <=> Sent(z, p))
    BY <1>2 DEF Due, Sent
  <2> QED
    BY <2>2, <2>3, <2>4 DEF At
<1>4. Fades(p)
  BY <1>2, <1>3 DEF Fades
<1>5. Placed(p)'
  BY <1>4, PlaceKept
<1>6. Served(p)'
  BY <1>2, <1>3, ServiceKept
<1> QED
  BY <1>5, <1>6

----------------------------------------------------------------------------
\* The autoscaler keeps resting.

LEMMA SoundNext == Sound /\ [Next]_vars => Sound'
BY NextTyped, NextFleet, NextAbreast DEF Sound

LEMMA InitStill == Init => Still
BY HandoffAssumption DEF Init, Still

LEMMA NoScaler ==
  ASSUME MaxMerges = 0, MaxSplits = 0, Still
  PROVE  ~Scaler
<1>1. scaler.stage = "rest" /\ splits = MaxSplits /\ merges = MaxMerges
  BY DEF Still, Resting
<1> QED
  BY <1>1 DEF Scaler, SplitBegin, MergeBegin, LaunchFails, Register, Shrink, SplitEnd, Swap,
              Tell, Retire, Resettle, Repoint

\* A player half moved is in the zone.
LEMMA SteppingHeld ==
  ASSUME Abreast, NEW p \in Player, NEW z \in Zone, Stepping(z, p)
  PROVE  Held(z, p)
BY DEF Abreast, Stepping, Held, Resting

\* What the processes do while the autoscaler rests.
LEMMA StillSteps ==
  ASSUME Sound, Still, NEW z \in Zone, Process(z)
  PROVE  \/ Joined(z) \/ Left(z) \/ Moved(z) \/ Stepped(z) \/ Spawned(z)
         \/ Woke(z) \/ Ticked(z) \/ Flushed(z)
<1>1. down[z] # <<>> => Head(down[z]) = down[z][1] /\ 1 \in DOMAIN down[z]
  BY DEF Sound, Typed
<1>2. ~Resized(z) /\ ~Exited(z)
  BY <1>1 DEF Still, Resized, Exited, Serves
<1> QED
  BY <1>2 DEF Process, Handler, Loop

LEMMA StillKept ==
  ASSUME StaticFleet, Sound, Still, [Next]_vars
  PROVE  Still'
<1> USE DEF gateway, processes, bounds, sessions
<1>1. ~Scaler
  BY NoScaler DEF StaticFleet
<1>2. ASSUME UNCHANGED <<splits, merges, scaler, zones, alive, region>>,
             \A z \in Zone : Mute(z)
      PROVE  Still'
  <2>1. ASSUME NEW z \in Zone, NEW i \in DOMAIN down'[z]
        PROVE  down'[z][i].kind \notin {"set_region", "shutdown"}
    <3>1. \/ \E j \in DOMAIN down[z] : down'[z][i] = down[z][j]
          \/ down'[z][i].kind \notin {"set_region", "shutdown"}
      BY <1>2, <2>1, MuteFit DEF Sound
    <3> QED
      BY <3>1 DEF Still
  <2> QED
    BY <1>2, <2>1 DEF Still
<1>3. ASSUME NEW s \in Socket, Session(s) PROVE Still'
  <2>1. UNCHANGED <<splits, merges, scaler, zones, alive, region>>
    BY <1>3 DEF Session, Authenticate, Admit, Enter, Appear, Close, Forget, Save, TellLeave, Frame
  <2>2. \A z \in Zone : Mute(z)
    BY <1>3, SessionMute DEF Sound
  <2> QED
    BY <1>2, <2>1, <2>2
<1>4. ASSUME NEW z \in Zone, Process(z) PROVE Still'
  <2>1. CASE Joined(z) \/ Left(z) \/ Moved(z) \/ Spawned(z)
    <3>1. /\ UNCHANGED <<splits, merges, scaler, zones, alive, region>>
          /\ down' = Handled(z)
          /\ \E k \in {"player_join", "player_leave", "move", "spawn_entity"} : Serves(z, k)
      BY <2>1 DEF Joined, Left, Moved, Spawned
    <3>2. \A y \in Zone : Mute(y)
      BY <3>1, HandledIsMute DEF Sound
    <3> QED
      BY <1>2, <3>1, <3>2
  <2>2. CASE Stepped(z) \/ Woke(z) \/ Ticked(z) \/ Flushed(z)
    <3>1. UNCHANGED <<splits, merges, scaler, zones, alive, region, down>>
      BY <2>2 DEF Stepped, Woke, Ticked, Flushed
    <3> QED
      BY <1>2, <3>1, StillMute
  <2> QED
    BY <1>4, <2>1, <2>2, StillSteps
<1>5. ASSUME NEW z \in Zone, Listener(z) PROVE Still'
  <2>1. UNCHANGED <<splits, merges, scaler, zones, alive, region>>
    BY <1>5 DEF Listener, Report, Lookup, Send, Note, Follow
  <2>2. \A y \in Zone : Mute(y)
    BY <1>5, ListenerMute DEF Sound
  <2> QED
    BY <1>2, <2>1, <2>2
<1>6. CASE UNCHANGED vars
  BY <1>2, <1>6, StillMute DEF vars
<1> QED
  BY <1>1, <1>3, <1>4, <1>5, <1>6 DEF Next

----------------------------------------------------------------------------
\* The steps of a session.

LEMMA SessionBystander ==
  ASSUME Sound, Sound', NEW s \in Socket, Session(s),
         NEW p \in Player, p # Owner[s], Placed(p), Served(p)
  PROVE  Placed(p)' /\ Served(p)'
<1> USE DEF gateway, processes, bounds, sessions
<1> DEFINE o == Owner[s]
<1>0. o \in Player /\ o # p
  BY HandoffAssumption
<1>1. /\ UNCHANGED <<ents, hand, up, doing, undone>>
      /\ pos'[p] = pos[p] /\ clients'[p] = clients[p]
      /\ \A t \in Socket : Owner[t] = p => pc'[t] = pc[t] /\ at'[t] = at[t]
  <2>1. UNCHANGED <<ents, hand, up, doing, undone>>
    BY DEF Session, Authenticate, Admit, Enter, Appear, Close, Forget, Save, TellLeave, Frame
  <2>2. pos'[p] = pos[p] /\ clients'[p] = clients[p]
    <3>1. /\ pos' = pos \/ \E x : pos' = [pos EXCEPT ![o] = x]
          /\ clients' = clients \/ \E x : clients' = [clients EXCEPT ![o] = x]
      BY DEF Session, Authenticate, Admit, Enter, Appear, Close, Forget, Save, TellLeave, Frame
    <3> HIDE DEF o
    <3> QED
      BY <1>0, <3>1 DEF Sound, Typed
  <2>3. \A t \in Socket : Owner[t] = p => pc'[t] = pc[t] /\ at'[t] = at[t]
    <3>1. /\ pc' = pc \/ \E x : pc' = [pc EXCEPT ![s] = x]
          /\ at' = at \/ \E x : at' = [at EXCEPT ![s] = x]
      BY DEF Session, Authenticate, Admit, Enter, Appear, Close, Forget, Save, TellLeave, Frame
    <3>2. \A t \in Socket : Owner[t] = p => t # s
      BY <1>0
    <3> QED
      BY <3>1, <3>2 DEF Sound, Typed
  <2> QED
    BY <2>1, <2>2, <2>3
<1>2. \/ down' = down
      \/ \E y : \E m : m.who = o /\ down' = [down EXCEPT ![y] = Append(@, m)]
  <2>1. Join(o).who = o /\ Leave(o).who = o /\ (\A x : Spawn(o, x).who = o)
        /\ \A x : Move(o, x).who = o
    BY DEF Join, Leave, Spawn, Move
  <2>2. CASE Authenticate(s) \/ Admit(s) \/ Enter(s) \/ Close(s) \/ Forget(s) \/ Save(s)
    BY <2>2 DEF Authenticate, Admit, Enter, Close, Forget, Save
  <2>3. CASE Appear(s)
    <3>1. \/ down' = down
          \/ down' = [down EXCEPT ![at[s]] = Append(@, Join(o))]
          \/ down' = [down EXCEPT ![at[s]] = Append(@, Spawn(o, last[s]))]
      BY <2>3 DEF Appear
    <3> HIDE DEF o
    <3> QED
      BY <2>1, <3>1
  <2>4. CASE TellLeave(s)
    BY <2>1, <2>4 DEF TellLeave
  <2>5. CASE \E dx \in Step : Frame(s, dx)
    <3>1. PICK dx \in Step : down' = [down EXCEPT ![clients[o]] = Append(@, Move(o, dx))]
      BY <2>5 DEF Frame
    <3> HIDE DEF o
    <3> QED
      BY <2>1, <3>1
  <2> QED
    BY ONLY <2>2, <2>3, <2>4, <2>5, Session(s) DEF Session
<1>3. ASSUME NEW z \in Zone PROVE Skips(down[z], down'[z], Mine(p)) /\ Skips(up[z], up'[z], Mine(p))
  <2>1. Skips(up[z], up'[z], Mine(p))
    BY <1>1 DEF Skips
  <2>2. \A m : m.who = o => m \notin Mine(p)
    BY <1>0, NotMine
  <2>3. \/ down'[z] = down[z]
        \/ \E m : m.who = o /\ down'[z] = Append(down[z], m)
    <3>1. DOMAIN down = Zone
      BY DEF Sound, Typed
    <3> HIDE DEF o
    <3> QED
      BY <1>2, <3>1
  <2> QED
    BY <2>1, <2>2, <2>3 DEF Skips
<1> HIDE DEF o
<1> QED
  BY <1>1, <1>3, Bystander

\* What a login finds that finds no trace.
LEMMA Traceless ==
  ASSUME Sound, NEW p \in Player, NoTrace(p)
  PROVE  /\ \A s \in Socket : Owner[s] = p => pc[s] \notin Active
         /\ \A z \in Zone :
              /\ ~At(z, p) /\ ~Busy(z, p)
              /\ None(down[z], Bears(p)) /\ None(down[z], Goes(p)) /\ None(up[z], Hands(p))
<1>1. ASSUME NEW z \in Zone
      PROVE  /\ None(down[z], Bears(p)) /\ None(down[z], Goes(p)) /\ None(up[z], Hands(p))
             /\ ~Held(z, p) /\ ~Handed(z, p) /\ ~Busy(z, p)
  <2>1. ASSUME NEW i \in DOMAIN down[z] PROVE down[z][i] \notin Bears(p) /\ down[z][i] \notin Goes(p)
    <3>1. down[z][i].kind \in {"player_join", "player_leave", "spawn_entity"} => down[z][i].who # p
      BY DEF NoTrace
    <3>2. \A m \in Bears(p) \cup Goes(p) :
            m.who = p /\ m.kind \in {"player_join", "player_leave", "spawn_entity"}
      BY MineKinds
    <3> QED
      BY <3>1, <3>2
  <2>2. ASSUME NEW i \in DOMAIN up[z] PROVE up[z][i] \notin Hands(p)
    <3>1. up[z][i].kind = "migrate_request" => up[z][i].who # p
      BY DEF NoTrace
    <3> QED
      BY <3>1, MineKinds
  <2>3. ents[z][p] = Nowhere /\ (hand[z] # Free => hand[z].who # p)
    BY DEF NoTrace
  <2>4. ~Handed(z, p) /\ ~Busy(z, p)
    BY <2>3 DEF Handed, Busy, Free
  <2> QED
    BY <2>1, <2>2, <2>3, <2>4 DEF None, Held
<1>2. \A z \in Zone : ~At(z, p)
  BY <1>1 DEF At, Due, Sent
<1> QED
  BY <1>1, <1>2 DEF NoTrace

\* The session's own player, in the steps that send nothing.
LEMMA SessionInside ==
  ASSUME Still, Sound, Sound', NEW s \in Socket, NEW p \in Player, p = Owner[s],
         p \notin traced', Authenticate(s) \/ Admit(s) \/ Enter(s) \/ Close(s) \/ Forget(s) \/ Save(s),
         Placed(p), Served(p)
  PROVE  Placed(p)' /\ Served(p)'
<1> USE DEF gateway, processes, bounds, sessions
<1>0. /\ pc \in [Socket -> Stages] /\ at \in [Socket -> Zone \cup {NoZone}]
      /\ clients \in [Player -> Zone \cup {NoZone}]
      /\ DOMAIN Start \subseteq Zone /\ NoZone \notin Zone /\ DOMAIN zones = DOMAIN Start
  BY HandoffAssumption DEF Sound, Typed, Still
<1>1. /\ UNCHANGED <<ents, hand, up, down, pos, doing, undone>>
      /\ \A t \in Socket \ {s} : pc'[t] = pc[t] /\ at'[t] = at[t]
  <2>1. UNCHANGED <<ents, hand, up, down, pos, doing, undone>>
    BY DEF Authenticate, Admit, Enter, Close, Forget, Save
  <2>2. /\ pc' = pc \/ \E k : pc' = [pc EXCEPT ![s] = k]
        /\ at' = at \/ \E k : at' = [at EXCEPT ![s] = k]
    BY DEF Authenticate, Admit, Enter, Close, Forget, Save
  <2> QED
    BY <1>0, <2>1, <2>2
<1>2. Fades(p)
  <2>1. \A z \in Zone : /\ Handed(z, p)' <=> Handed(z, p)
                        /\ Busy(z, p)' <=> Busy(z, p)
                        /\ Stepping(z, p)' <=> Stepping(z, p)
    BY <1>1 DEF Handed, Busy, Stepping
  <2> QED
    BY <1>1, <2>1 DEF Fades, Dwindles
<1>3. ASSUME NEW z \in Zone
      PROVE  /\ At(z, p)' <=> At(z, p)
             /\ Busy(z, p)' <=> Busy(z, p)
             /\ None(down'[z], Goes(p)) <=> None(down[z], Goes(p))
  BY <1>1 DEF At, Busy, Held, Due, Sent, Handed
<1>4. CASE Enter(s)
  <2>1. pc[s] = "admitted" /\ pc'[s] = "entered" /\ clients'[p] = at[s] /\ at' = at
    BY <1>0, <1>4 DEF Enter
  <2>2. NoTrace(p)
    BY <1>4 DEF Enter
  <2>3. /\ \A t \in Socket : Owner[t] = p => pc[t] \notin Active
        /\ \A z \in Zone : ~At(z, p) /\ ~Busy(z, p) /\ None(down[z], Goes(p))
    BY <2>2, Traceless
  <2>4. Placed(p)'
    BY <1>2, <2>3, PlaceKept
  <2>5. \A t \in Socket : Owner[t] = p /\ pc'[t] \in Active => t = s
    BY <1>1, <2>3
  <2>6. Somewhere(p)' /\ Single(p)' /\ NotYet(p)' /\ Leaving(p)'
    <3>1. ~Online(p)'
      BY <2>1, <2>5 DEF Online, Active
    <3> QED
      BY <1>3, <2>3, <2>5, <3>1 DEF Somewhere, Single, NotYet, Leaving
  <2>7. Entering(p)'
    <3>1. at[s] \in DOMAIN Start
      BY <2>1 DEF Served, Entering
    <3>2. ASSUME NEW t \in Socket, Owner[t] = p, t # s
          PROVE  pc'[t] \notin Active /\ (pc'[t] = "admitted" => at'[t] \in DOMAIN Start)
      BY <1>1, <2>3, <3>2 DEF Served, Entering
    <3> QED
      BY <2>1, <3>1, <3>2 DEF Entering, Active
  <2> QED
    BY <2>4, <2>6, <2>7 DEF Served
<1>5. CASE Authenticate(s) \/ Admit(s)
  <2>1. /\ pc[s] \notin Active /\ pc'[s] \notin Active /\ clients' = clients
        /\ pc'[s] = "admitted" => at'[s] \in DOMAIN Start
    <3>1. Head(order) \in DOMAIN zones
      <4>1. order \in Seq(Zone) /\ order # <<>> /\ \A i \in DOMAIN order : order[i] \in DOMAIN zones
        BY DEF Sound, Typed, Fleet, Mapped, Ordered
      <4> QED
        BY <4>1
    <3>2. CASE Authenticate(s)
      BY <1>0, <3>2 DEF Authenticate, Active
    <3>3. CASE Admit(s) /\ clients[p] # NoZone
      BY <1>0, <3>3 DEF Admit, Active
    <3>4. CASE Admit(s) /\ clients[p] = NoZone
      <4>1. \E z \in DOMAIN zones : at' = [at EXCEPT ![s] = z]
        BY <3>1, <3>4 DEF Admit
      <4>2. at'[s] \in DOMAIN Start
        BY <1>0, <4>1
      <4>3. pc[s] = "authed" /\ pc'[s] = "admitted" /\ clients' = clients
        BY <1>0, <3>4 DEF Admit
      <4> QED
        BY <4>2, <4>3 DEF Active
    <3> QED
      BY <1>5, <3>2, <3>3, <3>4
  <2>2. \A t \in Socket : pc'[t] \in Active => pc[t] \in Active /\ t # s
    BY <1>1, <2>1
  <2>3. Placed(p)'
    BY <1>2, <2>1, PlaceKept
  <2>4. Single(p)' /\ NotYet(p)' /\ Leaving(p)' /\ Somewhere(p)'
    BY <1>1, <1>3, <2>2 DEF Served, Single, NotYet, Leaving, Somewhere, Online, Active
  <2>5. Entering(p)'
    BY <1>1, <2>1, <2>2 DEF Served, Entering, Active
  <2> QED
    BY <2>3, <2>4, <2>5 DEF Served
<1>6. CASE Close(s) \/ Forget(s) \/ Save(s)
  <2>1. /\ pc[s] \in Active
        /\ clients'[p] \in {clients[p], NoZone}
        /\ pc'[s] \in {"closing", "forgotten", "gone", "saved"}
        /\ pc'[s] = "closing" => pc[s] = "online" /\ clients' = clients
    BY <1>0, <1>6 DEF Close, Forget, Save, Active
  <2>2. \A t \in Socket : Owner[t] = p /\ pc[t] \in Active => t = s
    BY <2>1 DEF Served, Single
  <2>3. \A t \in Socket : Owner[t] = p /\ pc'[t] \in Active => t = s
    BY <1>1, <2>2
  <2>4. Placed(p)'
    BY <1>2, <2>1, PlaceKept
  <2>5. Single(p)' /\ NotYet(p)' /\ Leaving(p)' /\ Somewhere(p)'
    <3>1. ~Online(p)' /\ \A t \in Socket : Owner[t] = p => pc'[t] # "entered"
      BY <2>1, <2>3 DEF Online, Active
    <3>2. \A z \in Zone : None(down'[z], Goes(p))
      BY <1>3, <2>1 DEF Served, Leaving
    <3> QED
      BY <2>3, <3>1, <3>2 DEF Single, NotYet, Leaving, Somewhere
  <2>6. Entering(p)'
    <3>1. ASSUME NEW t \in Socket, Owner[t] = p, t # s
          PROVE  pc'[t] \notin Active /\ (pc'[t] = "admitted" => at'[t] \in DOMAIN Start)
      BY <1>1, <2>2, <3>1 DEF Served, Entering
    <3>2. pc'[s] = "closing" => clients'[p] \in DOMAIN Start
      BY <2>1 DEF Served, Entering
    <3> QED
      BY <2>1, <3>1, <3>2 DEF Entering, Active
  <2> QED
    BY <2>4, <2>5, <2>6 DEF Served
<1> QED
  BY <1>4, <1>5, <1>6

\* The player is put into the world: nothing of it was there before.
LEMMA AppearServes ==
  ASSUME Still, Sound, Sound', NEW s \in Socket, NEW p \in Player, p = Owner[s],
         Appear(s), Placed(p), Served(p)
  PROVE  Placed(p)' /\ Served(p)'
<1> USE DEF gateway, processes, bounds, sessions
<1> DEFINE a == at[s]
<1>0. /\ pc \in [Socket -> Stages] /\ last[s] \in Spot /\ pos \in [Player -> Spot \cup {Nowhere}]
      /\ DOMAIN Start \subseteq Zone /\ DOMAIN zones = DOMAIN Start
      /\ \A z \in Zone : down[z] \in Seq(Letter) /\ hand[z] \in {Free} \cup Handing
  BY HandoffAssumption DEF Sound, Typed, Still, Appear
<1>1. /\ pc[s] = "entered" /\ pc'[s] = "online" /\ clients' = clients /\ at' = at
      /\ \A t \in Socket \ {s} : pc'[t] = pc[t]
      /\ UNCHANGED <<ents, hand, up, doing, undone>>
  BY <1>0 DEF Appear
<1>2. a \in DOMAIN Start /\ a \in Zone /\ clients[p] = a
  BY <1>0, <1>1 DEF Served, Entering
<1>3. PICK m \in {Join(p), Spawn(p, pos'[p])} :
        /\ down' = [down EXCEPT ![a] = Append(@, m)]
        /\ m # Spawn(p, Nowhere) /\ m \in Letter
  <2>1. CASE p \in Guest
    <3>1. down' = [down EXCEPT ![a] = Append(@, Join(p))]
      BY <1>0, <1>2, <2>1 DEF Appear
    <3>2. Join(p) # Spawn(p, Nowhere)
      BY DEF Join, Spawn
    <3> QED
      BY <3>1, <3>2, LetterIn
  <2>2. CASE p \notin Guest
    <3>1. down' = [down EXCEPT ![a] = Append(@, Spawn(p, last[s]))] /\ pos' = [pos EXCEPT ![p] = last[s]]
      BY <1>0, <1>2, <2>2 DEF Appear
    <3>2. pos'[p] = last[s] /\ last[s] \in Int /\ last[s] # Nowhere
      BY <1>0, <3>1, SpotFacts
    <3>3. Spawn(p, last[s]) # Spawn(p, Nowhere)
      BY <3>2 DEF Spawn
    <3> QED
      BY <3>1, <3>2, <3>3, LetterIn
  <2> QED
    BY <2>1, <2>2
<1> HIDE DEF a
<1>4. /\ m \in Bears(p) /\ m \notin Goes(p)
      /\ Bears(p) \ {Join(p), Spawn(p, pos'[p])} \in SUBSET Bears(p)
      /\ {Spawn(p, Nowhere)} \in SUBSET Bears(p)
  <2>1. pos'[p] \in Int /\ Nowhere \in Int
    <3>1. pos' \in [Player -> Spot \cup {Nowhere}] /\ Nowhere \in Int
      BY DEF Sound, Typed, Nowhere
    <3> QED
      BY <3>1, SpotFacts
  <2> QED
    BY <2>1, <1>3, KindsApart
<1>5. ASSUME NEW z \in Zone
      PROVE  /\ ~At(z, p) /\ ~Busy(z, p) /\ ~Due(z, p) /\ ~Sent(z, p)
             /\ None(down[z], Bears(p)) /\ None(up[z], Hands(p))
             /\ None(down[z], Goes(p))
  BY <1>0, <1>1 DEF Served, NotYet, Leaving, At, Due, Sent, Active
<1>6. ASSUME NEW z \in Zone
      PROVE  /\ ~Held(z, p)' /\ ~Sent(z, p)' /\ ~Handed(z, p)' /\ ~Busy(z, p)' /\ ~Stepping(z, p)'
             /\ None(up'[z], Hands(p))
  <2>1. ~Held(z, p) /\ ~Sent(z, p) /\ ~Handed(z, p) /\ ~Busy(z, p)
    BY <1>5 DEF At
  <2>2. ~Held(z, p)'
    BY <1>1, <2>1 DEF Held
  <2>3. ~Stepping(z, p)'
    BY <1>1, <2>1, SteppingHeld DEF Stepping, Sound
  <2> QED
    BY <1>1, <1>5, <2>1, <2>2, <2>3 DEF Sent, Handed, Busy
<1>7. ASSUME NEW z \in Zone
      PROVE  down'[z] = IF z = a THEN Append(down[z], m) ELSE down[z]
  <2>1. DOMAIN down = Zone
    BY DEF Sound, Typed
  <2> QED
    BY <1>3, <2>1
<1>8. ASSUME NEW z \in Zone
      PROVE  /\ Due(z, p)' <=> z = a
             /\ Once(down'[z], Bears(p))
             /\ None(down'[z], Bears(p) \ {Join(p), Spawn(p, pos'[p])})
             /\ None(down'[z], {Spawn(p, Nowhere)})
             /\ None(down'[z], Goes(p))
  <2> DEFINE B == Bears(p) \ {Join(p), Spawn(p, pos'[p])}
             N == {Spawn(p, Nowhere)}
  <2>0. None(down[z], B) /\ None(down[z], N) /\ m \notin B /\ m \notin N
    BY <1>3, <1>4, <1>5, NoneLess
  <2> HIDE DEF B, N
  <2>1. CASE z = a
    <3>1. down'[z] = Append(down[z], m) /\ down[z] \in Seq(Letter) /\ m \in Letter
      BY <1>0, <1>3, <1>7, <2>1
    <3>2. /\ ~None(down'[z], Bears(p)) /\ None(down'[z], B) /\ None(down'[z], N)
          /\ None(down'[z], Goes(p))
      BY <1>4, <1>5, <2>0, <3>1, NoneAppend
    <3>3. Once(down'[z], Bears(p))
      BY <1>5, <3>1, OnceAppend, NoneOnce
    <3> QED
      BY <2>1, <3>2, <3>3 DEF Due, B, N
  <2>2. CASE z # a
    <3>1. down'[z] = down[z]
      BY <1>7, <2>2
    <3>2. Once(down'[z], Bears(p))
      BY <1>5, <3>1, NoneOnce
    <3> QED
      BY <1>5, <2>0, <2>2, <3>1, <3>2 DEF Due, B, N
  <2> QED
    BY <2>1, <2>2
<1>9. ASSUME NEW z \in Zone PROVE At(z, p)' <=> z = a
  BY <1>6, <1>8 DEF At
<1>10. One(p)'
  BY <1>6, <1>8, <1>9, NoneOnce DEF One
<1>11. Exact(p)'
  <2>1. ASSUME NEW z \in Zone PROVE None(up'[z], Hands(p) \ {Migrate(p, pos'[p])})
    BY <1>6, NoneLess
  <2> QED
    BY <1>6, <1>8, <2>1 DEF Exact
<1>12. Crossing(p)' /\ Outward(p)'
  <2>1. \A z \in Zone : None(up'[z], Vain(z, p))
    BY <1>6, NoneLess, MineKinds
  <2> QED
    BY <1>6, <2>1 DEF Crossing, Outward
<1>13. Routed(p)'
  BY <1>1, <1>2, <1>9 DEF Routed
<1>14. Somewhere(p)'
  BY <1>2, <1>9 DEF Somewhere
<1>15. Single(p)' /\ NotYet(p)' /\ Leaving(p)' /\ Entering(p)'
  <2>1. \A t \in Socket : Owner[t] = p /\ pc[t] \in Active => t = s
    BY <1>1 DEF Served, Single, Active
  <2>2. \A t \in Socket : Owner[t] = p /\ pc'[t] \in Active => t = s
    BY <1>1, <2>1
  <2>3. \A t \in Socket : Owner[t] = p /\ pc'[t] = "admitted" => at'[t] \in DOMAIN Start
    BY <1>1 DEF Served, Entering
  <2> QED
    BY <1>1, <1>2, <1>8, <2>2, <2>3 DEF Single, NotYet, Leaving, Entering, Active
<1> QED
  BY <1>10, <1>11, <1>12, <1>13, <1>14, <1>15 DEF Placed, Served

\* A frame of the client goes where the client is routed to, which is not where
\* the player is about to arrive.
LEMMA FrameServes ==
  ASSUME Sound, Sound', NEW s \in Socket, NEW p \in Player, p = Owner[s],
         NEW dx \in Step, Frame(s, dx), Placed(p), Served(p)
  PROVE  Placed(p)' /\ Served(p)'
<1> USE DEF gateway, processes, bounds, sessions
<1>0. /\ \A z \in Zone : down[z] \in Seq(Letter) /\ down'[z] \in Seq(Letter)
      /\ DOMAIN down = Zone
  BY DEF Sound, Typed
<1>1. /\ UNCHANGED <<ents, hand, up, pos, clients, pc, at, doing, undone>>
      /\ down' = [down EXCEPT ![clients[p]] = Append(@, Move(p, dx))]
  BY DEF Frame
<1>2. Move(p, dx) \notin Bears(p) /\ Move(p, dx) \notin Goes(p)
  BY KindsApart
<1>3. ASSUME NEW z \in Zone
      PROVE  down'[z] = IF z = clients[p] THEN Append(down[z], Move(p, dx)) ELSE down[z]
  BY <1>0, <1>1
<1>4. ASSUME NEW z \in Zone
      PROVE  /\ Skips(down[z], down'[z], Bears(p))
             /\ Skips(down[z], down'[z], Goes(p))
  BY <1>2, <1>3 DEF Skips
<1>5. ASSUME NEW z \in Zone
      PROVE  /\ Dwindles(down[z], down'[z], Bears(p))
             /\ None(down'[z], Bears(p)) <=> None(down[z], Bears(p))
             /\ None(down'[z], Goes(p)) <=> None(down[z], Goes(p))
  <2>1. /\ down[z] \in Seq(Letter) /\ down'[z] \in Seq(Letter)
        /\ Bears(p) \in SUBSET Bears(p) /\ Goes(p) \in SUBSET Goes(p)
    BY <1>0
  <2>2. Dwindles(down[z], down'[z], Bears(p))
    BY ONLY <1>4, <2>1, SkipsDwindle
  <2> QED
    BY <1>4, <2>1, <2>2, SkipsKeeps
<1>6. ASSUME NEW z \in Zone
      PROVE  /\ At(z, p)' <=> At(z, p)
             /\ Busy(z, p)' <=> Busy(z, p)
             /\ Handed(z, p)' <=> Handed(z, p)
             /\ Stepping(z, p)' <=> Stepping(z, p)
             /\ down'[z] = down[z] \/ \A y \in Zone : Busy(y, p) => hand[y].to # z
  <2>1. down'[z] = down[z] \/ \A y \in Zone : Busy(y, p) => hand[y].to # z
    BY <1>3 DEF Placed, Crossing
  <2> QED
    BY <1>1, <1>5, <2>1 DEF At, Busy, Held, Due, Sent, Handed, Stepping
<1>7. Fades(p)
  BY <1>1, <1>5, <1>6 DEF Fades, Dwindles
<1>8. Placed(p)'
  BY <1>1, <1>7, PlaceKept
<1>9. Served(p)'
  BY <1>1, <1>5, <1>6, ServiceKept
<1> QED
  BY <1>8, <1>9

\* The zone is told that the player left only when its session is over.
LEMMA LeaveServes ==
  ASSUME Sound, Sound', NEW s \in Socket, NEW p \in Player, p = Owner[s],
         TellLeave(s), Placed(p), Served(p)
  PROVE  Placed(p)' /\ Served(p)'
<1> USE DEF gateway, processes, bounds, sessions
<1>0. /\ pc \in [Socket -> Stages] /\ DOMAIN down = Zone
      /\ \A z \in Zone : down[z] \in Seq(Letter) /\ down'[z] \in Seq(Letter)
  BY DEF Sound, Typed
<1>1. /\ UNCHANGED <<ents, hand, up, pos, clients, at, doing, undone>>
      /\ pc[s] = "saved" /\ pc'[s] = "gone" /\ \A t \in Socket \ {s} : pc'[t] = pc[t]
      /\ down' = down \/ down' = [down EXCEPT ![at[s]] = Append(@, Leave(p))]
  BY <1>0 DEF TellLeave
<1>2. Leave(p) \notin Bears(p) \cup Asks(p)
  BY KindsApart
<1>3. ASSUME NEW z \in Zone PROVE Skips(down[z], down'[z], Bears(p) \cup Asks(p))
  BY <1>0, <1>1, <1>2 DEF Skips
<1>4. ASSUME NEW z \in Zone
      PROVE  /\ Dwindles(down[z], down'[z], Bears(p))
             /\ None(down'[z], Bears(p)) <=> None(down[z], Bears(p))
             /\ None(down[z], Asks(p)) => None(down'[z], Asks(p))
             /\ Before(down[z], Asks(p), Bears(p)) => Before(down'[z], Asks(p), Bears(p))
  <2>1. /\ down[z] \in Seq(Letter) /\ down'[z] \in Seq(Letter)
        /\ Bears(p) \in SUBSET (Bears(p) \cup Asks(p)) /\ Asks(p) \in SUBSET (Bears(p) \cup Asks(p))
    BY <1>0
  <2>2. Dwindles(down[z], down'[z], Bears(p))
    BY ONLY <1>3, <2>1, SkipsDwindle
  <2>3. /\ None(down'[z], Bears(p)) <=> None(down[z], Bears(p))
        /\ None(down[z], Asks(p)) => None(down'[z], Asks(p))
        /\ Before(down[z], Asks(p), Bears(p)) => Before(down'[z], Asks(p), Bears(p))
    BY ONLY <1>3, <2>1, SkipsKeeps
  <2> QED
    BY <2>2, <2>3
<1>5. ASSUME NEW z \in Zone
      PROVE  /\ Busy(z, p)' <=> Busy(z, p)
             /\ Handed(z, p)' <=> Handed(z, p)
             /\ Stepping(z, p)' <=> Stepping(z, p)
  BY <1>1 DEF Busy, Handed, Stepping
<1>6. Fades(p)
  BY <1>1, <1>4, <1>5 DEF Fades, Dwindles
<1>7. Placed(p)'
  BY <1>1, <1>6, PlaceKept
<1>8. \A t \in Socket : Owner[t] = p => pc'[t] \notin Active
  BY <1>1 DEF Served, Single, Active
<1>9. Served(p)'
  <2>1. \A t \in Socket : Owner[t] = p /\ pc'[t] = "admitted" => at'[t] \in DOMAIN Start
    BY <1>1 DEF Served, Entering
  <2> QED
    BY <1>8, <2>1 DEF Served, Somewhere, Single, NotYet, Leaving, Entering, Online, Active
<1> QED
  BY <1>7, <1>9

LEMMA SessionServes ==
  ASSUME Still, Sound, Sound', NEW s \in Socket, Session(s), NEW p \in Player, p \notin traced',
         Placed(p), Served(p)
  PROVE  Placed(p)' /\ Served(p)'
<1>1. CASE p # Owner[s]
  BY <1>1, SessionBystander
<1>2. CASE p = Owner[s]
  BY <1>2, SessionInside, AppearServes, FrameServes, LeaveServes DEF Session
<1> QED
  BY <1>1, <1>2


----------------------------------------------------------------------------
\* The steps of a zone process.

\* The letter z is reading.
LEMMA Reading ==
  ASSUME Sound, NEW z \in Zone, down[z] # <<>>
  PROVE  /\ down[z] \in Seq(Letter) /\ Head(down[z]) \in Letter
         /\ \A y \in Zone : Handled(z)[y] = IF y = z THEN Tail(down[z]) ELSE down[y]
<1>1. down[z] \in Seq(Letter) /\ DOMAIN down = Zone
  BY DEF Sound, Typed
<1> QED
  BY <1>1 DEF Handled

LEMMA HandledKeeps ==
  ASSUME Sound, NEW z \in Zone, down[z] # <<>>, down' = Handled(z), NEW y \in Zone
  PROVE  /\ y # z => down'[y] = down[y]
         /\ y = z => down'[y] = Tail(down[y])
         /\ \A K : None(down[y], K) => None(down'[y], K)
         /\ \A K : Once(down[y], K) => Once(down'[y], K)
         /\ \A L, K : Before(down[y], L, K) => Before(down'[y], L, K)
<1>1. down'[y] = IF y = z THEN Tail(down[y]) ELSE down[y]
  BY Reading
<1>2. CASE y = z
  <2>1. down[y] \in Seq(Letter) /\ down[y] # <<>>
    BY <1>2, Reading
  <2>2. ASSUME NEW K
        PROVE  /\ None(down[y], K) => None(down'[y], K)
               /\ Once(down[y], K) => Once(down'[y], K)
    BY <1>1, <1>2, <2>1, NoneTail, OnceTail
  <2>3. ASSUME NEW L, NEW K PROVE Before(down[y], L, K) => Before(down'[y], L, K)
    BY <1>1, <1>2, <2>1, BeforeTail
  <2> QED
    BY <1>1, <1>2, <2>2, <2>3
<1>3. CASE y # z
  BY <1>1, <1>3
<1> QED
  BY <1>2, <1>3

\* What a zone does for the others, and what it only says.
LEMMA ProcessBystander ==
  ASSUME Sound, Sound', NEW z \in Zone, NEW p \in Player, Placed(p), Served(p),
         \/ (Joined(z) \/ Left(z) \/ Moved(z) \/ Spawned(z)) /\ Head(down[z]).who # p
         \/ Stepped(z) /\ (doing[z].who # p \/ Owns(region[z], doing[z].x))
         \/ Woke(z) \/ Flushed(z)
  PROVE  Placed(p)' /\ Served(p)'
<1> USE DEF gateway, processes, bounds, sessions
<1>0. /\ DOMAIN down = Zone /\ DOMAIN up = Zone /\ DOMAIN doing = Zone
      /\ ents \in [Zone -> [Player -> Spot \cup {Nowhere}]] /\ pos \in [Player -> Spot \cup {Nowhere}]
      /\ doing[z] \in {Resting} \cup Pace /\ up[z] \in Seq(Word)
  BY DEF Sound, Typed
<1>1. ASSUME UNCHANGED <<hand, clients, pc, at, undone>>,
             \A y \in Zone : ents'[y][p] = ents[y][p],
             \A y \in Zone : Stepping(y, p)' => doing'[y] = doing[y],
             \A y \in Zone : Skips(down[y], down'[y], Mine(p)),
             \A y \in Zone : Skips(up[y], up'[y], Mine(p)),
             pos'[p] = pos[p]
      PROVE  Placed(p)' /\ Served(p)'
  BY <1>1, Bystander
<1>2. UNCHANGED <<hand, clients, pc, at, undone>>
  BY DEF Joined, Left, Moved, Spawned, Stepped, Woke, Flushed
<1>3. ASSUME NEW w, w # p, NEW x
      PROVE  /\ \A y \in Zone : Put(z, w, x)[y][p] = ents[y][p]
             /\ [pos EXCEPT ![w] = x][p] = pos[p]
  BY <1>0, <1>3 DEF Put
<1>4. ASSUME NEW m, m \notin Mine(p), up' = Say(z, m), NEW y \in Zone
      PROVE  Skips(up[y], up'[y], Mine(p))
  <2>1. up'[y] = IF y = z THEN Append(up[y], m) ELSE up[y]
    BY <1>0, <1>4 DEF Say
  <2> QED
    BY <1>4, <2>1 DEF Skips
<1>5. ASSUME NEW ms \in Seq(Telling), up' = [up EXCEPT ![z] = @ \o ms], NEW y \in Zone
      PROVE  Skips(up[y], up'[y], Mine(p))
  <2>1. up'[y] = IF y = z THEN up[y] \o ms ELSE up[y]
    BY <1>0, <1>5
  <2>2. None(ms, Mine(p))
    BY NotMine
  <2> QED
    BY <2>1, <2>2 DEF Skips
<1>6. ASSUME NEW y \in Zone, down' = down PROVE Skips(down[y], down'[y], Mine(p))
  BY <1>6 DEF Skips
<1>7. ASSUME NEW y \in Zone, up' = up PROVE Skips(up[y], up'[y], Mine(p))
  BY <1>7 DEF Skips
<1>8. ASSUME NEW x \in Spot, NEW w \in Player, w # p
      PROVE  Status(w, x) \notin Mine(p) /\ Migrate(w, x) \notin Mine(p)
  <2>1. Status(w, x).who = w /\ Migrate(w, x).who = w
    BY DEF Status, Migrate
  <2> QED
    BY <1>8, <2>1, NotMine
<1>9. CASE (Joined(z) \/ Left(z) \/ Moved(z) \/ Spawned(z)) /\ Head(down[z]).who # p
  <2> DEFINE w == Head(down[z]).who
  <2>1. down[z] # <<>> /\ down' = Handled(z) /\ doing[z] = Resting
    BY <1>9 DEF Joined, Left, Moved, Spawned, Serves
  <2>2. Head(down[z]) \in Letter /\ Head(down[z]).kind \in {"player_join", "player_leave", "move", "spawn_entity"}
    BY <1>9, <2>1, Reading DEF Joined, Left, Moved, Spawned, Serves
  <2>3. w \in Player /\ w # p
    BY <1>9, <2>2, LetterOut
  <2>4. Head(down[z]) \notin Mine(p)
    BY <2>3, NotMine
  <2>5. \A y \in Zone : Skips(down[y], down'[y], Mine(p))
    BY <2>1, <2>4, Reading DEF Skips
  <2>6. CASE Joined(z)
    <3>1. PICK x \in Spot : /\ ents' = Put(z, w, x) /\ pos' = [pos EXCEPT ![w] = x]
                            /\ up' = [up EXCEPT ![z] = @ \o Statuses(ents'[z])]
      BY <2>6 DEF Joined
    <3>2. Statuses(ents'[z]) \in Seq(Telling)
      <4>1. ents'[z] \in [Player -> Spot \cup {Nowhere}] /\ Player \in SUBSET Player
        BY DEF Sound, Typed
      <4> QED
        BY ONLY <4>1, StatusesFacts
    <3>3. \A y \in Zone : Stepping(y, p)' => doing'[y] = doing[y]
      BY <2>6 DEF Joined
    <3> DEFINE ms == Statuses(ents'[z])
    <3>4. ms \in Seq(Telling) /\ up' = [up EXCEPT ![z] = @ \o ms]
      BY <3>1, <3>2
    <3> HIDE DEF w, ms
    <3>5. \A y \in Zone : Skips(up[y], up'[y], Mine(p))
      BY <1>5, <3>4
    <3>6. (\A y \in Zone : ents'[y][p] = ents[y][p]) /\ pos'[p] = pos[p]
      BY <1>3, <2>3, <3>1
    <3> QED
      BY <1>1, <1>2, <2>5, <3>3, <3>5, <3>6
  <2>7. CASE Left(z)
    <3>1. ents' = Put(z, w, Nowhere) /\ UNCHANGED <<up, pos, doing>>
      BY <2>7 DEF Left, Gone
    <3> HIDE DEF w
    <3> QED
      BY <1>1, <1>2, <1>3, <1>7, <2>3, <2>5, <3>1
  <2>8. CASE Moved(z)
    <3> DEFINE x == Clamped(ents[z][w] + Head(down[z]).dx)
    <3>1. /\ up' = up
          /\ \/ UNCHANGED <<ents, doing, pos>>
             \/ /\ ents' = Put(z, w, x) /\ pos' = [pos EXCEPT ![w] = x]
                /\ doing' = [doing EXCEPT ![z] = [stage |-> "step", who |-> w, x |-> x]]
      BY <2>8 DEF Moved
    <3> HIDE DEF x, w
    <3>2. ASSUME NEW y \in Zone, Stepping(y, p)' PROVE doing'[y] = doing[y]
      BY <1>0, <2>3, <3>1, <3>2 DEF Stepping
    <3>3. (\A y \in Zone : ents'[y][p] = ents[y][p]) /\ pos'[p] = pos[p]
      <4>1. (\A y \in Zone : Put(z, w, x)[y][p] = ents[y][p]) /\ [pos EXCEPT ![w] = x][p] = pos[p]
        BY <1>3, <2>3
      <4> QED
        BY <3>1, <4>1
    <3>4. \A y \in Zone : Skips(up[y], up'[y], Mine(p))
      BY <1>7, <3>1
    <3>5. \A y \in Zone : Stepping(y, p)' => doing'[y] = doing[y]
      BY <3>2
    <3> QED
      BY <1>1, <1>2, <2>5, <3>3, <3>4, <3>5
  <2>9. CASE Spawned(z)
    <3> DEFINE x == Clamped(Head(down[z]).x)
    <3>1. ents' = Put(z, w, x) /\ up' = Say(z, Status(w, x)) /\ UNCHANGED <<pos, doing>>
      BY <2>9 DEF Spawned
    <3>2. x \in Spot
      BY <2>2, <2>9, LetterOut, SpotFacts DEF Spawned, Serves
    <3> HIDE DEF x, w
    <3>3. Status(w, x) \notin Mine(p)
      BY <1>8, <2>3, <3>2
    <3>4. \A y \in Zone : Skips(up[y], up'[y], Mine(p))
      BY <1>4, <3>1, <3>3
    <3>5. \A y \in Zone : ents'[y][p] = ents[y][p]
      BY <1>3, <2>3, <3>1
    <3> QED
      BY <1>1, <1>2, <2>5, <3>1, <3>4, <3>5
  <2> QED
    BY <1>9, <2>6, <2>7, <2>8, <2>9
<1>10. CASE Stepped(z) /\ (doing[z].who # p \/ Owns(region[z], doing[z].x))
  <2> DEFINE w == doing[z].who
             x == doing[z].x
  <2>1. w \in Player /\ x \in Spot /\ doing[z] # Resting
    BY <1>0, <1>10, PaceFacts DEF Stepped
  <2>2. ents[z][w] \in Spot
    BY <1>0, <2>1 DEF Sound, Abreast
  <2>3. /\ doing' = [doing EXCEPT ![z] = Resting] /\ UNCHANGED <<down, pos>>
        /\ \/ up' = Say(z, Status(w, ents[z][w])) /\ UNCHANGED ents
           \/ w # p /\ ents' = Put(z, w, Nowhere) /\ up' = Say(z, Migrate(w, x))
    BY <1>10 DEF Stepped, Gone
  <2>4. ASSUME NEW y \in Zone, Stepping(y, p)' PROVE doing'[y] = doing[y]
    BY <1>0, <2>3, <2>4 DEF Stepping, Resting
  <2>5. Status(w, ents[z][w]) \in Telling
    BY <2>1, <2>2 DEF Telling
  <2>6. Status(w, ents[z][w]) \notin Mine(p)
    BY <2>5, NotMine
  <2> DEFINE s == Status(w, ents[z][w])
  <2> HIDE DEF w, x, s
  <2>7. /\ \/ up' = Say(z, s) /\ UNCHANGED ents
           \/ w # p /\ ents' = Put(z, w, Nowhere) /\ up' = Say(z, Migrate(w, x))
        /\ s \notin Mine(p)
    BY <2>3, <2>6 DEF s
  <2>8. CASE up' = Say(z, s) /\ UNCHANGED ents
    <3>1. \A y \in Zone : Skips(up[y], up'[y], Mine(p))
      BY <1>4, <2>7, <2>8
    <3> QED
      BY <1>1, <1>2, <1>6, <2>3, <2>4, <2>8, <3>1
  <2>9. CASE w # p /\ ents' = Put(z, w, Nowhere) /\ up' = Say(z, Migrate(w, x))
    <3>1. Migrate(w, x) \notin Mine(p)
      BY <1>8, <2>1, <2>9
    <3>2. \A y \in Zone : Skips(up[y], up'[y], Mine(p))
      BY <1>4, <2>9, <3>1
    <3> QED
      BY <1>1, <1>2, <1>3, <1>6, <2>3, <2>4, <2>9, <3>2
  <2> QED
    BY <2>7, <2>8, <2>9
<1>11. CASE Woke(z)
  <2>1. UNCHANGED <<ents, doing, down, up, pos>>
    BY <1>11 DEF Woke
  <2> QED
    BY <1>1, <1>2, <1>6, <1>7, <2>1
<1>12. CASE Flushed(z)
  <2>1. UNCHANGED <<ents, doing, down, pos>> /\ up' = [up EXCEPT ![z] = @ \o tick[z].packets]
    BY <1>12 DEF Flushed
  <2>2. tick[z].packets \in Seq(Telling)
    BY <1>12, LoopFacts DEF Flushed, Sound, Typed
  <2>3. \A y \in Zone : Skips(up[y], up'[y], Mine(p))
    BY <1>5, <2>1, <2>2
  <2> QED
    BY <1>1, <1>2, <1>6, <2>1, <2>3
<1> QED
  BY <1>9, <1>10, <1>11, <1>12

\* A player in z is nowhere else.
LEMMA HeldAlone ==
  ASSUME NEW p \in Player, NEW z \in Zone, Held(z, p), Placed(p), NEW y \in Zone
  PROVE  /\ None(down[y], Bears(p)) /\ None(up[y], Hands(p)) /\ ~Handed(y, p)
         /\ Held(y, p) => y = z
         /\ At(y, p) <=> y = z
<1>1. At(z, p) /\ (At(y, p) => y = z)
  BY DEF Placed, One, At
<1>2. ~Due(z, p) /\ ~Sent(z, p) /\ ~Handed(z, p)
  BY DEF Placed, One
<1>3. ~Due(y, p) /\ ~Sent(y, p) /\ ~Handed(y, p)
  BY <1>1, <1>2 DEF At
<1> QED
  BY <1>1, <1>3 DEF Due, Sent, At

\* A player that is in z, and nothing of it elsewhere.
LEMMA Inside ==
  ASSUME NEW p \in Player, NEW z \in Zone, Held(z, p)', p \notin undone' => ents'[z][p] = pos'[p],
         \A y \in Zone \ {z} : ~Held(y, p)',
         \A y \in Zone : None(down'[y], Bears(p)) /\ None(up'[y], Hands(p)) /\ ~Handed(y, p)',
         \A y \in Zone : Stepping(y, p)' /\ p \notin undone' => doing'[y].x = pos'[p]
  PROVE  /\ \A y \in Zone : At(y, p)' <=> y = z
         /\ \A y \in Zone : ~Due(y, p)' /\ ~Sent(y, p)'
         /\ One(p)' /\ Exact(p)' /\ Outward(p)'
<1>1. \A y \in Zone : ~Due(y, p)' /\ ~Sent(y, p)'
  BY DEF Due, Sent
<1>2. \A y \in Zone : At(y, p)' <=> y = z
  BY <1>1 DEF At
<1>3. One(p)'
  BY <1>1, <1>2, NoneOnce DEF One
<1>4. Exact(p)'
  <2>1. ASSUME NEW y \in Zone
        PROVE  /\ None(down'[y], Bears(p) \ {Join(p), Spawn(p, pos'[p])})
               /\ None(down'[y], {Spawn(p, Nowhere)})
               /\ None(up'[y], Hands(p) \ {Migrate(p, pos'[p])})
    <3>1. {Spawn(p, Nowhere)} \in SUBSET Bears(p)
      BY KindsApart DEF Nowhere
    <3> QED
      BY <3>1, NoneLess
  <2>2. p \notin undone' => \A y \in Zone : Held(y, p)' => ents'[y][p] = pos'[p]
    OBVIOUS
  <2> QED
    BY <2>1, <2>2 DEF Exact
<1>5. Outward(p)'
  <2>1. \A y \in Zone : None(up'[y], Vain(y, p))
    BY NoneLess, MineKinds
  <2> QED
    BY <2>1 DEF Outward
<1> QED
  BY <1>1, <1>2, <1>3, <1>4, <1>5

\* The zone reads the message that puts p into it. The moves of the client that were
\* sent to this zone before are read.
LEMMA Arrives ==
  ASSUME Sound, Sound', NEW z \in Zone, NEW p \in Player, Placed(p), Served(p),
         down[z] # <<>>, Head(down[z]) \in Bears(p), down' = Handled(z),
         UNCHANGED <<hand, clients, pc, at, doing, undone>>,
         Held(z, p)', p \notin undone => ents'[z][p] = pos'[p],
         \A y \in Zone \ {z} : ents'[y][p] = ents[y][p],
         \A y \in Zone : None(up[y], Hands(p)) => None(up'[y], Hands(p))
  PROVE  Placed(p)' /\ Served(p)'
<1>1. /\ down[z] \in Seq(Letter) /\ down'[z] = Tail(down[z]) /\ ~None(down[z], Bears(p))
  <2>1. down[z] \in Seq(Letter) /\ down'[z] = Tail(down[z])
    BY Reading
  <2> QED
    BY <2>1, NoneTail
<1>2. Due(z, p) /\ At(z, p)
  BY <1>1 DEF Due, At
<1>3. /\ \A y \in Zone \ {z} : ~At(y, p)
      /\ ~Held(z, p) /\ ~Sent(z, p) /\ ~Handed(z, p)
  BY <1>2 DEF Placed, One
<1>4. ASSUME NEW y \in Zone
      PROVE  /\ None(down'[y], Bears(p)) /\ None(up'[y], Hands(p))
             /\ ~Handed(y, p)' /\ ~Stepping(y, p)'
             /\ Busy(y, p)' <=> Busy(y, p)
             /\ y # z => ~Held(y, p)'
  <2>1. None(down'[y], Bears(p))
    <3>1. CASE y = z
      <4>1. Once(down[z], Bears(p))
        BY DEF Placed, One
      <4> QED
        BY <1>1, <3>1, <4>1, OnceTail
    <3>2. CASE y # z
      BY <1>3, <3>2, HandledKeeps DEF At, Due
    <3> QED
      BY <3>1, <3>2
  <2>2. None(up'[y], Hands(p))
    BY <1>3 DEF At, Sent
  <2>3. ~Held(y, p) /\ ~Handed(y, p)
    BY <1>3 DEF At
  <2>4. ~Handed(y, p)' /\ (Busy(y, p)' <=> Busy(y, p))
    BY <2>3 DEF Handed, Busy
  <2>5. ~Stepping(y, p)'
    BY <2>3, SteppingHeld DEF Sound, Stepping
  <2>6. y # z => ~Held(y, p)'
    BY <2>3 DEF Held
  <2> QED
    BY <2>1, <2>2, <2>4, <2>5, <2>6
<1>5. /\ \A y \in Zone : At(y, p)' <=> y = z
      /\ \A y \in Zone : ~Due(y, p)' /\ ~Sent(y, p)'
      /\ One(p)' /\ Exact(p)' /\ Outward(p)'
  BY <1>4, Inside
<1>6. Crossing(p)'
  <2>1. ASSUME NEW y \in Zone, Busy(y, p)
        PROVE  /\ hand[y].to = z /\ z \in DOMAIN Start /\ clients[p] # z
               /\ None(down'[z], Asks(p))
               /\ Before(down'[z], Asks(p), Bears(p)) /\ None(down'[z], {Join(p)})
    <3>1. /\ hand[y].to = z /\ z \in DOMAIN Start /\ clients[p] # z
          /\ Before(down[z], Asks(p), Bears(p)) /\ None(down[z], {Join(p)})
      BY <1>2, <2>1 DEF Placed, Crossing
    <3>2. None(down'[z], Asks(p))
      BY <1>1, <3>1, BeforeTail
    <3> QED
      BY <3>1, <3>2, HandledKeeps
  <2>2. ASSUME NEW y \in Zone, Busy(y, p)'
        PROVE  /\ \A x \in Zone : At(x, p)' => x = hand'[y].to /\ ~Sent(x, p)' /\ ~Handed(x, p)'
               /\ hand'[y].to \in DOMAIN Start /\ clients'[p] # hand'[y].to
               /\ None(down'[hand'[y].to], Asks(p))
               /\ Before(down'[hand'[y].to], Asks(p), Bears(p))
               /\ None(down'[hand'[y].to], {Join(p)})
    <3>1. Busy(y, p) /\ hand'[y].to = z
      BY <1>4, <2>1, <2>2
    <3> QED
      BY <1>4, <1>5, <2>1, <3>1
  <2>3. \A x, y \in Zone : Busy(x, p)' /\ Busy(y, p)' => x = y
    BY <1>4 DEF Placed, Crossing
  <2> QED
    BY <1>4, <2>2, <2>3 DEF Crossing
<1>7. Routed(p)'
  BY <1>2, <1>4, <1>5 DEF Placed, Routed
<1>8. Served(p)'
  <2>1. \A y \in Zone : None(down[y], Goes(p)) => None(down'[y], Goes(p))
    BY HandledKeeps
  <2>2. \E y \in Zone : At(y, p)'
    BY <1>5
  <2> QED
    BY <1>2, <2>1, <2>2, ServiceKept
<1> QED
  BY <1>5, <1>6, <1>7, <1>8 DEF Placed

LEMMA JoinedServes ==
  ASSUME Sound, Sound', NEW z \in Zone, Joined(z),
         NEW p \in Player, p = Head(down[z]).who, Placed(p), Served(p)
  PROVE  Placed(p)' /\ Served(p)'
<1> USE DEF gateway, processes, bounds, sessions
<1>0. /\ ents \in [Zone -> [Player -> Spot \cup {Nowhere}]] /\ pos \in [Player -> Spot \cup {Nowhere}]
      /\ up \in [Zone -> Seq(Word)]
  BY DEF Sound, Typed
<1>1. /\ down[z] # <<>> /\ down' = Handled(z) /\ UNCHANGED <<hand, clients, pc, at, doing, undone>>
  BY DEF Joined, Serves
<1>2. Head(down[z]) \in Bears(p)
  <2>1. Head(down[z]) \in Letter /\ Head(down[z]).kind = "player_join"
    BY <1>1, Reading DEF Joined, Serves
  <2> QED
    BY <2>1, LetterOfMine
<1>3. PICK x \in Spot : /\ ents' = Put(z, p, x) /\ pos' = [pos EXCEPT ![p] = x]
                        /\ up' = [up EXCEPT ![z] = @ \o Statuses(ents'[z])]
  BY DEF Joined
<1>4. /\ ents'[z][p] = pos'[p] /\ Held(z, p)'
      /\ \A y \in Zone \ {z} : ents'[y][p] = ents[y][p]
  BY <1>0, <1>3, SpotFacts DEF Put, Held
<1>5. ASSUME NEW y \in Zone, None(up[y], Hands(p)) PROVE None(up'[y], Hands(p))
  <2> DEFINE ms == Statuses(ents'[z])
  <2>1. ms \in Seq(Telling)
    <3>1. ents'[z] \in [Player -> Spot \cup {Nowhere}] /\ Player \in SUBSET Player
      BY DEF Sound, Typed
    <3> QED
      BY ONLY <3>1, StatusesFacts
  <2>2. up' = [up EXCEPT ![z] = @ \o ms]
    BY <1>3
  <2> HIDE DEF ms
  <2>3. Hands(p) \in SUBSET Mine(p)
    BY MineKinds
  <2>4. None(ms, Hands(p))
    BY <2>1, <2>3, NotMine, NoneLess
  <2>5. up'[y] = up[y] \/ up'[y] = up[y] \o ms
    BY <1>0, <2>2
  <2>6. up[y] \in Seq(Word) /\ ms \in Seq(Word)
    <3>1. Telling \in SUBSET Word
      BY DEF Telling, Word
    <3> QED
      BY ONLY <1>0, <2>1, <3>1, SMTT(30)
  <2> QED
    <3>1. None(up[y] \o ms, Hands(p))
      BY <1>5, <2>4, <2>6, NoneCat
    <3> QED
      BY <1>5, <2>5, <3>1
<1> QED
  BY <1>1, <1>2, <1>4, <1>5, Arrives

\* The entity appears where the simulation last put it.
LEMMA SpawnedServes ==
  ASSUME Sound, Sound', NEW z \in Zone, Spawned(z),
         NEW p \in Player, p = Head(down[z]).who, Placed(p), Served(p)
  PROVE  Placed(p)' /\ Served(p)'
<1> USE DEF gateway, processes, bounds, sessions
<1> DEFINE m == Head(down[z])
           x == Clamped(m.x)
<1>0. /\ ents \in [Zone -> [Player -> Spot \cup {Nowhere}]] /\ pos \in [Player -> Spot \cup {Nowhere}]
      /\ up \in [Zone -> Seq(Word)]
  BY DEF Sound, Typed
<1>1. /\ down[z] # <<>> /\ down' = Handled(z) /\ UNCHANGED <<hand, clients, pc, at, doing, undone, pos>>
      /\ ents' = Put(z, p, x) /\ up' = Say(z, Status(p, x))
  BY DEF Spawned, Serves
<1>2. down[z] \in Seq(Letter) /\ m \in Bears(p) /\ m = Spawn(p, m.x) /\ m.x \in Int
  <2>1. down[z] \in Seq(Letter) /\ m \in Letter /\ m.kind = "spawn_entity"
    BY <1>1, Reading DEF Spawned, Serves
  <2> QED
    BY <2>1, LetterOfMine, LetterOut
<1>3. x \in Spot /\ x # Nowhere
  BY <1>2, SpotFacts
<1>4. ASSUME p \notin undone PROVE x = pos[p]
  <2>1. /\ None(down[z], Bears(p) \ {Join(p), Spawn(p, pos[p])})
        /\ None(down[z], {Spawn(p, Nowhere)})
    BY <1>4 DEF Placed, Exact
  <2>2. m \notin Bears(p) \ {Join(p), Spawn(p, pos[p])} /\ m \notin {Spawn(p, Nowhere)}
    <3> HIDE DEF m
    <3> QED
      BY <1>1, <1>2, <2>1, NoneTail DEF m
  <2>3. m.kind # Join(p).kind
    BY <1>2 DEF Join, Spawn
  <2>4. m = Spawn(p, pos[p]) /\ m # Spawn(p, Nowhere)
    <3> HIDE DEF m
    <3> QED
      BY <1>2, <2>2, <2>3
  <2>5. m.x = pos[p] /\ pos[p] # Nowhere
    <3>1. Spawn(p, pos[p]).x = pos[p]
      BY DEF Spawn
    <3> HIDE DEF m
    <3> QED
      BY <2>4, <3>1
  <2>6. pos[p] \in Spot
    BY <1>0, <2>5
  <2> HIDE DEF m
  <2> QED
    BY <2>5, <2>6, SpotFacts
<1> HIDE DEF m, x
<1>5. /\ p \notin undone => ents'[z][p] = pos'[p]
      /\ Held(z, p)' /\ \A y \in Zone \ {z} : ents'[y][p] = ents[y][p]
  <2>1. ents'[z][p] = x /\ \A y \in Zone \ {z} : ents'[y][p] = ents[y][p]
    BY <1>0, <1>1 DEF Put
  <2> QED
    BY <1>1, <1>3, <1>4, <2>1 DEF Held
<1>6. ASSUME NEW y \in Zone, None(up[y], Hands(p)) PROVE None(up'[y], Hands(p))
  <2> DEFINE s == Status(p, x)
  <2>1. s \in Word /\ s \notin Hands(p)
    <3>1. s.kind # "migrate_request" /\ s \in Word
      BY <1>3, WordIn DEF Status
    <3> QED
      BY <3>1, MineKinds
  <2>2. up' = Say(z, s)
    BY <1>1
  <2> HIDE DEF s
  <2>3. up'[y] = up[y] \/ up'[y] = Append(up[y], s)
    BY <1>0, <2>2 DEF Say
  <2>4. up[y] \in Seq(Word)
    BY <1>0
  <2>5. None(Append(up[y], s), Hands(p))
    BY ONLY <1>6, <2>1, <2>4, NoneAppend
  <2> QED
    BY <1>6, <2>3, <2>5
<1>7. Head(down[z]) \in Bears(p)
  BY <1>2 DEF m
<1> QED
  BY <1>1, <1>5, <1>6, <1>7, Arrives

\* A player is taken out of a zone when its session is over.
LEMMA LeftServes ==
  ASSUME Sound, Sound', NEW z \in Zone, Left(z),
         NEW p \in Player, p = Head(down[z]).who, Placed(p), Served(p)
  PROVE  Placed(p)' /\ Served(p)'
<1> USE DEF gateway, processes, bounds, sessions
<1>1. /\ down[z] # <<>> /\ down' = Handled(z) /\ ents' = Put(z, p, Nowhere)
      /\ UNCHANGED <<up, hand, clients, pc, at, pos, doing, undone>>
  BY DEF Left, Gone, Serves
<1>2. ~None(down[z], Goes(p))
  <2>1. Head(down[z]) \in Letter /\ Head(down[z]).kind = "player_leave" /\ down[z] \in Seq(Letter)
    BY <1>1, Reading DEF Left, Serves
  <2>2. Head(down[z]) \in Goes(p)
    BY <2>1, LetterOfMine
  <2> QED
    BY <1>1, <2>1, <2>2, NoneTail
<1>3. ~Online(p)
  BY <1>2 DEF Served, Leaving, Online, Active
<1>4. Fades(p)
  <2>1. ASSUME NEW y \in Zone
        PROVE  /\ ents'[y][p] \in {ents[y][p], Nowhere}
               /\ Dwindles(down[y], down'[y], Bears(p)) /\ Dwindles(up[y], up'[y], Hands(p))
               /\ None(down[y], Asks(p)) => None(down'[y], Asks(p))
               /\ Before(down[y], Asks(p), Bears(p)) => Before(down'[y], Asks(p), Bears(p))
    <3>1. ents'[y][p] \in {ents[y][p], Nowhere}
      BY <1>1 DEF Put, Sound, Typed
    <3>2. /\ \A K : None(down[y], K) => None(down'[y], K)
          /\ \A K : Once(down[y], K) => Once(down'[y], K)
          /\ Before(down[y], Asks(p), Bears(p)) => Before(down'[y], Asks(p), Bears(p))
      BY <1>1, HandledKeeps
    <3> QED
      BY <1>1, <3>1, <3>2 DEF Dwindles
  <2>2. ASSUME NEW y \in Zone
        PROVE  /\ Stepping(y, p)' => Stepping(y, p) /\ doing'[y] = doing[y]
               /\ Handed(y, p)' => Handed(y, p) /\ hand'[y] = hand[y]
               /\ Busy(y, p)' <=> Busy(y, p)
    BY <1>1 DEF Stepping, Handed, Busy
  <2> QED
    BY <1>1, <2>1, <2>2 DEF Fades
<1>5. Placed(p)'
  BY <1>1, <1>4, PlaceKept
<1>6. Served(p)'
  <2>1. \A y \in Zone : None(down[y], Goes(p)) => None(down'[y], Goes(p))
    BY <1>1, HandledKeeps
  <2>2. \A y \in Zone : (At(y, p)' => At(y, p)) /\ (Busy(y, p)' <=> Busy(y, p))
    BY <1>4, Faded
  <2> QED
    BY <1>1, <1>3, <2>1, <2>2, ServiceKept
<1> QED
  BY <1>5, <1>6

\* A move of the player, read: of nothing else of it the zone hears.
LEMMA HandledAsk ==
  ASSUME Sound, NEW z \in Zone, down[z] # <<>>, down' = Handled(z), Head(down[z]).kind = "move",
         NEW p \in Player, NEW y \in Zone
  PROVE  /\ None(down'[y], Bears(p)) <=> None(down[y], Bears(p))
         /\ None(down[y], Goes(p)) => None(down'[y], Goes(p))
<1>1. Head(down[z]) \notin Bears(p)
  BY MineKinds
<1>2. None(Tail(down[z]), Bears(p)) <=> None(down[z], Bears(p))
  BY <1>1, Reading, NoneTail
<1>3. \A K : None(down[y], K) => None(down'[y], K)
  BY HandledKeeps
<1> QED
  BY <1>2, <1>3, HandledKeeps

\* A move of a player that is not in the zone.
LEMMA MoveIgnored ==
  ASSUME Sound, Sound', NEW z \in Zone, Moved(z),
         NEW p \in Player, p = Head(down[z]).who, ~Held(z, p), Placed(p), Served(p)
  PROVE  Placed(p)' /\ Served(p)'
<1> USE DEF gateway, processes, bounds, sessions
<1>1. /\ down[z] # <<>> /\ down' = Handled(z) /\ Head(down[z]).kind = "move"
      /\ UNCHANGED <<ents, up, pos, hand, clients, pc, at, doing, undone>>
  <2>1. p \notin Present(z)
    BY DEF Held, Present
  <2> QED
    BY <2>1 DEF Moved, Serves
<1>2. ASSUME NEW y \in Zone
      PROVE  /\ Held(y, p)' <=> Held(y, p)
             /\ Due(y, p)' <=> Due(y, p)
             /\ Sent(y, p)' <=> Sent(y, p)
             /\ Handed(y, p)' <=> Handed(y, p)
             /\ Busy(y, p)' <=> Busy(y, p)
             /\ Stepping(y, p)' <=> Stepping(y, p)
  <2>1. Due(y, p)' <=> Due(y, p)
    BY <1>1, HandledAsk DEF Due
  <2> QED
    BY <1>1, <2>1 DEF Held, Sent, Handed, Busy, Stepping
<1>3. Fades(p)
  <2>1. ASSUME NEW y \in Zone
        PROVE  /\ Dwindles(down[y], down'[y], Bears(p)) /\ Dwindles(up[y], up'[y], Hands(p))
               /\ None(down[y], Asks(p)) => None(down'[y], Asks(p))
               /\ Before(down[y], Asks(p), Bears(p)) => Before(down'[y], Asks(p), Bears(p))
    <3>1. /\ \A K : None(down[y], K) => None(down'[y], K)
          /\ \A K : Once(down[y], K) => Once(down'[y], K)
          /\ Before(down[y], Asks(p), Bears(p)) => Before(down'[y], Asks(p), Bears(p))
      BY <1>1, HandledKeeps
    <3> QED
      BY <1>1, <3>1 DEF Dwindles
  <2> QED
    BY <1>1, <1>2, <2>1 DEF Fades
<1>4. Placed(p)'
  BY <1>1, <1>3, PlaceKept
<1>5. Served(p)'
  <2>1. \A y \in Zone : None(down[y], Goes(p)) => None(down'[y], Goes(p))
    BY <1>1, HandledAsk
  <2>2. \A y \in Zone : (At(y, p)' <=> At(y, p)) /\ (Busy(y, p)' <=> Busy(y, p))
    BY <1>2 DEF At
  <2> QED
    BY <1>1, <2>1, <2>2, ServiceKept
<1> QED
  BY <1>4, <1>5

\* A move of a player that is in the zone; its client has followed it here.
LEMMA MoveServed ==
  ASSUME Sound, Sound', NEW z \in Zone, Moved(z),
         NEW p \in Player, p = Head(down[z]).who, Held(z, p), Placed(p), Served(p)
  PROVE  Placed(p)' /\ Served(p)'
<1> USE DEF gateway, processes, bounds, sessions
<1> DEFINE x == Clamped(ents[z][p] + Head(down[z]).dx)
<1>0. /\ ents \in [Zone -> [Player -> Spot \cup {Nowhere}]] /\ pos \in [Player -> Spot \cup {Nowhere}]
      /\ DOMAIN doing = Zone
  BY DEF Sound, Typed
<1>1. /\ down[z] # <<>> /\ down' = Handled(z) /\ Head(down[z]).kind = "move"
      /\ ents' = Put(z, p, x) /\ pos' = [pos EXCEPT ![p] = x]
      /\ doing' = [doing EXCEPT ![z] = [stage |-> "step", who |-> p, x |-> x]]
      /\ UNCHANGED <<up, hand, clients, pc, at, undone>>
  <2>1. p \in Present(z)
    BY DEF Held, Present
  <2> QED
    BY <2>1 DEF Moved, Serves
<1>2. Head(down[z]) \in Asks(p) /\ Head(down[z]).dx \in Step /\ down[z] \in Seq(Letter)
  <2>1. Head(down[z]) \in Letter /\ down[z] \in Seq(Letter)
    BY <1>1, Reading
  <2> QED
    BY <1>1, <2>1, LetterOfMine, LetterOut
<1>3. x \in Spot /\ x # Nowhere
  <2>1. ents[z][p] \in Int
    BY <1>0, SpotFacts DEF Held
  <2> QED
    BY <1>2, <2>1, SpotFacts, HandoffAssumption
<1> HIDE DEF x
<1>4. ASSUME NEW y \in Zone
      PROVE  /\ None(down[y], Bears(p)) /\ None(up[y], Hands(p)) /\ ~Handed(y, p)
             /\ Held(y, p) => y = z
             /\ At(y, p) <=> y = z
  BY HeldAlone
<1>5. ASSUME NEW y \in Zone PROVE ~Busy(y, p)
  <2> SUFFICES ASSUME Busy(y, p) PROVE FALSE
    OBVIOUS
  <2>1. hand[y].to = z /\ None(down[z], Asks(p))
    BY <1>4 DEF Placed, Crossing
  <2>2. ~None(down[z], Asks(p))
    BY <1>1, <1>2, NoneTail
  <2> QED
    BY <2>1, <2>2
<1>6. /\ ents'[z][p] = x /\ pos'[p] = x /\ Held(z, p)'
      /\ doing'[z].x = x /\ \A y \in Zone \ {z} : ents'[y][p] = ents[y][p] /\ doing'[y] = doing[y]
  BY <1>0, <1>1, <1>3 DEF Put, Held
<1>7. ASSUME NEW y \in Zone
      PROVE  /\ None(down'[y], Bears(p)) /\ None(up'[y], Hands(p))
             /\ ~Handed(y, p)' /\ ~Busy(y, p)'
             /\ y # z => ~Held(y, p)'
             /\ Stepping(y, p)' => doing'[y].x = pos'[p]
  <2>1. None(down'[y], Bears(p))
    BY <1>1, <1>4, HandledKeeps
  <2>2. None(up'[y], Hands(p)) /\ ~Handed(y, p)' /\ ~Busy(y, p)'
    BY <1>1, <1>4, <1>5 DEF Handed, Busy
  <2>3. y # z => ~Held(y, p)'
    BY <1>4, <1>6 DEF Held
  <2>4. Stepping(y, p)' => doing'[y].x = pos'[p]
    <3>1. CASE y = z
      BY <1>6, <3>1
    <3>2. CASE y # z
      <4>1. Stepping(y, p)' => Stepping(y, p)
        BY <1>6, <3>2 DEF Stepping
      <4>2. ~Stepping(y, p)
        BY <1>4, <3>2, SteppingHeld DEF Sound
      <4> QED
        BY <4>1, <4>2
    <3> QED
      BY <3>1, <3>2
  <2> QED
    BY <2>1, <2>2, <2>3, <2>4
<1>8. /\ \A y \in Zone : At(y, p)' <=> y = z
      /\ One(p)' /\ Exact(p)' /\ Outward(p)'
  BY <1>6, <1>7, Inside
<1>9. Crossing(p)'
  BY <1>7 DEF Crossing
<1>10. Routed(p)'
  BY <1>1, <1>4, <1>5, <1>8 DEF Placed, Routed
<1>11. Served(p)'
  <2>1. \A y \in Zone : None(down[y], Goes(p)) => None(down'[y], Goes(p))
    BY <1>1, HandledAsk
  <2>2. \A y \in Zone : At(y, p)' <=> At(y, p)
    BY <1>4, <1>8
  <2>3. \A y \in Zone : ~Busy(y, p)'
    BY <1>7
  <2> QED
    BY <1>1, <2>1, <2>2, <2>3, ServiceKept
<1> QED
  BY <1>8, <1>9, <1>10, <1>11 DEF Placed

\* A player that stepped out of the region is handed over, at the point it stepped to.
LEMMA StepServes ==
  ASSUME Still, Sound, Sound', NEW z \in Zone, Stepped(z),
         NEW p \in Player, p = doing[z].who, ~Owns(region[z], doing[z].x), Placed(p), Served(p)
  PROVE  Placed(p)' /\ Served(p)'
<1> USE DEF gateway, processes, bounds, sessions
<1> DEFINE x == doing[z].x
           m == Migrate(p, x)
<1>0. /\ ents \in [Zone -> [Player -> Spot \cup {Nowhere}]] /\ up \in [Zone -> Seq(Word)]
      /\ DOMAIN doing = Zone /\ doing[z] \in {Resting} \cup Pace
  BY DEF Sound, Typed
<1>1. /\ doing[z].stage = "step" /\ doing' = [doing EXCEPT ![z] = Resting]
      /\ ents' = Put(z, p, Nowhere) /\ up' = Say(z, m)
      /\ UNCHANGED <<down, pos, hand, clients, pc, at, undone>>
  BY DEF Stepped, Gone
<1>2. Stepping(z, p) /\ Held(z, p) /\ x \in Spot
  <2>1. Stepping(z, p) /\ x \in Spot
    BY <1>0, <1>1, PaceFacts DEF Stepping
  <2> QED
    BY <2>1, SteppingHeld DEF Sound
<1>3. z \in DOMAIN Start /\ region[z] = Start[z]
  <2>1. z \in alive
    BY <1>2 DEF Sound, Fleet, Silent, Held
  <2> QED
    BY <2>1 DEF Still
<1>4. ASSUME NEW y \in Zone
      PROVE  /\ None(down[y], Bears(p)) /\ None(up[y], Hands(p)) /\ ~Handed(y, p)
             /\ Held(y, p) => y = z
             /\ At(y, p) <=> y = z
             /\ ~Busy(y, p)
  <2>1. ~Busy(y, p)
    BY <1>2 DEF Placed, Crossing
  <2> QED
    BY <1>2, <2>1, HeldAlone
<1>5. m \in Hands(p) /\ m \in Word /\ (p \notin undone => x = pos[p]) /\ m \notin Vain(z, p)
  <2>1. m \in Hands(p) /\ m \in Word
    BY <1>2, WordIn, KindsApart
  <2>2. p \notin undone => x = pos[p]
    BY <1>2 DEF Placed, Exact
  <2>3. m.x = x /\ \A v : Migrate(p, v).x = v
    BY DEF Migrate
  <2>4. ~Owns(Start[z], x)
    BY <1>3
  <2> HIDE DEF m, x
  <2>5. m \notin Vain(z, p)
    BY <2>3, <2>4 DEF Vain
  <2> QED
    BY <2>1, <2>2, <2>5
<1> HIDE DEF x
<1>6. ASSUME NEW y \in Zone
      PROVE  /\ ~Held(y, p)' /\ ~Due(y, p)' /\ ~Handed(y, p)' /\ ~Busy(y, p)' /\ ~Stepping(y, p)'
             /\ None(down'[y], Bears(p))
  <2>1. ~Held(y, p)'
    <3>1. ents'[y][p] = IF y = z THEN Nowhere ELSE ents[y][p]
      BY <1>0, <1>1 DEF Put
    <3> QED
      BY <1>4, <3>1 DEF Held
  <2>2. ~Due(y, p)' /\ ~Handed(y, p)' /\ ~Busy(y, p)' /\ None(down'[y], Bears(p))
    BY <1>1, <1>4 DEF Due, Handed, Busy
  <2>3. ~Stepping(y, p)'
    <3>1. CASE y = z
      BY <1>0, <1>1, <3>1 DEF Stepping, Resting
    <3>2. CASE y # z
      <4>1. Stepping(y, p)' => Stepping(y, p)
        BY <1>0, <1>1, <3>2 DEF Stepping
      <4> QED
        BY <1>4, <3>2, <4>1, SteppingHeld DEF Sound
    <3> QED
      BY <3>1, <3>2
  <2> QED
    BY <2>1, <2>2, <2>3
<1> HIDE DEF m
<1>7. ASSUME NEW y \in Zone
      PROVE  /\ Sent(y, p)' <=> y = z
             /\ Once(up'[y], Hands(p)) /\ None(up'[y], Vain(y, p))
             /\ p \notin undone' => None(up'[y], Hands(p) \ {Migrate(p, pos'[p])})
  <2> DEFINE H == Hands(p) \ {Migrate(p, pos'[p])}
  <2>1. None(up[y], Vain(y, p)) /\ None(up[y], H) /\ None(up[y], Hands(p)) /\ up[y] \in Seq(Word)
    BY <1>0, <1>4, NoneLess, MineKinds
  <2>2. p \notin undone' => m \notin H
    BY <1>1, <1>5 DEF m
  <2> HIDE DEF H
  <2>3. CASE y = z
    <3>1. up'[y] = Append(up[y], m)
      BY <1>0, <1>1, <2>3 DEF Say
    <3>2. ~None(up'[y], Hands(p)) /\ None(up'[y], Vain(y, p)) /\ (p \notin undone' => None(up'[y], H))
      BY <1>5, <2>1, <2>2, <2>3, <3>1, NoneAppend
    <3>3. Once(up'[y], Hands(p))
      BY <1>5, <2>1, <3>1, OnceAppend, NoneOnce
    <3> QED
      BY <2>3, <3>2, <3>3 DEF Sent, H
  <2>4. CASE y # z
    <3>1. up'[y] = up[y]
      BY <1>0, <1>1, <2>4 DEF Say
    <3>2. Once(up'[y], Hands(p))
      BY <2>1, <3>1, NoneOnce
    <3> QED
      BY <2>1, <2>4, <3>1, <3>2 DEF Sent, H
  <2> QED
    BY <2>3, <2>4
<1>8. \A y \in Zone : At(y, p)' <=> y = z
  BY <1>6, <1>7 DEF At
<1>9. One(p)'
  BY <1>6, <1>7, <1>8, NoneOnce DEF One
<1>10. Exact(p)'
  <2>1. ASSUME NEW y \in Zone
        PROVE  /\ None(down'[y], Bears(p) \ {Join(p), Spawn(p, pos'[p])})
               /\ None(down'[y], {Spawn(p, Nowhere)})
    <3>1. {Spawn(p, Nowhere)} \in SUBSET Bears(p)
      BY KindsApart DEF Nowhere
    <3> QED
      BY <1>6, <3>1, NoneLess
  <2> QED
    BY <1>6, <1>7, <2>1 DEF Exact
<1>11. Crossing(p)' /\ Outward(p)'
  BY <1>6, <1>7 DEF Crossing, Outward
<1>12. Routed(p)'
  BY <1>1, <1>4, <1>8 DEF Placed, Routed
<1>13. Served(p)'
  <2>1. \A y \in Zone : At(y, p)' <=> At(y, p)
    BY <1>4, <1>8
  <2>2. \A y \in Zone : ~Busy(y, p)'
    BY <1>6
  <2> QED
    BY <1>1, <2>1, <2>2, ServiceKept
<1> QED
  BY <1>9, <1>10, <1>11, <1>12, <1>13 DEF Placed

\* A turn of the game loop: who dies wakes up in the same zone.
LEMMA TickServes ==
  ASSUME Sound, Sound', NEW z \in Zone, Ticked(z), NEW p \in Player, Placed(p), Served(p)
  PROVE  Placed(p)' /\ Served(p)'
<1> USE DEF gateway, processes, bounds, sessions
<1>1. PICK died \in SUBSET Present(z), es \in [Player -> Spot \cup {Nowhere}],
           ss \in Seq(Telling) : Tick(z, died, es, ss)
  BY TickedFacts DEF Sound
<1>2. UNCHANGED <<hand, clients, pc, at, down, up, doing>>
  BY DEF Ticked
<1>3. /\ ents'[z][p] = es[p] /\ \A y \in Zone \ {z} : ents'[y][p] = ents[y][p]
      /\ pos'[p] = IF p \in died THEN es[p] ELSE pos[p]
      /\ IF p \in died THEN es[p] \in Spot ELSE es[p] = ents[z][p]
      /\ undone \subseteq undone'
      /\ p \in died /\ Stepping(z, p) => p \in undone'
  BY <1>1 DEF Tick, Sound, Typed, Stepping
<1>4. CASE p \notin died
  <2>1. ASSUME NEW y \in Zone
        PROVE  ents'[y][p] = ents[y][p] /\ (Stepping(y, p)' => doing'[y] = doing[y])
    BY <1>2, <1>3, <1>4
  <2>2. ASSUME NEW y \in Zone
        PROVE  Skips(down[y], down'[y], Mine(p)) /\ Skips(up[y], up'[y], Mine(p))
    BY <1>2 DEF Skips
  <2>3. pos'[p] = pos[p] /\ (p \in undone => p \in undone')
    BY <1>3, <1>4
  <2> QED
    BY <1>2, <2>1, <2>2, <2>3, Bystander
<1>5. CASE p \in died
  <2>1. Held(z, p)
    BY <1>5 DEF Present, Held
  <2>2. ASSUME NEW y \in Zone
        PROVE  /\ None(down[y], Bears(p)) /\ None(up[y], Hands(p)) /\ ~Handed(y, p)
               /\ Held(y, p) => y = z
               /\ At(y, p) <=> y = z
    BY <2>1, HeldAlone
  <2>3. Held(z, p)' /\ ents'[z][p] = pos'[p]
    BY <1>3, <1>5, SpotFacts DEF Held
  <2>4. ASSUME NEW y \in Zone
        PROVE  /\ None(down'[y], Bears(p)) /\ None(up'[y], Hands(p)) /\ ~Handed(y, p)'
               /\ y # z => ~Held(y, p)'
               /\ Busy(y, p)' <=> Busy(y, p)
               /\ Stepping(y, p)' <=> Stepping(y, p)
               /\ Stepping(y, p)' => p \in undone'
    <3>1. Stepping(y, p)' <=> Stepping(y, p)
      BY <1>2 DEF Stepping
    <3>2. Stepping(y, p)' => p \in undone'
      BY <1>3, <1>5, <2>2, <3>1, SteppingHeld DEF Sound
    <3>3. y # z => ~Held(y, p)'
      BY <1>3, <2>2 DEF Held
    <3> QED
      BY <1>2, <2>2, <3>1, <3>2, <3>3 DEF Handed, Busy
  <2>5. /\ \A y \in Zone : At(y, p)' <=> y = z
        /\ \A y \in Zone : ~Due(y, p)' /\ ~Sent(y, p)'
        /\ One(p)' /\ Exact(p)' /\ Outward(p)'
    BY <2>3, <2>4, Inside
  <2>6. Crossing(p)'
    <3>1. ASSUME NEW y \in Zone, Busy(y, p)'
          PROVE  /\ \A x \in Zone : At(x, p)' => x = hand'[y].to /\ ~Sent(x, p)' /\ ~Handed(x, p)'
                 /\ \A x \in Zone : ~Stepping(x, p)'
                 /\ hand'[y].to \in DOMAIN Start /\ clients'[p] # hand'[y].to
                 /\ None(down'[hand'[y].to], Asks(p))
                 /\ Before(down'[hand'[y].to], Asks(p), Bears(p))
                 /\ None(down'[hand'[y].to], {Join(p)})
      <4>1. Busy(y, p)
        BY <2>4, <3>1
      <4>2. hand[y].to = z
        BY <2>2, <4>1 DEF Placed, Crossing
      <4>3. /\ \A x \in Zone : ~Stepping(x, p)
            /\ z \in DOMAIN Start /\ clients[p] # z
            /\ None(down[z], Asks(p))
            /\ Before(down[z], Asks(p), Bears(p)) /\ None(down[z], {Join(p)})
        BY <2>1, <4>1, <4>2 DEF Placed, Crossing
      <4> QED
        BY <1>2, <2>4, <2>5, <4>2, <4>3
    <3>2. \A x, y \in Zone : Busy(x, p)' /\ Busy(y, p)' => x = y
      BY <2>4 DEF Placed, Crossing
    <3> QED
      BY <3>1, <3>2 DEF Crossing
  <2>7. Routed(p)'
    BY <1>2, <2>2, <2>4, <2>5 DEF Placed, Routed
  <2>8. Served(p)'
    <3>1. \A y \in Zone : At(y, p)' <=> At(y, p)
      BY <2>2, <2>5
    <3> QED
      BY <1>2, <2>4, <3>1, ServiceKept
  <2> QED
    BY <2>5, <2>6, <2>7, <2>8 DEF Placed
<1> QED
  BY <1>4, <1>5

LEMMA ProcessServes ==
  ASSUME Still, Sound, Sound', NEW z \in Zone, Process(z),
         NEW p \in Player, Placed(p), Served(p)
  PROVE  Placed(p)' /\ Served(p)'
<1>1. CASE Joined(z)
  BY <1>1, ProcessBystander, JoinedServes
<1>2. CASE Left(z)
  BY <1>2, ProcessBystander, LeftServes
<1>3. CASE Moved(z)
  BY <1>3, ProcessBystander, MoveIgnored, MoveServed
<1>4. CASE Stepped(z)
  BY <1>4, ProcessBystander, StepServes
<1>5. CASE Spawned(z)
  BY <1>5, ProcessBystander, SpawnedServes
<1>6. CASE Woke(z) \/ Flushed(z)
  BY <1>6, ProcessBystander
<1>7. CASE Ticked(z)
  BY <1>7, TickServes
<1> QED
  BY <1>1, <1>2, <1>3, <1>4, <1>5, <1>6, <1>7, StillSteps

----------------------------------------------------------------------------
\* The steps of a listener.

\* The word the listener of z is hearing.
LEMMA Hearing ==
  ASSUME Sound, NEW z \in Zone, up[z] # <<>>
  PROVE  /\ up[z] \in Seq(Word) /\ Head(up[z]) \in Word
         /\ \A y \in Zone : Heard(z)[y] = IF y = z THEN Tail(up[z]) ELSE up[y]
<1>1. up[z] \in Seq(Word) /\ DOMAIN up = Zone
  BY DEF Sound, Typed
<1> QED
  BY <1>1 DEF Heard

\* The player a step of z's listener is about.
Spoken(z) == IF hand[z] = Free THEN Head(up[z]).who ELSE hand[z].who

LEMMA SpokenFacts ==
  ASSUME Sound, NEW z \in Zone, Listener(z)
  PROVE  /\ Spoken(z) \in Player
         /\ Report(z) \/ Lookup(z) =>
              hand[z] = Free /\ up[z] # <<>> /\ Spoken(z) = Head(up[z]).who /\ Head(up[z]).x \in Spot
         /\ Send(z) \/ Note(z) \/ Follow(z) => hand[z] \in Handing /\ Spoken(z) = hand[z].who
<1>0. hand[z] \in {Free} \cup Handing
  BY DEF Sound, Typed
<1>1. CASE Report(z) \/ Lookup(z)
  <2>1. hand[z] = Free /\ up[z] # <<>>
    BY <1>1 DEF Report, Lookup, Hears
  <2>2. Head(up[z]).who \in Player /\ Head(up[z]).x \in Spot
    BY <2>1, Hearing, WordOut
  <2>3. Free.stage = "free"
    BY DEF Free
  <2>4. ~(Send(z) \/ Note(z) \/ Follow(z))
    BY <2>1, <2>3 DEF Send, Note, Follow
  <2> QED
    BY <2>1, <2>2, <2>4 DEF Spoken
<1>2. CASE Send(z) \/ Note(z) \/ Follow(z)
  <2>1. hand[z].stage # "free"
    BY <1>2 DEF Send, Note, Follow
  <2>2. hand[z] \in Handing /\ hand[z] # Free
    BY <1>0, <2>1, HandingFacts DEF Free
  <2>3. ~(Report(z) \/ Lookup(z))
    BY <2>2 DEF Report, Lookup, Hears
  <2> QED
    BY <2>2, <2>3 DEF Spoken, Handing
<1> QED
  BY <1>1, <1>2 DEF Listener

\* What a listener does for the others, and what it hears reported.
LEMMA ListenerBystander ==
  ASSUME Sound, Sound', NEW z \in Zone, Listener(z),
         NEW p \in Player, p # Spoken(z) \/ Report(z), Placed(p), Served(p)
  PROVE  Placed(p)' /\ Served(p)'
<1> USE DEF gateway, processes, bounds, sessions
<1> DEFINE w == Spoken(z)
<1>0. /\ w \in Player
      /\ DOMAIN hand = Zone /\ DOMAIN down = Zone /\ \A y \in Zone : hand[y] \in {Free} \cup Handing
      /\ clients \in [Player -> Zone \cup {NoZone}]
  BY SpokenFacts DEF Sound, Typed
<1>1. /\ UNCHANGED <<ents, doing, undone, pos, pc, at>>
      /\ clients' = clients \/ \E x : Follow(z) /\ clients' = [clients EXCEPT ![w] = x]
  <2>1. CASE Report(z) \/ Lookup(z)
    BY <2>1 DEF Report, Lookup
  <2>2. CASE Send(z) \/ Note(z) \/ Follow(z)
    <3>1. hand[z].who = w
      BY <2>2, SpokenFacts
    <3> HIDE DEF w
    <3> QED
      BY <2>2, <3>1 DEF Send, Note, Follow, Repointed
  <2> QED
    BY <2>1, <2>2 DEF Listener
<1>2. Follow(z) => w # p
  <2>1. Follow(z) => ~Report(z)
    <3>1. Free.stage # "follow"
      BY DEF Free
    <3> QED
      BY <3>1 DEF Follow, Report, Hears
  <2> QED
    BY <2>1
<1>3. CASE Report(z)
  <2>1. /\ up[z] # <<>> /\ up' = Heard(z) /\ UNCHANGED <<down, hand, clients>>
        /\ Head(up[z]).kind = "status_update"
    BY <1>3 DEF Report, Hears
  <2>2. Head(up[z]) \notin Mine(p)
    BY <2>1, MineKinds
  <2>3. ASSUME NEW y \in Zone
        PROVE  Skips(down[y], down'[y], Mine(p)) /\ Skips(up[y], up'[y], Mine(p))
    BY <2>1, <2>2, Hearing DEF Skips
  <2> QED
    BY <1>1, <2>1, <2>3, Bystander
<1>4. CASE Lookup(z) /\ p # w
  <2>1. /\ Head(up[z]).who = w /\ hand[z] = Free /\ up[z] # <<>> /\ up' = Heard(z)
        /\ UNCHANGED <<down, clients>>
    BY <1>4, SpokenFacts DEF Lookup
  <2>2. Head(up[z]) \notin Mine(p)
    BY <1>4, <2>1, NotMine
  <2>3. \/ hand' = hand
        \/ \E g : g.who = w /\ hand' = [hand EXCEPT ![z] = g]
    <3>1. \/ hand' = hand
          \/ \E t : hand' = [hand EXCEPT ![z] =
                       [stage |-> "send", who |-> Head(up[z]).who, x |-> Head(up[z]).x, to |-> t]]
      BY <1>4 DEF Lookup
    <3> HIDE DEF w
    <3> QED
      BY <2>1, <3>1
  <2> HIDE DEF w
  <2>4. ASSUME NEW y \in Zone
        PROVE  hand'[y] = hand[y] \/ (Foreign(hand[y], p) /\ Foreign(hand'[y], p))
    <3>1. hand'[y] = hand[y] \/ (hand[y] = Free /\ hand'[y].who = w)
      BY <1>0, <2>1, <2>3
    <3> QED
      BY <1>4, <3>1 DEF Foreign, Free
  <2>5. ASSUME NEW y \in Zone
        PROVE  Skips(down[y], down'[y], Mine(p)) /\ Skips(up[y], up'[y], Mine(p))
    BY <2>1, <2>2, Hearing DEF Skips
  <2> QED
    BY <1>1, <2>1, <2>4, <2>5, Bystander
<1>5. CASE (Send(z) \/ Note(z) \/ Follow(z)) /\ p # w
  <2>1. hand[z] \in Handing /\ hand[z].who = w /\ up' = up
    BY <1>5, SpokenFacts DEF Send, Note, Follow
  <2>2. ASSUME NEW y \in Zone
        PROVE  hand'[y] = hand[y] \/ (Foreign(hand[y], p) /\ Foreign(hand'[y], p))
    <3>1. \/ hand' = [hand EXCEPT ![z] = Free]
          \/ \E k : hand' = [hand EXCEPT ![z].stage = k]
      BY <1>5 DEF Send, Note, Follow
    <3>2. ASSUME NEW k, hand' = [hand EXCEPT ![z].stage = k], y = z PROVE hand'[y].who = w
      BY <1>0, <2>1, <3>2 DEF Handing
    <3> HIDE DEF w
    <3>3. hand'[y] = hand[y] \/ (y = z /\ (hand'[y] = Free \/ hand'[y].who = w))
      BY <1>0, <3>1, <3>2
    <3> QED
      BY <1>5, <2>1, <3>3 DEF Foreign, Free
  <2>3. ASSUME NEW y \in Zone
        PROVE  Skips(down[y], down'[y], Mine(p)) /\ Skips(up[y], up'[y], Mine(p))
    <3>1. \A x : Spawn(w, x).who = w
      BY DEF Spawn
    <3>2. \/ down' = down
          \/ down' = [down EXCEPT ![hand[z].to] = Append(@, Spawn(hand[z].who, hand[z].x))]
      BY <1>5 DEF Send, Note, Follow
    <3> HIDE DEF w
    <3>3. \/ down'[y] = down[y]
          \/ \E m : m.who = w /\ down'[y] = Append(down[y], m)
      BY <1>0, <2>1, <3>1, <3>2
    <3>4. \A m : m.who = w => m \notin Mine(p)
      BY <1>5, NotMine
    <3> QED
      BY <2>1, <3>3, <3>4 DEF Skips
  <2> HIDE DEF w
  <2>4. clients'[p] = clients[p]
    BY <1>0, <1>1, <1>5
  <2> QED
    BY <1>1, <2>2, <2>3, <2>4, Bystander
<1> QED
  BY <1>3, <1>4, <1>5 DEF Listener

\* The listener finds a zone for a player that was sent away: there is one, and
\* it is another one.
LEMMA LookupServes ==
  ASSUME StaticFleet, Still, Sound, Sound', NEW z \in Zone, Lookup(z),
         NEW p \in Player, p = Head(up[z]).who, Placed(p), Served(p)
  PROVE  Placed(p)' /\ Served(p)'
<1> USE DEF gateway, processes, bounds, sessions
<1> DEFINE m == Head(up[z])
           x == m.x
<1>1. /\ up[z] # <<>> /\ up[z] \in Seq(Word) /\ m = Migrate(p, x) /\ m \in Hands(p)
      /\ x \in Spot /\ hand[z] = Free /\ up' = Heard(z) /\ up'[z] = Tail(up[z])
      /\ UNCHANGED <<ents, down, clients, pc, at, pos, doing, undone>>
  <2>1. up[z] # <<>> /\ m.kind = "migrate_request" /\ hand[z] = Free /\ up' = Heard(z)
        /\ UNCHANGED <<ents, down, clients, pc, at, pos, doing, undone>>
    BY DEF Lookup, Hears
  <2>2. up[z] \in Seq(Word) /\ m = Migrate(p, x) /\ x \in Spot /\ up'[z] = Tail(up[z])
    BY <2>1, Hearing, WordOut
  <2>3. Migrate(p, x) \in Hands(p)
    BY <2>2, KindsApart
  <2> HIDE DEF m
  <2> QED
    BY <2>1, <2>2, <2>3
<1>2. ASSUME NEW y \in Zone, y # z PROVE up'[y] = up[y]
  BY <1>1, <1>2, Hearing
<1>3. (p \notin undone => x = pos[p]) /\ ~Owns(Start[z], x)
  <2>1. ASSUME NEW K, None(up[z], K) PROVE m \notin K
    <3> HIDE DEF m
    <3> QED
      BY <1>1, <2>1, NoneTail DEF m
  <2>2. p \notin undone => m \notin Hands(p) \ {Migrate(p, pos[p])}
    BY <2>1 DEF Placed, Exact
  <2>3. m \notin Vain(z, p)
    BY <2>1 DEF Placed, Outward
  <2>4. Migrate(p, pos[p]).x = pos[p]
    BY DEF Migrate
  <2> HIDE DEF m
  <2>5. ~Owns(Start[z], x)
    BY <1>1, <2>3 DEF Vain
  <2> QED
    BY <1>1, <2>2, <2>4, <2>5
<1>4. Sent(z, p) /\ At(z, p)
  <2>1. ~None(up[z], Hands(p))
    BY <1>1, NoneTail
  <2> QED
    BY <2>1 DEF Sent, At
<1>5. PICK t \in DOMAIN Start :
        /\ Owns(Start[t], x)
        /\ hand' = [hand EXCEPT ![z] = [stage |-> "send", who |-> p, x |-> x, to |-> t]]
  <2>1. {t \in DOMAIN zones : Owns(zones[t], x)} # {}
    <3>1. \E t \in DOMAIN Start : Owns(Start[t], x)
      BY <1>1 DEF StaticFleet
    <3> QED
      BY <3>1 DEF Still
  <2>2. PICK t \in {t \in DOMAIN zones : Owns(zones[t], x)} :
          hand' = [hand EXCEPT ![z] = [stage |-> "send", who |-> m.who, x |-> x, to |-> t]]
    BY <2>1 DEF Lookup
  <2>3. zones = Start /\ m.who = p
    BY DEF Still
  <2> HIDE DEF m
  <2> QED
    BY <2>2, <2>3
<1> HIDE DEF m, x
<1>6. t # z
  BY <1>3, <1>5
<1>7. /\ \A y \in Zone \ {z} : ~At(y, p)
      /\ ~Held(z, p) /\ ~Due(z, p)
  BY <1>4 DEF Placed, One
<1>8. \A y \in Zone : ~Busy(y, p)
  BY <1>4 DEF Placed, Crossing
<1>9. clients[p] \in {NoZone, z}
  BY <1>4, <1>8 DEF Placed, Routed
<1>10. ASSUME NEW y \in Zone
       PROVE  /\ ~Held(y, p)' /\ ~Due(y, p)' /\ ~Busy(y, p)' /\ ~Stepping(y, p)'
              /\ None(up'[y], Hands(p)) /\ None(down'[y], Bears(p))
              /\ Handed(y, p)' <=> y = z
              /\ y = z => hand'[y].x = x /\ hand'[y].to = t
  <2>1. DOMAIN hand = Zone
    BY DEF Sound, Typed
  <2>2. /\ Handed(y, p)' <=> y = z
        /\ ~Busy(y, p)'
        /\ y = z => hand'[y].x = x /\ hand'[y].to = t
    <3>1. CASE y = z
      <4>1. hand'[y] = [stage |-> "send", who |-> p, x |-> x, to |-> t]
        BY <1>5, <2>1, <3>1
      <4> QED
        BY <3>1, <4>1 DEF Handed, Busy
    <3>2. CASE y # z
      <4>1. hand'[y] = hand[y] /\ ~Handed(y, p)
        BY <1>5, <1>7, <2>1, <3>2 DEF At
      <4> QED
        BY <1>8, <3>2, <4>1 DEF Handed, Busy
    <3> QED
      BY <3>1, <3>2
  <2>3. ~Held(y, p)' /\ ~Due(y, p)' /\ None(down'[y], Bears(p))
    BY <1>1, <1>7 DEF At, Held, Due
  <2>4. None(up'[y], Hands(p))
    <3>1. CASE y = z
      <4>1. Once(up[z], Hands(p))
        BY DEF Placed, One
      <4>2. None(Tail(up[z]), Hands(p))
        BY <1>1, <4>1, OnceTail DEF m
      <4> QED
        BY <1>1, <3>1, <4>2
    <3>2. CASE y # z
      BY <1>2, <1>7, <3>2 DEF At, Sent
    <3> QED
      BY <3>1, <3>2
  <2>5. ~Stepping(y, p)'
    <3>1. ~Held(y, p)
      BY <1>7 DEF At
    <3> QED
      BY <1>1, <3>1, SteppingHeld DEF Sound, Stepping
  <2> QED
    BY <2>2, <2>3, <2>4, <2>5
<1>11. \A y \in Zone : At(y, p)' <=> y = z
  BY <1>10 DEF At, Sent
<1>12. One(p)' /\ Exact(p)'
  <2>1. \A y \in Zone : Once(down'[y], Bears(p)) /\ Once(up'[y], Hands(p)) /\ ~Sent(y, p)'
    BY <1>10, NoneOnce DEF Sent
  <2>2. {Spawn(p, Nowhere)} \in SUBSET Bears(p)
    BY KindsApart DEF Nowhere
  <2>3. ASSUME NEW y \in Zone
        PROVE  /\ None(down'[y], Bears(p) \ {Join(p), Spawn(p, pos'[p])})
               /\ None(down'[y], {Spawn(p, Nowhere)})
               /\ None(up'[y], Hands(p) \ {Migrate(p, pos'[p])})
    BY <1>10, <2>2, NoneLess
  <2>4. One(p)'
    BY <1>10, <1>11, <2>1 DEF One
  <2>5. Exact(p)'
    <3>1. pos' = pos /\ undone' = undone
      BY <1>1
    <3> QED
      BY <1>3, <1>10, <2>3, <3>1 DEF Exact
  <2> QED
    BY <2>4, <2>5
<1>13. Crossing(p)' /\ Routed(p)' /\ Outward(p)'
  <2>1. Crossing(p)'
    BY <1>10 DEF Crossing
  <2>2. Routed(p)'
    BY <1>1, <1>9, <1>11 DEF Routed
  <2>3. Outward(p)'
    <3>1. \A y \in Zone : None(up'[y], Vain(y, p))
      BY <1>10, NoneLess, MineKinds
    <3> QED
      BY <1>6, <1>10, <3>1 DEF Outward
  <2> QED
    BY <2>1, <2>2, <2>3
<1>14. Served(p)'
  <2>1. \E y \in Zone : At(y, p)'
    BY <1>11
  <2> QED
    BY <1>1, <1>4, <2>1, ServiceKept
<1> QED
  BY <1>12, <1>13, <1>14 DEF Placed

\* The target is told: it is not where the client's moves go.
LEMMA SendServes ==
  ASSUME Still, Sound, Sound', NEW z \in Zone, Send(z),
         NEW p \in Player, p = hand[z].who, Placed(p), Served(p)
  PROVE  Placed(p)' /\ Served(p)'
<1> USE DEF gateway, processes, bounds, sessions
<1> DEFINE t == hand[z].to
           x == hand[z].x
           m == Spawn(p, x)
<1>1. Handed(z, p) /\ At(z, p) /\ hand[z] \in Handing
  <2>1. hand[z].stage = "send"
    BY DEF Send
  <2>2. hand[z] \in {Free} \cup Handing
    BY DEF Sound, Typed
  <2>3. hand[z] \in Handing
    BY <2>1, <2>2, HandingFacts
  <2> QED
    BY <2>1, <2>3 DEF Handed, At
<1>2. /\ p \notin undone => x = pos[p]
      /\ x \in Spot /\ t \in DOMAIN Start /\ t # z
      /\ t \in Zone /\ t # NoZone
  <2>1. /\ p \notin undone => x = pos[p]
        /\ t \in DOMAIN Start /\ t # z
    BY <1>1 DEF Placed, Exact, Outward
  <2>2. x \in Spot
    BY <1>1 DEF Handing
  <2> QED
    BY <2>1, <2>2, HandoffAssumption
<1>3. /\ down' = [down EXCEPT ![t] = Append(@, m)] /\ hand' = [hand EXCEPT ![z].stage = "note"]
      /\ UNCHANGED <<ents, up, clients, pc, at, pos, doing, undone>>
  <2>1. t \in DOMAIN zones
    BY <1>2 DEF Still
  <2> QED
    BY <2>1 DEF Send
<1>4. /\ m \in Bears(p) /\ m \in Letter /\ m \notin Asks(p) /\ m \notin Goes(p)
      /\ m # Spawn(p, Nowhere) /\ m # Join(p)
      /\ {Spawn(p, Nowhere)} \in SUBSET Bears(p) /\ {Join(p)} \in SUBSET Bears(p)
  <2>1. x \in Int /\ x # Nowhere /\ Nowhere \in Int
    BY <1>2, SpotFacts DEF Nowhere
  <2>2. m # Spawn(p, Nowhere) /\ m # Join(p)
    BY <2>1 DEF Spawn, Join
  <2> QED
    BY <2>1, <2>2, KindsApart, LetterIn
<1>5. /\ \A y \in Zone \ {z} : ~At(y, p)
      /\ ~Held(z, p) /\ ~Due(z, p) /\ ~Sent(z, p)
  BY <1>1 DEF Placed, One
<1>6. \A y \in Zone : ~Busy(y, p)
  BY <1>1 DEF Placed, Crossing
<1>7. clients[p] \in {NoZone, z}
  BY <1>1, <1>6 DEF Placed, Routed
<1> HIDE DEF t, m, x
<1>8. hand'[z].to = t /\ hand'[z].who = p /\ hand'[z].stage = "note"
      /\ \A y \in Zone \ {z} : hand'[y] = hand[y]
  <2>1. hand' = [hand EXCEPT ![z] = [@ EXCEPT !.stage = "note"]]
    BY <1>3
  <2>2. DOMAIN hand = Zone
    BY DEF Sound, Typed
  <2> QED
    BY <1>1, <2>1, <2>2 DEF Handing, t
<1>9. ASSUME NEW y \in Zone
      PROVE  /\ ~Held(y, p)' /\ ~Sent(y, p)' /\ ~Handed(y, p)' /\ ~Stepping(y, p)'
             /\ Busy(y, p)' <=> y = z
             /\ None(up'[y], Hands(p)) /\ None(down[y], Bears(p))
             /\ down[y] \in Seq(Letter)
             /\ down'[y] = IF y = t THEN Append(down[y], m) ELSE down[y]
  <2>1. ~Held(y, p) /\ ~Sent(y, p) /\ ~Due(y, p) /\ (y # z => ~Handed(y, p))
    BY <1>5 DEF At
  <2>2. ~Held(y, p)' /\ ~Sent(y, p)' /\ None(up'[y], Hands(p)) /\ None(down[y], Bears(p))
    BY <1>3, <2>1 DEF Held, Sent, Due
  <2>3. ~Handed(y, p)' /\ (Busy(y, p)' <=> y = z)
    BY <1>6, <1>8, <2>1 DEF Handed, Busy
  <2>4. down[y] \in Seq(Letter) /\ down'[y] = IF y = t THEN Append(down[y], m) ELSE down[y]
    BY <1>3 DEF Sound, Typed
  <2>5. ~Stepping(y, p)'
    BY <1>3, <2>1, SteppingHeld DEF Sound, Stepping
  <2> QED
    BY <2>2, <2>3, <2>4, <2>5
<1>10. ASSUME NEW y \in Zone
       PROVE  /\ Due(y, p)' <=> y = t
              /\ Once(down'[y], Bears(p))
              /\ p \notin undone => None(down'[y], Bears(p) \ {Join(p), Spawn(p, pos[p])})
              /\ None(down'[y], {Spawn(p, Nowhere)}) /\ None(down'[y], {Join(p)})
              /\ Before(down'[y], Asks(p), Bears(p))
              /\ None(down[y], Goes(p)) => None(down'[y], Goes(p))
  <2> DEFINE B == Bears(p) \ {Join(p), Spawn(p, pos[p])}
             N == {Spawn(p, Nowhere)}
             J == {Join(p)}
  <2>1. /\ None(down[y], B) /\ None(down[y], N) /\ None(down[y], J)
        /\ p \notin undone => m \notin B
        /\ m \notin N /\ m \notin J
    BY <1>2, <1>4, <1>9, NoneLess DEF m
  <2> HIDE DEF B, N, J
  <2>2. Once(down[y], Bears(p)) /\ Before(down[y], Asks(p), Bears(p))
    BY <1>9, NoneOnce, NoneBefore
  <2>3. CASE y = t
    <3>1. down'[y] = Append(down[y], m) /\ down[y] \in Seq(Letter) /\ m \in Letter
      BY <1>4, <1>9, <2>3
    <3>2. /\ ~None(down'[y], Bears(p)) /\ (p \notin undone => None(down'[y], B))
          /\ None(down'[y], N)
          /\ None(down'[y], J) /\ (None(down[y], Goes(p)) => None(down'[y], Goes(p)))
      BY <1>4, <2>1, <3>1, NoneAppend
    <3>3. Once(down'[y], Bears(p)) /\ Before(down'[y], Asks(p), Bears(p))
      BY <1>4, <1>9, <2>2, <3>1, OnceAppend, BeforeAppend
    <3> QED
      BY <2>3, <3>2, <3>3 DEF Due, B, N, J
  <2>4. CASE y # t
    BY <1>9, <2>1, <2>2, <2>4 DEF Due, B, N, J
  <2> QED
    BY <2>3, <2>4
<1>11. \A y \in Zone : At(y, p)' <=> y = t
  BY <1>9, <1>10 DEF At
<1>12. One(p)' /\ Exact(p)'
  <2>1. One(p)'
    BY <1>9, <1>10, <1>11, NoneOnce DEF One
  <2>2. Exact(p)'
    <3>1. pos' = pos /\ undone' = undone
      BY <1>3
    <3>2. \A y \in Zone : None(up'[y], Hands(p) \ {Migrate(p, pos'[p])})
      BY <1>9, NoneLess
    <3> QED
      BY <1>9, <1>10, <3>1, <3>2 DEF Exact
  <2> QED
    BY <2>1, <2>2
<1>13. Crossing(p)'
  <2>1. clients'[p] # t
    BY <1>2, <1>3, <1>7 DEF t
  <2>2. ASSUME NEW y \in Zone, Busy(y, p)'
        PROVE  /\ \A v \in Zone : At(v, p)' => v = hand'[y].to /\ ~Sent(v, p)' /\ ~Handed(v, p)'
               /\ hand'[y].to \in DOMAIN Start /\ clients'[p] # hand'[y].to
               /\ ents'[hand'[y].to][p] = Nowhere
               /\ Before(down'[hand'[y].to], Asks(p), Bears(p))
               /\ None(down'[hand'[y].to], {Join(p)})
    <3>1. hand'[y].to = t /\ t \in Zone /\ t \in DOMAIN Start
      BY <1>2, <1>8, <1>9, <2>2 DEF t
    <3>2. \A v \in Zone : ents'[v][p] = Nowhere
      BY <1>9 DEF Held
    <3> QED
      BY <1>9, <1>10, <1>11, <2>1, <3>1, <3>2
  <2> QED
    BY <1>9, <2>2 DEF Crossing, Held
<1>14. Routed(p)' /\ Outward(p)'
  <2>1. Routed(p)'
    BY <1>9 DEF Routed
  <2>2. \A y \in Zone : None(up'[y], Vain(y, p))
    BY <1>9, NoneLess, MineKinds
  <2> QED
    BY <1>9, <2>1, <2>2 DEF Outward
<1>15. Served(p)'
  <2>1. \E y \in Zone : At(y, p)'
    BY <1>2, <1>11 DEF t
  <2>2. \A y \in Zone : None(down[y], Goes(p)) => None(down'[y], Goes(p))
    BY <1>10
  <2> QED
    BY <1>1, <1>3, <2>1, <2>2, ServiceKept
<1> QED
  BY <1>12, <1>13, <1>14, <1>15 DEF Placed

\* The gateway notes where the player arrives.
LEMMA NoteServes ==
  ASSUME Sound, Sound', NEW z \in Zone, Note(z),
         NEW p \in Player, p = hand[z].who, Placed(p), Served(p)
  PROVE  Placed(p)' /\ Served(p)'
<1> USE DEF gateway, processes, bounds, sessions
<1>1. Busy(z, p) /\ hand[z] \in Handing /\ hand[z].stage = "note"
  <2>1. hand[z].stage = "note" /\ hand[z] \in {Free} \cup Handing
    BY DEF Note, Sound, Typed
  <2>2. hand[z] \in Handing
    BY <2>1, HandingFacts
  <2> QED
    BY <2>1, <2>2 DEF Busy
<1>2. /\ hand' = [hand EXCEPT ![z].stage = "follow"]
      /\ UNCHANGED <<ents, up, down, clients, pc, at, pos, doing, undone>>
  BY DEF Note
<1>3. /\ hand'[z].to = hand[z].to /\ hand'[z].who = p /\ hand'[z].stage = "follow"
      /\ \A y \in Zone \ {z} : hand'[y] = hand[y]
  <2>1. hand' = [hand EXCEPT ![z] = [@ EXCEPT !.stage = "follow"]] /\ DOMAIN hand = Zone
    BY <1>2 DEF Sound, Typed
  <2> QED
    BY <1>1, <2>1 DEF Handing
<1>4. ASSUME NEW y \in Zone
      PROVE  /\ Busy(y, p)' <=> Busy(y, p)
             /\ Handed(y, p)' <=> Handed(y, p)
             /\ Handed(y, p)' => hand'[y] = hand[y]
             /\ Stepping(y, p)' <=> Stepping(y, p)
             /\ At(y, p)' <=> At(y, p)
             /\ hand'[y].to = hand[y].to
  <2>1. /\ Busy(y, p)' <=> Busy(y, p)
        /\ Handed(y, p)' <=> Handed(y, p)
        /\ Handed(y, p)' => hand'[y] = hand[y]
        /\ hand'[y].to = hand[y].to
    BY <1>1, <1>3 DEF Handed, Busy
  <2> QED
    BY <1>2, <2>1 DEF Stepping, At, Held, Due, Sent
<1>5. Fades(p)
  BY <1>2, <1>4 DEF Fades, Dwindles
<1>6. Placed(p)'
  BY <1>2, <1>5, PlaceKept
<1>7. Served(p)'
  BY <1>2, <1>4, ServiceKept
<1> QED
  BY <1>6, <1>7

\* The client follows, if it is still there.
LEMMA FollowServes ==
  ASSUME Sound, Sound', NEW z \in Zone, Follow(z),
         NEW p \in Player, p = hand[z].who, Placed(p), Served(p)
  PROVE  Placed(p)' /\ Served(p)'
<1> USE DEF gateway, processes, bounds, sessions
<1> DEFINE t == hand[z].to
<1>1. Busy(z, p)
  BY DEF Busy, Follow
<1>2. /\ hand' = [hand EXCEPT ![z] = Free]
      /\ clients' = [clients EXCEPT ![p] = IF @ = NoZone THEN NoZone ELSE t]
      /\ UNCHANGED <<ents, up, down, pc, at, pos, doing, undone>>
  BY DEF Follow, Repointed
<1>3. clients'[p] = IF clients[p] = NoZone THEN NoZone ELSE t
  BY <1>2 DEF Sound, Typed
<1>4. /\ t \in DOMAIN Start
      /\ \A y \in Zone : At(y, p) => y = t /\ ~Sent(y, p) /\ ~Handed(y, p)
      /\ \A y \in Zone : Busy(y, p) => y = z
  BY <1>1 DEF Placed, Crossing
<1> HIDE DEF t
<1>5. ASSUME NEW y \in Zone
      PROVE  /\ Held(y, p)' <=> Held(y, p)
             /\ Due(y, p)' <=> Due(y, p)
             /\ Sent(y, p)' <=> Sent(y, p)
             /\ Stepping(y, p)' <=> Stepping(y, p)
             /\ ~Handed(y, p)' /\ ~Busy(y, p)'
             /\ At(y, p)' <=> At(y, p)
  <2>1. /\ Held(y, p)' <=> Held(y, p)
        /\ Due(y, p)' <=> Due(y, p)
        /\ Sent(y, p)' <=> Sent(y, p)
        /\ Stepping(y, p)' <=> Stepping(y, p)
    BY <1>2 DEF Held, Due, Sent, Stepping
  <2>2. hand'[y] = IF y = z THEN Free ELSE hand[y]
    BY <1>2 DEF Sound, Typed
  <2>3. ~Handed(y, p)
    BY <1>4 DEF At
  <2>4. ~Handed(y, p)' /\ ~Busy(y, p)'
    BY <1>4, <2>2, <2>3 DEF Handed, Busy, Free
  <2> QED
    BY <2>1, <2>3, <2>4 DEF At
<1>6. One(p)' /\ Exact(p)'
  BY <1>2, <1>5 DEF Placed, One, Exact
<1>7. Crossing(p)' /\ Outward(p)'
  BY <1>2, <1>5 DEF Placed, Crossing, Outward
<1>8. Routed(p)'
  BY <1>3, <1>4, <1>5 DEF Routed
<1>9. Served(p)'
  BY <1>1, <1>2, <1>3, <1>4, <1>5, ServiceKept
<1> QED
  BY <1>6, <1>7, <1>8, <1>9 DEF Placed

LEMMA ListenerServes ==
  ASSUME StaticFleet, Still, Sound, Sound', NEW z \in Zone, Listener(z), NEW p \in Player,
         Placed(p), Served(p)
  PROVE  Placed(p)' /\ Served(p)'
<1>1. CASE p # Spoken(z) \/ Report(z)
  BY <1>1, ListenerBystander
<1>2. CASE p = Spoken(z)
  <2>1. CASE Lookup(z)
    <3>1. p = Head(up[z]).who
      BY <1>2, <2>1, SpokenFacts
    <3> QED
      BY <2>1, <3>1, LookupServes
  <2>2. CASE Send(z) \/ Note(z) \/ Follow(z)
    <3>1. p = hand[z].who
      BY <1>2, <2>2, SpokenFacts
    <3> QED
      BY <2>2, <3>1, SendServes, NoteServes, FollowServes
  <2> QED
    BY <1>1, <2>1, <2>2 DEF Listener
<1> QED
  BY <1>1, <1>2
----------------------------------------------------------------------------
\* The inductive invariant of the crossings.

Crossings == Sound /\ Still /\ \A p \in Player : p \notin traced => Placed(p) /\ Served(p)

LEMMA InitCrossings ==
  ASSUME Init, NEW p \in Player
  PROVE  Placed(p) /\ Served(p)
<1>1. \A z \in Zone : /\ ents[z][p] = Nowhere /\ down[z] = <<>> /\ up[z] = <<>>
                      /\ hand[z] = Free /\ doing[z] = Resting
  BY DEF Init
<1>2. \A K : None(<<>>, K)
  BY DEF None
<1>3. ASSUME NEW z \in Zone
      PROVE  /\ ~Held(z, p) /\ ~Due(z, p) /\ ~Sent(z, p) /\ ~Handed(z, p) /\ ~Busy(z, p)
             /\ ~Stepping(z, p) /\ ~At(z, p)
             /\ \A K : None(down[z], K) /\ None(up[z], K)
  BY <1>1, <1>2 DEF Held, Due, Sent, Handed, Busy, Stepping, At, Free, Resting
<1>4. Placed(p)
  BY <1>3, NoneOnce DEF Placed, One, Exact, Crossing, Routed, Outward
<1>5. \A s \in Socket : pc[s] = "offline"
  BY DEF Init
<1>6. ~Online(p)
  BY <1>5 DEF Online
<1>7. Served(p)
  BY <1>3, <1>5, <1>6 DEF Served, Somewhere, Single, NotYet, Leaving, Entering, Active
<1> QED
  BY <1>4, <1>7

\* Only a login adds to the history of traces.
LEMMA TracesStay ==
  ASSUME [Next]_vars, NEW p \in Player, p \notin traced'
  PROVE  p \notin traced
<1> USE DEF gateway, processes, bounds, sessions
<1>1. ASSUME NEW s \in Socket, Session(s) PROVE traced \in SUBSET traced'
  BY <1>1 DEF Session, Authenticate, Admit, Enter, Appear, Close, Forget, Save, TellLeave, Frame
<1>2. ASSUME NEW z \in Zone, Process(z) PROVE traced' = traced
  BY <1>2 DEF Process, Handler, Loop, Joined, Left, Moved, Stepped, Spawned, Resized, Exited,
              Woke, Ticked, Flushed
<1>3. ASSUME NEW z \in Zone, Listener(z) PROVE traced' = traced
  BY <1>3 DEF Listener, Report, Lookup, Send, Note, Follow
<1>4. ASSUME Scaler PROVE traced' = traced
  BY <1>4 DEF Scaler, SplitBegin, MergeBegin, LaunchFails, Register, Shrink, SplitEnd, Swap,
              Tell, Retire, Take, Resettle, Repoint
<1>5. ASSUME UNCHANGED vars PROVE traced' = traced
  BY <1>5 DEF vars
<1> QED
  BY <1>1, <1>2, <1>3, <1>4, <1>5 DEF Next

LEMMA NextCrossings ==
  ASSUME StaticFleet, Crossings, [Next]_vars
  PROVE  Crossings'
<1> USE DEF gateway, processes, bounds, sessions
<1>1. Sound /\ Still /\ Sound' /\ Still'
  BY SoundNext, StillKept DEF Crossings
<1>2. ASSUME NEW p \in Player, p \notin traced' PROVE Placed(p)' /\ Served(p)'
  <2>0. Placed(p) /\ Served(p)
    BY <1>2, TracesStay DEF Crossings
  <2>1. CASE \E s \in Socket : Session(s)
    BY <1>1, <1>2, <2>0, <2>1, SessionServes
  <2>2. CASE \E z \in Zone : Process(z)
    BY <1>1, <2>0, <2>2, ProcessServes
  <2>3. CASE \E z \in Zone : Listener(z)
    BY <1>1, <2>0, <2>3, ListenerServes
  <2>4. ~Scaler
    BY <1>1, NoScaler DEF StaticFleet
  <2>5. CASE UNCHANGED vars
    <3>1. UNCHANGED <<ents, doing, undone, hand, down, up, pos, clients, pc, at>>
      BY <2>5 DEF vars
    <3>2. \A z \in Zone : Skips(down[z], down'[z], Mine(p)) /\ Skips(up[z], up'[z], Mine(p))
      BY <3>1 DEF Skips
    <3> QED
      BY <1>1, <2>0, <3>1, <3>2, Bystander
  <2> QED
    BY <2>1, <2>2, <2>3, <2>4, <2>5 DEF Next
<1> QED
  BY <1>1, <1>2 DEF Crossings

LEMMA CrossingsHold ==
  ASSUME StaticFleet
  PROVE  Spec => []Crossings
<1>1. Init => Crossings
  <2>1. Init => Sound
    <3>1. Init => Abreast
      BY DEF Init, Abreast
    <3> QED
      BY <3>1, InitTyped, InitFleet DEF Sound
  <2> QED
    BY <2>1, InitStill, InitCrossings DEF Crossings
<1>2. Crossings /\ [Next]_vars => Crossings'
  BY NextCrossings
<1> QED
  BY <1>1, <1>2, PTL DEF Spec

\* What a place of p is made of, in the words of One.
LEMMA PlaceFacts ==
  ASSUME Crossings, NEW p \in Player, NEW a \in Places(p)
  PROVE  \E z \in Zone :
           \/ a = <<"zone", z>> /\ Held(z, p)
           \/ \E i \in DOMAIN down[z] : a = <<"down", z, i>> /\ down[z][i] \in Bears(p)
           \/ \E i \in DOMAIN up[z] : a = <<"up", z, i>> /\ up[z][i] \in Hands(p)
           \/ a = <<"hand", z>> /\ Handed(z, p)
<1>0. scaler.stage # "spawn"
  BY DEF Crossings, Still, Resting
<1>1. CASE a \in {<<"zone", z>> : z \in {y \in Zone : p \in Present(y)}}
  BY <1>1 DEF Present, Held
<1>2. CASE a \in UNION {{<<"down", z, i>> : i \in Bearing(down[z], p)} : z \in Zone}
  <2>0. PICK z \in Zone : a \in {<<"down", z, i>> : i \in Bearing(down[z], p)}
    BY <1>2
  <2>1. PICK i \in Bearing(down[z], p) : a = <<"down", z, i>>
    BY <2>0
  <2>2. i \in DOMAIN down[z] /\ down[z][i] \in Letter /\ down[z][i].who = p
        /\ down[z][i].kind \in {"player_join", "spawn_entity", "migrate_request"}
    BY <2>1 DEF Bearing, Crossings, Sound, Typed
  <2>3. down[z][i] \in Bears(p)
    BY <2>2, LetterOut, LetterOfMine
  <2> QED
    BY <2>1, <2>2, <2>3
<1>3. CASE a \in UNION {{<<"up", z, i>> : i \in Bearing(up[z], p)} : z \in Zone}
  <2>0. PICK z \in Zone : a \in {<<"up", z, i>> : i \in Bearing(up[z], p)}
    BY <1>3
  <2>1. PICK i \in Bearing(up[z], p) : a = <<"up", z, i>>
    BY <2>0
  <2>2. i \in DOMAIN up[z] /\ up[z][i] \in Word /\ up[z][i].who = p
        /\ up[z][i].kind \in {"player_join", "spawn_entity", "migrate_request"}
    BY <2>1 DEF Bearing, Crossings, Sound, Typed
  <2>3. up[z][i] \in Hands(p)
    BY <2>2, WordOut, WordOfMine
  <2> QED
    BY <2>1, <2>2, <2>3
<1>4. CASE a \in {<<"hand", z>> : z \in {y \in Zone : hand[y].stage = "send" /\ hand[y].who = p}}
  BY <1>4 DEF Handed
<1> QED
  BY <1>0, <1>1, <1>2, <1>3, <1>4 DEF Places

\* The zone of a place of p.
LEMMA PlaceIsAt ==
  ASSUME NEW p \in Player, NEW z \in Zone
  PROVE  /\ \A i \in DOMAIN down[z] : down[z][i] \in Bears(p) => Due(z, p)
         /\ \A i \in DOMAIN up[z] : up[z][i] \in Hands(p) => Sent(z, p)
BY DEF Due, Sent, None

\* A player is in one place at most, in flight or simulated, whatever the
\* interleaving of crossings, disconnects, later logins, listeners and game loops:
\* a listener that hands a player over has taken the only message that did, and a
\* zone that receives it had none. What a login that finds traces of an earlier
\* session makes of its player is left out.
THEOREM AtMostOneHome ==
  ASSUME StaticFleet
  PROVE  Spec => []OneHome
<1>1. Crossings => OneHome
  <2> SUFFICES ASSUME Crossings, NEW p \in Player, p \notin traced
               PROVE  Cardinality(Places(p)) <= 1
    BY DEF OneHome
  <2>0. One(p)
    BY DEF Crossings, Placed
  <2>1. ASSUME NEW a \in Places(p), NEW b \in Places(p) PROVE a = b
    <3>1. PICK z \in Zone :
           \/ a = <<"zone", z>> /\ Held(z, p)
           \/ \E i \in DOMAIN down[z] : a = <<"down", z, i>> /\ down[z][i] \in Bears(p)
           \/ \E i \in DOMAIN up[z] : a = <<"up", z, i>> /\ up[z][i] \in Hands(p)
           \/ a = <<"hand", z>> /\ Handed(z, p)
      BY PlaceFacts
    <3>2. PICK y \in Zone :
           \/ b = <<"zone", y>> /\ Held(y, p)
           \/ \E i \in DOMAIN down[y] : b = <<"down", y, i>> /\ down[y][i] \in Bears(p)
           \/ \E i \in DOMAIN up[y] : b = <<"up", y, i>> /\ up[y][i] \in Hands(p)
           \/ b = <<"hand", y>> /\ Handed(y, p)
      BY PlaceFacts
    <3>3. At(z, p) /\ At(y, p)
      BY <3>1, <3>2, PlaceIsAt DEF At
    <3>4. y = z
      BY <2>0, <3>3 DEF One
    <3>5. CASE Held(z, p)
      <4>1. ~Due(z, p) /\ ~Sent(z, p) /\ ~Handed(z, p)
        BY <2>0, <3>5 DEF One
      <4> QED
        BY <3>1, <3>2, <3>4, <4>1, PlaceIsAt
    <3>6. CASE Due(z, p)
      <4>1. ~Held(z, p) /\ ~Sent(z, p) /\ ~Handed(z, p) /\ Once(down[z], Bears(p))
        BY <2>0, <3>6 DEF One
      <4>2. PICK i \in DOMAIN down[z] : a = <<"down", z, i>> /\ down[z][i] \in Bears(p)
        BY <3>1, <4>1, PlaceIsAt
      <4>3. PICK j \in DOMAIN down[z] : b = <<"down", z, j>> /\ down[z][j] \in Bears(p)
        BY <3>2, <3>4, <4>1, PlaceIsAt
      <4>4. i = j
        BY <4>1, <4>2, <4>3 DEF Once
      <4> QED
        BY <4>2, <4>3, <4>4
    <3>7. CASE Sent(z, p)
      <4>1. ~Held(z, p) /\ ~Due(z, p) /\ ~Handed(z, p) /\ Once(up[z], Hands(p))
        BY <2>0, <3>7 DEF One
      <4>2. PICK i \in DOMAIN up[z] : a = <<"up", z, i>> /\ up[z][i] \in Hands(p)
        BY <3>1, <4>1, PlaceIsAt
      <4>3. PICK j \in DOMAIN up[z] : b = <<"up", z, j>> /\ up[z][j] \in Hands(p)
        BY <3>2, <3>4, <4>1, PlaceIsAt
      <4>4. i = j
        BY <4>1, <4>2, <4>3 DEF Once
      <4> QED
        BY <4>2, <4>3, <4>4
    <3>8. CASE Handed(z, p)
      <4>1. ~Held(z, p) /\ ~Due(z, p) /\ ~Sent(z, p)
        BY <2>0, <3>8 DEF One
      <4> QED
        BY <3>1, <3>2, <3>4, <4>1, PlaceIsAt
    <3> QED
      BY <3>3, <3>5, <3>6, <3>7, <3>8 DEF At
  <2> DEFINE S == Places(p)
  <2>2. \A a, b \in S : a = b
    BY <2>1
  <2> HIDE DEF S
  <2>3. CASE S = {}
    BY <2>3, FS_EmptySet DEF S
  <2>4. CASE S # {}
    <3>1. PICK a \in S : TRUE
      BY <2>4
    <3>2. S = {a}
      BY <2>2, <3>1
    <3>3. Cardinality({a}) = 1
      BY FS_Singleton
    <3> QED
      BY <3>2, <3>3 DEF S
  <2> QED
    BY <2>3, <2>4
<1> QED
  BY <1>1, CrossingsHold, PTL

\* A crossing loses no ground: the zone that has a player has it where the
\* simulation last put it, however late the reports and the handoff are. Left out
\* are those that logged in over traces of an earlier session, and those that
\* died between the two halves of a move.
THEOREM CrossingIsSeamless ==
  ASSUME StaticFleet
  PROVE  Spec => []Seamless
<1>1. Crossings => Seamless
  BY DEF Crossings, Placed, Exact, Held, Present, Seamless
<1> QED
  BY <1>1, CrossingsHold, PTL

\* At rest, the frames of a connected player go to the zone that simulates it: no
\* order of handoffs, moves, deaths and logins leaves a client pointed at a zone
\* its player has left. What a login that finds traces of an earlier session makes
\* of its player is left out.
THEOREM RestsRoutedRight ==
  ASSUME StaticFleet
  PROVE  Spec => []RoutedRight
<1>1. Crossings => RoutedRight
  <2> SUFFICES ASSUME Crossings, Quiet, NEW p \in Player, Online(p), p \notin traced
               PROVE  clients[p] \in alive /\ ents[clients[p]][p] # Nowhere
    BY DEF RoutedRight
  <2>0. Placed(p) /\ Served(p) /\ Still
    BY DEF Crossings
  <2>1. ASSUME NEW z \in Zone
        PROVE  ~Due(z, p) /\ ~Sent(z, p) /\ ~Handed(z, p) /\ ~Busy(z, p)
    <3>1. down[z] = <<>> /\ up[z] = <<>> /\ hand[z].stage = "free"
      BY DEF Quiet, Free
    <3>2. \A K : None(<<>>, K)
      BY DEF None
    <3> QED
      BY <3>1, <3>2 DEF Due, Sent, Handed, Busy
  <2>2. PICK z \in Zone : At(z, p)
    BY <2>0 DEF Served, Somewhere
  <2>3. Held(z, p)
    BY <2>1, <2>2 DEF At
  <2>4. clients[p] \in DOMAIN Start /\ clients[p] # NoZone
    <3>1. clients[p] \in DOMAIN Start
      BY <2>0 DEF Served, Entering, Online
    <3> QED
      BY <3>1, HandoffAssumption
  <2>5. clients[p] = z
    BY <2>0, <2>1, <2>2, <2>4 DEF Placed, Routed
  <2>6. alive = DOMAIN Start
    BY <2>0 DEF Still
  <2> QED
    BY <2>3, <2>4, <2>5, <2>6 DEF Held
<1> QED
  BY <1>1, CrossingsHold, PTL

----------------------------------------------------------------------------
(***************************************************************************)
(* While zones are split a player may be in two places, and at an older    *)
(* position in one of them; what remains is that it is in some place which *)
(* no message under way takes it out of. It may leave and come back, as    *)
(* long as its logins find no trace of an earlier session.                 *)
(***************************************************************************)

\* The fleet only grows; the zones cover the strip.
GrowingFleet ==
  /\ MaxMerges = 0
  /\ \A x \in Spot : \E z \in DOMAIN Start : Owns(Start[z], x)

\* No zone retires, every spot has an owner, and whoever picked a zone finds it.
Covered == \A x \in Spot : \E z \in DOMAIN zones : Owns(zones[z], x)

Growing ==
  /\ merges = 0 /\ (scaler.stage # "rest" => scaler.op = "split")
  /\ \A z \in Zone : None(down[z], {Shutdown})
  /\ Covered
  /\ \A z \in Zone : hand[z].stage = "send" => hand[z].to \in DOMAIN zones
  /\ \A s \in Socket : pc[s] \in {"admitted", "entered"} => at[s] \in DOMAIN zones

\* One of K in the queue q, and all of L before it.
Lands(q, K, L) == \E i \in DOMAIN q : q[i] \in K /\ \A j \in DOMAIN q : q[j] \in L => j < i

\* p is with z to stay: no player_leave in z's mail will find it.
Stays(z, p) ==
  \/ Held(z, p) /\ None(down[z], Goes(p))
  \/ Lands(down[z], Bears(p), Goes(p))
  \/ Sent(z, p)
  \/ Handed(z, p)

Carried(p) == scaler.stage = "spawn" /\ scaler.mover.who = p

Accounted(p) == Online(p) => Carried(p) \/ \E z \in Zone : Stays(z, p)

LEMMA LandsAppend ==
  ASSUME NEW S, NEW q \in Seq(S), NEW m \in S, NEW K, NEW L, m \notin L
  PROVE  /\ Lands(q, K, L) => Lands(Append(q, m), K, L)
         /\ m \in K => Lands(Append(q, m), K, L)
<1>1. /\ DOMAIN q = 1 .. Len(q) /\ Len(q) \in Nat
      /\ DOMAIN Append(q, m) = DOMAIN q \cup {Len(q) + 1}
      /\ Append(q, m)[Len(q) + 1] = m
      /\ \A i \in DOMAIN q : Append(q, m)[i] = q[i]
  BY AppendFacts
<1>2. ASSUME Lands(q, K, L) PROVE Lands(Append(q, m), K, L)
  <2>1. PICK i \in DOMAIN q : q[i] \in K /\ \A j \in DOMAIN q : q[j] \in L => j < i
    BY <1>2 DEF Lands
  <2>2. \A j \in DOMAIN Append(q, m) : Append(q, m)[j] \in L => j < i
    BY <1>1, <2>1
  <2> QED
    BY <1>1, <2>1, <2>2 DEF Lands
<1>3. ASSUME m \in K PROVE Lands(Append(q, m), K, L)
  <2>1. \A j \in DOMAIN Append(q, m) : Append(q, m)[j] \in L => j < Len(q) + 1
    BY <1>1
  <2> QED
    BY <1>1, <1>3, <2>1 DEF Lands
<1> QED
  BY <1>2, <1>3

LEMMA LandsTail ==
  ASSUME NEW S, NEW q \in Seq(S), q # <<>>, NEW K, NEW L, Lands(q, K, L)
  PROVE  Lands(Tail(q), K, L) \/ (Head(q) \in K /\ None(Tail(q), L))
<1>1. /\ Head(q) = q[1] /\ 1 \in DOMAIN q
      /\ \A i \in DOMAIN Tail(q) : i \in Nat \ {0} /\ i + 1 \in DOMAIN q /\ Tail(q)[i] = q[i + 1]
      /\ \A i \in DOMAIN q : i \in Nat \ {0}
                             /\ (i # 1 => i - 1 \in DOMAIN Tail(q) /\ Tail(q)[i - 1] = q[i])
  BY TailFacts
<1>2. PICK i \in DOMAIN q : q[i] \in K /\ \A j \in DOMAIN q : q[j] \in L => j < i
  BY DEF Lands
<1>3. CASE i = 1
  <2>1. ASSUME NEW j \in DOMAIN Tail(q) PROVE Tail(q)[j] \notin L
    <3>1. j \in Nat \ {0} /\ j + 1 \in DOMAIN q /\ Tail(q)[j] = q[j + 1] /\ ~(j + 1 < 1)
      BY <1>1
    <3> QED
      BY <1>2, <1>3, <3>1
  <2> QED
    BY <1>1, <1>2, <1>3, <2>1 DEF None
<1>4. CASE i # 1
  <2>1. i - 1 \in DOMAIN Tail(q) /\ Tail(q)[i - 1] \in K
    BY <1>1, <1>2, <1>4
  <2>2. ASSUME NEW j \in DOMAIN Tail(q), Tail(q)[j] \in L PROVE j < i - 1
    <3>1. j \in Nat /\ i \in Nat /\ j + 1 < i
      BY <1>1, <1>2, <2>2
    <3> QED
      BY <3>1
  <2> QED
    BY <2>1, <2>2 DEF Lands
<1> QED
  BY <1>3, <1>4

\* A step that neither takes p out of z nor out of its mail, and does not ask z
\* to let it go.
Harmless(q, r, p) ==
  \/ r = q
  \/ q # <<>> /\ Head(q) \notin Bears(p) /\ r = Tail(q)
  \/ \E m : m \notin Goes(p) /\ r = Append(q, m)

LEMMA StaysOn ==
  ASSUME Typed, Typed', NEW z \in Zone, NEW p \in Player, Stays(z, p),
         Held(z, p) /\ None(down[z], Goes(p)) => Held(z, p)' \/ Sent(z, p)',
         Harmless(down[z], down'[z], p),
         Sent(z, p) \/ Handed(z, p) => Sent(z, p)' \/ Handed(z, p)'
  PROVE  Stays(z, p)'
<1>1. down[z] \in Seq(Letter) /\ down'[z] \in Seq(Letter)
  BY DEF Typed
<1>2. /\ None(down[z], Goes(p)) => None(down'[z], Goes(p))
      /\ Lands(down[z], Bears(p), Goes(p)) => Lands(down'[z], Bears(p), Goes(p))
  <2>1. CASE down[z] # <<>> /\ Head(down[z]) \notin Bears(p) /\ down'[z] = Tail(down[z])
    BY <1>1, <2>1, NoneTail, LandsTail
  <2>2. ASSUME NEW m, m \notin Goes(p), down'[z] = Append(down[z], m)
        PROVE  /\ None(down[z], Goes(p)) => None(down'[z], Goes(p))
               /\ Lands(down[z], Bears(p), Goes(p)) => Lands(down'[z], Bears(p), Goes(p))
    <3>1. m \in Letter
      <4>1. down'[z][Len(down[z]) + 1] = m /\ Len(down[z]) + 1 \in DOMAIN down'[z]
        BY <1>1, <2>2
      <4> QED
        BY <1>1, <4>1
    <3> QED
      BY <1>1, <2>2, <3>1, NoneAppend, LandsAppend
  <2> QED
    BY <2>1, <2>2 DEF Harmless
<1> QED
  BY <1>2 DEF Stays

----------------------------------------------------------------------------
\* The steps of a session.

LEMMA SessionAccounts ==
  ASSUME Sound, Sound', Growing, NEW s \in Socket, Session(s),
         NEW p \in Player, Single(p), Accounted(p), Online(p)'
  PROVE  Carried(p)' \/ \E z \in Zone : Stays(z, p)'
<1> USE DEF gateway, processes, bounds, sessions
<1> DEFINE o == Owner[s]
           a == at[s]
<1>0. /\ o \in Player /\ Typed /\ Typed' /\ pc \in [Socket -> Stages]
      /\ down \in [Zone -> Seq(Letter)] /\ DOMAIN zones \subseteq Zone
  BY HandoffAssumption DEF Sound, Typed
<1>1. UNCHANGED <<ents, hand, up, scaler>>
  BY DEF Session, Authenticate, Admit, Enter, Appear, Close, Forget, Save, TellLeave, Frame
<1>2. PICK t \in Socket : Owner[t] = p /\ pc'[t] = "online"
  BY DEF Online
<1>3. CASE o = p /\ Appear(s)
  <2>1. a \in DOMAIN zones /\ a \in Zone /\ last[s] \in Int
    <3>1. a \in DOMAIN zones /\ last[s] \in Spot
      BY <1>0, <1>3 DEF Growing, Appear, Typed
    <3> QED
      BY <1>0, <3>1, SpotFacts
  <2>2. PICK m \in {Join(p), Spawn(p, last[s])} : down' = [down EXCEPT ![a] = Append(@, m)]
    BY <1>3, <2>1 DEF Appear
  <2>3. m \in Bears(p) /\ m \notin Goes(p) /\ m \in Letter
    BY <2>1, KindsApart, LetterIn
  <2> HIDE DEF a
  <2>4. down'[a] = Append(down[a], m) /\ down[a] \in Seq(Letter)
    BY <1>0, <2>1, <2>2
  <2>5. Lands(down'[a], Bears(p), Goes(p))
    BY <2>3, <2>4, LandsAppend
  <2> QED
    BY <2>1, <2>5 DEF Stays
<1>4. CASE ~(o = p /\ Appear(s))
  <2>1. pc[t] = "online" /\ ~(o = p /\ TellLeave(s))
    <3>1. CASE t # s
      <4>1. pc' = pc \/ \E k : pc' = [pc EXCEPT ![s] = k]
        BY DEF Session, Authenticate, Admit, Enter, Appear, Close, Forget, Save, TellLeave, Frame
      <4>2. pc[t] = "online"
        BY <1>0, <1>2, <3>1, <4>1
      <4>3. TellLeave(s) => pc[s] = "saved"
        BY DEF TellLeave
      <4>4. "online" \in Active /\ "saved" \in Active
        BY DEF Active
      <4> QED
        BY <1>2, <3>1, <4>2, <4>3, <4>4 DEF Single
    <3>2. CASE t = s
      <4>1. ~(Authenticate(s) \/ Admit(s) \/ Enter(s) \/ Close(s) \/ Forget(s) \/ Save(s)
              \/ TellLeave(s))
        BY <1>0, <1>2, <3>2 DEF Authenticate, Admit, Enter, Close, Forget, Save, TellLeave
      <4>2. PICK dx \in Step : Frame(s, dx)
        BY <1>2, <1>4, <3>2, <4>1 DEF Session
      <4> QED
        BY <3>2, <4>1, <4>2 DEF Frame
    <3> QED
      BY <3>1, <3>2
  <2>2. Online(p)
    BY <1>2, <2>1 DEF Online
  <2>3. CASE Carried(p)
    BY <1>1, <2>3 DEF Carried
  <2>4. ASSUME NEW z \in Zone, Stays(z, p) PROVE Stays(z, p)'
    <3>1. \/ down' = down
          \/ \E y, m : m \notin Goes(p) /\ down' = [down EXCEPT ![y] = Append(@, m)]
      <4>1. /\ \A q \in Player : Join(q) \notin Goes(p)
            /\ \A q \in Player : \A x : Spawn(q, x) \notin Goes(p) /\ Move(q, x) \notin Goes(p)
            /\ o # p => Leave(o) \notin Goes(p)
        BY DEF Goes, Join, Spawn, Move, Leave
      <4>2. CASE Authenticate(s) \/ Admit(s) \/ Enter(s) \/ Close(s) \/ Forget(s) \/ Save(s)
        BY <4>2 DEF Authenticate, Admit, Enter, Close, Forget, Save
      <4>3. CASE Appear(s)
        <5>1. \/ down' = down
              \/ down' = [down EXCEPT ![a] = Append(@, Join(o))]
              \/ down' = [down EXCEPT ![a] = Append(@, Spawn(o, last[s]))]
          BY <4>3 DEF Appear
        <5> HIDE DEF o, a
        <5> QED
          BY <1>0, <4>1, <5>1
      <4>4. CASE TellLeave(s)
        <5>1. o # p
          BY <2>1, <4>4
        <5>2. down' = down \/ down' = [down EXCEPT ![a] = Append(@, Leave(o))]
          BY <4>4 DEF TellLeave
        <5> HIDE DEF o, a
        <5> QED
          BY <4>1, <5>1, <5>2
      <4>5. CASE \E dx \in Step : Frame(s, dx)
        <5>1. PICK dx \in Step : down' = [down EXCEPT ![clients[o]] = Append(@, Move(o, dx))]
          BY <4>5 DEF Frame
        <5> HIDE DEF o
        <5> QED
          BY <1>0, <4>1, <5>1
      <4> QED
        BY ONLY <4>2, <4>3, <4>4, <4>5, Session(s) DEF Session
    <3>2. Harmless(down[z], down'[z], p)
      <4>1. down'[z] = down[z] \/ \E m : m \notin Goes(p) /\ down'[z] = Append(down[z], m)
        BY <1>0, <3>1
      <4> QED
        BY <4>1 DEF Harmless
    <3>3. /\ Held(z, p) => Held(z, p)'
          /\ Sent(z, p) \/ Handed(z, p) => Sent(z, p)' \/ Handed(z, p)'
      BY <1>1 DEF Held, Sent, Handed
    <3> QED
      BY <1>0, <2>4, <3>2, <3>3, StaysOn
  <2> QED
    BY <2>2, <2>3, <2>4 DEF Accounted
<1> QED
  BY <1>3, <1>4

\* A login that finds no trace finds no other session.
LEMMA SingleKept ==
  ASSUME Typed, [Next]_vars, NEW p \in Player, p \notin traced', Single(p)
  PROVE  Single(p)'
<1> USE DEF gateway, processes, bounds, sessions
<1>0. pc \in [Socket -> Stages]
  BY DEF Typed
<1>1. CASE UNCHANGED pc
  BY <1>1 DEF Single
<1>2. ASSUME NEW s \in Socket, Session(s) PROVE Single(p)'
  <2>1. \A t \in Socket \ {s} : pc'[t] = pc[t]
    <3>1. pc' = pc \/ \E k : pc' = [pc EXCEPT ![s] = k]
      BY <1>2 DEF Session, Authenticate, Admit, Enter, Appear, Close, Forget, Save, TellLeave, Frame
    <3> QED
      BY <1>0, <3>1
  <2>2. CASE Enter(s) /\ Owner[s] = p
    <3>1. NoTrace(p)
      BY <1>2, <2>2 DEF Enter
    <3>2. \A t \in Socket : Owner[t] = p => pc[t] \notin Active
      BY <3>1 DEF NoTrace
    <3> QED
      BY <2>1, <3>2 DEF Single
  <2>3. CASE ~Enter(s)
    <3>1. pc'[s] \in Active => pc[s] \in Active
      BY <1>0, <1>2, <2>3
         DEF Session, Authenticate, Admit, Appear, Close, Forget, Save, TellLeave, Frame, Active
    <3> QED
      BY <2>1, <3>1 DEF Single
  <2>4. CASE Owner[s] # p
    BY <2>1, <2>4 DEF Single
  <2> QED
    BY <2>2, <2>3, <2>4
<1>3. ASSUME NEW z \in Zone, Process(z) \/ Listener(z) PROVE UNCHANGED pc
  BY <1>3 DEF Process, Handler, Loop, Joined, Left, Moved, Stepped, Spawned, Resized, Exited,
              Woke, Ticked, Flushed, Listener, Report, Lookup, Send, Note, Follow
<1>4. ASSUME Scaler PROVE UNCHANGED pc
  BY <1>4 DEF Scaler, SplitBegin, MergeBegin, LaunchFails, Register, Shrink, SplitEnd, Swap,
              Tell, Retire, Take, Resettle, Repoint
<1>5. ASSUME UNCHANGED vars PROVE UNCHANGED pc
  BY <1>5 DEF vars
<1> QED
  BY <1>1, <1>2, <1>3, <1>4, <1>5 DEF Next

----------------------------------------------------------------------------
\* The steps of a zone: no mail asks it to end, and a player it sends away is in
\* the message that says so.

LEMMA ZoneAccounts ==
  ASSUME Sound, Sound', NEW z \in Zone, UNCHANGED <<pc, scaler, hand>>,
         NEW p \in Player, Accounted(p), Online(p)',
         \A y \in Zone \ {z} : ents'[y][p] = ents[y][p] /\ up'[y] = up[y] /\ down'[y] = down[y],
         Sent(z, p) => Sent(z, p)',
         \/ down'[z] = down[z] /\ (Held(z, p) => Held(z, p)' \/ Sent(z, p)')
         \/ /\ down[z] # <<>> /\ down'[z] = Tail(down[z])
            /\ Held(z, p) /\ Head(down[z]) \notin Goes(p) => Held(z, p)'
            /\ Head(down[z]) \in Bears(p) => Held(z, p)'
  PROVE  Carried(p)' \/ \E y \in Zone : Stays(y, p)'
<1> DEFINE h == Head(down[z])
<1>1. Online(p) /\ (Carried(p)' <=> Carried(p)) /\ \A y \in Zone : Handed(y, p)' <=> Handed(y, p)
  BY DEF Online, Carried, Handed
<1>2. ASSUME NEW y \in Zone \ {z}, Stays(y, p) PROVE Stays(y, p)'
  BY <1>1, <1>2 DEF Stays, Held, Sent
<1>3. ASSUME Stays(z, p) PROVE Stays(z, p)'
  <2>1. CASE down'[z] = down[z] /\ (Held(z, p) => Held(z, p)' \/ Sent(z, p)')
    BY <1>1, <1>3, <2>1 DEF Stays
  <2>2. CASE /\ down[z] # <<>> /\ down'[z] = Tail(down[z])
             /\ Held(z, p) /\ h \notin Goes(p) => Held(z, p)'
             /\ h \in Bears(p) => Held(z, p)'
    <3>0. down[z] \in Seq(Letter)
      BY DEF Sound, Typed
    <3>1. None(down[z], Goes(p)) => None(down'[z], Goes(p)) /\ h \notin Goes(p)
      BY <2>2, <3>0, NoneTail
    <3>2. Lands(down[z], Bears(p), Goes(p)) =>
            Lands(down'[z], Bears(p), Goes(p)) \/ (Held(z, p)' /\ None(down'[z], Goes(p)))
      BY <2>2, <3>0, LandsTail
    <3> QED
      BY <1>1, <1>3, <2>2, <3>1, <3>2 DEF Stays
  <2> QED
    BY <2>1, <2>2
<1> QED
  BY <1>1, <1>2, <1>3 DEF Accounted

\* The mail a zone reads.
LEMMA MailAccounts ==
  ASSUME Sound, Sound', NEW z \in Zone,
         Joined(z) \/ Left(z) \/ Moved(z) \/ Spawned(z) \/ Resized(z),
         NEW p \in Player, Accounted(p), Online(p)'
  PROVE  Carried(p)' \/ \E y \in Zone : Stays(y, p)'
<1> USE DEF gateway, processes, bounds, sessions
<1> DEFINE h == Head(down[z])
           w == h.who
<1>1. down[z] # <<>> /\ down' = Handled(z) /\ UNCHANGED <<pc, scaler, hand>>
  BY DEF Joined, Left, Moved, Spawned, Resized, Serves
<1>2. /\ h \in Letter /\ down'[z] = Tail(down[z])
      /\ \A y \in Zone \ {z} : down'[y] = down[y]
  BY <1>1, Reading
<1>3. /\ ents \in [Zone -> [Player -> Spot \cup {Nowhere}]]
      /\ up \in [Zone -> Seq(Word)] /\ up' \in [Zone -> Seq(Word)]
  BY DEF Sound, Typed
<1>4. /\ h \in Bears(p) => h.kind \in {"player_join", "spawn_entity"} /\ w = p
      /\ h \in Goes(p) => h.kind = "player_leave"
  <2> HIDE DEF h
  <2> QED
    BY MineKinds
<1>5. ASSUME \A y \in Zone \ {z} : ents'[y][p] = ents[y][p] /\ up'[y] = up[y],
             Sent(z, p) => Sent(z, p)',
             Held(z, p) /\ h \notin Goes(p) => Held(z, p)',
             h \in Bears(p) => Held(z, p)'
      PROVE  Carried(p)' \/ \E y \in Zone : Stays(y, p)'
  BY <1>1, <1>2, <1>5, ZoneAccounts
<1>6. ASSUME NEW m \in Word, up' = Say(z, m)
      PROVE  (\A y \in Zone \ {z} : up'[y] = up[y]) /\ (Sent(z, p) => Sent(z, p)')
  <2>1. up'[z] = Append(up[z], m) /\ \A y \in Zone \ {z} : up'[y] = up[y]
    BY <1>3, <1>6 DEF Say
  <2>2. None(Append(up[z], m), Hands(p)) => None(up[z], Hands(p))
    BY <1>3, NoneAppend
  <2> QED
    BY <2>1, <2>2 DEF Sent
<1>7. ASSUME NEW v \in Player, NEW x, ents' = Put(z, v, x)
      PROVE  /\ \A y \in Zone \ {z} : ents'[y][p] = ents[y][p]
             /\ ents'[z][p] = IF v = p THEN x ELSE ents[z][p]
  BY <1>3, <1>7 DEF Put
<1> HIDE DEF h
<1>8. CASE Joined(z)
  <2>1. h.kind = "player_join" /\ w \in Player
    BY <1>2, <1>8, LetterOut DEF Joined, Serves, h
  <2>2. PICK x \in Spot : ents' = Put(z, w, x) /\ up' = [up EXCEPT ![z] = @ \o Statuses(ents'[z])]
    BY <1>8 DEF Joined, h
  <2> DEFINE ms == Statuses(ents'[z])
  <2>3. ms \in Seq(Telling) /\ up' = [up EXCEPT ![z] = @ \o ms]
    <3>1. ents'[z] \in [Player -> Spot \cup {Nowhere}] /\ Player \in SUBSET Player
      BY DEF Sound, Typed
    <3>2. Statuses(ents'[z]) \in Seq(Telling)
      BY ONLY <3>1, StatusesFacts
    <3> QED
      BY <2>2, <3>2
  <2> HIDE DEF ms
  <2>4. up'[z] = up[z] \o ms /\ \A y \in Zone \ {z} : up'[y] = up[y]
    BY <1>3, <2>3
  <2>5. Sent(z, p) => Sent(z, p)'
    <3>1. ms \in Seq(Word) /\ up[z] \in Seq(Word)
      BY <1>3, <2>3 DEF Telling, Word
    <3>2. None(up[z] \o ms, Hands(p)) => None(up[z], Hands(p))
      BY <3>1, NoneCat
    <3> QED
      BY <2>4, <3>2 DEF Sent
  <2>6. x # Nowhere
    BY SpotFacts
  <2> QED
    BY <1>4, <1>5, <1>7, <2>1, <2>2, <2>4, <2>5, <2>6 DEF Held
<1>9. CASE Left(z)
  <2>1. h.kind = "player_leave" /\ ents' = Put(z, w, Nowhere) /\ up' = up
    BY <1>9 DEF Left, Serves, Gone, h
  <2>2. w \in Player /\ (p = w => h \in Goes(p))
    BY <1>2, <2>1, LetterOut, LetterOfMine
  <2> QED
    BY <1>4, <1>5, <1>7, <2>1, <2>2 DEF Held, Sent
<1>10. CASE Moved(z)
  <2> DEFINE x == Clamped(ents[z][w] + h.dx)
  <2>1. h.kind = "move" /\ w \in Player /\ h.dx \in Step /\ up' = up
    BY <1>2, <1>10, LetterOut DEF Moved, Serves, h
  <2>2. ents' = ents \/ (w \in Present(z) /\ ents' = Put(z, w, x))
    BY <1>10 DEF Moved, h
  <2>3. w \in Present(z) => x # Nowhere
    <3>1. w \in Present(z) => ents[z][w] \in Int /\ h.dx \in Int
      BY <1>3, <2>1, SpotFacts, HandoffAssumption DEF Present, Nowhere
    <3> QED
      BY <3>1, SpotFacts
  <2> HIDE DEF x, w
  <2> QED
    BY <1>4, <1>5, <1>7, <2>1, <2>2, <2>3 DEF Held, Sent
<1>11. CASE Spawned(z)
  <2> DEFINE x == Clamped(h.x)
  <2>1. h.kind = "spawn_entity" /\ w \in Player /\ x \in Spot /\ x # Nowhere
    BY <1>2, <1>11, LetterOut, SpotFacts DEF Spawned, Serves, h
  <2>2. ents' = Put(z, w, x) /\ up' = Say(z, Status(w, x))
    BY <1>11 DEF Spawned, h
  <2> HIDE DEF x, w
  <2>3. Status(w, x) \in Word
    BY <2>1, WordIn
  <2> QED
    BY <1>4, <1>5, <1>6, <1>7, <2>1, <2>2, <2>3 DEF Held
<1>12. CASE Resized(z)
  <2>1. h.kind = "set_region" /\ UNCHANGED <<ents, up>>
    BY <1>12 DEF Resized, Serves, h
  <2> QED
    BY <1>4, <1>5, <2>1 DEF Held, Sent
<1> QED
  BY <1>8, <1>9, <1>10, <1>11, <1>12

\* What a zone does between two letters: whom it lets go it hands over.
LEMMA TurnAccounts ==
  ASSUME Sound, Sound', NEW z \in Zone, Stepped(z) \/ Woke(z) \/ Ticked(z) \/ Flushed(z),
         NEW p \in Player, Accounted(p), Online(p)'
  PROVE  Carried(p)' \/ \E y \in Zone : Stays(y, p)'
<1> USE DEF gateway, processes, bounds, sessions
<1>1. UNCHANGED <<pc, scaler, hand, down>>
  BY DEF Stepped, Woke, Ticked, Flushed
<1>2. /\ ents \in [Zone -> [Player -> Spot \cup {Nowhere}]]
      /\ up \in [Zone -> Seq(Word)] /\ doing[z] \in {Resting} \cup Pace
  BY DEF Sound, Typed
<1>3. ASSUME \A y \in Zone \ {z} : ents'[y][p] = ents[y][p] /\ up'[y] = up[y],
             Sent(z, p) => Sent(z, p)', Held(z, p) => Held(z, p)' \/ Sent(z, p)'
      PROVE  Carried(p)' \/ \E y \in Zone : Stays(y, p)'
  BY <1>1, <1>3, ZoneAccounts
<1>4. CASE Stepped(z)
  <2> DEFINE w == doing[z].who
             x == doing[z].x
             m == IF Owns(region[z], x) THEN Status(w, ents[z][w]) ELSE Migrate(w, x)
  <2>1. w \in Player /\ x \in Spot /\ doing[z] # Resting
    BY <1>2, <1>4, PaceFacts DEF Stepped
  <2>2. ents[z][w] \in Spot
    BY <1>2, <2>1 DEF Sound, Abreast
  <2>3. /\ up' = Say(z, m)
        /\ ents' = ents \/ (ents' = Put(z, w, Nowhere) /\ m = Migrate(w, x))
    BY <1>4 DEF Stepped, Gone
  <2>4. m \in Word
    BY <2>1, <2>2, WordIn
  <2>5. w = p /\ m = Migrate(w, x) => m \in Hands(p)
    BY <2>1, KindsApart
  <2> HIDE DEF w, x, m
  <2>6. up'[z] = Append(up[z], m) /\ \A y \in Zone \ {z} : up'[y] = up[y]
    BY <1>2, <2>3 DEF Say
  <2>7. None(Append(up[z], m), Hands(p)) => None(up[z], Hands(p)) /\ m \notin Hands(p)
    BY <1>2, <2>4, NoneAppend
  <2>8. (Sent(z, p) => Sent(z, p)') /\ (w = p /\ m = Migrate(w, x) => Sent(z, p)')
    BY <2>5, <2>6, <2>7 DEF Sent
  <2>9. /\ \A y \in Zone \ {z} : Put(z, w, Nowhere)[y][p] = ents[y][p]
        /\ w # p => Put(z, w, Nowhere)[z][p] = ents[z][p]
    BY <1>2, <2>1 DEF Put
  <2> QED
    BY <1>3, <2>3, <2>6, <2>8, <2>9 DEF Held
<1>5. CASE Woke(z)
  <2>1. UNCHANGED <<ents, up>>
    BY <1>5 DEF Woke
  <2> QED
    BY <1>3, <2>1 DEF Held, Sent
<1>6. CASE Ticked(z)
  <2>1. PICK died \in SUBSET Present(z), es \in [Player -> Spot \cup {Nowhere}],
             ss \in Seq(Telling) : Tick(z, died, es, ss)
    BY <1>6, TickedFacts DEF Sound
  <2>2. /\ ents'[z][p] = es[p] /\ \A y \in Zone \ {z} : ents'[y][p] = ents[y][p]
        /\ IF p \in died THEN es[p] \in Spot ELSE es[p] = ents[z][p]
    BY <1>2, <2>1 DEF Tick
  <2>3. Held(z, p) => Held(z, p)'
    BY <2>2, SpotFacts DEF Held
  <2>4. up' = up
    BY <1>6 DEF Ticked
  <2> QED
    BY <1>3, <2>2, <2>3, <2>4 DEF Sent
<1>7. CASE Flushed(z)
  <2> DEFINE ms == tick[z].packets
  <2>1. ents' = ents /\ up' = [up EXCEPT ![z] = @ \o ms]
    BY <1>7 DEF Flushed
  <2>2. ms \in Seq(Telling)
    BY <1>7, LoopFacts DEF Flushed, Sound, Typed
  <2> HIDE DEF ms
  <2>3. up'[z] = up[z] \o ms /\ \A y \in Zone \ {z} : up'[y] = up[y]
    BY <1>2, <2>1
  <2>4. Sent(z, p) => Sent(z, p)'
    <3>1. ms \in Seq(Word) /\ up[z] \in Seq(Word)
      BY <1>2, <2>2 DEF Telling, Word
    <3>2. None(up[z] \o ms, Hands(p)) => None(up[z], Hands(p))
      BY <3>1, NoneCat
    <3> QED
      BY <2>3, <3>2 DEF Sent
  <2> QED
    BY <1>3, <2>1, <2>3, <2>4 DEF Held
<1> QED
  BY <1>4, <1>5, <1>6, <1>7

LEMMA ProcessAccounts ==
  ASSUME Sound, Sound', Growing, NEW z \in Zone, Process(z),
         NEW p \in Player, Accounted(p), Online(p)'
  PROVE  Carried(p)' \/ \E y \in Zone : Stays(y, p)'
<1>1. ~Exited(z)
  <2> SUFFICES ASSUME Exited(z) PROVE FALSE
    OBVIOUS
  <2>1. down[z] # <<>> /\ Head(down[z]).kind = "shutdown"
    BY DEF Exited, Serves
  <2>2. Head(down[z]) = Shutdown
    BY <2>1, Reading, LetterOut
  <2> QED
    BY <2>1, <2>2, Reading, NoneTail DEF Growing
<1> QED
  BY <1>1, MailAccounts, TurnAccounts DEF Process, Handler, Loop

----------------------------------------------------------------------------
\* The steps of a listener: what it takes it hands on, to a zone of the map.

LEMMA ListenerAccounts ==
  ASSUME Sound, Sound', Growing, NEW z \in Zone, Listener(z),
         NEW p \in Player, Accounted(p), Online(p)'
  PROVE  Carried(p)' \/ \E y \in Zone : Stays(y, p)'
<1> USE DEF gateway, processes, bounds, sessions
<1>1. /\ UNCHANGED <<pc, scaler, ents>>
      /\ hand \in [Zone -> {Free} \cup Handing] /\ down \in [Zone -> Seq(Letter)]
      /\ up \in [Zone -> Seq(Word)] /\ DOMAIN zones \subseteq Zone
  BY DEF Listener, Report, Lookup, Send, Note, Follow, Sound, Typed
<1>2. Online(p) /\ (Carried(p)' <=> Carried(p))
  BY <1>1 DEF Online, Carried
<1>3. ASSUME NEW y \in Zone, Stays(y, p),
             down'[y] = down[y] \/ \E m : m \notin Goes(p) /\ down'[y] = Append(down[y], m),
             Sent(y, p) \/ Handed(y, p) => Sent(y, p)' \/ Handed(y, p)'
      PROVE  Stays(y, p)'
  <2>1. Harmless(down[y], down'[y], p)
    BY <1>3 DEF Harmless
  <2>2. Held(y, p)' <=> Held(y, p)
    BY <1>1 DEF Held
  <2> QED
    BY <1>3, <2>1, <2>2, StaysOn DEF Sound
<1>4. CASE Report(z) \/ Lookup(z)
  <2> DEFINE h == Head(up[z])
  <2>1. /\ up[z] # <<>> /\ h \in Word /\ hand[z] = Free /\ up' = Heard(z) /\ down' = down
        /\ up'[z] = Tail(up[z]) /\ \A y \in Zone \ {z} : up'[y] = up[y]
    <3>1. up[z] # <<>> /\ hand[z] = Free /\ up' = Heard(z) /\ down' = down
      BY <1>4 DEF Report, Lookup, Hears
    <3> QED
      BY <3>1, Hearing
  <2>2. /\ \A y \in Zone \ {z} : hand'[y] = hand[y]
        /\ h \in Hands(p) => Handed(z, p)'
    <3>1. CASE Report(z)
      <4>1. h.kind = "status_update" /\ hand' = hand
        BY <3>1 DEF Report, Hears
      <4>2. h \notin Hands(p)
        <5> HIDE DEF h
        <5> QED
          BY <4>1, MineKinds
      <4> QED
        BY <4>1, <4>2
    <3>2. CASE Lookup(z)
      <4>1. PICK t \in DOMAIN zones : Owns(zones[t], h.x)
        <5>1. h.x \in Spot
          BY <2>1, WordOut
        <5> QED
          BY <5>1 DEF Growing, Covered
      <4>2. PICK t2 : hand' = [hand EXCEPT ![z] = [stage |-> "send", who |-> h.who, x |-> h.x,
                                                   to |-> t2]]
        BY <3>2, <4>1 DEF Lookup
      <4> HIDE DEF h
      <4>3. h \in Hands(p) => h.who = p
        BY MineKinds
      <4> QED
        BY <1>1, <4>2, <4>3 DEF Handed
    <3> QED
      BY <1>4, <3>1, <3>2
  <2>3. ASSUME NEW y \in Zone, Sent(y, p) \/ Handed(y, p) PROVE Sent(y, p)' \/ Handed(y, p)'
    <3>1. CASE y = z
      <4>1. ~Handed(z, p)
        BY <2>1 DEF Handed, Free
      <4>2. ~None(up[z], Hands(p))
        BY <2>3, <3>1, <4>1 DEF Sent
      <4>3. ~None(up'[z], Hands(p)) \/ h \in Hands(p)
        BY <1>1, <2>1, <4>2, NoneTail
      <4> HIDE DEF h
      <4> QED
        BY <2>2, <3>1, <4>3 DEF Sent
    <3>2. CASE y # z
      BY <2>1, <2>2, <2>3, <3>2 DEF Sent, Handed
    <3> QED
      BY <3>1, <3>2
  <2> QED
    BY <1>2, <1>3, <2>1, <2>3 DEF Accounted
<1>5. CASE Send(z)
  <2> DEFINE h == hand[z]
             m == Spawn(h.who, h.x)
  <2>1. /\ h.stage = "send" /\ h \in Handing /\ h.to \in DOMAIN zones /\ h.to \in Zone
        /\ m \in Letter /\ m \notin Goes(p) /\ up' = up
    <3>1. h.stage = "send" /\ h \in Handing /\ up' = up
      BY <1>1, <1>5, HandingFacts DEF Send
    <3>2. h.who \in Player /\ h.x \in Int /\ h.to \in DOMAIN zones
      BY <3>1, SpotFacts DEF Handing, Growing
    <3>3. m \in Letter /\ m.kind = "spawn_entity"
      BY <3>2, LetterIn DEF Spawn
    <3>4. m \notin Goes(p)
      <4> HIDE DEF m
      <4> QED
        BY <3>3, MineKinds
    <3> QED
      BY <1>1, <3>1, <3>2, <3>3, <3>4
  <2>2. /\ down' = [down EXCEPT ![h.to] = Append(@, m)]
        /\ hand' = [hand EXCEPT ![z].stage = "note"]
    BY <1>5, <2>1 DEF Send
  <2>3. CASE h.who = p
    <3>1. m \in Bears(p)
      BY <2>1, <2>3, SpotFacts, KindsApart DEF Handing
    <3> HIDE DEF m
    <3>2. Lands(Append(down[h.to], m), Bears(p), Goes(p)) /\ down'[h.to] = Append(down[h.to], m)
      <4> HIDE DEF h
      <4> QED
        BY <1>1, <2>1, <2>2, <3>1, LandsAppend
    <3> QED
      BY <2>1, <3>2 DEF Stays
  <2>4. CASE h.who # p
    <3>1. ASSUME NEW y \in Zone
          PROVE  /\ down'[y] = down[y] \/ down'[y] = Append(down[y], m)
                 /\ Sent(y, p) => Sent(y, p)'
                 /\ Handed(y, p) => Handed(y, p)'
      <4>1. down'[y] = down[y] \/ down'[y] = Append(down[y], m)
        <5> HIDE DEF h, m
        <5> QED
          BY <1>1, <2>1, <2>2
      <4>2. Handed(y, p) => Handed(y, p)'
        BY <1>1, <2>2, <2>4 DEF Handed
      <4> QED
        BY <2>1, <4>1, <4>2 DEF Sent
    <3> HIDE DEF h, m
    <3> QED
      BY <1>2, <1>3, <2>1, <3>1 DEF Accounted
  <2> QED
    BY <2>3, <2>4
<1>6. CASE Note(z) \/ Follow(z)
  <2>1. /\ hand[z].stage \in {"note", "follow"} /\ UNCHANGED <<down, up>>
        /\ \A y \in Zone \ {z} : hand'[y] = hand[y]
    BY <1>1, <1>6 DEF Note, Follow
  <2>2. ASSUME NEW y \in Zone
        PROVE  /\ Sent(y, p) => Sent(y, p)'
               /\ Handed(y, p) => Handed(y, p)'
    BY <2>1 DEF Sent, Handed
  <2> QED
    BY <1>2, <1>3, <2>1, <2>2 DEF Accounted
<1> QED
  BY <1>4, <1>5, <1>6 DEF Listener

----------------------------------------------------------------------------
\* The steps of the autoscaler: a player it takes out of a zone it carries, until
\* the new zone is told.

LEMMA ScalerAccounts ==
  ASSUME Sound, Sound', Growing, MaxMerges = 0, Scaler,
         NEW p \in Player, Accounted(p), Online(p)'
  PROVE  Carried(p)' \/ \E y \in Zone : Stays(y, p)'
<1> USE DEF gateway, processes, bounds, sessions
<1>1. /\ down \in [Zone -> Seq(Letter)] /\ DOMAIN zones \subseteq Zone
      /\ scaler.stage # "swap" /\ scaler.stage # "tell"
  BY DEF Growing, Sound, Fleet, Geared, Typed
<1>2. /\ \A z, n \in Zone : ~MergeBegin(z, n)
      /\ ~Swap /\ ~Tell /\ ~Retire
  BY <1>1 DEF Growing, MergeBegin, Swap, Tell, Retire
<1>3. /\ UNCHANGED <<pc, ents, hand, up>>
      /\ Online(p)
  <2>1. UNCHANGED <<pc, ents, hand, up>>
    BY <1>2 DEF Scaler, SplitBegin, LaunchFails, Register, Shrink, SplitEnd, Take, Resettle,
                Repoint
  <2> QED
    BY <2>1 DEF Online
<1>4. ASSUME NEW y \in Zone, Stays(y, p),
             \/ down' = down
             \/ \E k, m : m \notin Goes(p) /\ down' = [down EXCEPT ![k] = Append(@, m)]
      PROVE  Stays(y, p)'
  <2>1. down'[y] = down[y] \/ \E m : m \notin Goes(p) /\ down'[y] = Append(down[y], m)
    BY <1>1, <1>4
  <2>2. Harmless(down[y], down'[y], p)
    BY <2>1 DEF Harmless
  <2>3. /\ Held(y, p)' <=> Held(y, p)
        /\ Sent(y, p)' <=> Sent(y, p)
        /\ Handed(y, p)' <=> Handed(y, p)
    BY <1>3 DEF Held, Sent, Handed
  <2> QED
    BY <1>4, <2>2, <2>3, StaysOn DEF Sound
<1>5. CASE (\E z, n \in Zone : SplitBegin(z, n)) \/ LaunchFails \/ Register \/ SplitEnd \/ Repoint
  <2>1. down' = down /\ scaler.stage # "spawn"
    BY <1>5 DEF SplitBegin, Idle, Resting, LaunchFails, Register, SplitEnd, Repoint
  <2> QED
    BY <1>3, <1>4, <2>1 DEF Accounted, Carried
<1>6. CASE Shrink
  <2>1. \A r : SetRegion(r) \notin Goes(p)
    BY DEF SetRegion, Goes, Leave
  <2>2. /\ scaler.stage = "shrink"
        /\ down' = [down EXCEPT ![scaler.from] = Append(@, SetRegion(LowHalf(zones[scaler.from])))]
    BY <1>6 DEF Shrink
  <2> QED
    BY <1>3, <1>4, <2>1, <2>2 DEF Accounted, Carried
<1>7. ASSUME NEW m \in scaler.movers, scaler.stage = "move", Take(m)
      PROVE  Carried(p)' \/ \E y \in Zone : Stays(y, p)'
  <2>1. /\ scaler'.stage = "spawn" /\ scaler'.mover = m
        /\ down' = down \/ down' = [down EXCEPT ![scaler.from] = Append(@, Leave(m.who))]
    BY <1>7 DEF Take
  <2>2. CASE m.who = p
    BY <2>1, <2>2 DEF Carried
  <2>3. CASE m.who # p
    <3>1. Leave(m.who) \notin Goes(p)
      BY <2>3 DEF Goes, Leave
    <3>2. ~Carried(p)
      BY <1>7 DEF Carried
    <3> QED
      BY <1>3, <1>4, <2>1, <3>1, <3>2 DEF Accounted
  <2> QED
    BY <2>2, <2>3
<1>8. CASE Resettle
  <2> DEFINE n == scaler.to
             m == Spawn(scaler.mover.who, scaler.mover.x)
  <2>1. /\ scaler.stage = "spawn" /\ n \in Zone /\ m \in Letter /\ m \notin Goes(p)
        /\ (scaler.mover.who = p => m \in Bears(p))
        /\ down' = [down EXCEPT ![n] = Append(@, m)]
    <3>1. scaler.stage = "spawn" /\ down' = [down EXCEPT ![n] = Append(@, m)]
      BY <1>8 DEF Resettle
    <3>2. n \in Zone /\ scaler.mover.who \in Player /\ scaler.mover.x \in Int
      BY <3>1, StageTyped DEF Sound
    <3>3. m \in Letter /\ m \notin Goes(p)
      BY <3>2, LetterIn DEF Goes, Leave, Spawn
    <3> QED
      BY <3>1, <3>2, <3>3, KindsApart
  <2> HIDE DEF n, m
  <2>2. CASE scaler.mover.who = p
    <3>1. Lands(Append(down[n], m), Bears(p), Goes(p)) /\ down'[n] = Append(down[n], m)
      BY <1>1, <2>1, <2>2, LandsAppend
    <3> QED
      BY <2>1, <3>1 DEF Stays
  <2>3. CASE scaler.mover.who # p
    BY <1>3, <1>4, <2>1, <2>3 DEF Accounted, Carried
  <2> QED
    BY <2>2, <2>3
<1> QED
  BY <1>2, <1>5, <1>6, <1>7, <1>8 DEF Scaler

----------------------------------------------------------------------------
\* The fleet goes on growing.

LEMMA GrowsOn ==
  ASSUME Typed, Typed', Growing, UNCHANGED merges, scaler'.stage # "rest" => scaler'.op = "split",
         \A z \in Zone : None(down[z], {Shutdown}) => None(down'[z], {Shutdown}),
         DOMAIN zones \subseteq DOMAIN zones', Covered',
         \A z \in Zone : hand'[z] = hand[z] \/ hand'[z].stage # "send" \/ hand'[z].to \in DOMAIN zones,
         \A s \in Socket : \/ pc'[s] = pc[s] /\ at'[s] = at[s]
                           \/ pc'[s] \notin {"admitted", "entered"}
                           \/ at'[s] \in DOMAIN zones
  PROVE  Growing'
BY DEF Growing

LEMMA SessionGrows ==
  ASSUME Sound, Sound', Growing, NEW s \in Socket, Session(s)
  PROVE  Growing'
<1> USE DEF gateway, processes, bounds, sessions
<1>0. /\ down \in [Zone -> Seq(Letter)] /\ pc \in [Socket -> Stages]
      /\ at \in [Socket -> Zone \cup {NoZone}] /\ order \in Seq(Zone)
      /\ DOMAIN zones # {} /\ \A i \in DOMAIN order : order[i] \in DOMAIN zones
      /\ \A z \in DOMAIN zones : \E i \in DOMAIN order : order[i] = z
      /\ Owner[s] \in Player /\ last \in [Socket -> Spot \cup {Nowhere}]
  BY HandoffAssumption DEF Sound, Typed, Fleet, Mapped, Ordered
<1>1. UNCHANGED <<merges, scaler, zones, hand>>
  BY DEF Session, Authenticate, Admit, Enter, Appear, Close, Forget, Save, TellLeave, Frame
<1>2. \A z \in Zone : None(down[z], {Shutdown}) => None(down'[z], {Shutdown})
  <2>1. \A z \in Zone : Mute(z)
    BY SessionMute DEF Sound
  <2>2. ASSUME NEW z \in Zone, None(down[z], {Shutdown}), NEW i \in DOMAIN down'[z]
        PROVE  down'[z][i] # Shutdown
    <3>1. \/ \E j \in DOMAIN down[z] : down'[z][i] = down[z][j]
          \/ down'[z][i].kind \notin {"set_region", "shutdown"}
      BY <2>1, <2>2, MuteFit DEF Sound
    <3>2. Shutdown.kind = "shutdown"
      BY DEF Shutdown
    <3> QED
      BY <2>2, <3>1, <3>2 DEF None
  <2> QED
    BY <2>2 DEF None
<1>3. ASSUME NEW t \in Socket
      PROVE  \/ pc'[t] = pc[t] /\ at'[t] = at[t]
             \/ pc'[t] \notin {"admitted", "entered"}
             \/ at'[t] \in DOMAIN zones
  <2>1. CASE t # s
    <3>1. /\ pc' = pc \/ \E k : pc' = [pc EXCEPT ![s] = k]
          /\ at' = at \/ \E k : at' = [at EXCEPT ![s] = k]
      BY DEF Session, Authenticate, Admit, Enter, Appear, Close, Forget, Save, TellLeave, Frame
    <3> QED
      BY <1>0, <2>1, <3>1
  <2>2. CASE t = s
    <3>1. CASE Admit(s)
      <4>1. Head(order) \in DOMAIN zones
        BY <1>0
      <4> QED
        BY <1>0, <2>2, <3>1, <4>1 DEF Admit
    <3>2. CASE Enter(s)
      BY <1>0, <2>2, <3>2 DEF Enter, Growing
    <3>3. CASE ~(Admit(s) \/ Enter(s))
      <4>1. pc'[s] \notin {"admitted", "entered"} \/ (pc' = pc /\ at' = at)
        BY <1>0, <3>3 DEF Session, Authenticate, Appear, Close, Forget, Save, TellLeave, Frame
      <4> QED
        BY <2>2, <4>1
    <3> QED
      BY <3>1, <3>2, <3>3
  <2> QED
    BY <2>1, <2>2
<1>4. Covered'
  BY <1>1 DEF Growing, Covered
<1>5. scaler'.stage # "rest" => scaler'.op = "split"
  BY <1>1 DEF Growing
<1> QED
  BY <1>1, <1>2, <1>3, <1>4, <1>5, GrowsOn DEF Sound

LEMMA ProcessGrows ==
  ASSUME Sound, Sound', Growing, NEW z \in Zone, Process(z)
  PROVE  Growing'
<1> USE DEF gateway, processes, bounds, sessions
<1>1. UNCHANGED <<merges, scaler, zones, hand, pc, at>>
  BY DEF Process, Handler, Loop, Joined, Left, Moved, Stepped, Spawned, Resized, Exited, Ends,
         Woke, Ticked, Flushed
<1>2. ASSUME NEW y \in Zone, None(down[y], {Shutdown}) PROVE None(down'[y], {Shutdown})
  <2>1. CASE Exited(z)
    <3>1. down'[y] = down[y] \/ down'[y] = <<>>
      BY <2>1 DEF Exited, Ends, Sound, Typed
    <3> QED
      BY <1>2, <3>1 DEF None
  <2>2. CASE ~Exited(z)
    <3>1. down' = down \/ (down[z] # <<>> /\ down' = Handled(z))
      BY <2>2 DEF Process, Handler, Loop, Joined, Left, Moved, Stepped, Spawned, Resized, Serves,
                  Woke, Ticked, Flushed
    <3> QED
      BY <1>2, <3>1, HandledKeeps
  <2> QED
    BY <2>1, <2>2
<1>3. Covered' /\ (scaler'.stage # "rest" => scaler'.op = "split")
  BY <1>1 DEF Growing, Covered
<1> QED
  BY <1>1, <1>2, <1>3, GrowsOn DEF Sound

LEMMA ListenerGrows ==
  ASSUME Sound, Sound', Growing, NEW z \in Zone, Listener(z)
  PROVE  Growing'
<1> USE DEF gateway, processes, bounds, sessions
<1>0. /\ down \in [Zone -> Seq(Letter)] /\ hand \in [Zone -> {Free} \cup Handing]
  BY DEF Sound, Typed
<1>1. UNCHANGED <<merges, scaler, zones, pc, at>>
  BY DEF Listener, Report, Lookup, Send, Note, Follow
<1>2. ASSUME NEW y \in Zone, None(down[y], {Shutdown}) PROVE None(down'[y], {Shutdown})
  <2>1. \A w, x : Spawn(w, x) # Shutdown
    BY DEF Spawn, Shutdown
  <2>2. CASE Send(z)
    <3>1. hand[z].stage = "send" /\ hand[z] \in Handing
      BY <1>0, <2>2, HandingFacts DEF Send
    <3>2. Spawn(hand[z].who, hand[z].x) \in Letter
      BY <3>1, SpotFacts, LetterIn DEF Handing
    <3>3. down'[y] = down[y] \/ down'[y] = Append(down[y], Spawn(hand[z].who, hand[z].x))
      BY <1>0, <2>2 DEF Send
    <3>4. Spawn(hand[z].who, hand[z].x) \notin {Shutdown}
      BY <2>1
    <3> DEFINE m == Spawn(hand[z].who, hand[z].x)
    <3> HIDE DEF m
    <3>5. None(Append(down[y], m), {Shutdown})
      BY <1>0, <1>2, <3>2, <3>4, NoneAppend DEF m
    <3> QED
      BY <1>2, <3>3, <3>5 DEF m
  <2>3. CASE ~Send(z)
    <3>1. down' = down
      BY <2>3 DEF Listener, Report, Lookup, Note, Follow
    <3> QED
      BY <1>2, <3>1
  <2> QED
    BY <2>2, <2>3
<1>3. ASSUME NEW y \in Zone
      PROVE  hand'[y] = hand[y] \/ hand'[y].stage # "send" \/ hand'[y].to \in DOMAIN zones
  <2>1. CASE Lookup(z)
    <3>1. \/ hand' = hand
          \/ \E t \in DOMAIN zones :
               hand' = [hand EXCEPT ![z] = [stage |-> "send", who |-> Head(up[z]).who,
                                            x |-> Head(up[z]).x, to |-> t]]
      BY <2>1 DEF Lookup
    <3> QED
      BY <1>0, <3>1
  <2>2. CASE ~Lookup(z)
    <3>1. \/ hand' = hand \/ hand' = [hand EXCEPT ![z] = Free]
          \/ \E e \in {"note", "follow"} : hand' = [hand EXCEPT ![z].stage = e]
      BY <2>2 DEF Listener, Report, Send, Note, Follow
    <3>2. CASE y = z /\ \E e \in {"note", "follow"} : hand' = [hand EXCEPT ![z].stage = e]
      <4>1. hand[z] \in Handing
        BY <2>2, <3>2, <1>0, HandingFacts DEF Listener, Report, Send, Note, Follow, Hears, Free
      <4> QED
        BY <1>0, <3>2, <4>1 DEF Handing
    <3> QED
      BY <1>0, <3>1, <3>2 DEF Free
  <2> QED
    BY <2>1, <2>2
<1>4. Covered' /\ (scaler'.stage # "rest" => scaler'.op = "split")
  BY <1>1 DEF Growing, Covered
<1> QED
  BY <1>1, <1>2, <1>3, <1>4, GrowsOn DEF Sound

\* A new zone has a half of its own, and the old one keeps the other.
LEMMA ScalerGrows ==
  ASSUME Sound, Sound', Growing, MaxMerges = 0, Scaler
  PROVE  Growing'
<1> USE DEF gateway, processes, bounds, sessions
<1>1. /\ down \in [Zone -> Seq(Letter)] /\ DOMAIN zones \subseteq Zone
      /\ scaler.stage # "swap" /\ scaler.stage # "tell"
      /\ scaler \in {Resting} \cup Work \cup OneMove
  BY DEF Growing, Sound, Fleet, Geared, Typed
<1>2. /\ \A z, n \in Zone : ~MergeBegin(z, n)
      /\ ~Swap /\ ~Tell /\ ~Retire
  BY <1>1 DEF Growing, MergeBegin, Swap, Tell, Retire
<1>3. UNCHANGED <<merges, hand, pc, at>>
  BY <1>2 DEF Scaler, SplitBegin, LaunchFails, Register, Shrink, SplitEnd, Take, Resettle, Repoint
<1>4. scaler'.stage # "rest" => scaler'.op = "split"
  <2>1. CASE (\E z, n \in Zone : SplitBegin(z, n)) \/ LaunchFails \/ SplitEnd
    BY <2>1 DEF SplitBegin, LaunchFails, SplitEnd, Resting
  <2>2. CASE Register \/ Shrink \/ Resettle
    <3>1. /\ scaler.stage \in {"launch", "shrink", "spawn"}
          /\ \/ scaler' = [scaler EXCEPT !.stage = "shrink"]
             \/ scaler' = [scaler EXCEPT !.stage = "move"]
             \/ scaler' = [scaler EXCEPT !.stage = "repoint"]
      BY <2>2 DEF Register, Shrink, Resettle
    <3>2. scaler \in Work \cup OneMove
      BY <1>1, <3>1, WorkFacts
    <3>3. scaler'.op = scaler.op
      BY <3>1, <3>2 DEF Work, OneMove
    <3> QED
      BY <3>1, <3>3 DEF Growing
  <2>3. ASSUME NEW m \in scaler.movers, scaler.stage = "move", Take(m)
        PROVE  scaler'.op = "split"
    BY <2>3 DEF Take, Growing
  <2>4. CASE Repoint
    BY <2>4 DEF Repoint, Growing
  <2> QED
    BY <1>2, <2>1, <2>2, <2>3, <2>4 DEF Scaler
<1>5. ASSUME NEW z \in Zone, None(down[z], {Shutdown}) PROVE None(down'[z], {Shutdown})
  <2>1. \/ down' = down
        \/ \E y, m : m.kind # "shutdown" /\ down' = [down EXCEPT ![y] = Append(@, m)]
    <3>1. /\ \A r : SetRegion(r).kind # "shutdown"
          /\ \A w, x : Leave(w).kind # "shutdown" /\ Spawn(w, x).kind # "shutdown"
      BY DEF SetRegion, Leave, Spawn
    <3>2. CASE Shrink
      BY <3>1, <3>2 DEF Shrink
    <3>3. ASSUME NEW m \in scaler.movers, Take(m)
          PROVE  \/ down' = down
                 \/ \E y, k : k.kind # "shutdown" /\ down' = [down EXCEPT ![y] = Append(@, k)]
      BY <3>1, <3>3 DEF Take
    <3>4. CASE Resettle
      BY <3>1, <3>4 DEF Resettle
    <3>5. CASE (\E y, n \in Zone : SplitBegin(y, n)) \/ LaunchFails \/ Register \/ SplitEnd \/ Repoint
      BY <3>5 DEF SplitBegin, LaunchFails, Register, SplitEnd, Repoint
    <3> QED
      BY <1>2, <3>2, <3>3, <3>4, <3>5 DEF Scaler
  <2>2. down'[z] = down[z] \/ \E m : m.kind # "shutdown" /\ down'[z] = Append(down[z], m)
    BY <1>1, <2>1
  <2>3. ASSUME NEW m, m.kind # "shutdown", down'[z] = Append(down[z], m)
        PROVE  None(down'[z], {Shutdown})
    <3>1. m \in Letter
      <4>1. /\ Append(down[z], m)[Len(down[z]) + 1] = m
            /\ Len(down[z]) + 1 \in DOMAIN Append(down[z], m)
        BY <1>1
      <4>2. down'[z] \in Seq(Letter)
        BY DEF Sound, Typed
      <4> QED
        BY <2>3, <4>1, <4>2
    <3>2. m # Shutdown
      BY <2>3 DEF Shutdown
    <3> QED
      BY <1>1, <1>5, <2>3, <3>1, <3>2, NoneAppend
  <2> QED
    BY <1>5, <2>2, <2>3
<1>6. DOMAIN zones \subseteq DOMAIN zones' /\ Covered'
  <2>1. CASE Register
    <3>1. zones' = [i \in DOMAIN zones \cup {scaler.to} |->
                      IF i = scaler.to THEN HighHalf(zones[scaler.from]) ELSE zones[i]]
      BY <2>1 DEF Register
    <3>2. scaler.to \notin DOMAIN zones
      BY <2>1 DEF Register, Sound, Fleet, Geared, Mapped, Silent
    <3> QED
      BY <3>1, <3>2 DEF Growing, Covered
  <2>2. CASE Shrink
    <3> DEFINE z == scaler.from
               n == scaler.to
    <3>1. /\ {z, n} \subseteq DOMAIN zones /\ z # n
          /\ zones[n] = HighHalf(zones[z]) /\ Splittable(zones[z])
          /\ zones[z] \in Region /\ NonEmpty(zones[z])
          /\ zones' = [zones EXCEPT ![z] = LowHalf(@)]
      BY <2>2 DEF Shrink, Sound, Fleet, Geared, Mapped, Typed
    <3> HIDE DEF z, n
    <3>2. /\ DOMAIN zones' = DOMAIN zones /\ zones'[z] = LowHalf(zones[z])
          /\ \A y \in DOMAIN zones \ {z} : zones'[y] = zones[y]
      BY <3>1
    <3>3. ASSUME NEW x \in Spot PROVE \E y \in DOMAIN zones' : Owns(zones'[y], x)
      <4>1. PICK y \in DOMAIN zones : Owns(zones[y], x)
        BY DEF Growing, Covered
      <4>2. CASE y = z
        <5>1. x \in Int /\ 0 \in Int
          BY SpotFacts
        <5>2. Owns(LowHalf(zones[z]), x) \/ Owns(HighHalf(zones[z]), x)
          BY <3>1, <4>1, <4>2, <5>1, SplitExact DEF Owns
        <5> QED
          BY <3>1, <3>2, <5>2
      <4>3. CASE y # z
        BY <3>2, <4>1, <4>3
      <4> QED
        BY <4>2, <4>3
    <3> QED
      BY <3>2, <3>3 DEF Covered
  <2>3. CASE ~Register /\ ~Shrink
    <3>1. zones' = zones
      BY <1>2, <2>3 DEF Scaler, SplitBegin, LaunchFails, SplitEnd, Take, Resettle, Repoint
    <3> QED
      BY <3>1 DEF Growing, Covered
  <2> QED
    BY <2>1, <2>2, <2>3
<1> QED
  BY <1>3, <1>4, <1>5, <1>6, GrowsOn DEF Sound

----------------------------------------------------------------------------
\* The inductive invariant of a fleet that grows.

Growth == Sound /\ Growing /\ \A p \in Player : p \notin traced => Single(p) /\ Accounted(p)

LEMMA InitGrowth ==
  ASSUME GrowingFleet, Init
  PROVE  Growth
<1>1. Sound
  <2>1. Abreast
    BY DEF Init, Abreast
  <2> QED
    BY <2>1, InitTyped, InitFleet DEF Sound
<1>2. /\ \A z \in Zone : down[z] = <<>> /\ hand[z] = Free
      /\ \A s \in Socket : pc[s] = "offline"
      /\ merges = 0 /\ scaler = Resting /\ zones = Start
  BY DEF Init
<1>3. Growing
  BY <1>2 DEF Growing, GrowingFleet, Covered, None, Free, Resting
<1>4. \A p \in Player : ~Online(p) /\ Single(p)
  BY <1>2 DEF Online, Single, Active
<1> QED
  BY <1>1, <1>3, <1>4 DEF Growth, Accounted

LEMMA NextGrowth ==
  ASSUME GrowingFleet, Growth, [Next]_vars
  PROVE  Growth'
<1> USE DEF gateway, processes, bounds, sessions
<1>1. Sound' /\ Sound /\ Growing /\ MaxMerges = 0
  BY SoundNext DEF Growth, GrowingFleet
<1>2. Growing'
  <2>1. CASE UNCHANGED vars
    BY <1>1, <2>1 DEF vars, Growing, Covered, None
  <2> QED
    BY <1>1, <2>1, SessionGrows, ProcessGrows, ListenerGrows, ScalerGrows DEF Next
<1>3. ASSUME NEW p \in Player, p \notin traced' PROVE Single(p)' /\ Accounted(p)'
  <2>2. Single(p) /\ Accounted(p)
    BY <1>3, TracesStay DEF Growth
  <2>4. Single(p)'
    BY <1>1, <1>3, <2>2, SingleKept DEF Sound
  <2>1. SUFFICES ASSUME Online(p)' PROVE Carried(p)' \/ \E z \in Zone : Stays(z, p)'
    BY <2>4 DEF Accounted
  <2>3. CASE UNCHANGED vars
    BY <2>1, <2>2, <2>3
       DEF vars, Accounted, Online, Carried, Stays, Held, Sent, Handed, None, Lands
  <2> QED
    BY <1>1, <2>1, <2>2, <2>3, SessionAccounts, ProcessAccounts, ListenerAccounts, ScalerAccounts
       DEF Next
<1> QED
  BY <1>1, <1>2, <1>3 DEF Growth

LEMMA GrowthHolds ==
  ASSUME GrowingFleet
  PROVE  Spec => []Growth
<1>1. Init => Growth
  BY InitGrowth
<1>2. Growth /\ [Next]_vars => Growth'
  BY NextGrowth
<1> QED
  BY <1>1, <1>2, PTL DEF Spec

\* No connected player is ever lost, also while zones are split: a listener that
\* takes one finds a zone for it, which is there to be told; and a player_leave
\* that the autoscaler sends finds nobody the new zone does not get. Left out are
\* those that logged in over traces of an earlier session, whose farewell may
\* take them out.
THEOREM NobodyIsLost ==
  ASSUME GrowingFleet
  PROVE  Spec => []NobodyLost
<1>1. Growth => NobodyLost
  <2> SUFFICES ASSUME Growth, NEW p \in Player, Online(p), p \notin traced
               PROVE  Places(p) # {}
    BY DEF NobodyLost
  <2>1. CASE Carried(p)
    BY <2>1 DEF Carried, Places
  <2> SUFFICES ASSUME NEW z \in Zone, Stays(z, p) PROVE Places(p) # {}
    BY <2>1 DEF Growth, Accounted
  <2>2. CASE Held(z, p)
    <3>1. p \in Present(z)
      BY <2>2 DEF Held, Present
    <3>2. <<"zone", z>> \in {<<"zone", y>> : y \in {x \in Zone : p \in Present(x)}}
      BY <3>1
    <3> QED
      BY <3>2 DEF Places
  <2>3. CASE Due(z, p)
    <3>1. PICK i \in DOMAIN down[z] : down[z][i] \in Bears(p)
      BY <2>3 DEF Due, None
    <3>2. i \in Bearing(down[z], p)
      BY <3>1, MineKinds DEF Bearing
    <3>3. <<"down", z, i>> \in UNION {{<<"down", y, j>> : j \in Bearing(down[y], p)} : y \in Zone}
      BY <3>2
    <3> QED
      BY <3>3 DEF Places
  <2>4. CASE Sent(z, p)
    <3>1. PICK i \in DOMAIN up[z] : up[z][i] \in Hands(p)
      BY <2>4 DEF Sent, None
    <3>2. i \in Bearing(up[z], p)
      BY <3>1, MineKinds DEF Bearing
    <3>3. <<"up", z, i>> \in UNION {{<<"up", y, j>> : j \in Bearing(up[y], p)} : y \in Zone}
      BY <3>2
    <3> QED
      BY <3>3 DEF Places
  <2>5. CASE Handed(z, p)
    <3>1. <<"hand", z>> \in {<<"hand", y>> : y \in {x \in Zone : hand[x].stage = "send" /\ hand[x].who = p}}
      BY <2>5 DEF Handed
    <3> QED
      BY <3>1 DEF Places
  <2> QED
    BY <2>2, <2>3, <2>4, <2>5 DEF Stays, Due, Lands, None
<1> QED
  BY <1>1, GrowthHolds, PTL
=============================================================================
