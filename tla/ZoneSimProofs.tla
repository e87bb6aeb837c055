---------------------------- MODULE ZoneSimProofs ----------------------------
(***************************************************************************)
(* Types, the conservation of what the ground yields, the bound on mobs    *)
(* and the rules of capture, for any players, nodes, stocks and rates.     *)
(***************************************************************************)
EXTENDS ZoneSim, FiniteSetTheorems, TLAPS

\* Ground that nobody owns has a bar no longer than its claimant has pushed it.
Pushed == owner = Nobody => bar <= effort * Rate

\* What the rules of capture keep together.
Hold == BarSound /\ Pushed

LEMMA LeastType == ASSUME NEW a \in Int, NEW b \in Int
                   PROVE  /\ Least(a, b) \in Int /\ Least(a, b) <= a /\ Least(a, b) <= b
                          /\ Least(a, b) \in {a, b}
BY DEF Least

LEMMA MostType == ASSUME NEW a \in Int, NEW b \in Int
                  PROVE  /\ Most(a, b) \in Int /\ Most(a, b) >= a /\ Most(a, b) >= b
                         /\ Most(a, b) \in {a, b}
BY DEF Most

\* In a tick a node gives nothing that it does not have.
LEMMA GivenFits ==
  ASSUME TypeOK, StockConserved,
         NEW ripe \in SUBSET Working, NEW W \in Served(ripe), NEW n \in Node
  PROVE  Given(W, n) \in Nat /\ Given(W, n) <= qty[n]
<1>1. W \subseteq ripe /\ ripe \subseteq here /\ here \subseteq Player
  BY DEF Served, Working, TypeOK
<1>2. IsFiniteSet(ripe) /\ IsFiniteSet({p \in W : job[p].node = n})
  <2>1. IsFiniteSet(Player)
    BY SimAssumption
  <2>2. ripe \subseteq Player /\ {p \in W : job[p].node = n} \subseteq Player
    BY <1>1
  <2> QED
    BY <2>1, <2>2, FS_Subset
<1>3. Given(W, n) \in Nat
  BY <1>2, FS_CardinalityType DEF Given
<1>4. qty[n] \in Nat
  BY DEF TypeOK, StockConserved
<1>5. CASE n \in field
  <2> DEFINE due == {p \in ripe : job[p].node = n}
  <2>1. Cardinality(W \cap due) = Least(Cardinality(due), qty[n])
    BY <1>5 DEF Served
  <2>2. W \cap due = {p \in W : job[p].node = n}
    BY <1>1
  <2>3. Cardinality(due) \in Nat
    BY <1>2, FS_Subset, FS_CardinalityType
  <2> HIDE DEF due
  <2>4. Given(W, n) = Least(Cardinality(due), qty[n])
    BY <2>1, <2>2 DEF Given
  <2>5. Least(Cardinality(due), qty[n]) <= qty[n]
    BY <2>3, <1>4 DEF Least
  <2> QED
    BY <2>4, <2>5, <1>3
<1>6. CASE n \notin field
  <2>1. {p \in W : job[p].node = n} = {}
    BY <1>1, <1>6 DEF Working
  <2>2. Given(W, n) = 0
    BY <2>1, FS_EmptySet DEF Given
  <2> QED
    BY <2>2, <1>4
<1> QED
  BY <1>3, <1>5, <1>6

----------------------------------------------------------------------------
\* Types.

LEMMA InitType == Init => TypeOK
BY SimAssumption DEF Init, TypeOK, Job, None, Unasked

LEMMA MessageType == TypeOK /\ (Message \/ Link \/ Unlink) => TypeOK'
<1> SUFFICES ASSUME TypeOK, Message \/ Link \/ Unlink PROVE TypeOK'
  OBVIOUS
<1> USE SimAssumption DEF TypeOK, Taking, Job, None, Unasked, bodies, wild, territory, ground
<1>1. ASSUME NEW p \in Player, NEW n \in Node \cup {NoNode}, NEW h \in 1 .. MaxHp,
             Inserted(p, n, h)
      PROVE  TypeOK'
  BY <1>1 DEF Inserted
<1>2. ASSUME NEW p \in Player, Leave(p) PROVE TypeOK'
  BY <1>2 DEF Leave
<1>3. ASSUME NEW p \in Player, NEW n \in Node \cup {NoNode}, Move(p, n) PROVE TypeOK'
  BY <1>3 DEF Move
<1>4. ASSUME NEW p \in Player, NEW n \in Node, GatherAsk(p, n) PROVE TypeOK'
  BY <1>4 DEF GatherAsk
<1>5. CASE GatherStart
  BY <1>5 DEF GatherStart
<1>6. ASSUME NEW p \in Player, GatherStop(p) PROVE TypeOK'
  BY <1>6 DEF GatherStop
<1>7. ASSUME NEW s \in BOOLEAN, NEW ns \in SUBSET Node, SetRegion(s, ns) PROVE TypeOK'
  BY <1>7 DEF SetRegion, SpawnMobs, SpawnNodes
<1>8. CASE Unlink
  BY <1>8 DEF Unlink
<1>9. CASE Link
  BY <1>9 DEF Link
<1>10. MaxHp \in 1 .. MaxHp /\ field \cup {NoNode} \subseteq Node \cup {NoNode}
  OBVIOUS
<1> QED
  BY <1>1, <1>2, <1>3, <1>4, <1>5, <1>6, <1>7, <1>8, <1>9, <1>10
     DEF Message, PlayerJoin, SpawnEntity

LEMMA FightType ==
  ASSUME TypeOK, Fight
  PROVE  near' \in [Player -> Node \cup {NoNode}] /\ hp' \in [Player -> 1 .. MaxHp]
<1> PICK hit \in [here -> 0 .. MaxHp] :
      /\ hp' = [p \in Player |-> IF p \in here THEN Survived(hp[p], hit[p]) ELSE hp[p]]
      /\ \E to \in [here -> field \cup {NoNode}] :
           near' = [p \in Player |->
             IF p \in here /\ hit[p] >= hp[p] THEN to[p] ELSE near[p]]
  BY DEF Fight
<1>1. ASSUME NEW p \in here PROVE Survived(hp[p], hit[p]) \in 1 .. MaxHp
  <2>1. hp[p] \in 1 .. MaxHp /\ hit[p] \in 0 .. MaxHp /\ MaxHp \in Nat \ {0}
    BY SimAssumption DEF TypeOK
  <2> QED
    BY <2>1 DEF Survived
<1>2. hp' \in [Player -> 1 .. MaxHp]
  BY <1>1 DEF TypeOK
<1>3. near' \in [Player -> Node \cup {NoNode}]
  BY DEF TypeOK
<1> QED
  BY <1>2, <1>3

LEMMA TrickleType ==
  ASSUME TypeOK, NEW live \in 0 .. mobs, Trickle(live)
  PROVE  /\ mobs' \in Nat /\ mobTimer' \in 1 .. MobRespawn
         /\ mobs' <= mobs \/ mobs' <= MobsPerZone
BY SimAssumption DEF TypeOK, Trickle

LEMMA CaptureType ==
  ASSUME TypeOK, NEW live \in Nat, Capture(live)
  PROVE  /\ owner' \in Player \cup {Nobody} /\ capturing' \in Player \cup {Nobody}
         /\ bar' \in 0 .. Full /\ effort' \in Nat
<1> USE SimAssumption DEF TypeOK
<1>1. CASE UNCHANGED territory
  BY <1>1 DEF territory
<1>2. ASSUME NEW p \in Player, Claimed(p)
      PROVE  /\ owner' \in Player \cup {Nobody} /\ capturing' \in Player \cup {Nobody}
             /\ bar' \in 0 .. Full /\ effort' \in Nat
  BY <1>2 DEF Claimed, Erode, Start, Counted, Least, Most
<1>3. CASE Stalled
  BY <1>3 DEF Stalled, Most
<1> QED
  BY <1>1, <1>2, <1>3 DEF Capture

LEMMA TickEntitiesType == TypeOK /\ TickEntities => TypeOK'
<1> SUFFICES ASSUME TypeOK, TickEntities PROVE TypeOK'
  OBVIOUS
<1> PICK live \in 0 .. mobs : Trickle(live) /\ Capture(live)
  BY DEF TickEntities
<1>1. live \in Nat
  BY DEF TypeOK
<1>2. Fight /\ part' = "nodes"
      /\ UNCHANGED <<linked, safe, field, here, ground, job, asked, regions>>
  BY DEF TickEntities
<1> QED
  BY <1>1, <1>2, FightType, TrickleType, CaptureType DEF TypeOK, ground

----------------------------------------------------------------------------
\* The ground.

LEMMA ProgressType ==
  ASSUME TypeOK, NEW W \in SUBSET Ripe, NEW ended \in SUBSET Working, Ripe \ W \subseteq ended
  PROVE  Progress(W, ended) \in [Player -> Job]
<1> SUFFICES ASSUME NEW p \in Player, p \in Working, p \notin ended
             PROVE  [job[p] EXCEPT !.progress = IF p \in W THEN 0 ELSE @ + 1] \in Job
  BY SimAssumption DEF Progress, None, Job
<1>1. job[p] \in Job /\ GatherPeriod \in Nat \ {0}
  BY SimAssumption DEF TypeOK
<1>2. CASE p \in W
  BY <1>1, <1>2 DEF Job
<1>3. CASE p \notin W
  <2>1. ~(job[p].progress + 1 >= GatherPeriod)
    BY <1>3 DEF Ripe
  <2> QED
    BY <2>1, <1>1, <1>3 DEF Job
<1> QED
  BY <1>2, <1>3

LEMMA TickNodesGround ==
  ASSUME TypeOK, StockConserved, TickNodes
  PROVE  TypeOK' /\ StockConserved'
<1> PICK W \in Served(Ripe) :
     /\ qty' = [n \in Node |-> IF Refills(W, n) THEN Stock[n] ELSE Remaining(W, n)]
     /\ timer' = [n \in Node |-> IF Counting(W, n) THEN Count(W, n) - 1 ELSE Count(W, n)]
     /\ yielded' = [n \in Node |-> IF Refills(W, n) THEN 0 ELSE yielded[n] + Given(W, n)]
     /\ \E ended \in SUBSET {p \in Working : Remaining(W, job[p].node) <= 0} :
          Ripe \ W \subseteq ended /\ job' = Progress(W, ended)
  BY DEF TickNodes
<1>1. ASSUME NEW n \in Node
      PROVE  /\ Given(W, n) \in Nat /\ Remaining(W, n) \in Nat
             /\ qty[n] \in Int /\ yielded[n] \in Nat /\ Stock[n] \in Nat
             /\ yielded[n] + qty[n] = Stock[n]
  <2>1. Ripe \in SUBSET Working
    BY DEF Ripe
  <2>2. Given(W, n) \in Nat /\ Given(W, n) <= qty[n]
    BY <2>1, GivenFits
  <2> QED
    BY <2>2, SimAssumption DEF TypeOK, StockConserved, Remaining
<1>2. ASSUME NEW n \in Node PROVE Count(W, n) \in 0 .. NodeRespawn
  BY SimAssumption DEF Count, Timed, TypeOK
<1>3. qty' \in [Node -> Int] /\ yielded' \in [Node -> Nat]
  BY <1>1
<1>4. timer' \in [Node -> 0 .. NodeRespawn]
  <2>1. \A n \in Node : Counting(W, n) => Count(W, n) - 1 \in 0 .. NodeRespawn
    BY <1>2, SimAssumption DEF Counting
  <2> QED
    BY <2>1, <1>2
<1>5. job' \in [Player -> Job]
  <2>1. W \in SUBSET Ripe
    BY DEF Served
  <2> QED
    BY <2>1, ProgressType
<1>6. TypeOK'
  BY <1>3, <1>4, <1>5 DEF TypeOK, TickNodes, bodies, wild, territory
<1>7. ASSUME NEW n \in Node PROVE qty'[n] >= 0 /\ yielded'[n] + qty'[n] = Stock[n]
  <2>1. CASE Refills(W, n)
    <3>1. qty'[n] = Stock[n] /\ yielded'[n] = 0
      BY <2>1
    <3> QED
      BY <3>1, <1>1
  <2>2. CASE ~Refills(W, n)
    <3>1. qty'[n] = Remaining(W, n) /\ yielded'[n] = yielded[n] + Given(W, n)
      BY <2>2
    <3> QED
      BY <3>1, <1>1, SMTT(30) DEF Remaining
  <2> QED
    BY <2>1, <2>2
<1> QED
  BY <1>6, <1>7 DEF StockConserved

\* What the ground's invariant needs beside itself: the types.
Ground == TypeOK /\ StockConserved

\* Types and conservation hold together in every reachable state.
THEOREM GroundHolds == Spec => []Ground
<1>1. Init => Ground
  <2>1. Init => StockConserved
    BY SimAssumption DEF Init, StockConserved
  <2> QED
    BY <2>1, InitType DEF Ground
<1>2. Ground /\ [Next]_vars => Ground'
  <2> SUFFICES ASSUME Ground, [Next]_vars PROVE Ground'
    OBVIOUS
  <2>1. CASE TickNodes
    BY <2>1, TickNodesGround DEF Ground
  <2>2. CASE TickEntities
    <3>1. UNCHANGED ground
      BY <2>2 DEF TickEntities
    <3> QED
      BY <3>1, <2>2, TickEntitiesType DEF Ground, StockConserved, ground
  <2>3. CASE Message \/ Link \/ Unlink
    <3>1. UNCHANGED ground \/ SpawnNodes
      BY <2>3 DEF Message, Link, Unlink, PlayerJoin, SpawnEntity, Inserted, Leave, Move,
                  GatherAsk, GatherStart, GatherStop, SetRegion
    <3>2. StockConserved'
      BY <3>1, SimAssumption DEF Ground, StockConserved, ground, SpawnNodes
    <3> QED
      BY <3>2, <2>3, MessageType DEF Ground
  <2>4. CASE UNCHANGED vars
    BY <2>4 DEF Ground, TypeOK, StockConserved, vars, bodies, wild, territory, ground
  <2> QED
    BY <2>1, <2>2, <2>3, <2>4 DEF Next, Tick
<1> QED
  BY <1>1, <1>2, PTL DEF Spec

\* Every variable stays of its type, whatever the messages and the ticks: nobody
\* present is left without health, and no job runs past its period.
THEOREM TypeCorrect == Spec => []TypeOK
<1>1. Ground => TypeOK
  BY DEF Ground
<1> QED
  BY <1>1, GroundHolds, PTL

\* Between two refills a node yields its stock and no more, for any number of
\* gatherers, stocks and periods: also when several are due in one tick, and when
\* a gather.start is entered after the node was emptied.
THEOREM StockNeverExceeded == Spec => []StockConserved
<1>1. Ground => StockConserved
  BY DEF Ground
<1> QED
  BY <1>1, GroundHolds, PTL

----------------------------------------------------------------------------
\* Capture.

\* A claim on neutral ground pushes the bar by one tick's rate at the most.
LEMMA ClaimPushed ==
  ASSUME TypeOK, Pushed, NEW p \in Player, owner = Nobody, Claimed(p)
  PROVE  bar' <= effort' * Rate
<1>0. /\ Full \in Nat \ {0} /\ Rate \in Nat \ {0} /\ bar \in 0 .. Full /\ effort \in Nat
      /\ p # Nobody
  BY SimAssumption DEF TypeOK
<1>1. bar' = Least(Start(p) + Rate, Full) /\ effort' = Counted(p)
  BY <1>0 DEF Claimed
<1>2. CASE capturing # p
  BY <1>0, <1>1, <1>2 DEF Start, Counted, Least
<1>3. CASE capturing = p /\ effort + 1 <= Full
  <2>1. effort' = effort + 1 /\ bar' <= bar + Rate
    BY <1>0, <1>1, <1>3 DEF Start, Counted, Least
  <2>2. bar <= effort * Rate
    BY DEF Pushed
  <2>3. (effort + 1) * Rate = effort * Rate + Rate
    BY <1>0
  <2>4. effort * Rate \in Int /\ bar' \in Int
    BY <1>0, <1>1 DEF Least, Start
  <2> QED
    BY <2>1, <2>2, <2>3, <2>4, <1>0
<1>4. CASE capturing = p /\ ~(effort + 1 <= Full)
  <2>1. effort' = Full /\ bar' <= Full
    BY <1>0, <1>1, <1>4 DEF Start, Counted, Least
  <2>2. Full * Rate >= Full
    BY <1>0
  <2>3. Full * Rate \in Int /\ bar' \in Int
    BY <1>0, <1>1 DEF Least, Start
  <2> QED
    BY <2>1, <2>2, <2>3, <1>0
<1> QED
  BY <1>2, <1>3, <1>4

LEMMA CaptureHolds ==
  ASSUME TypeOK, Hold, NEW live \in Nat, Capture(live)
  PROVE  Hold'
<1>0. /\ Full \in Nat \ {0} /\ Rate \in Nat \ {0} /\ Decay \in Nat \ {0} /\ Nobody \notin Player
      /\ bar \in 0 .. Full /\ effort \in Nat
  BY SimAssumption DEF TypeOK
<1>1. CASE UNCHANGED territory
  BY <1>1 DEF territory, Hold, BarSound, Pushed
<1>2. ASSUME NEW p \in Player, Claimed(p) PROVE Hold'
  <2>1. CASE owner = p
    BY <2>1, <1>2, <1>0 DEF Claimed, Hold, BarSound, Pushed
  <2>2. CASE owner = Nobody
    <3>1. bar' <= effort' * Rate
      BY <2>2, <1>2, ClaimPushed DEF Hold
    <3>2. /\ bar' = Least(Start(p) + Rate, Full) /\ capturing' = p
          /\ owner' = IF bar' = Full THEN p ELSE Nobody
      BY <2>2, <1>2, <1>0 DEF Claimed
    <3>3. BarSound'
      BY <3>2, <1>0 DEF BarSound, Least, Start
    <3> QED
      BY <3>1, <3>3 DEF Hold, Pushed
  <2>3. CASE owner # p /\ owner # Nobody
    <3>1. Erode(p)
      BY <2>3, <1>2 DEF Claimed
    <3>2. CASE bar - Rate <= 0
      <4>1. bar' = 0 /\ owner' = Nobody /\ effort' = 0
        BY <3>1, <3>2, <1>0 DEF Erode, Most
      <4>2. bar' <= effort' * Rate
        BY <4>1, <1>0
      <4> QED
        BY <4>1, <4>2, <1>0 DEF Hold, BarSound, Pushed
    <3>3. CASE ~(bar - Rate <= 0)
      <4>1. bar' = bar - Rate /\ owner' = owner
        BY <3>1, <3>3, <1>0 DEF Erode, Most
      <4> QED
        BY <4>1, <3>3, <2>3, <1>0 DEF Hold, BarSound, Pushed
    <3> QED
      BY <3>2, <3>3
  <2> QED
    BY <2>1, <2>2, <2>3
<1>3. CASE Stalled
  <2>1. CASE owner # Nobody
    BY <2>1, <1>3 DEF Stalled, Hold, BarSound, Pushed
  <2>2. CASE owner = Nobody
    <3>1. bar' = Most(bar - Decay, 0) /\ owner' = Nobody
      BY <2>2, <1>3 DEF Stalled
    <3>2. bar' \in 0 .. Full /\ bar' <= bar
      BY <3>1, <1>0 DEF Most
    <3>3. capturing' = Nobody => bar' = 0
      BY <2>2, <1>3, <3>2, <1>0 DEF Stalled, Hold, BarSound
    <3>4. BarSound'
      BY <3>1, <3>2, <3>3, <2>2, <1>0 DEF Hold, BarSound
    <3>5. bar' <= effort' * Rate
      <4>1. CASE capturing' = Nobody
        <5>1. effort' = 0 /\ bar' = 0
          BY <4>1, <3>3, <1>3 DEF Stalled
        <5> QED
          BY <5>1, <1>0
      <4>2. CASE capturing' # Nobody
        <5>1. effort' = effort
          BY <4>2, <1>3 DEF Stalled
        <5>2. bar <= effort * Rate /\ effort * Rate \in Int
          BY <2>2, <1>0 DEF Hold, Pushed
        <5> QED
          BY <5>1, <5>2, <3>2, <1>0
      <4> QED
        BY <4>1, <4>2
    <3> QED
      BY <3>4, <3>5 DEF Hold, Pushed
  <2> QED
    BY <2>1, <2>2
<1>4. here \subseteq Player
  BY DEF TypeOK
<1> QED
  BY <1>1, <1>2, <1>3, <1>4 DEF Capture

\* Only the capture rules of a tick change who holds the ground.
LEMMA TerritoryStep ==
  ASSUME TypeOK, [Next]_vars
  PROVE  UNCHANGED territory \/ \E live \in Nat : Capture(live)
<1>1. CASE TickEntities
  <2>1. 0 .. mobs \subseteq Nat
    BY DEF TypeOK
  <2> QED
    BY <1>1, <2>1 DEF TickEntities
<1>2. CASE TickNodes
  BY <1>2 DEF TickNodes
<1>3. CASE Message \/ Link \/ Unlink
  BY <1>3 DEF Message, Link, Unlink, PlayerJoin, SpawnEntity, Inserted, Leave, Move,
              GatherAsk, GatherStart, GatherStop, SetRegion
<1>4. CASE UNCHANGED vars
  BY <1>4 DEF vars
<1> QED
  BY <1>1, <1>2, <1>3, <1>4 DEF Next, Tick

HoldInv == TypeOK /\ Hold

LEMMA HoldInvInit == Init => HoldInv
<1> SUFFICES ASSUME Init PROVE HoldInv
  OBVIOUS
<1>1. TypeOK
  BY InitType
<1>2. owner = Nobody /\ bar = 0 /\ effort = 0 /\ Full \in Nat \ {0} /\ Rate \in Nat \ {0}
  BY SimAssumption DEF Init
<1>3. bar <= effort * Rate
  BY <1>2
<1> QED
  BY <1>1, <1>2, <1>3 DEF HoldInv, Hold, BarSound, Pushed

LEMMA HoldInvNext == HoldInv /\ TypeOK' /\ [Next]_vars => HoldInv'
<1> SUFFICES ASSUME HoldInv, TypeOK', [Next]_vars PROVE HoldInv'
  OBVIOUS
<1>1. CASE UNCHANGED territory
  BY <1>1 DEF HoldInv, Hold, BarSound, Pushed, territory
<1>2. ASSUME NEW live \in Nat, Capture(live) PROVE HoldInv'
  BY <1>2, CaptureHolds DEF HoldInv
<1> QED
  BY <1>1, <1>2, TerritoryStep DEF HoldInv

LEMMA HoldInvHolds == Spec => []HoldInv
<1> QED
  BY HoldInvInit, HoldInvNext, TypeCorrect, PTL DEF Spec

\* Owner, claimant and bar agree for any length of the bar, any rate of capture
\* and any decay.
THEOREM CaptureSound == Spec => []BarSound
<1>1. HoldInv => BarSound
  BY DEF HoldInv, Hold
<1> QED
  BY <1>1, HoldInvHolds, PTL

\* Ground is only won by pushing its whole bar alone from neutral, for any length
\* and rate: never from another owner, never with what somebody else has pushed.
THEOREM GroundIsEarned == Spec => EarnedHold
<1>1. ASSUME HoldInv, [Next]_vars, owner' # owner, owner' # Nobody
      PROVE  owner = Nobody /\ effort' * Rate >= Full
  <2>1. PICK live \in Nat : Capture(live)
    BY <1>1, TerritoryStep DEF HoldInv, territory
  <2>2. PICK p \in Player : Claimed(p)
    <3>1. here \subseteq Player
      BY <1>1 DEF HoldInv, TypeOK
    <3>2. ~Stalled /\ ~UNCHANGED territory
      BY <1>1 DEF Stalled, territory
    <3> QED
      BY <2>1, <3>1, <3>2 DEF Capture
  <2>3. owner = Nobody
    BY <1>1, <2>2 DEF Claimed, Erode
  <2>4. bar' <= effort' * Rate
    BY <1>1, <2>2, <2>3, ClaimPushed DEF HoldInv, Hold
  <2>5. bar' = Full
    BY <1>1, <2>2, <2>3, SimAssumption DEF Claimed
  <2>6. effort' \in Nat /\ Full \in Nat /\ Rate \in Nat
    BY <2>1, <1>1, CaptureType, SimAssumption DEF HoldInv
  <2>7. effort' * Rate \in Int
    BY <2>6
  <2> QED
    BY <2>3, <2>4, <2>5, <2>6, <2>7
<1>2. HoldInv /\ [Next]_vars =>
        [owner' # owner /\ owner' # Nobody => owner = Nobody /\ effort' * Rate >= Full]_vars
  BY <1>1
<1> QED
  BY <1>2, HoldInvHolds, PTL DEF Spec, EarnedHold

----------------------------------------------------------------------------
\* Mobs.

\* The mobs of a zone are bounded by the regions it was given, for any number of
\* mobs per zone: the trickle never adds to a full zone.
THEOREM MobsAreBounded == Spec => []MobsBounded
<1>1. Init => MobsBounded
  BY SimAssumption DEF Init, MobsBounded
<1>2. TypeOK /\ MobsBounded /\ [Next]_vars => MobsBounded'
  <2> SUFFICES ASSUME TypeOK, MobsBounded, [Next]_vars PROVE MobsBounded'
    OBVIOUS
  <2>1. mobs \in Nat /\ regions \in Nat /\ MobsPerZone \in Nat
    BY SimAssumption DEF TypeOK
  <2>2. MobsPerZone * (regions + 1) = MobsPerZone * regions + MobsPerZone
        /\ MobsPerZone * regions \in Nat
        /\ MobsPerZone * (regions + 2) = MobsPerZone * regions + MobsPerZone + MobsPerZone
    BY <2>1
  <2>3. CASE TickEntities
    <3>1. PICK live \in 0 .. mobs : Trickle(live)
      BY <2>3 DEF TickEntities
    <3>2. mobs' \in Nat /\ (mobs' <= mobs \/ mobs' <= MobsPerZone) /\ regions' = regions
      BY <2>3, <3>1, TrickleType DEF TickEntities
    <3> QED
      BY <3>2, <2>1, <2>2 DEF MobsBounded
  <2>4. ASSUME NEW s \in BOOLEAN, NEW ns \in SUBSET Node, SetRegion(s, ns) PROVE MobsBounded'
    <3>1. mobs' = mobs + MobsPerZone /\ regions' = regions + 1
      BY <2>4 DEF SetRegion, SpawnMobs
    <3>2. regions' + 1 = regions + 2
      BY <3>1, <2>1
    <3> QED
      BY <3>1, <3>2, <2>1, <2>2 DEF MobsBounded
  <2>5. CASE UNCHANGED <<mobs, regions>>
    BY <2>5 DEF MobsBounded
  <2> QED
    BY <2>3, <2>4, <2>5 DEF Next, Tick, TickNodes, Message, Link, Unlink, PlayerJoin, SpawnEntity,
       Inserted, Leave, Move, GatherAsk, GatherStart, GatherStop, vars, wild
<1> QED
  BY <1>1, <1>2, TypeCorrect, PTL DEF Spec
=============================================================================
