------------------------------ MODULE ZoneSim ------------------------------
(***************************************************************************)
(* The simulation of one zone process (zone_server.rs): a game loop that   *)
(* ticks while the connection's handler takes the gateway's messages. Of a *)
(* tick there are two parts, each under its own locks: mobs, deaths and    *)
(* the capture bar, then gathering and the nodes. A message may be handled *)
(* before, between and after them.                                         *)
(*                                                                         *)
(* A position is abstracted to the node a player is in reach of. Geometry  *)
(* decides which mobs reach a player and which swings reach a mob: both    *)
(* are left open, and with them facing, cooldowns and the health of mobs.  *)
(***************************************************************************)
EXTENDS Integers, FiniteSets

CONSTANTS
  Player,
  Node,       \* the authored resource nodes
  Stock,      \* [Node -> quantity], the authored qty
  NoNode, Nobody,
  MaxHp,      \* a player's, in hits of a mob
  MobsPerZone, MobRespawn, ClearAt,   \* MOBS_PER_ZONE, MOB_RESPAWN_TICKS, CAPTURE_MOB_THRESHOLD
  Full, Rate, Decay,                  \* the bar's end, CAPTURE_RATE, CAPTURE_DECAY
  GatherPeriod, NodeRespawn,          \* GATHER_PERIOD, NODE_RESPAWN_TICKS
  MaxRegions                          \* bound: set_region messages

ASSUME SimAssumption ==
  /\ IsFiniteSet(Player) /\ Stock \in [Node -> Nat \ {0}]
  /\ NoNode \notin Node /\ Nobody \notin Player
  /\ {MaxHp, MobsPerZone, MobRespawn, Full, Rate, Decay, GatherPeriod} \subseteq Nat \ {0}
  /\ ClearAt \in Nat /\ MaxRegions \in Nat
  /\ NodeRespawn \in Nat \ {0, 1}

VARIABLES
  linked,      \* a gateway is connected (proxy_tx): without one no tick runs
  safe,        \* the label of the present region
  field,       \* the nodes inside the present region
  here,        \* players with an entity
  near,        \* [Player -> Node or NoNode], the node in reach
  hp,          \* [Player -> 1 .. MaxHp]
  mobs,        \* live mobs
  mobTimer,    \* ticks until the next mob trickles in
  owner, capturing, bar,   \* territory control
  qty, timer,  \* [Node -> Nat], stock and ticks until refill
  job,         \* [Player -> Job], the gathering map
  asked,       \* a gather.start that was validated and is not entered yet
  part,        \* the part of the tick that comes next
  regions,
  effort,      \* history: ticks the last claimant alone has pushed the bar
  yielded      \* history: [Node -> Nat], units given since the last refill

territory == <<owner, capturing, bar, effort>>
ground == <<qty, timer, yielded>>
bodies == <<here, near, hp>>
wild == <<mobs, mobTimer>>
vars == <<linked, safe, field, bodies, wild, territory, ground, job, asked, part, regions>>

None == [node |-> NoNode, progress |-> 0]
Job == [node : Node \cup {NoNode}, progress : 0 .. GatherPeriod - 1]

Unasked == <<Nobody, NoNode>>

Init ==
  /\ linked = TRUE
  /\ safe \in BOOLEAN
  /\ field = Node
  /\ here = {}
  /\ near = [p \in Player |-> NoNode]
  /\ hp = [p \in Player |-> MaxHp]
  /\ mobs = MobsPerZone /\ mobTimer = MobRespawn
  /\ owner = Nobody /\ capturing = Nobody /\ bar = 0
  /\ qty = Stock
  /\ timer = [n \in Node |-> 0]
  /\ job = [p \in Player |-> None]
  /\ asked = Unasked
  /\ part = "entities"
  /\ regions = 0
  /\ effort = 0
  /\ yielded = [n \in Node |-> 0]

----------------------------------------------------------------------------
\* Messages, one at a time.

Taking == linked /\ asked = Unasked

Inserted(p, n, h) ==
  /\ Taking
  /\ here' = here \cup {p}
  /\ near' = [near EXCEPT ![p] = n]
  /\ hp' = [hp EXCEPT ![p] = h]
  /\ UNCHANGED <<linked, safe, field, wild, territory, ground, job, asked, part, regions>>

\* A guest joins at a random point and in full health; everybody else is spawned
\* where and as the gateway says.
PlayerJoin(p, n) == Inserted(p, n, MaxHp)
SpawnEntity(p, n, h) == Inserted(p, n, h)

\* player_leave, or a move out of the region: the entity goes with all it had. The
\* player's job stays.
Leave(p) ==
  /\ Taking
  /\ here' = here \ {p}
  /\ near' = [near EXCEPT ![p] = NoNode]
  /\ hp' = [hp EXCEPT ![p] = MaxHp]
  /\ UNCHANGED <<linked, safe, field, wild, territory, ground, job, asked, part, regions>>

Move(p, n) ==
  /\ Taking /\ p \in here
  /\ near' = [near EXCEPT ![p] = n]
  /\ UNCHANGED <<linked, safe, field, here, hp, wild, territory, ground, job, asked, part,
                 regions>>

\* gather.start is validated under two locks ...
GatherAsk(p, n) ==
  /\ Taking /\ p \in here /\ n \in field /\ near[p] = n /\ qty[n] > 0
  /\ asked' = <<p, n>>
  /\ UNCHANGED <<linked, safe, field, bodies, wild, territory, ground, job, part, regions>>

\* ... and entered under a third, when a tick may have emptied the node.
GatherStart ==
  /\ asked # Unasked
  /\ job' = [job EXCEPT ![asked[1]] = [node |-> asked[2], progress |-> 0]]
  /\ asked' = Unasked
  /\ UNCHANGED <<linked, safe, field, bodies, wild, territory, ground, part, regions>>

GatherStop(p) ==
  /\ Taking
  /\ job' = [job EXCEPT ![p] = None]
  /\ UNCHANGED <<linked, safe, field, bodies, wild, territory, ground, asked, part, regions>>

SpawnMobs == mobs' = mobs + MobsPerZone

SpawnNodes ==
  /\ qty' = Stock
  /\ timer' = [n \in Node |-> 0]
  /\ yielded' = [n \in Node |-> 0]

\* set_region: the zone was split or has grown. It gets its nodes anew, full,
\* and a fresh set of mobs beside those it has. (Each under its own lock: a tick
\* in between sees one and not yet the other, and loses nothing by it.)
SetRegion(s, ns) ==
  /\ Taking /\ regions < MaxRegions
  /\ regions' = regions + 1
  /\ safe' = s
  /\ field' = ns
  /\ SpawnMobs /\ SpawnNodes
  /\ UNCHANGED <<linked, bodies, mobTimer, territory, job, asked, part>>

\* The gateway's connection ends; it, or the next gateway, connects again.
Unlink ==
  /\ Taking
  /\ linked' = FALSE
  /\ UNCHANGED <<safe, field, bodies, wild, territory, ground, job, asked, part, regions>>

Link ==
  /\ ~linked
  /\ linked' = TRUE
  /\ UNCHANGED <<safe, field, bodies, wild, territory, ground, job, asked, part, regions>>

----------------------------------------------------------------------------
\* The first part of a tick.

\* Who is beaten to zero has died and is back with full health.
Survived(h, hit) == IF h > hit THEN h - hit ELSE MaxHp

\* What mobs do to the players of an unsafe zone. Whoever dies is put somewhere in
\* the region.
Fight ==
  /\ \E hit \in [here -> 0 .. MaxHp] :
       /\ (safe \/ mobs = 0) => \A p \in here : hit[p] = 0
       /\ hp' = [p \in Player |-> IF p \in here THEN Survived(hp[p], hit[p]) ELSE hp[p]]
       /\ \E to \in [here -> field \cup {NoNode}] :
            near' = [p \in Player |->
              IF p \in here /\ hit[p] >= hp[p] THEN to[p] ELSE near[p]]

\* Below the zone's number of mobs, one comes back when the timer runs out.
Trickle(live) ==
  IF live >= MobsPerZone THEN mobs' = live /\ mobTimer' = MobRespawn
  ELSE IF mobTimer > 1 THEN mobs' = live /\ mobTimer' = mobTimer - 1
  ELSE mobs' = live + 1 /\ mobTimer' = MobRespawn

Least(a, b) == IF a <= b THEN a ELSE b
Most(a, b) == IF a >= b THEN a ELSE b

\* Slip: a new claimant goes on with the bar as it finds it.
TakenOver(p) == bar

\* Where the bar of neutral ground starts for claimant p.
Start(p) == IF capturing = p THEN bar ELSE 0

\* A tick of p's more, counted up to what matters.
Counted(p) == IF capturing = p THEN Least(effort + 1, Full) ELSE 1

\* Slip: erosion stops at an empty bar, and the owner stays.
Stubborn(p) ==
  /\ bar' = Most(bar - Rate, 0)
  /\ UNCHANGED <<owner, capturing, effort>>

\* An enemy erodes the owner's bar, and the ground is neutral when it is empty.
Erode(p) ==
  /\ bar' = Most(bar - Rate, 0)
  /\ IF bar - Rate <= 0
     THEN owner' = Nobody /\ capturing' = p /\ effort' = 0
     ELSE UNCHANGED <<owner, capturing, effort>>

\* What a single player present makes of the bar when the mobs are cleared.
Claimed(p) ==
  CASE owner = p -> bar' = Full /\ UNCHANGED <<owner, capturing, effort>>
    [] owner = Nobody ->
         /\ bar' = Least(Start(p) + Rate, Full)
         /\ capturing' = p
         /\ owner' = IF bar' = Full THEN p ELSE Nobody
         /\ effort' = Counted(p)
    [] OTHER -> Erode(p)

\* Empty, contested or defended ground: an unowned bar decays, an owned one holds.
Stalled ==
  /\ bar' = IF owner = Nobody THEN Most(bar - Decay, 0) ELSE bar
  /\ capturing' = IF owner = Nobody /\ bar' = 0 THEN Nobody ELSE capturing
  /\ effort' = IF capturing' = Nobody THEN 0 ELSE effort
  /\ UNCHANGED owner

Capture(live) ==
  \/ safe /\ UNCHANGED territory
  \/ ~safe /\ live <= ClearAt /\ \E p \in here : here = {p} /\ Claimed(p)
  \/ ~safe /\ ~(live <= ClearAt /\ Cardinality(here) = 1) /\ Stalled

\* Swings kill mobs only where there is somebody to swing.
TickEntities ==
  /\ linked /\ part = "entities"
  /\ part' = "nodes"
  /\ Fight
  /\ \E live \in 0 .. mobs :
       /\ here = {} => live = mobs
       /\ Trickle(live)
       /\ Capture(live)
  /\ UNCHANGED <<linked, safe, field, here, ground, job, asked, regions>>

----------------------------------------------------------------------------
\* The second part: gathering, and the refill of empty nodes.

\* Jobs that go on: the player is there, in reach, and the node has stock.
Working == {p \in here : /\ job[p].node \in field
                         /\ near[p] = job[p].node
                         /\ qty[job[p].node] > 0}

\* Slip: every player whose unit is due is given one.
AllRipe(ripe) == {ripe}

\* Those whose unit is due. Jobs are visited in any order: when a node has less
\* than they are due, any of them may come too late.
Served(ripe) ==
  {W \in SUBSET ripe : \A n \in field :
     LET due == {p \in ripe : job[p].node = n} IN
     Cardinality(W \cap due) = Least(Cardinality(due), qty[n])}

\* Slip: the node is emptied and nobody starts its timer.
NoTimer(n, left) == timer[n]

\* The node that gives its last unit is set to refill.
Timed(n, left) == IF qty[n] > 0 /\ left = 0 THEN NodeRespawn ELSE timer[n]

\* What node n gives when the jobs of W are served, what is left, and its timer.
Given(W, n) == Cardinality({p \in W : job[p].node = n})
Remaining(W, n) == qty[n] - Given(W, n)
Count(W, n) == Timed(n, Remaining(W, n))

\* Its timer runs; it runs out.
Counting(W, n) == n \in field /\ Remaining(W, n) <= 0 /\ Count(W, n) > 0
Refills(W, n) == Counting(W, n) /\ Count(W, n) = 1

Ripe == {p \in Working : job[p].progress + 1 >= GatherPeriod}

\* The jobs after the tick when those in `ended` are finished.
Progress(W, ended) ==
  [p \in Player |->
    IF p \notin Working \/ p \in ended THEN None
    ELSE [job[p] EXCEPT !.progress = IF p \in W THEN 0 ELSE @ + 1]]

\* A job on an emptied node ends now, or is found out at the next tick.
TickNodes ==
  /\ linked /\ part = "nodes"
  /\ part' = "entities"
  /\ \E W \in Served(Ripe) :
     /\ qty' = [n \in Node |-> IF Refills(W, n) THEN Stock[n] ELSE Remaining(W, n)]
     /\ timer' = [n \in Node |-> IF Counting(W, n) THEN Count(W, n) - 1 ELSE Count(W, n)]
     /\ yielded' = [n \in Node |-> IF Refills(W, n) THEN 0 ELSE yielded[n] + Given(W, n)]
     /\ \E ended \in SUBSET {p \in Working : Remaining(W, job[p].node) <= 0} :
          /\ Ripe \ W \subseteq ended
          /\ job' = Progress(W, ended)
  /\ UNCHANGED <<linked, safe, field, bodies, wild, territory, asked, regions>>

Tick == TickEntities \/ TickNodes

----------------------------------------------------------------------------

Message ==
  \/ \E p \in Player :
       \/ Leave(p) \/ GatherStop(p)
       \/ \E n \in field \cup {NoNode} :
            Move(p, n) \/ PlayerJoin(p, n) \/ \E h \in 1 .. MaxHp : SpawnEntity(p, n, h)
       \/ \E n \in Node : GatherAsk(p, n)
  \/ GatherStart
  \/ \E s \in BOOLEAN, ns \in SUBSET Node : SetRegion(s, ns)

Next == Tick \/ Message \/ Unlink \/ Link

Spec == Init /\ [][Next]_vars

\* The game loop is a task of its own on a fixed interval.
FairSpec == Spec /\ WF_vars(Tick)

----------------------------------------------------------------------------

\* Every variable is of its type: nobody who is present is left with no health.
TypeOK ==
  /\ linked \in BOOLEAN /\ safe \in BOOLEAN
  /\ field \subseteq Node /\ here \subseteq Player
  /\ near \in [Player -> Node \cup {NoNode}]
  /\ hp \in [Player -> 1 .. MaxHp]
  /\ mobs \in Nat /\ mobTimer \in 1 .. MobRespawn
  /\ owner \in Player \cup {Nobody} /\ capturing \in Player \cup {Nobody}
  /\ bar \in 0 .. Full
  /\ qty \in [Node -> Int] /\ timer \in [Node -> 0 .. NodeRespawn]
  /\ job \in [Player -> Job]
  /\ asked \in (Player \X Node) \cup {Unasked}
  /\ part \in {"entities", "nodes"}
  /\ regions \in Nat /\ effort \in Nat
  /\ yielded \in [Node -> Nat]

\* Between two refills a node yields its stock and no more, however many players
\* gather it, whichever of them is due in the same tick, and however late a
\* gather.start comes.
StockConserved == \A n \in Node : qty[n] >= 0 /\ yielded[n] + qty[n] = Stock[n]

\* Owner, claimant and bar agree: an owned zone has hold left to erode, a full
\* bar has an owner, and a bar that has begun to fill belongs to a claimant.
BarSound ==
  /\ owner # Nobody => bar > 0
  /\ bar = Full => owner # Nobody
  /\ bar > 0 => owner # Nobody \/ capturing # Nobody

\* Ground is won by holding it: whoever becomes the owner has pushed the bar
\* alone for its whole length since the ground was last neutral, without anybody
\* else's claim in between, and never takes it straight from another owner.
EarnedHold == [][
  owner' # owner /\ owner' # Nobody =>
    /\ owner = Nobody
    /\ effort' * Rate >= Full
  ]_vars

\* A zone never has more mobs than each of the regions it was ever given brought
\* in: the trickle stops at the zone's number.
MobsBounded == mobs <= MobsPerZone * (regions + 1)

\* A depleted node refills, as long as ticks run.
Refilled == \A n \in Node : qty[n] = 0 /\ n \in field ~> qty[n] > 0 \/ ~linked \/ n \notin field
============================================================================
