------------------------------ MODULE Handoff ------------------------------
(***************************************************************************)
(* Players crossing zones while the partition changes under them.          *)
(*                                                                         *)
(* A zone process simulates the players inside its region; the gateway     *)
(* routes the frames of a client to ONE zone, moves players that leave a   *)
(* region to the zone that owns the point they reached, and splits and     *)
(* merges zones. The parties share nothing: gateway and zone exchange      *)
(* messages over a FIFO connection per zone, and inside the gateway the    *)
(* client sessions, one listener per zone and the autoscaler interleave    *)
(* wherever they release a lock or await.                                  *)
(*                                                                         *)
(* In a zone two tasks share the players: the handler of the frames that   *)
(* arrive and the game loop, which reports them a moment after it looked.  *)
(*                                                                         *)
(* The world is a strip: players have an x, and every region spans all y.  *)
(* What zones send besides positions and handoffs is left out, and so are  *)
(* mobs: they never leave their region.                                    *)
(***************************************************************************)
EXTENDS Regions, Sequences, FiniteSets

Seqs == INSTANCE SequencesExt

CONSTANTS
  Zone,       \* zone ids, those a split will generate included
  Start,      \* regions of the zones launched by the operator
  StartOrder, \* the order they registered in
  Player, Guest,  \* Guest \subseteq Player; the others have an account
  Socket, Owner,  \* each connection, and the player that logs in on it
  Width, Height, MaxZones,
  Step,       \* the dx a client may ask for
  Home,       \* where the row of a new character puts it
  NoZone,
  MaxMoves, MaxTicks, MaxSplits, MaxMerges  \* bounds of the environment

Nowhere == -1
Spot == 0 .. Width - 1

\* The zones the operator launches have a region each, with a point in it;
\* nothing is asked about how they lie, nor about where players want to go.
ASSUME HandoffAssumption ==
  /\ Width \in Nat \ {0} /\ Home \in Spot /\ Step \subseteq Int
  /\ NoZone \notin Zone
  /\ Guest \subseteq Player /\ IsFiniteSet(Player) /\ Owner \in [Socket -> Player]
  /\ DOMAIN Start \subseteq Zone /\ IsFiniteSet(DOMAIN Start) /\ DOMAIN Start # {}
  /\ Start \in [DOMAIN Start -> Region] /\ \A z \in DOMAIN Start : NonEmpty(Start[z])
  /\ StartOrder \in Seq(Zone) /\ Seqs!ToSet(StartOrder) = DOMAIN Start
  /\ Len(StartOrder) = Cardinality(DOMAIN Start)

VARIABLES
  zones, order,     \* the gateway's zone map and registration order
  clients,          \* current_zone of each connected player
  cache,            \* entity_state: last position a zone reported
  saved,            \* the position in the character's row
  pc, at, last,     \* per socket: session step, zone picked, position in hand
  traced,           \* history: players that logged in over traces of themselves
  hand,             \* per zone: the handoff its listener is performing
  scaler,           \* the split or merge the autoscaler is performing
  children,         \* zones the gateway launched itself
  alive, region, ents,  \* zone processes: running, their region, their players
  doing, tick,      \* per zone: the step its handler is in, its game loop
  undone,           \* history: players whose death the handler undid
  down, up,         \* messages gateway -> zone and zone -> gateway
  pos,              \* history: where the simulation last put each player
  moves, ticks, splits, merges

gateway == <<zones, order, clients, cache, saved>>
sessions == <<pc, at, last, traced>>
processes == <<alive, region, ents, doing, tick, undone>>
bounds == <<moves, ticks, splits, merges>>
vars == <<gateway, sessions, hand, scaler, children, processes, down, up, pos, bounds>>

\* A slip: a point on the border belongs to neither side.
OwnsInterior(r, x) == x > r.x0 /\ x < r.x1

Owns(r, x) == Contains(r, x, 0)

\* A slip: a step may leave the world.
Unclamped(x) == x

Clamped(x) == IF x < 0 THEN 0 ELSE IF x >= Width THEN Width - 1 ELSE x

\* Messages to a zone ...
Join(p) == [kind |-> "player_join", who |-> p]
Leave(p) == [kind |-> "player_leave", who |-> p]
Move(p, dx) == [kind |-> "move", who |-> p, dx |-> dx]
\* A slip: the entity is recreated where the gateway last saw it.
SpawnCached(p, x) ==
  [kind |-> "spawn_entity", who |-> p, x |-> IF cache[p] = Nowhere THEN x ELSE cache[p]]

Spawn(p, x) == [kind |-> "spawn_entity", who |-> p, x |-> x]
SetRegion(r) == [kind |-> "set_region", region |-> r]
Shutdown == [kind |-> "shutdown"]
\* ... and from it.
Status(p, x) == [kind |-> "status_update", who |-> p, x |-> x]
Migrate(p, x) == [kind |-> "migrate_request", who |-> p, x |-> x]

Free == [stage |-> "free"]
Resting == [stage |-> "rest"]

Init ==
  /\ zones = Start /\ order = StartOrder
  /\ clients = [p \in Player |-> NoZone]
  /\ cache = [p \in Player |-> Nowhere]
  /\ saved = [p \in Player |-> Home]
  /\ pc = [s \in Socket |-> "offline"]
  /\ at = [s \in Socket |-> NoZone]
  /\ last = [s \in Socket |-> Nowhere]
  /\ traced = {}
  /\ hand = [z \in Zone |-> Free]
  /\ scaler = Resting /\ children = {}
  /\ alive = DOMAIN Start
  /\ region = [z \in Zone |-> IF z \in DOMAIN Start THEN Start[z] ELSE Box(0, 0, 0, 0)]
  /\ ents = [z \in Zone |-> [p \in Player |-> Nowhere]]
  /\ doing = [z \in Zone |-> Resting] /\ tick = doing /\ undone = {}
  /\ down = [z \in Zone |-> <<>>] /\ up = down
  /\ pos = [p \in Player |-> Nowhere]
  /\ moves = 0 /\ ticks = 0 /\ splits = 0 /\ merges = 0

----------------------------------------------------------------------------
Idle == scaler = Resting

\* A client session (handle_client). Every step that takes a lock is a step.

\* The character's row is read by the handshake.
Authenticate(s) ==
  /\ pc[s] = "offline"
  /\ pc' = [pc EXCEPT ![s] = "authed"]
  /\ last' = [last EXCEPT ![s] = saved[Owner[s]]]
  /\ UNCHANGED <<gateway, at, traced, hand, scaler, children, processes, down, up, pos, bounds>>

\* Refused when the character is online; otherwise the landing zone is picked:
\* the owner of the saved position, or the first zone for a guest.
Admit(s) ==
  LET p == Owner[s]
      owners == {z \in DOMAIN zones : Owns(zones[z], last[s])}
  IN
  /\ pc[s] = "authed"
  /\ \/ /\ clients[p] # NoZone
        /\ pc' = [pc EXCEPT ![s] = "gone"] /\ UNCHANGED at
     \/ /\ clients[p] = NoZone
        /\ pc' = [pc EXCEPT ![s] = "admitted"]
        /\ \E z \in IF p \in Guest \/ owners = {} THEN {Head(order)} ELSE owners :
             at' = [at EXCEPT ![s] = z]
  /\ UNCHANGED <<gateway, last, traced, hand, scaler, children, processes, down, up, pos, bounds>>

\* Sessions between the insertion into the client map and the last word to a zone.
Active == {"entered", "online", "closing", "forgotten", "saved"}

\* Nothing is left of player p's earlier sessions: no session between two of
\* its steps, no body, no farewell, handoff or scaling that has it in hand.
NoTrace(p) ==
  /\ \A s \in Socket : Owner[s] = p => pc[s] \notin Active
  /\ \A z \in Zone :
       /\ ents[z][p] = Nowhere
       /\ \A i \in DOMAIN down[z] : down[z][i].kind \in
            {"player_join", "player_leave", "spawn_entity"} => down[z][i].who # p
       /\ \A i \in DOMAIN up[z] : up[z][i].kind = "migrate_request" => up[z][i].who # p
       /\ hand[z] # Free => hand[z].who # p
  /\ ~Idle => \A m \in scaler.movers : m.who # p
  /\ scaler.stage \in {"spawn", "repoint"} => scaler.mover.who # p

Enter(s) ==
  /\ pc[s] = "admitted"
  /\ traced' = IF NoTrace(Owner[s]) THEN traced ELSE traced \cup {Owner[s]}
  /\ pc' = [pc EXCEPT ![s] = "entered"]
  /\ clients' = [clients EXCEPT ![Owner[s]] = at[s]]
  /\ UNCHANGED <<zones, order, cache, saved, at, last, hand, scaler, children, processes,
                 down, up, pos, bounds>>

\* The player is put into the zone it entered, if that is still in the map.
Appear(s) ==
  LET p == Owner[s] IN
  /\ pc[s] = "entered"
  /\ pc' = [pc EXCEPT ![s] = "online"]
  /\ IF at[s] \notin DOMAIN zones THEN UNCHANGED <<cache, down, pos>>
     ELSE IF p \in Guest
     THEN /\ down' = [down EXCEPT ![at[s]] = Append(@, Join(p))]
          /\ UNCHANGED <<cache, pos>>
     ELSE /\ down' = [down EXCEPT ![at[s]] = Append(@, Spawn(p, last[s]))]
          /\ cache' = [cache EXCEPT ![p] = last[s]]
          /\ pos' = [pos EXCEPT ![p] = last[s]]
  /\ UNCHANGED <<zones, order, clients, saved, at, last, traced, hand, scaler, children,
                 processes, up, bounds>>

\* A frame goes to the player's current zone; if there is no such zone, it is
\* dropped without a word.
Frame(s, dx) ==
  LET z == clients[Owner[s]] IN
  /\ pc[s] = "online" /\ moves < MaxMoves
  /\ z \in DOMAIN zones
  /\ moves' = moves + 1
  /\ down' = [down EXCEPT ![z] = Append(@, Move(Owner[s], dx))]
  /\ UNCHANGED <<gateway, sessions, hand, scaler, children, processes, up, pos,
                 ticks, splits, merges>>

\* The connection ends: its position is taken out of the cache ...
Close(s) ==
  LET p == Owner[s] IN
  /\ pc[s] = "online"
  /\ pc' = [pc EXCEPT ![s] = "closing"]
  /\ cache' = [cache EXCEPT ![p] = Nowhere]
  /\ last' = IF cache[p] = Nowhere THEN last ELSE [last EXCEPT ![s] = cache[p]]
  /\ UNCHANGED <<zones, order, clients, saved, at, traced, hand, scaler, children, processes,
                 down, up, pos, bounds>>

\* ... the client out of the map, with the zone it was routed to ...
Forget(s) ==
  LET p == Owner[s] IN
  /\ pc[s] = "closing"
  /\ clients' = [clients EXCEPT ![p] = NoZone]
  /\ at' = [at EXCEPT ![s] = clients[p]]
  /\ pc' = [pc EXCEPT ![s] = IF clients[p] = NoZone THEN "gone" ELSE "forgotten"]
  /\ UNCHANGED <<zones, order, cache, saved, last, traced, hand, scaler, children, processes,
                 down, up, pos, bounds>>

\* ... the row is saved (a failed save is only reported) ...
Save(s) ==
  /\ pc[s] = "forgotten"
  /\ pc' = [pc EXCEPT ![s] = "saved"]
  /\ IF Owner[s] \in Guest THEN UNCHANGED saved
     ELSE \/ saved' = [saved EXCEPT ![Owner[s]] = last[s]]
          \/ UNCHANGED saved
  /\ UNCHANGED <<zones, order, clients, cache, at, last, traced, hand, scaler, children,
                 processes, down, up, pos, bounds>>

\* ... and the zone is told, if it still exists.
TellLeave(s) ==
  /\ pc[s] = "saved"
  /\ pc' = [pc EXCEPT ![s] = "gone"]
  /\ down' = IF at[s] \in DOMAIN zones
             THEN [down EXCEPT ![at[s]] = Append(@, Leave(Owner[s]))] ELSE down
  /\ UNCHANGED <<gateway, at, last, traced, hand, scaler, children, processes, up, pos, bounds>>

----------------------------------------------------------------------------
\* A zone process handles the frames of its connection in order (handle_proxy).

Serves(z, kind) ==
  doing[z] = Resting /\ z \in alive /\ down[z] # <<>> /\ Head(down[z]).kind = kind

Handled(z) == [down EXCEPT ![z] = Tail(@)]

Put(z, p, x) == [ents EXCEPT ![z][p] = x]

\* A slip: the zone forgets to remove a player.
Kept(z, p) == ents

Gone(z, p) == Put(z, p, Nowhere)

Present(z) == {p \in Player : ents[z][p] # Nowhere}

Statuses(es) ==
  LET ps == Seqs!SetToSeq({p \in DOMAIN es : es[p] # Nowhere}) IN
  [i \in DOMAIN ps |-> Status(ps[i], es[ps[i]])]

Say(z, m) == [up EXCEPT ![z] = Append(@, m)]

\* A point of the region is drawn; everybody's state is reported, the
\* joiner's too (in any order: each report is about another player).
Joined(z) ==
  LET p == Head(down[z]).who IN
  /\ Serves(z, "player_join")
  /\ \E x \in {i \in Spot : Owns(region[z], i)} :
       /\ ents' = Put(z, p, x)
       /\ pos' = [pos EXCEPT ![p] = x]
       /\ up' = [up EXCEPT ![z] = @ \o Statuses(ents'[z])]
  /\ down' = Handled(z)
  /\ UNCHANGED <<gateway, sessions, hand, scaler, children, alive, region, doing, tick, undone,
                 bounds>>

Left(z) ==
  /\ Serves(z, "player_leave")
  /\ ents' = Gone(z, Head(down[z]).who)
  /\ down' = Handled(z)
  /\ UNCHANGED <<gateway, sessions, hand, scaler, children, alive, region, doing, tick, undone,
                 up, pos, bounds>>

\* A move of a player that is not here is ignored. A player that is moves, the
\* lock is released ...
Moved(z) ==
  LET m == Head(down[z])
      x == Clamped(ents[z][m.who] + m.dx)
  IN
  /\ Serves(z, "move")
  /\ down' = Handled(z)
  /\ \/ m.who \notin Present(z) /\ UNCHANGED <<ents, doing, pos>>
     \/ /\ m.who \in Present(z)
        /\ ents' = Put(z, m.who, x)
        /\ pos' = [pos EXCEPT ![m.who] = x]
        /\ doing' = [doing EXCEPT ![z] = [stage |-> "step", who |-> m.who, x |-> x]]
  /\ UNCHANGED <<gateway, sessions, hand, scaler, children, alive, region, tick, undone,
                 up, bounds>>

\* ... and if it stepped out of the region it is removed and handed to the
\* gateway, at the point it stepped to even if it died meanwhile.
Stepped(z) ==
  LET p == doing[z].who
      x == doing[z].x
  IN
  /\ doing[z].stage = "step"
  /\ doing' = [doing EXCEPT ![z] = Resting]
  /\ \/ /\ Owns(region[z], x)
        /\ up' = Say(z, Status(p, ents[z][p])) /\ UNCHANGED ents
     \/ /\ ~Owns(region[z], x)
        /\ ents' = Gone(z, p)
        /\ up' = Say(z, Migrate(p, x))
  /\ UNCHANGED <<gateway, sessions, hand, scaler, children, alive, region, tick, undone,
                 down, pos, bounds>>

\* The zone takes the position it is given, inside its region or not.
Spawned(z) ==
  LET m == Head(down[z]) IN
  /\ Serves(z, "spawn_entity")
  /\ ents' = Put(z, m.who, Clamped(m.x))
  /\ up' = Say(z, Status(m.who, Clamped(m.x)))
  /\ down' = Handled(z)
  /\ UNCHANGED <<gateway, sessions, hand, scaler, children, alive, region, doing, tick, undone,
                 pos, bounds>>

Resized(z) ==
  /\ Serves(z, "set_region")
  /\ region' = [region EXCEPT ![z] = Head(down[z]).region]
  /\ down' = Handled(z)
  /\ UNCHANGED <<gateway, sessions, hand, scaler, children, alive, ents, doing, tick, undone,
                 up, pos, bounds>>

\* A process ends: its players go with it, and so does what it had not read
\* and any tail of what it had written.
Ends(z) ==
  /\ alive' = alive \ {z}
  /\ ents' = [ents EXCEPT ![z] = [p \in Player |-> Nowhere]]
  /\ doing' = [doing EXCEPT ![z] = Resting]
  /\ tick' = [tick EXCEPT ![z] = Resting]
  /\ down' = [down EXCEPT ![z] = <<>>]
  /\ \E n \in 0 .. Len(up[z]) : up' = [up EXCEPT ![z] = SubSeq(@, 1, n)]

Exited(z) ==
  /\ Serves(z, "shutdown")
  /\ Ends(z)
  /\ UNCHANGED <<gateway, sessions, hand, scaler, children, region, undone, pos, bounds>>

----------------------------------------------------------------------------
\* Beside its handler a zone runs its game loop (game_loop): it reads the region,
\* then works on the players under their lock, and sends what it has to say
\* when it has released it.

Woke(z) ==
  /\ z \in alive /\ tick[z] = Resting /\ ticks < MaxTicks
  /\ ticks' = ticks + 1
  /\ tick' = [tick EXCEPT ![z] = [stage |-> "awake", area |-> region[z]]]
  /\ UNCHANGED <<gateway, sessions, hand, scaler, children, alive, region, ents, doing, undone,
                 down, up, pos, moves, splits, merges>>

\* Of the players some are hurt or swing (`changed`), and some of those die: they
\* wake up at a point of the region it read.
Ticked(z) ==
  /\ tick[z].stage = "awake"
  /\ \E changed \in SUBSET Present(z) : \E died \in SUBSET changed :
     \E there \in [died -> {x \in Spot : Owns(tick[z].area, x)}] :
       LET Revived(where) == [p \in Player |-> IF p \in died THEN there[p] ELSE where[p]] IN
       /\ ents' = [ents EXCEPT ![z] = Revived(ents[z])]
       /\ pos' = Revived(pos)
       /\ tick' = [tick EXCEPT ![z] =
            [stage |-> "flush",
             packets |-> Statuses([p \in changed |-> Revived(ents[z])[p]])]]
       /\ undone' = undone \cup {p \in died : doing[z].stage = "step" /\ doing[z].who = p}
  /\ UNCHANGED <<gateway, sessions, hand, scaler, children, alive, region, doing,
                 down, up, bounds>>

Flushed(z) ==
  /\ tick[z].stage = "flush"
  /\ up' = [up EXCEPT ![z] = @ \o tick[z].packets]
  /\ tick' = [tick EXCEPT ![z] = Resting]
  /\ UNCHANGED <<gateway, sessions, hand, scaler, children, alive, region, ents, doing, undone,
                 down, pos, bounds>>

----------------------------------------------------------------------------
\* The listener of a zone takes its messages in order, one at a time; a handoff
\* takes and releases four locks, one after the other.

Hears(z, kind) == hand[z] = Free /\ up[z] # <<>> /\ Head(up[z]).kind = kind

Heard(z) == [up EXCEPT ![z] = Tail(@)]

\* status_update: the position is cached (and fanned out to every client).
Report(z) ==
  /\ Hears(z, "status_update")
  /\ cache' = [cache EXCEPT ![Head(up[z]).who] = Head(up[z]).x]
  /\ up' = Heard(z)
  /\ UNCHANGED <<zones, order, clients, saved, sessions, hand, scaler, children, processes,
                 down, pos, bounds>>

\* migrate_request: any zone that owns the point is the target; if there is
\* none the player is dropped.
Lookup(z) ==
  LET m == Head(up[z])
      owners == {t \in DOMAIN zones : Owns(zones[t], m.x)}
  IN
  /\ Hears(z, "migrate_request")
  /\ up' = Heard(z)
  /\ IF owners = {} THEN UNCHANGED hand
     ELSE \E t \in owners :
            hand' = [hand EXCEPT ![z] = [stage |-> "send", who |-> m.who, x |-> m.x, to |-> t]]
  /\ UNCHANGED <<gateway, sessions, scaler, children, processes, down, pos, bounds>>

\* The player is spawned at its exact position, if the target is still there.
Send(z) ==
  LET h == hand[z] IN
  /\ h.stage = "send"
  /\ IF h.to \in DOMAIN zones
     THEN /\ down' = [down EXCEPT ![h.to] = Append(@, Spawn(h.who, h.x))]
          /\ hand' = [hand EXCEPT ![z].stage = "note"]
     ELSE hand' = [hand EXCEPT ![z] = Free] /\ UNCHANGED down
  /\ UNCHANGED <<gateway, sessions, scaler, children, processes, up, pos, bounds>>

Note(z) ==
  LET h == hand[z] IN
  /\ h.stage = "note"
  /\ cache' = [cache EXCEPT ![h.who] = h.x]
  /\ hand' = [hand EXCEPT ![z].stage = "follow"]
  /\ UNCHANGED <<zones, order, clients, saved, sessions, scaler, children, processes,
                 down, up, pos, bounds>>

\* A slip: the client is left where it was.
NotRepointed(p, t) == clients

\* A client that is still connected is routed to the zone `t`.
Repointed(p, t) == [clients EXCEPT ![p] = IF @ = NoZone THEN NoZone ELSE t]

Follow(z) ==
  /\ hand[z].stage = "follow"
  /\ clients' = Repointed(hand[z].who, hand[z].to)
  /\ hand' = [hand EXCEPT ![z] = Free]
  /\ UNCHANGED <<zones, order, cache, saved, sessions, scaler, children, processes,
                 down, up, pos, bounds>>

----------------------------------------------------------------------------
\* The autoscaler is one task: it splits or merges, one at a time. The
\* populations it decides on are late by any amount: the choice is left open.

\* The players routed to z and where the cache has them (`other` if nowhere).
Snapshot(z, other) ==
  {[who |-> p, x |-> IF cache[p] = Nowhere THEN other ELSE cache[p]] :
     p \in {q \in Player : clients[q] = z}}

Launched(z) == NonEmpty(region[z])   \* ids are never used twice

SplitBegin(z, n) ==
  /\ Idle /\ splits < MaxSplits
  /\ z \in DOMAIN zones /\ ~Launched(n)
  /\ Cardinality(DOMAIN zones) < MaxZones
  /\ Splittable(zones[z])
  /\ splits' = splits + 1
  /\ scaler' = [stage |-> "launch", op |-> "split", from |-> z, to |-> n,
                movers |-> {m \in Snapshot(z, zones[z].x0) : Owns(HighHalf(zones[z]), m.x)}]
  /\ UNCHANGED <<gateway, sessions, hand, children, processes, down, up, pos,
                 moves, ticks, merges>>

LaunchFails ==
  /\ scaler.stage = "launch"
  /\ scaler' = Resting
  /\ UNCHANGED <<gateway, sessions, hand, children, processes, down, up, pos, bounds>>

\* The new process runs and answers: it is registered, and for a while the far
\* half has two owners.
Register ==
  LET n == scaler.to
      give == HighHalf(zones[scaler.from])
  IN
  /\ scaler.stage = "launch"
  /\ alive' = alive \cup {n}
  /\ region' = [region EXCEPT ![n] = give]
  /\ zones' = [i \in DOMAIN zones \cup {n} |-> IF i = n THEN give ELSE zones[i]]
  /\ order' = Append(order, n)
  /\ scaler' = [scaler EXCEPT !.stage = "shrink"]
  /\ UNCHANGED <<clients, cache, saved, sessions, hand, children, ents, doing, tick, undone,
                 down, up, pos, bounds>>

\* A slip: the zone is told but the gateway's own record is not kept in sync.
ShrinkUnrecorded ==
  LET z == scaler.from IN
  /\ scaler.stage = "shrink"
  /\ down' = [down EXCEPT ![z] = Append(@, SetRegion(LowHalf(zones[z])))]
  /\ scaler' = [scaler EXCEPT !.stage = "move"]
  /\ UNCHANGED <<gateway, sessions, hand, children, processes, up, pos, bounds>>

\* set_zone_region: the map changes and the zone is told under one lock.
Shrink ==
  LET z == scaler.from IN
  /\ scaler.stage = "shrink"
  /\ zones' = [zones EXCEPT ![z] = LowHalf(@)]
  /\ down' = [down EXCEPT ![z] = Append(@, SetRegion(LowHalf(zones[z])))]
  /\ scaler' = [scaler EXCEPT !.stage = "move"]
  /\ UNCHANGED <<order, clients, cache, saved, sessions, hand, children, processes,
                 up, pos, bounds>>

\* Each mover leaves the zone that was split (a zone being retired is not
\* told), is spawned where the snapshot had it, and its client follows.
Take(m) ==
  /\ scaler.stage = "move" /\ m \in scaler.movers
  /\ scaler' = [stage |-> "spawn", op |-> scaler.op, from |-> scaler.from, to |-> scaler.to,
                movers |-> scaler.movers \ {m}, mover |-> m]
  /\ down' = IF scaler.op = "split"
             THEN [down EXCEPT ![scaler.from] = Append(@, Leave(m.who))] ELSE down
  /\ UNCHANGED <<gateway, sessions, hand, children, processes, up, pos, bounds>>

Resettle ==
  LET m == scaler.mover IN
  /\ scaler.stage = "spawn"
  /\ down' = [down EXCEPT ![scaler.to] = Append(@, Spawn(m.who, m.x))]
  /\ scaler' = [scaler EXCEPT !.stage = "repoint"]
  /\ UNCHANGED <<gateway, sessions, hand, children, processes, up, pos, bounds>>

Repoint ==
  /\ scaler.stage = "repoint"
  /\ clients' = Repointed(scaler.mover.who, scaler.to)
  /\ scaler' = [stage |-> "move", op |-> scaler.op, from |-> scaler.from, to |-> scaler.to,
                movers |-> scaler.movers]
  /\ UNCHANGED <<zones, order, cache, saved, sessions, hand, children, processes,
                 down, up, pos, bounds>>

SplitEnd ==
  /\ scaler.stage = "move" /\ scaler.op = "split" /\ scaler.movers = {}
  /\ children' = children \cup {scaler.to}
  /\ scaler' = Resting
  /\ UNCHANGED <<gateway, sessions, hand, processes, down, up, pos, bounds>>

MergeBegin(keep, drop) ==
  /\ Idle /\ merges < MaxMerges
  /\ {keep, drop} \subseteq DOMAIN zones /\ keep # drop
  /\ Mergeable(zones[keep], zones[drop])
  /\ OriginFirst(zones[keep], zones[drop])
  /\ merges' = merges + 1
  /\ scaler' = [stage |-> "swap", op |-> "merge", from |-> drop, to |-> keep,
                movers |-> Snapshot(drop, Merged(zones[keep], zones[drop]).x0)]
  /\ UNCHANGED <<gateway, sessions, hand, children, processes, down, up, pos,
                 moves, ticks, splits>>

\* `keep` grows to the union and `drop` leaves the map and the order (where
\* it occurs once), under one lock.
Swap ==
  LET keep == scaler.to
      drop == scaler.from
  IN
  /\ scaler.stage = "swap"
  /\ zones' = [z \in DOMAIN zones \ {drop} |->
                 IF z = keep THEN Merged(zones[keep], zones[drop]) ELSE zones[z]]
  /\ order' = Seqs!RemoveAt(order, CHOOSE i \in DOMAIN order : order[i] = drop)
  /\ scaler' = [scaler EXCEPT !.stage = "tell"]
  /\ UNCHANGED <<clients, cache, saved, sessions, hand, children, processes,
                 down, up, pos, bounds>>

\* A slip: the surviving process is never told that it grew.
TellNobody ==
  /\ scaler.stage = "tell"
  /\ scaler' = [scaler EXCEPT !.stage = "move"]
  /\ UNCHANGED <<gateway, sessions, hand, children, processes, down, up, pos, bounds>>

Tell ==
  LET keep == scaler.to IN
  /\ scaler.stage = "tell"
  /\ down' = [down EXCEPT ![keep] = Append(@, SetRegion(zones[keep]))]
  /\ scaler' = [scaler EXCEPT !.stage = "move"]
  /\ UNCHANGED <<gateway, sessions, hand, children, processes, up, pos, bounds>>

\* A zone the operator launched is asked to stop, a child is killed.
Retire ==
  LET drop == scaler.from IN
  /\ scaler.stage = "move" /\ scaler.op = "merge" /\ scaler.movers = {}
  /\ scaler' = Resting
  /\ children' = children \ {drop}
  /\ \/ /\ drop \in children /\ Ends(drop)
     \/ /\ drop \notin children
        /\ down' = [down EXCEPT ![drop] = Append(@, Shutdown)]
        /\ UNCHANGED <<alive, ents, doing, tick, up>>
  /\ UNCHANGED <<gateway, sessions, hand, region, undone, pos, bounds>>

----------------------------------------------------------------------------

Session(s) ==
  \/ Authenticate(s) \/ Admit(s) \/ Enter(s) \/ Appear(s)
  \/ Close(s) \/ Forget(s) \/ Save(s) \/ TellLeave(s)
  \/ \E dx \in Step : Frame(s, dx)

Handler(z) ==
  \/ Joined(z) \/ Left(z) \/ Moved(z) \/ Stepped(z) \/ Spawned(z) \/ Resized(z) \/ Exited(z)

Loop(z) == Woke(z) \/ Ticked(z) \/ Flushed(z)

Process(z) == Handler(z) \/ Loop(z)

Listener(z) == Report(z) \/ Lookup(z) \/ Send(z) \/ Note(z) \/ Follow(z)

Scaler ==
  \/ \E z, n \in Zone : SplitBegin(z, n) \/ MergeBegin(z, n)
  \/ LaunchFails \/ Register \/ Shrink \/ SplitEnd
  \/ Swap \/ Tell \/ Retire
  \/ (scaler.stage = "move" /\ \E m \in scaler.movers : Take(m)) \/ Resettle \/ Repoint

Next == \/ \E s \in Socket : Session(s)
        \/ \E z \in Zone : Process(z) \/ Listener(z)
        \/ Scaler

Spec == Init /\ [][Next]_vars

\* Zone processes and listeners keep taking messages (each is a task that
\* only waits for the next one).
FairSpec == Spec /\ \A z \in Zone : WF_vars(Handler(z)) /\ WF_vars(Listener(z))

----------------------------------------------------------------------------

TypeOK ==
  /\ DOMAIN zones \subseteq Zone
  /\ \A z \in DOMAIN zones : zones[z] \in Region /\ z \in alive /\ Launched(z)
  /\ Seqs!ToSet(order) = DOMAIN zones /\ Len(order) = Cardinality(DOMAIN zones)
  /\ clients \in [Player -> Zone \cup {NoZone}]
  /\ cache \in [Player -> Spot \cup {Nowhere}]
  /\ saved \in [Player -> Spot]
  /\ at \in [Socket -> Zone \cup {NoZone}]
  /\ last \in [Socket -> Spot \cup {Nowhere}]
  /\ region \in [Zone -> Region]
  /\ ents \in [Zone -> [Player -> Spot \cup {Nowhere}]]
  /\ pos \in [Player -> Spot \cup {Nowhere}]
  /\ \A z \in Zone \ alive : Present(z) = {} /\ down[z] = <<>> /\ tick[z] = Resting
  /\ \A z \in Zone : doing[z] = Resting \/ doing[z].who \in Present(z)
  /\ children \subseteq alive

\* The messages of a connection that bear player p from one party to another.
Bearing(q, p) ==
  {i \in DOMAIN q : q[i].kind \in {"player_join", "spawn_entity", "migrate_request"}
                    /\ q[i].who = p}

\* Where player p is: in a zone, in a message that will put it into one, in one
\* that hands it over, or in the hands of a listener or of the scaler.
Places(p) ==
  {<<"zone", z>> : z \in {y \in Zone : p \in Present(y)}}
    \cup (UNION {{<<"down", z, i>> : i \in Bearing(down[z], p)} : z \in Zone})
    \cup (UNION {{<<"up", z, i>> : i \in Bearing(up[z], p)} : z \in Zone})
    \cup {<<"hand", z>> : z \in {y \in Zone : hand[y].stage = "send" /\ hand[y].who = p}}
    \cup (IF scaler.stage = "spawn" /\ scaler.mover.who = p THEN {<<"scaler">>} ELSE {})

Online(p) == \E s \in Socket : Owner[s] = p /\ pc[s] = "online"

\* Nothing on its way: no message, no handoff, no scaling, no session between
\* two of its steps.
Quiet == /\ \A z \in Zone : down[z] = <<>> /\ up[z] = <<>> /\ hand[z] = Free /\ doing[z] = Resting
         /\ Idle
         /\ \A s \in Socket : pc[s] \in {"offline", "online", "gone"}

\* A player is simulated at most once, handoffs in flight included: no
\* interleaving of crossings, disconnects, game loops and listeners makes a
\* second copy. A login that finds a body or a message of an earlier session
\* does make one, and is left out.
OneHome == \A p \in Player : p \notin traced => Cardinality(Places(p)) <= 1

\* A crossing is seamless: whichever zone has the player has it exactly where
\* the simulation last put it, not at an older position from the gateway. (One
\* that dies just as it steps over a border crosses it all the same.)
Seamless == \A z \in Zone, p \in Player :
  p \in Present(z) /\ p \notin traced \cup undone => ents[z][p] = pos[p]

\* A connected player is always somewhere: no handoff ever drops it. (Only the
\* farewell of an earlier session does.)
NobodyLost == \A p \in Player : Online(p) /\ p \notin traced => Places(p) # {}

\* When nothing is on its way, the frames of a connected player go to the zone
\* that simulates it.
RoutedRight == Quiet => \A p \in Player : Online(p) /\ p \notin traced =>
                 clients[p] \in alive /\ ents[clients[p]][p] # Nowhere

\* The region a zone will have when it has read its mail.
Promised(z) ==
  LET rs == {i \in DOMAIN down[z] : down[z][i].kind = "set_region"} IN
  IF rs = {} THEN region[z]
             ELSE down[z][CHOOSE i \in rs : \A j \in rs : j <= i].region

\* The gateway's map and the zones' own regions agree once the set_region
\* messages under way are read, except between Swap and Tell.
RegionAgreement ==
  \A z \in DOMAIN zones :
    ~(scaler.stage = "tell" /\ scaler.to = z) => Promised(z) = zones[z]

\* The map as the partition sees it: a new zone counts once the old one shrank.
Settled == IF scaler.stage = "shrink"
           THEN [z \in DOMAIN zones \ {scaler.to} |-> zones[z]] ELSE zones

P == INSTANCE Partition WITH ZoneId <- Zone, zones <- Settled

\* The steps of the autoscaler, however they interleave with the rest, amount to
\* the atomic splits and merges of Partition.
PartitionSpec == P!Spec

\* A player that is being handed over is adopted by a zone in the end.
Landing == \A p \in Player :
  (\E z \in Zone : \E i \in DOMAIN up[z] :
     up[z][i].kind = "migrate_request" /\ up[z][i].who = p)
    ~> (\E z \in Zone : p \in Present(z))
============================================================================
