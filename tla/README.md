# A verification of the JESMMO server

TLA+ models of the Rust server under `src/rust_server`, the TLC configurations
that check them on small instances, and theorems about them that TLAPS checks
for every value of the constants. File and line references are to the sources at
the modelled commit; `proxy.rs`, `zone_server.rs` and `world.rs` are short for the
files in `rust_server/src`.

## The system

A **gateway** (`bin/proxy.rs`) terminates client sockets, owns identity and all
durable state, and divides a 1200 x 1200 world among **zone processes**
(`bin/zone_server.rs`). A zone simulates the players inside its region. Gateway
and zone exchange messages over one FIFO connection per zone. Inside the gateway,
tokio tasks share maps behind mutexes: one task per client, one listener per zone,
the autoscaler, the persistence flush, the admin and registration services. Every
release of a lock and every await is a point where they interleave. A **SQLite
database** (`persistence/mod.rs`) holds accounts, positions and the city's economy;
each call is a transaction that happens entirely or returns an error.

| Component | State | Operations | Interacts with | What is hard |
|---|---|---|---|---|
| Spatial partition | `zones` map: id -> region; `zone_order` | split, merge, `zone_at` | every routing decision | sequences of splits and merges; odd sides; an overlap while a split is under way |
| Districts (`world.rs`) | authored bands, board | label by region centre, `is_safe` | zones (damage), gateway (broadcasts) | labels that go stale as regions change |
| Client sessions | `clients`, `entity_state`, tokens | handshake, register, admit, enter, spawn, route frame, ping, disconnect, save, periodic flush | zones, database | check-then-act between locks, racing registrations, saves of different age, the gateway's death |
| Zone processes | region, entities, mobs, territory, nodes, jobs | `player_join`, `player_leave`, `move`, `spawn_entity`, `set_region`, `shutdown`, attack, gather, store, build; 20 Hz loop | gateway, by messages | a crossing against every message under way; messages between the parts of a tick |
| Zone listeners | (none of their own) | status, migrate, gather yield, store op, contribution | client map, database | operations of several listeners on one inventory or order |
| Autoscaler | cooldowns, children | split, merge | zones, sessions, processes | snapshots that are stale when used, processes killed with messages under way |
| City economy | inventory, storage, skills, build orders | gather, deposit, withdraw, contribute, complete, pay, unlock, seed | listeners, boot | multi-transaction operations, errors, restarts |
| Rolling update | migration state, packet buffers | mark, transfer, retire, relaunch | zones, sessions | aborts, stale regions, buffered input |
| Plots | plot rows | claim, rent, lapse, reclaim, build | database | time and ownership boundaries |
| Client links | bounded queues | push, shed, ping | every push | shedding of control messages |

A zone's **game loop** and the handler of its connection are two tasks of one process.
Outside the table are the **status service** and the operators' commands (the updates
are under "Rolling update"; everything else reads), the **wire protocol** (constants), the
**load generators** and **bots**, the web and game **clients**, and the superseded Python
servers.

What makes each of them correct: the regions tile the world; no part of the safe
capital turns into wilds; a character has one session; a player is simulated exactly
once, where it last was, by the zone its frames go to; the gateway and a zone agree
on the zone's region; no unit of anything is lost or made, no order is paid twice
or forgotten, and the tree of orders opens as authored; an update loses no player and
no input; an account has its character, and nobody plays another's; a position that
rests, and is reported, reaches the database; a plot is taken only from who has stopped paying; a node
yields its stock, and ground is won only by holding it.

## The modules

| Module | Models | Notes |
|---|---|---|
| `Regions` | `struct Region`: containment, halving, edge-sharing, union | pure operators |
| `OperatorLemmas` | | lemmas on halving, union and finite sums, proved |
| `Partition` | the map of regions; one step per split or merge | the abstract specification of the autoscaler |
| `PartitionProofs` | | types, tiling, safety of the capital, proved |
| `Districts` | bands, centre labels, `is_safe`, over `Partition` | |
| `BuildTree` | what a pooled build order promises | abstract specification |
| `CityEconomy` | durable economy; one step per transaction | implements `BuildTree` |
| `CityEconomyProofs` | | types, all invariants and sums, refinement, proved |
| `Handoff` | sessions, routing, crossings, split and merge, message by message | implements `Partition` |
| `HandoffProofs` | | types, region agreement, refinement, crossings, proved |
| `RollingUpdate` | `update` and `migrate`: processes, buffers, aborts | |
| `RollingUpdateProofs` | | types, `HandledOnce`, live routes, kept players and input, proved |
| `Sessions` | handshake, accounts, tokens, play, saves, gateway death | |
| `SessionsProofs` | | types, accounts, identities, proved |
| `PlotRent` | seeding, claim, rent, lapse, reclaim | |
| `PlotRentProofs` | | types and the three properties of `plots`, proved |
| `ZoneSim` | the game loop against the zone's messages | |
| `ZoneSimProofs` | | types, stock, capture, mobs, proved |
| `MC*` | instances for TLC | |

`Handoff`, `RollingUpdate` and `Sessions` look at the same gateway from three sides.
`Handoff` is about WHERE a player is simulated and knows positions; `RollingUpdate` is about
WHICH PROCESS simulates it and takes a login or a crossing as one step; `Sessions` is
about WHO a connection plays and what becomes durable, and takes the zones as one world.

Definitions marked as slips are variants no specification uses: each is a plausible
error in the code next to it that must break a property of a run.

**Partition, Districts.** `zones` is the gateway's map. `Split` and `Merge` are `split_zone`
and `merge_zones` as the rest of the system is meant to see them. Populations are
reported late by any amount and do not bear on the geometry, so the choice of the
zones is open. `Districts` adds the label a region gets from its centre.

**CityEconomy.** The state is the database (`inv`, `store`, `state`, `progress`,
`units`, `skill`), the step each listener is at (`task`), and the boot. `Gather`,
`Deposit`, `Withdraw` and `Contribute` are the first transaction of what a zone
reports (`apply_gather_yield`, `apply_store_op`, `apply_build_contribute`); `Grant`,
`Announce`, `Unlock` and `Finish` are what the listener goes on to do;
`GrantFails` and `UnlockFails` are the errors the code drops. `Crash` stops the
gateway between two transactions and `Seed` boots it. `kept` and `paid` are history
variables. Contributors are paid, and dependents opened, in any order; the code
uses the order the database gives.

**Handoff.** The steps of `handle_client` (`Authenticate` ... `TellLeave`), of
`handle_proxy` in a zone (`Joined`, `Left`, `Moved`, `Stepped`, `Spawned`, `Resized`,
`Exited`), of its `game_loop` (`Woke`, `Ticked`, `Flushed`), of a listener (`Report`;
`Lookup`, `Send`, `Note`, `Follow` for a crossing) and of the autoscaler (`SplitBegin` ...
`SplitEnd`, `MergeBegin` ... `Retire`). Whatever the code does under one lock is one
step; where it releases a lock and takes another there are two. `down[z]` and `up[z]` are
the connection of zone z.

A zone has two tasks. The game loop reads the region (`Woke`), works on the players
under their lock (`Ticked`: any of them may be hurt, some of those die and wake up at a
point of the region it read), and sends what it has built after it released the lock
(`Flushed`): the handler's newer report, or its `migrate_request`, may be on the wire
before the loop's older one. A move is two steps too: the player moves (`Moved`), and then, under
locks of their own, is reported or removed and handed over (`Stepped`); `doing[z]` is the
handler between them. Where the handler puts a player in and reports it (`Joined`,
`Spawned`) the two are one step: a tick in between would only report it earlier.

Three history variables say what the properties are about. `pos` is where the simulation
last put a player. `traced` are the players that logged in while a body, a message or
a session of an earlier session of theirs was still there (`NoTrace`), and `undone` those
that died between the two halves of a move, which then takes them over the border as if they had
not. The code goes wrong for both, see below, and the properties leave them out.
A player that leaves no trace may disconnect and come back any number of times.

The world is a strip: every region spans all y, as the geometry in two dimensions is
`Partition`'s business. A process that ends loses what it had not read and any tail of
what it had written. Left out: mobs (they stay in their region), hit points, and messages
that do not affect where a player is; a failing write to a socket; the crash of a zone process.

**RollingUpdate.** `tx`, `mark`, `buffer` and `child` are a zone's channel, its
`migration_state`, its `packet_buffer` and the process the gateway started for it. One
operator step per lock or await of `rolling_update` (`Begin`, `MarkZone`, `Launch`,
`Recreate`, `Swap`, `Replay`, `Reap`, and `Abort` for its two error paths) and of the
three-phase migration (`Phase1`, `Phase2` with `Detach` and `Attach` per player,
`Phase3`). A message takes effect when it is sent: connections are in order, and a
player's place among the messages of one instance is all the properties tell apart.
History are `owed`, the frames buffered for a player since it came to its zone;
`settled`, the players that neither came nor went during an update; and `dropped`, the
frames that a `phase 1` command threw away (`proxy.rs` 896: it gives every player of the zone
a NEW buffer, unlike the update, 1049). `InputKept` says where an owed frame is that was
not thrown away, and that a zone which no longer buffers has none left unless an update
has failed: after an abort (1071-1073, 1087-1089) they stay in the buffer until another update takes them or a `phase 1` throws them away.
`InputDelivered` says nothing after a failed update. Positions and
regions are left out.

**Sessions.** `accounts`, `characters`, `row` are the tables, `writer` and `staged` the
one open write transaction; `tokens`, `clients`, `cache` (`entity_state`) and `flush` are
the gateway's memory; `body` is what the zones hold. `Register` and `Insert` are apart
because the password is hashed in between, `Check` and `Enter` because a wait of up to
five seconds separates them, `Forget`, `Remove`, `Save` and `Part` because each is under a
lock or an await of its own. Every statement may fail and the gateway may die at any point
(`Crash`); the zones live on. A zone's report of a position (`Reports`: of a move, or of
`Tick`, the game loop) is heard by the gateway at once or stays in `late` and is heard after newer
ones, even after the session ended (`Hear`). A position is the number of the move that led to it.
Guests are let in and out and hold ids, but their positions, which nothing saves, are
left out. An account and its character share an id, and a connection takes a fixed
one of the free names: both are choices of names only.

**PlotRent.** `row` is the plot table, `copies` counts the rows of one plot, `boot` says
how far `seed_capital` has come. `Claim`, `Pay` and `Tick` are one transaction each, on the
caller's clock, which `Pass` moves on. `lastPaid` is history. Structures and flair hang off
a plot and are read by no transition; they are left out.

**ZoneSim.** A tick is two steps, `TickEntities` (fight, deaths, mobs, capture) and
`TickNodes` (jobs, yields, refills): the loop releases its locks in between, and any
message of `handle_proxy` may come there. `GatherAsk` and `GatherStart` are apart because
the request is validated under other locks than the one it is entered under. A
position is the node in reach. Which mob reaches whom, and which swing kills, is left
open, and with it facing, cooldowns, the health and the wandering of mobs. The jobs of
a tick are visited in any order (a hash map's). Store and build messages change nothing
in a zone and are left out, as are the packets to clients. `yielded` and `effort` are
history: units given since the last refill, and the ticks the last claimant alone has
pushed the bar.

## The runs

| Run | Configuration | Shows |
|---|---|---|
| `districts` | 7x6 world, 5 zones | `TypeOK`, `Tiling`, `AlwaysSafe`: sides that halve to odd lengths, down to one, where `split_zone` must refuse, and all layouts five zones can reach |
| `economy` | 2 listeners, 2 characters, 2 items, 2 orders, 1 error, 1 crash | the safety and action properties of the economy, and `TreeSpec`; `ContributorsPaid` and `DependentsOpen`, which speak of histories without an error or a crash |
| `handoff` | 3 static zones, an account on 2 connections, 2 moves, 1 tick of a game loop | `OneHome`, `Seamless`, `NobodyLost`, `RoutedRight` |
| `handoff_split` | 1 zone, 1 split, 1 move, 1 tick, fair | `NobodyLost`, `Landing` |
| `handoff_scale` | 2 zones, a guest, 2 splits, 1 merge, no moves, no ticks | `RegionAgreement`, `PartitionSpec` |
| `plots` | 3 plots in 2 districts, 2 characters, 8 days, 2 crashes or failed inserts | `SeededOnce`, `OnePlotEach`, `PaidIsKept` |
| `rolling` | 2 zones (one launchable), 1 operator, 2 more process runs, 1 failure, fair | `HandledOnce`, `RouteIsLive`, `SettledKept`, `InputKept`, `InputDelivered` |
| `zone` | 2 players, 1 node of 2 units, 1 new region, fair | `StockConserved`, `BarSound`, `EarnedHold`, `Refilled` |
| `sessions` | 2 users, 2 connections at a time, 2 in all, 1 move, 1 late report, 1 fault, fair | `EveryAccountPlays`, `OwnCharacter`, `SavedInTheEnd`, `Reaped` |
| `rolling_late_arrival` | as `rolling`, 2 players | *violated*: `EveryEntityRecreated` |
| `sessions_twice` | as `sessions` | *violated*: `OneSession` |
| `plots_early` | as `plots`, no crash | *violated*: `PaidAheadStacks` |

The type invariants of `CityEconomy`, `PlotRent`, `Sessions` and `ZoneSim`, and `MobsBounded`, are
proved and have no place in a run.

Bounds. In `Handoff` two moves (`MaxMoves`) suffice for there and back, and for a second crossing
while the listener is still busy with the first; one tick (`MaxTicks`) for a death or a late report
against any step of a crossing, as each of them is about one tick; two connections for a
re-login, against whatever the first one left behind. One account is enough: no step of `Handoff` but those
of the autoscaler relates two players, and a guest differs only in where it lands.
Positions are few but include both sides and the exact border of every region, and steps that
leave the world (`clamp_world`). The run `handoff` stops following a history once its only player
is in `traced` (`CONSTRAINT Untraced`): `traced` never shrinks, so no invariant says anything
of what follows but `TypeOK`, which is proved. In `handoff_split` one move takes the player across the new border
or back. `handoff_scale` has no moves because no step of the autoscaler depends on one. In `CityEconomy` an order of two items needs two contributors to be
interesting; the carry capacity is below what an order needs. In `PlotRent` a period of
two days and a grace of one leave room, in eight days, for a claim, a lapse, a late
payment, a second lapse, a reclaim and the next owner; the suburbs' plots are inserted
out of grid order. `plots_early` needs no crash. In `RollingUpdate` two further process runs allow an aborted update and
a repetition, or two updates in a row; one player is enough because no step relates
two, and one frame because frames do not interact. In `ZoneSim` the node has as many
units as there are gatherers, so both come due for the last one; the bar takes two
ticks of one claimant and decays half as fast, so it is caught at every height;
periods are two ticks, the least at which "not yet due" happens. In `Sessions` two users
on two connections are two registrations of one email (a user may connect twice), a
re-login against an unfinished disconnect, and a token used after its connection
ended; one fault is the gateway's death at every point, or an error of every
statement; one late report (`MaxLate`) can be behind any number of newer ones. Beyond the bounds are the theorems.

Configurations switch off the deadlock check where players and the environment may
stop: all but `zone`, whose loop always runs, and `districts`, where some split or merge is always possible.

Symmetry is used for zone ids in `Districts` (except the first), for characters in
`plots` and for the two connections of the one player in `handoff`; never with a liveness property.

Fairness. `CityEconomy!FairSpec`: the boot and the continuation of a listener are
plain code with awaits on the database, with nothing to block them; players owe
nothing. `Handoff!FairSpec`: the handler of a zone and its listener are loops over a stream; sessions,
game loops and the autoscaler are not assumed to do anything. `RollingUpdate!FairSpec`: a command
that was begun waits only for processes and timers with a limit, so it goes on or
aborts. `ZoneSim!FairSpec`: the game loop is a task on a fixed interval.
`Sessions!FairSpec`: the ping's and the flush's timers fire, a statement that has the
database comes to an end, a task that has left its loop cleans up, and a listener hears what
was sent; clients owe nothing. That a zone goes on reporting a character that rests is not assumed:
`SavedInTheEnd` has it as a premise.

## What is proved

Every invariant and every action property of a passing run is a theorem; liveness is not.

*Regions.* `SplitExact`: the halves of a split cover the region and nothing else,
without overlap. `MergeExact`: likewise for a union. `SplitHalves`: if
`split_zone` accepts, the kept half is non-empty too, which it does not check.

*Partition.* `TypeCorrect` and `WorldIsTiled`. `TypeOK /\ Tiling` is inductive: a
split replaces a region by two that `SplitExact` relates to it, a merge two by one
with `MergeExact`, and everything else is untouched. The assumptions are that the
world is not empty and that the zones launched first tile it.

*Districts.* `CapitalIsSafe`. A label is a function of the centre, so the invariant is
that every region lies inside the world (`Inside`), which halves and unions preserve; a
non-empty region contains its centre, and the bands leave no ground of the world without a
district.

*CityEconomy.* The assumption `EconomyAssumption` says that characters and items are finitely
many, costs are natural numbers and a prerequisite is an authored order. `TechTree`, `PaidOnce`
and `OnlyAdvance` are not inductive: whether a listener in the middle of a reward may pay
depends on what the others are doing. The inductive invariant `IInv` adds that an order is
completed exactly when its requirements are met (`Funding`), that an open order's
prerequisite is completed (`Gates`), that a listener rewards or unlocks only for a
completed order (`Working`), that it owes only to characters not paid yet (`Owing`),
and that at most one listener rewards an order (`OneRewarder`: only the transaction that
completes it makes one). `TypeCorrect`, `Invariance`, `TechTreeRespected`,
`NobodyIsPaidTwice`, `OrdersOnlyAdvance` follow; `ImplementsBuildTree` maps every
step to a step of `BuildTree` or to a stutter.

The four properties that add things up, `NobodyOverloaded` (`CarryCap`), `UnitsAreConserved`
(`Conserved`), `BooksAgree` (`Ledger`) and `SkillWasEarned` (`SkillIsEarned`), are proved for any
number of characters, items and orders. `SumFunctionOnSet` is a fold, defined by recursion over
a set; `OperatorLemmas` shows that such a function exists and is unique, by induction on the size of the
set (in a form that speaks of the SET of sizes at which it holds), and from it what the proofs use: a sum
without one of its terms (`SumTake`), of terms that agree (`SumSame`), after one term has changed
(`SumChanged`). A transaction then changes one term of each sum, and the proof compares the changes:
what leaves an inventory is what arrives in a store or an order, and the units booked for a contributor
are those the order's progress gained. `SkillIsEarned` also needs `Rated`: what a listener read as a
contributor's share when the order completed is still the final share when it pays it, however late.

*PlotRent.* `TypeCorrect`, `SeededOnlyOnce`, `NeverTwoPlots` and `NotTakenEarly`, for any pool, characters, period and grace window. That no plot is
inserted twice rests on what the boot's counter knows: while the pool is being seeded, everything from the
counter on is absent, because a pool that holds anything is not seeded. `NotTakenEarly` is an action property
of the invariant `HeldIsDue`: a plot that is taken is overdue, and the due date of one that is held is a period after
the last payment. (That is what the code does, not what its comment says of payments ahead of time, see below.)

*Handoff.* `HandoffAssumption` says no more than that the operator's zones are finitely many and have a
region with a point in it. From it alone, with any number of splits and merges under way of any
number of players:

- `TypeCorrect`. Not inductive: that the zones of the map run and have non-empty regions, and the
  order lists each once, rests on what the autoscaler knows at each of its stages (`Geared`: whom it
  splits is still there and splittable, the new id unused, the merged regions still share an edge) and on what
  is in the zones' mail (`FitMail`: no empty region, no shutdown for a zone that is still needed).
- `RegionsAgree`. `Pledged` states, without a CHOOSE, that the last `set_region` in a zone's mail is
  the map's region; a zone that ends has no mail, a new one none yet.
- `ScalerIsPartition`: `PartitionSpec`, the refinement. `Shrink` is the split and `Swap` the merge;
  `Register` is a stutter since the new zone does not count before the old one has shrunk.

The other theorems are about the runs of a fleet whose zones cover the strip, which the constants of the
runs do, and which does not merge. A player may have any number of connections and leave and come back as often as it
likes, as long as it is not in `traced`: for such a player one session at a time is between its entry and its
farewell (`Single`), and nothing of it is anywhere when it enters (`NotYet`). What a login over the
traces of an earlier session leads to is seen below.

- `NobodyIsLost` (`GrowingFleet`: any number of splits). A merge does lose players, see
  below. A split may give a player two bodies, one of them at an older position, so the
  invariant is not about the place a player is in but about one it is in to stay (`Stays`): a body with no
  `player_leave` in the zone's mail, a spawn in a mail with none behind it, a `migrate_request`, a
  listener's hands; or the autoscaler's hands, between the `player_leave` it sent and the spawn it will
  send. A listener finds a target because the map covers the strip at each stage of a split (`Covered`).
- `AtMostOneHome`, `CrossingIsSeamless`, `RestsRoutedRight` (`StaticFleet`: no splits either; with them a
  player can be in two zones, and at an older position in one). The invariant `Crossings` says per player
  that it is in one place (`One`), with its exact position (`Exact`, unless it is in `undone`), wherever in
  flight it is, the handler's half move included; that while the client has not followed a crossing none of its
  moves can reach the player in the new zone (`Crossing`: they go to the old one, or are in the mail before the
  spawn); that otherwise the client is routed to the zone it is in (`Routed`) and it is never sent back to the
  zone it left (`Outward`). Nothing is proved of the cache: the game loop's late reports may leave an older
  position in it.

*RollingUpdate.* `TypeCorrect` and `NoFrameTwice`, for any number of operators with any commands at
once. The invariant says what a command under way knows (`Aimed`) and that a frame is in one
place (`Apart`): in one zone's buffer, in the hands of one command that took it out under the lock, or
handled, and nowhere before it is sent. Forgetting frames preserves it (`PlaceShrinks`); `Swap` is the one
step that takes a buffer, and takes it whole.

`RoutedToTheLiving` (`RouteIsLive`) and `SettledPlayersKept` (`SettledKept`) hold of any number of operators as
long as no two update one zone at once: the hypothesis is `[]OneUpdateEach`, without which they are false, see
below. The invariant `Led` says which process each update holds: the one in use until it swaps, a new
one nobody else uses until then, and the old one, out of use, from then on. `Kept` follows the settled players
through recreation, `Detach` and `Attach`. `InputIsKept` (`InputKept`) holds of one operator: `Phase3` of a second one
between `Swap` and `Replay` of the first ends the buffering while frames are still in the first one's
hands. Its invariant `Accounts` says where each owed frame is that no phase 1 threw away.

*Sessions.* `TypeCorrect`, `AccountsPlay` and `OwnCharacterOnly`, for any users, connections and
bounds. Neither is inductive. `IInv` adds that a staged account exists only while its connection
holds the database and is for that connection's user (`OneWriter`), that ids in use were
given out before (`IdsUsed`), that a token opens only the character of the user it was given to
(`TokensTrue`), that who plays a durable character is its account's user (`PlaysOwn`), and that a
character's entry holds the channel of a connection playing it (`EntriesTrue`).

*ZoneSim.* `TypeCorrect` and `StockNeverExceeded` rest on `GivenFits`: the gatherers served in
one tick at a node are as many as it has units, however many are due. `CaptureSound` and
`GroundIsEarned` need that the bar of neutral ground is no longer than its claimant has pushed it
(`Pushed`), which a new claimant's start from zero and the decay preserve. `MobsAreBounded`: the trickle
adds only below the zone's number, every new region brings one set.

Only model-checked is liveness, as fairness and ENABLED are out of the provers' reach:
`ContributorsPaid`, `DependentsOpen`, `Landing`, `InputDelivered`, `Refilled`, `SavedInTheEnd` and `Reaped`.

## What the runs disagree with

Three runs are expected to be violated, each by a history of the code that does other than
its comment says; the lines are under `findings` in `PROJECT.json`. A player that comes into a zone
while it is updated is put into the old instance and is in no zone afterwards
(`rolling_late_arrival`). Two logins of one character both pass the check against a duplicate
(`sessions_twice`). A payment ahead of time replaces what was left of the paid period (`plots_early`).

Met while modelling, and without a run of their own:

- After the first split of a zone that owns the whole world the halves are labelled `market` and
  `suburbs`; the town centre with the first build-order board is then in no zone labelled `civic`, although
  `docs/protocol.md` 110-112 says that the capital stays correctly named however the world is split.
- A gateway that dies between completing an order and opening its dependents leaves them locked
  (`proxy.rs` 1912); the next boot does not open them.
- An error in the reward loop loses a contributor's xp.
- A split puts a moving player back to a position reported before the new process was launched
  (`proxy.rs` 1266, 1343).
- A player crossing into a zone that a merge removes ends in no zone (`proxy.rs` 747), and so does a
  login that picked it (2032).
- A disconnect during a crossing leaves a player without a client in the target (`proxy.rs` 2175, 755).
- A login over what an earlier session of the same player left behind goes wrong in two ways: the late `player_leave`
  of the one removes the body of the next (`proxy.rs` 2176), which is then online and in no zone; and a body
  left by a disconnect during a crossing stays in its zone while the login spawns a second one (2075).
- A player that is killed between the two halves of a move over a border has its death undone: the game loop has moved it
  to another point, and the `migrate_request` hands it over where it stepped to, with the hit points
  it had before (`zone_server.rs` 532-538).
- The game loop builds its reports under the lock and sends them after it (`zone_server.rs` 900-906, 1015-1017). A report that
  arrives after a newer one stays in the gateway's cache until the next, so the cache can be wrong for as long
  as the player stands still and nothing hurts it; a disconnect then saves the older position.
- The periodic flush saves what it read before its awaits (`proxy.rs` 1662-1679). It can overwrite what a disconnect
  has just saved with an older position, although 2158-2159 has the logout restored on the next login.
- Input buffered for an update that is aborted stays in the buffer (1071-1073, 1087-1089), although the update buffers
  so that there is "no input lost" (1013); a `phase 1` throws it away (896).
- A boot that dies while seeding the plots leaves a pool that no later boot completes.
- Two operators updating one zone at the same time leave its channel at a process that one of them shut
  down: `RouteIsLive` and the rest are checked for one operator.
- Five zones in a pinwheel, on a 16x16 grid, have no two that can merge.

## Not modelled

- The crash of a zone process: its entry stays in the map and its re-registration is ignored; nothing
  in the code recovers from it, so there is no behaviour to state beyond the loss.
- What a shed frame held (`Client links`): every push is a snapshot of state that is modelled where it
  lives; the queue's effect on the liveness ping is in `Sessions`.
- A replacement launched with a region that a split or merge changes during the update: it needs
  `RollingUpdate` and `Handoff` in one state space, which is too large to check. Updates and migrations
  of `RollingUpdate` run against any login, crossing and logout.
- Structures and flair on plots; mob movement; the contents of packets.
- The status service (reads only), the wire protocol's constants, load generators, bots, clients and the
  legacy Python servers (environment, or superseded), password hashing (a library).
