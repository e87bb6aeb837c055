---------------------------- MODULE CityEconomy ----------------------------
(***************************************************************************)
(* The durable economy of the capital: carried inventories, safe storage,  *)
(* and the tech tree of pooled build orders, as the gateway's zone         *)
(* listeners apply them to the database.                                   *)
(*                                                                         *)
(* A listener is one task per zone: it applies the operations its zone     *)
(* reports one after the other, while other listeners apply theirs. Each   *)
(* database call is one transaction (it happens entirely or returns an     *)
(* error), but gathering takes two of them, and completing an order one    *)
(* per contributor and one per dependent. Between two of them anything may *)
(* happen: another listener's transaction, an error, the gateway's death.  *)
(*                                                                         *)
(* An error in the FIRST transaction of an operation leaves everything as  *)
(* it was, like an operation that never arrived: it has no step here.      *)
(***************************************************************************)
EXTENDS Integers, Sequences, FiniteSets, Functions

CONSTANTS
  Character,  \* logged-in characters; guests never reach the database
  Item,       \* what nodes yield and orders require
  Authored,   \* the capital's build orders in authored sequence
  Cost,       \* Cost[o][i]: the required units, 0 when i is not in the blob
  Prereq,     \* the order that gates o, NoOrder for a root
  NoOrder,
  Listener,   \* one per zone process
  Asked,      \* quantities a client may name
  MaxCarry,   \* MAX_CARRY
  XpPerUnit, GatherXp,  \* BUILD_XP_PER_UNIT, GATHER_XP
  MaxYields, MaxFaults, MaxCrashes  \* bounds of the environment

Order == Range(Authored)

ASSUME EconomyAssumption ==
  /\ IsFiniteSet(Character) /\ IsFiniteSet(Item)
  /\ Authored \in Seq(Order)
  /\ Cost \in [Order -> [Item -> Nat]]
  /\ Prereq \in [Order -> Order \cup {NoOrder}]
  /\ NoOrder \notin Order
  /\ Asked \subseteq Nat \ {0}
  /\ MaxCarry \in Nat /\ XpPerUnit \in Nat \ {0} /\ GatherXp \in Nat \ {0}
  /\ MaxYields \in Nat /\ MaxFaults \in Nat /\ MaxCrashes \in Nat

VARIABLES
  inv, store,         \* [Character -> [Item -> Nat]]
  state,              \* build_order.state, "absent" before it is seeded
  progress,           \* [Order -> [Item -> Nat]], progress_json
  units,              \* [Order -> [Character -> Nat]], build_contribution
  skill,              \* [Skill -> [Character -> Nat]], the xp column
  task,               \* what each listener is in the middle of
  boot,               \* the gateway's boot: the next order to seed
  kept, paid,         \* history: units ever taken in, payouts ever made
  yields, faults, crashes

db == <<inv, store, state, progress, units, skill>>
history == <<kept, paid>>
bounds == <<yields, faults, crashes>>
vars == <<db, task, boot, history, bounds>>

Skill == {"gathering", "building"}

States == {"absent", "locked", "open", "completed"}

\* `owed` is the xp a task has still to grant, `left` the dependents it has
\* still to open.
Task == [at : {"idle", "practise", "reward", "unlock"},
         order : Order \cup {NoOrder},
         owed : [Character -> Nat],
         left : SUBSET Order]

Nobody == [c \in Character |-> 0]
Idle == [at |-> "idle", order |-> NoOrder, owed |-> Nobody, left |-> {}]

\* Seeding is over: clients and zones are accepted.
Up == boot > Len(Authored)

\* f with n more (or -n less) at f[a][b].
Adjusted(f, a, b, n) == [f EXCEPT ![a][b] = @ + n]

Least(a, b) == IF a <= b THEN a ELSE b
Most(a, b) == IF a >= b THEN a ELSE b

Carried(c) == SumFunction(inv[c])

\* What can move of the q units asked for: no more than is carried.
Take(c, i, q) == Least(q, inv[c][i])

\* Slip: a check that there is room, not a bound by it.
UnboundedRoom(c) == IF Carried(c) < MaxCarry THEN MaxCarry ELSE 0

\* What is left of a character's carry capacity.
Room(c) == Most(MaxCarry - Carried(c), 0)

----------------------------------------------------------------------------
\* Boot: seed_capital inserts the authored orders that are missing, one by one.

Init ==
  /\ inv = [c \in Character |-> [i \in Item |-> 0]] /\ store = inv
  /\ state = [o \in Order |-> "absent"]
  /\ progress = [o \in Order |-> [i \in Item |-> 0]]
  /\ units = [o \in Order |-> Nobody] /\ paid = units
  /\ skill = [k \in Skill |-> Nobody]
  /\ task = [l \in Listener |-> Idle]
  /\ boot = 1
  /\ kept = [i \in Item |-> 0]
  /\ yields = 0 /\ faults = 0 /\ crashes = 0

\* Slip: every order starts open.
AllSeededOpen(o) == "open"

\* Roots are open from the first boot, the others wait for their prerequisite.
Seeded(o) == IF Prereq[o] = NoOrder THEN "open" ELSE "locked"

\* Slip: every boot seeds the orders afresh.
SeedAnew ==
  /\ ~Up
  /\ boot' = boot + 1
  /\ state' = [state EXCEPT ![Authored[boot]] = Seeded(Authored[boot])]
  /\ UNCHANGED <<inv, store, progress, units, skill, task, history, bounds>>

Seed ==
  /\ ~Up
  /\ boot' = boot + 1
  /\ LET o == Authored[boot]
     IN state' = IF state[o] = "absent" THEN [state EXCEPT ![o] = Seeded(o)] ELSE state
  /\ UNCHANGED <<inv, store, progress, units, skill, task, history, bounds>>

\* A failed insert ends the seeding with a warning, and the gateway starts.
SeedFails ==
  /\ ~Up /\ faults < MaxFaults
  /\ boot' = Len(Authored) + 1
  /\ faults' = faults + 1
  /\ UNCHANGED <<db, task, history, yields, crashes>>

\* The gateway dies, between two transactions at most, and is started again.
Crash ==
  /\ crashes < MaxCrashes
  /\ crashes' = crashes + 1
  /\ task' = [l \in Listener |-> Idle]
  /\ boot' = 1
  /\ UNCHANGED <<db, history, yields, faults>>

----------------------------------------------------------------------------
\* Gathering: the unit that was mined is added, as far as it fits; then the xp
\* for mining it is granted, in a transaction of its own.

Ready(l) == Up /\ task[l] = Idle

Practise(c) == [Idle EXCEPT !.at = "practise", !.owed = [Nobody EXCEPT ![c] = GatherXp]]

Gather(l, c, i) ==
  /\ Ready(l) /\ yields < MaxYields
  /\ yields' = yields + 1
  /\ \E add \in 0 .. 1 :
       /\ add = Least(1, Room(c))
       /\ inv' = Adjusted(inv, c, i, add)
       /\ kept' = [kept EXCEPT ![i] = @ + add]
  /\ task' = [task EXCEPT ![l] = Practise(c)]
  /\ UNCHANGED <<store, state, progress, units, skill, boot, paid, faults, crashes>>

----------------------------------------------------------------------------
\* Storage: each transfer is one transaction, bounded by what there is to move
\* and, on the way back, by the room that is left.

Deposit(l, c, i, q) ==
  /\ Ready(l)
  /\ \E moved \in 1 .. q :
       /\ moved = Take(c, i, q)
       /\ inv' = Adjusted(inv, c, i, -moved)
       /\ store' = Adjusted(store, c, i, moved)
  /\ UNCHANGED <<state, progress, units, skill, task, boot, history, bounds>>

\* Slip: the room bounds what is added but not what is removed.
LossyWithdraw(l, c, i, q) ==
  /\ Ready(l)
  /\ \E moved \in 1 .. q :
       /\ moved = Least(q, store[c][i])
       /\ store' = Adjusted(store, c, i, -moved)
       /\ inv' = Adjusted(inv, c, i, Least(moved, Room(c)))
  /\ UNCHANGED <<state, progress, units, skill, task, boot, history, bounds>>

Withdraw(l, c, i, q) ==
  /\ Ready(l)
  /\ \E moved \in 1 .. q :
       /\ moved = Least(Least(q, store[c][i]), Room(c))
       /\ store' = Adjusted(store, c, i, -moved)
       /\ inv' = Adjusted(inv, c, i, moved)
  /\ UNCHANGED <<state, progress, units, skill, task, boot, history, bounds>>

----------------------------------------------------------------------------
\* Build orders.

\* Every required item is met; an order without requirements never completes.
Met(o, have) == /\ \E i \in Item : Cost[o][i] > 0
                /\ \A i \in Item : have[i] >= Cost[o][i]

\* Only an open order takes contributions. Slip: any order that exists does.
AcceptsAny(o) == state[o] # "absent"
Accepts(o) == state[o] = "open"

\* Slip: what was contributed before is not counted.
WholeNeed(o, i) == Cost[o][i]

\* What is left of an order's need for an item.
Need(o, i) == Most(Cost[o][i] - progress[o][i], 0)

\* The task of rewarding the contributors of o for their shares.
Reward(o, share) == [at |-> "reward", order |-> o, left |-> {},
                     owed |-> [c \in Character |-> share[c] * XpPerUnit]]

\* The contribution of one request, in one transaction: it moves units from the
\* carried inventory to the order (none, if none are needed or carried) and
\* completes the order when that meets its last requirement. The listener then
\* has every contributor of the order to reward.
Contribute(l, c, o, i, q) ==
  /\ Ready(l) /\ Accepts(o)
  /\ \E moved \in 0 .. q :
       /\ moved = Take(c, i, Least(q, Need(o, i)))
       /\ inv' = Adjusted(inv, c, i, -moved)
       /\ progress' = Adjusted(progress, o, i, moved)
       /\ units' = Adjusted(units, o, c, moved)
  /\ IF Met(o, progress'[o])
     THEN /\ state' = [state EXCEPT ![o] = "completed"]
          /\ task' = [task EXCEPT ![l] = Reward(o, units'[o])]
     ELSE UNCHANGED <<state, task>>
  /\ UNCHANGED <<store, skill, boot, history, bounds>>

----------------------------------------------------------------------------
\* The steps a listener takes after the first transaction of an operation.

\* The skill a task grants xp in. Slip: all xp is building xp.
TrainedBuilding(t) == "building"
Trained(t) == IF t.at = "practise" THEN "gathering" ELSE "building"

\* Slip: the first contributor rewarded is the last.
PastAll(t, c) == IF t.at = "practise" THEN Idle ELSE [t EXCEPT !.owed = Nobody]

\* The task once it is done with character c.
Past(t, c) == IF t.at = "practise" THEN Idle ELSE [t EXCEPT !.owed[c] = 0]

Owes(l, c) == task[l].at \in {"practise", "reward"} /\ task[l].owed[c] > 0

Grant(l, c) ==
  /\ Owes(l, c)
  /\ skill' = Adjusted(skill, Trained(task[l]), c, task[l].owed[c])
  /\ paid' = IF task[l].at = "reward" THEN Adjusted(paid, task[l].order, c, 1)
                                      ELSE paid
  /\ task' = [task EXCEPT ![l] = Past(@, c)]
  /\ UNCHANGED <<inv, store, state, progress, units, boot, kept, bounds>>

\* An error is dropped (`if let Ok`): the listener goes on to the next one.
GrantFails(l, c) ==
  /\ Owes(l, c) /\ faults < MaxFaults
  /\ faults' = faults + 1
  /\ task' = [task EXCEPT ![l] = Past(@, c)]
  /\ UNCHANGED <<db, boot, history, yields, crashes>>

\* The orders gated behind o. Slip: the one that gates it.
Requisites(o) == {Prereq[o]} \ {NoOrder}
Dependents(o) == {d \in Order : Prereq[d] = o}

\* Everybody is rewarded: the completion and the structure are broadcast, and
\* the orders gated behind this one come next.
Announce(l) ==
  /\ task[l].at = "reward" /\ \A c \in Character : task[l].owed[c] = 0
  /\ task' = [task EXCEPT ![l] = [task[l] EXCEPT !.at = "unlock",
                                                 !.left = Dependents(task[l].order)]]
  /\ UNCHANGED <<db, boot, history, bounds>>

\* Slip: whatever the order's state, it is open now.
ForcedOpen(d) == "open"

\* open_build_order is a no-op on an order that is not locked, or absent.
Opened(d) == IF state[d] = "locked" THEN "open" ELSE state[d]

\* The task once it is done with dependent d.
Without(t, d) == [t EXCEPT !.left = @ \ {d}]

Unlock(l, d) ==
  /\ task[l].at = "unlock" /\ d \in task[l].left
  /\ state' = [state EXCEPT ![d] = Opened(d)]
  /\ task' = [task EXCEPT ![l] = Without(@, d)]
  /\ UNCHANGED <<inv, store, progress, units, skill, boot, history, bounds>>

\* This error is dropped too.
UnlockFails(l, d) ==
  /\ task[l].at = "unlock" /\ d \in task[l].left /\ faults < MaxFaults
  /\ faults' = faults + 1
  /\ task' = [task EXCEPT ![l] = Without(@, d)]
  /\ UNCHANGED <<db, boot, history, yields, crashes>>

Finish(l) ==
  /\ task[l].at = "unlock" /\ task[l].left = {}
  /\ task' = [task EXCEPT ![l] = Idle]
  /\ UNCHANGED <<db, boot, history, bounds>>

----------------------------------------------------------------------------

\* What a zone's message makes its listener start.
Request(l) == \E c \in Character, i \in Item :
  \/ Gather(l, c, i)
  \/ \E q \in Asked : \/ Deposit(l, c, i, q)
                      \/ Withdraw(l, c, i, q)
                      \/ \E o \in Order : Contribute(l, c, o, i, q)

\* What a listener goes on to do by itself.
Continue(l) == \/ \E c \in Character : Grant(l, c)
               \/ Announce(l)
               \/ \E d \in Order : Unlock(l, d)
               \/ Finish(l)

Fault == \/ SeedFails \/ Crash
         \/ \E l \in Listener : \/ \E c \in Character : GrantFails(l, c)
                                \/ \E d \in Order : UnlockFails(l, d)

Next == Seed \/ Fault \/ \E l \in Listener : Request(l) \/ Continue(l)

Spec == Init /\ [][Next]_vars

\* The boot and the task of a listener are not blocked by anything; nothing
\* obliges a player to ask for anything.
FairSpec == Spec /\ WF_vars(Seed) /\ \A l \in Listener : WF_vars(Continue(l))

----------------------------------------------------------------------------

\* Every variable is of its type; completed orders and tasks name real orders.
TypeOK ==
  /\ inv \in [Character -> [Item -> Nat]]
  /\ store \in [Character -> [Item -> Nat]]
  /\ state \in [Order -> States]
  /\ progress \in [Order -> [Item -> Nat]]
  /\ units \in [Order -> [Character -> Nat]]
  /\ skill \in [Skill -> [Character -> Nat]]
  /\ task \in [Listener -> Task]
  /\ boot \in 1 .. Len(Authored) + 1
  /\ kept \in [Item -> Nat]
  /\ paid \in [Order -> [Character -> Nat]]
  /\ yields \in Nat /\ faults \in Nat /\ crashes \in Nat

\* However the operations of two listeners interleave, no character carries more
\* than the capacity: every transaction that adds to an inventory bounds itself
\* by the room it sees.
CarryCap == \A c \in Character : Carried(c) <= MaxCarry

\* Units are neither lost nor made by moving them: all that was ever taken in is
\* carried, stored or built in, crashes and errors included.
Conserved == \A i \in Item :
  kept[i] = SumFunction([c \in Character |-> inv[c][i] + store[c][i]])
            + SumFunction([o \in Order |-> progress[o][i]])

\* The two books of an order agree: the units its contributors are credited with
\* are the units it progressed by, and never more than it costs.
Ledger == \A o \in Order :
  /\ SumFunction(units[o]) = SumFunction(progress[o])
  /\ \A i \in Item : progress[o][i] <= Cost[o][i]

\* An order that gates another is completed before that one opens; an order is
\* completed exactly when its requirements are met.
TechTree == \A o \in Order :
  /\ state[o] \in {"open", "completed"} /\ Prereq[o] # NoOrder
       => state[Prereq[o]] = "completed"
  /\ state[o] = "completed" <=> state[o] # "absent" /\ Met(o, progress[o])

\* An order pays a contributor at most once, and only after its completion,
\* whichever listeners' contributions arrive late and whatever fails.
PaidOnce == \A o \in Order, c \in Character :
  paid[o][c] > 0 => paid[o][c] = 1 /\ state[o] = "completed"

\* A character's building skill is the sum of what its orders paid it, each the
\* order's rate for every unit of the character's FINAL share.
SkillIsEarned == \A c \in Character :
  skill["building"][c] =
    SumFunction([o \in Order |-> paid[o][c] * units[o][c] * XpPerUnit])

\* Orders only advance, and nothing about a completed one changes any more.
OnlyAdvance == [][
  \A o \in Order :
    /\ state[o] = "locked" => state'[o] \in {"locked", "open"}
    /\ state[o] = "open" => state'[o] \in {"open", "completed"}
    /\ state[o] = "completed" =>
         /\ state'[o] = "completed"
         /\ progress'[o] = progress[o] /\ units'[o] = units[o]
  ]_vars

\* Every contributor to a completed order is granted its building xp
\* (docs/protocol.md: "each contributor is granted building XP"), whatever the
\* other listeners do meanwhile. An error drops the share and a crash drops the
\* rest of the task, and nothing makes up for them: this is about neither.
ContributorsPaid == \A o \in Order, c \in Character :
  state[o] = "completed" /\ units[o][c] > 0
    ~> paid[o][c] > 0 \/ faults > 0 \/ crashes > 0

\* The completion of an order opens the orders behind it (docs/protocol.md: "and
\* any dependents unlock"), unless an error or a crash comes between: neither the
\* next completion nor the next boot opens what was left locked.
DependentsOpen == \A o \in Order :
  Prereq[o] # NoOrder =>
    (state[Prereq[o]] = "completed"
       ~> state[o] \in {"open", "completed"} \/ faults > 0 \/ crashes > 0)

\* The gateway implements the abstract build tree.
Tree == INSTANCE BuildTree WITH
  Contributor <- Character,
  stage <- state,
  need <- [o \in Order |-> [i \in Item |-> Cost[o][i] - progress[o][i]]],
  share <- units

TreeSpec == Tree!Spec
============================================================================
