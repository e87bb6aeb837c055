------------------------- MODULE CityEconomyProofs -------------------------
(***************************************************************************)
(* What CityEconomy keeps for every finite set of characters, items and    *)
(* orders, every set of listeners, and under any number of crashes and     *)
(* errors.                                                                 *)
(***************************************************************************)
EXTENDS CityEconomy, OperatorLemmas

\* Steps of the listeners, one by one, and of the gateway as a whole.
LEMMA Steps ==
  ASSUME Next
  PROVE  \/ Seed \/ SeedFails \/ Crash
         \/ \E l \in Listener, c \in Character, i \in Item : Gather(l, c, i)
         \/ \E l \in Listener, c \in Character, i \in Item, q \in Asked :
              Deposit(l, c, i, q) \/ Withdraw(l, c, i, q)
         \/ \E l \in Listener, c \in Character, o \in Order, i \in Item, q \in Asked :
              Contribute(l, c, o, i, q)
         \/ \E l \in Listener, c \in Character : Grant(l, c) \/ GrantFails(l, c)
         \/ \E l \in Listener : Announce(l) \/ Finish(l)
         \/ \E l \in Listener, d \in Order : Unlock(l, d) \/ UnlockFails(l, d)
<1>1. CASE Seed
  BY <1>1
<1>2. CASE Fault
  BY <1>2 DEF Fault
<1>3. ASSUME NEW l \in Listener, Request(l)
      PROVE  \/ \E c \in Character, i \in Item : Gather(l, c, i)
             \/ \E c \in Character, i \in Item, q \in Asked :
                  Deposit(l, c, i, q) \/ Withdraw(l, c, i, q)
             \/ \E c \in Character, o \in Order, i \in Item, q \in Asked :
                  Contribute(l, c, o, i, q)
  BY <1>3, Zenon DEF Request
<1>4. ASSUME NEW l \in Listener, Continue(l)
      PROVE  \/ \E c \in Character : Grant(l, c)
             \/ Announce(l) \/ Finish(l)
             \/ \E d \in Order : Unlock(l, d)
  BY <1>4 DEF Continue
<1> QED
  BY <1>1, <1>2, <1>3, <1>4 DEF Next

\* Units and rates multiply to xp.
LEMMA Product ==
  ASSUME NEW a \in Nat, NEW b \in Nat \ {0}
  PROVE  a * b \in Nat /\ (a * b > 0 <=> a > 0)
OBVIOUS

LEMMA IdleIsTask == Idle \in Task /\ Nobody \in [Character -> Nat]
  BY EconomyAssumption DEF Idle, Task, Nobody

\* Adjusting a table of units at one place yields a table of units.
LEMMA Adjusting ==
  ASSUME NEW S, NEW T, NEW f \in [S -> [T -> Nat]], NEW a \in S, NEW b \in T,
         NEW n \in Int, f[a][b] + n \in Nat
  PROVE  Adjusted(f, a, b, n) \in [S -> [T -> Nat]]
<1> DEFINE row == [f[a] EXCEPT ![b] = f[a][b] + n]
<1>1. row \in [T -> Nat]
  OBVIOUS
<1>2. Adjusted(f, a, b, n) = [f EXCEPT ![a] = row]
  BY DEF Adjusted
<1> QED
  BY <1>1, <1>2

\* The tasks a listener can be left with.
LEMMA PractiseType == \A c \in Character : Practise(c) \in Task
<1> SUFFICES ASSUME NEW c \in Character PROVE Practise(c) \in Task
  OBVIOUS
<1>1. [Nobody EXCEPT ![c] = GatherXp] \in [Character -> Nat]
  BY EconomyAssumption, IdleIsTask
<1> QED
  BY <1>1, IdleIsTask DEF Practise, Task

LEMMA RewardType ==
  \A o \in Order, share \in [Character -> Nat] : Reward(o, share) \in Task
<1> SUFFICES ASSUME NEW o \in Order, NEW share \in [Character -> Nat]
             PROVE  Reward(o, share) \in Task
  OBVIOUS
<1>1. \A c \in Character : share[c] * XpPerUnit \in Nat
  BY EconomyAssumption, Product
<1> QED
  BY <1>1 DEF Reward, Task

LEMMA InitType == Init => TypeOK
<1>1. 1 \in 1 .. Len(Authored) + 1
  BY EconomyAssumption
<1> QED
  BY <1>1, IdleIsTask DEF Init, TypeOK, States, Skill, Nobody

LEMMA TakeIsBounded ==
  ASSUME TypeOK, NEW c \in Character, NEW i \in Item, NEW q \in Int
  PROVE  Take(c, i, q) \in Int /\ Take(c, i, q) <= inv[c][i] /\ Take(c, i, q) <= q
<1>1. inv[c][i] \in Nat
  BY DEF TypeOK
<1> QED
  BY <1>1 DEF Take, Least

\* What a contribution does to the books of its order.
LEMMA Contribution ==
  ASSUME TypeOK, NEW l \in Listener, NEW c \in Character, NEW o \in Order,
         NEW i \in Item, NEW q \in Asked, Contribute(l, c, o, i, q)
  PROVE  /\ inv' \in [Character -> [Item -> Nat]]
         /\ progress' \in [Order -> [Item -> Nat]]
         /\ units' \in [Order -> [Character -> Nat]]
         /\ progress'[o][i] - progress[o][i] \in 0 .. Need(o, i)
         /\ \A j \in Item : j # i => progress'[o][j] = progress[o][j]
         /\ units'[o][c] = units[o][c] + (progress'[o][i] - progress[o][i])
         /\ \A d \in Character : d # c => units'[o][d] = units[o][d]
         /\ \A x \in Order : x # o => progress'[x] = progress[x] /\ units'[x] = units[x]
<1> USE EconomyAssumption
<1>1. PICK moved \in 0 .. q :
        /\ moved = Take(c, i, Least(q, Need(o, i)))
        /\ inv' = Adjusted(inv, c, i, -moved)
        /\ progress' = Adjusted(progress, o, i, moved)
        /\ units' = Adjusted(units, o, c, moved)
  BY DEF Contribute
<1>2. Least(q, Need(o, i)) \in Int /\ Least(q, Need(o, i)) <= Need(o, i) /\ Need(o, i) \in Nat
  BY DEF Least, Need, Most, TypeOK
<1>3. /\ inv \in [Character -> [Item -> Nat]]
      /\ progress \in [Order -> [Item -> Nat]]
      /\ units \in [Order -> [Character -> Nat]]
  BY DEF TypeOK
<1>4. moved \in Nat /\ moved <= inv[c][i] /\ moved <= Need(o, i)
  <2>1. /\ Take(c, i, Least(q, Need(o, i))) <= inv[c][i]
        /\ Take(c, i, Least(q, Need(o, i))) <= Least(q, Need(o, i))
    BY <1>2, TakeIsBounded
  <2> QED
    BY <1>1, <1>2, <1>3, <2>1
<1>5. inv' \in [Character -> [Item -> Nat]]
  <2>1. inv[c][i] + (-moved) \in Nat /\ -moved \in Int
    BY <1>3, <1>4
  <2> QED
    BY <1>1, <1>3, <2>1, Adjusting
<1>6. /\ progress' \in [Order -> [Item -> Nat]]
      /\ progress'[o][i] = progress[o][i] + moved
  BY <1>1, <1>3, <1>4 DEF Adjusted
<1>7. /\ units' \in [Order -> [Character -> Nat]]
      /\ units'[o][c] = units[o][c] + moved
  BY <1>1, <1>3, <1>4 DEF Adjusted
<1>8. /\ progress'[o][i] - progress[o][i] \in 0 .. Need(o, i)
      /\ units'[o][c] = units[o][c] + (progress'[o][i] - progress[o][i])
  BY <1>2, <1>3, <1>4, <1>6, <1>7
<1>9. /\ \A x \in Order : x # o => progress'[x] = progress[x] /\ units'[x] = units[x]
      /\ \A j \in Item : j # i => progress'[o][j] = progress[o][j]
      /\ \A d \in Character : d # c => units'[o][d] = units[o][d]
  BY <1>1, <1>3, <1>4 DEF Adjusted
<1> QED
  BY <1>5, <1>6, <1>7, <1>8, <1>9

LEMMA StepType ==
  ASSUME TypeOK, [Next]_vars
  PROVE  TypeOK'
<1> USE EconomyAssumption, IdleIsTask
<1>0. CASE UNCHANGED vars
  BY <1>0 DEF TypeOK, vars, db, history, bounds
<1>1. CASE Seed
  <2>1. boot \in 1 .. Len(Authored) /\ Authored[boot] \in Order
    BY <1>1 DEF TypeOK, Seed, Up
  <2>2. state' \in [Order -> States]
    BY <1>1, <2>1 DEF TypeOK, Seed, Seeded, States
  <2> QED
    BY <1>1, <2>1, <2>2 DEF TypeOK, Seed, history, bounds
<1>2. CASE SeedFails
  BY <1>2 DEF TypeOK, SeedFails, db, history
<1>3. CASE Crash
  BY <1>3 DEF TypeOK, Crash, db, history
<1>4. ASSUME NEW l \in Listener, NEW c \in Character, NEW i \in Item, Gather(l, c, i)
      PROVE  TypeOK'
  <2>1. PICK add \in 0 .. 1 : /\ inv' = Adjusted(inv, c, i, add)
                              /\ kept' = [kept EXCEPT ![i] = @ + add]
    BY <1>4 DEF Gather
  <2>2. inv' \in [Character -> [Item -> Nat]]
    <3>1. inv \in [Character -> [Item -> Nat]]
      BY DEF TypeOK
    <3>2. inv[c][i] + add \in Nat /\ add \in Int
      BY <3>1
    <3> QED
      BY <2>1, <3>1, <3>2, Adjusting
  <2>3. task' \in [Listener -> Task]
    BY <1>4, PractiseType DEF TypeOK, Gather
  <2>4. yields' \in Nat /\ kept' \in [Item -> Nat]
    BY <1>4, <2>1 DEF TypeOK, Gather
  <2> QED
    BY <1>4, <2>2, <2>3, <2>4 DEF TypeOK, Gather
<1>5. ASSUME NEW l \in Listener, NEW c \in Character, NEW i \in Item, NEW q \in Asked,
             Deposit(l, c, i, q)
      PROVE  TypeOK'
  <2>1. PICK moved \in 1 .. q : /\ moved = Take(c, i, q)
                                /\ inv' = Adjusted(inv, c, i, -moved)
                                /\ store' = Adjusted(store, c, i, moved)
    BY <1>5 DEF Deposit
  <2>2. moved <= inv[c][i]
    BY <2>1, TakeIsBounded DEF TypeOK
  <2>3. inv' \in [Character -> [Item -> Nat]] /\ store' \in [Character -> [Item -> Nat]]
    <3>1. /\ inv \in [Character -> [Item -> Nat]]
          /\ store \in [Character -> [Item -> Nat]]
      BY DEF TypeOK
    <3>2. /\ inv[c][i] + (-moved) \in Nat /\ store[c][i] + moved \in Nat
          /\ moved \in Int /\ -moved \in Int
      BY <2>2, <3>1
    <3> QED
      BY <2>1, <3>1, <3>2, Adjusting
  <2> QED
    BY <1>5, <2>3 DEF TypeOK, Deposit, history, bounds
<1>6. ASSUME NEW l \in Listener, NEW c \in Character, NEW i \in Item, NEW q \in Asked,
             Withdraw(l, c, i, q)
      PROVE  TypeOK'
  <2>1. PICK moved \in 1 .. q : /\ moved = Least(Least(q, store[c][i]), Room(c))
                                /\ store' = Adjusted(store, c, i, -moved)
                                /\ inv' = Adjusted(inv, c, i, moved)
    BY <1>6 DEF Withdraw
  <2>2. moved <= store[c][i]
    <3>1. \A m, n : m \in Int /\ n \in Int => Least(m, n) \in Int /\ Least(m, n) <= n
      BY DEF Least
    <3>2. Least(q, store[c][i]) \in Int /\ Least(q, store[c][i]) <= store[c][i]
      BY <3>1 DEF TypeOK
    <3>3. moved = Least(q, store[c][i]) \/ (moved = Room(c) /\ ~(Least(q, store[c][i]) <= moved))
      BY <2>1 DEF Least
    <3> QED
      BY <3>2, <3>3 DEF TypeOK
  <2>3. inv' \in [Character -> [Item -> Nat]] /\ store' \in [Character -> [Item -> Nat]]
    <3>1. /\ inv \in [Character -> [Item -> Nat]]
          /\ store \in [Character -> [Item -> Nat]]
      BY DEF TypeOK
    <3>2. /\ store[c][i] + (-moved) \in Nat /\ inv[c][i] + moved \in Nat
          /\ moved \in Int /\ -moved \in Int
      BY <2>2, <3>1
    <3> QED
      BY <2>1, <3>1, <3>2, Adjusting
  <2> QED
    BY <1>6, <2>3 DEF TypeOK, Withdraw, history, bounds
<1>7. ASSUME NEW l \in Listener, NEW c \in Character, NEW o \in Order,
             NEW i \in Item, NEW q \in Asked, Contribute(l, c, o, i, q)
      PROVE  TypeOK'
  <2>1. /\ inv' \in [Character -> [Item -> Nat]]
        /\ progress' \in [Order -> [Item -> Nat]]
        /\ units' \in [Order -> [Character -> Nat]]
    BY <1>7, Contribution
  <2>2. Reward(o, units'[o]) \in Task
    BY <2>1, RewardType
  <2>3. state' \in [Order -> States] /\ task' \in [Listener -> Task]
    <3>1. \/ /\ state' = [state EXCEPT ![o] = "completed"]
             /\ task' = [task EXCEPT ![l] = Reward(o, units'[o])]
          \/ state' = state /\ task' = task
      BY <1>7 DEF Contribute
    <3>2. state \in [Order -> States] /\ task \in [Listener -> Task]
      BY DEF TypeOK
    <3>3. "completed" \in States
      BY DEF States
    <3>4. state' \in [Order -> States]
      BY <3>1, <3>2, <3>3
    <3>5. task' \in [Listener -> Task]
      BY <2>2, <3>1, <3>2
    <3> QED
      BY <3>4, <3>5
  <2> QED
    BY <1>7, <2>1, <2>3 DEF TypeOK, Contribute, history, bounds
<1>8. ASSUME NEW l \in Listener, NEW c \in Character, Grant(l, c) \/ GrantFails(l, c)
      PROVE  TypeOK'
  <2>1. task[l] \in Task
    BY DEF TypeOK
  <2>2. task' \in [Listener -> Task]
    <3>1. task' = [task EXCEPT ![l] = Past(task[l], c)]
      BY <1>8 DEF Grant, GrantFails
    <3>2. Past(task[l], c) \in Task
      BY <2>1, IdleIsTask DEF Past, Task
    <3> QED
      BY <3>1, <3>2 DEF TypeOK
  <2>3. CASE Grant(l, c)
    <3>1. skill' \in [Skill -> [Character -> Nat]]
      <4>1. Trained(task[l]) \in Skill /\ task[l].owed[c] \in Nat
        BY <2>1 DEF Trained, Skill, Task
      <4>2. skill' = Adjusted(skill, Trained(task[l]), c, task[l].owed[c])
        BY <2>3 DEF Grant
      <4> QED
        BY <4>1, <4>2 DEF TypeOK, Adjusted
    <3>2. paid' \in [Order -> [Character -> Nat]]
      <4>1. paid' = paid \/ paid' = Adjusted(paid, task[l].order, c, 1)
        BY <2>3 DEF Grant
      <4>2. paid \in [Order -> [Character -> Nat]]
        BY DEF TypeOK
      <4>3. ASSUME NEW o \in Order, paid' = Adjusted(paid, o, c, 1)
            PROVE  paid' \in [Order -> [Character -> Nat]]
        BY <4>2, <4>3 DEF Adjusted
      <4>4. CASE task[l].order \notin Order
        BY <4>1, <4>2, <4>4 DEF Adjusted
      <4> QED
        BY <4>1, <4>2, <4>3, <4>4
    <3> QED
      BY <2>2, <2>3, <3>1, <3>2 DEF TypeOK, Grant, bounds
  <2>4. CASE GrantFails(l, c)
    BY <2>2, <2>4 DEF TypeOK, GrantFails, db, history
  <2> QED
    BY <1>8, <2>3, <2>4
<1>9. ASSUME NEW l \in Listener, Announce(l) \/ Finish(l)
      PROVE  TypeOK'
  <2>1. task[l] \in Task
    BY DEF TypeOK
  <2>2. task' \in [Listener -> Task]
    <3>1. CASE Announce(l)
      <4>1. [task[l] EXCEPT !.at = "unlock", !.left = Dependents(task[l].order)] \in Task
        BY <2>1 DEF Task, Dependents
      <4> QED
        BY <3>1, <4>1 DEF TypeOK, Announce
    <3>2. CASE Finish(l)
      BY <3>2 DEF TypeOK, Finish
    <3> QED
      BY <1>9, <3>1, <3>2
  <2> QED
    BY <1>9, <2>2 DEF TypeOK, Announce, Finish, db, history, bounds
<1>10. ASSUME NEW l \in Listener, NEW d \in Order, Unlock(l, d) \/ UnlockFails(l, d)
       PROVE  TypeOK'
  <2>1. task[l] \in Task
    BY DEF TypeOK
  <2>2. task' \in [Listener -> Task]
    <3>1. task' = [task EXCEPT ![l] = Without(task[l], d)]
      BY <1>10 DEF Unlock, UnlockFails
    <3>2. Without(task[l], d) \in Task
      BY <2>1 DEF Without, Task
    <3> QED
      BY <3>1, <3>2 DEF TypeOK
  <2>3. state' \in [Order -> States]
    BY <1>10 DEF TypeOK, Unlock, UnlockFails, Opened, States, db
  <2> QED
    BY <1>10, <2>2, <2>3 DEF TypeOK, Unlock, UnlockFails, db, history, bounds
<1> QED
  BY Steps, <1>0, <1>1, <1>2, <1>3, <1>4, <1>5, <1>6, <1>7, <1>8, <1>9, <1>10

\* The database and the listeners' tasks stay well-formed.
THEOREM TypeCorrect == Spec => []TypeOK
  BY InitType, StepType, PTL DEF Spec

----------------------------------------------------------------------------
(***************************************************************************)
(* The inductive invariant. None of TechTree, PaidOnce and OnlyAdvance is  *)
(* inductive: each depends on what the listeners are in the middle of. A   *)
(* task that is still paying for an order must be the only one to do so    *)
(* (OneRewarder) and still owe only what was never paid (Owing), and a     *)
(* task that is about to open orders must come from their completed        *)
(* prerequisite (Working).                                                 *)
(***************************************************************************)

Funding == \A o \in Order :
  /\ state[o] \in {"absent", "locked"} => \A i \in Item : progress[o][i] = 0
  /\ \A i \in Item : progress[o][i] <= Cost[o][i]
  /\ state[o] = "completed" <=> Met(o, progress[o])

Gates == \A o \in Order :
  state[o] \in {"open", "completed"} /\ Prereq[o] # NoOrder => state[Prereq[o]] = "completed"

Working == \A l \in Listener :
  task[l].at \in {"reward", "unlock"} =>
    /\ task[l].order \in Order /\ state[task[l].order] = "completed"
    /\ task[l].left \subseteq Dependents(task[l].order)

Owing == \A l \in Listener, c \in Character :
  task[l].at = "reward" /\ task[l].owed[c] > 0 =>
    paid[task[l].order][c] = 0 /\ units[task[l].order][c] > 0

OneRewarder == \A k, l \in Listener :
  task[k].at = "reward" /\ task[l].at = "reward" /\ task[k].order = task[l].order => k = l

IInv == /\ TypeOK /\ Funding /\ Gates /\ Working /\ Owing /\ OneRewarder /\ PaidOnce

LEMMA InitIInv == Init => IInv
<1> SUFFICES ASSUME Init PROVE IInv
  OBVIOUS
<1> USE EconomyAssumption
<1>1. TypeOK
  BY InitType
<1>2. Funding
  BY DEF Init, Funding, Met
<1>3. Gates /\ PaidOnce
  BY DEF Init, Gates, PaidOnce, Nobody
<1>4. Working /\ Owing /\ OneRewarder
  BY DEF Init, Working, Owing, OneRewarder, Idle
<1> QED
  BY <1>1, <1>2, <1>3, <1>4 DEF IInv

\* The parts about the orders only depend on their books and states.
LEMMA SameOrders ==
  ASSUME Funding, Gates, PaidOnce, UNCHANGED <<state, progress, paid>>
  PROVE  Funding' /\ Gates' /\ PaidOnce'
<1>1. Funding'
  BY DEF Funding, Met
<1>2. Gates' /\ PaidOnce'
  BY DEF Gates, PaidOnce
<1> QED
  BY <1>1, <1>2

\* A listener that becomes idle, or practises, keeps the parts about the tasks.
LEMMA Harmless ==
  ASSUME Working, Owing, OneRewarder, UNCHANGED <<units, paid>>,
         \A o \in Order : state[o] = "completed" => state'[o] = "completed",
         \A l \in Listener : task'[l] = task[l] \/ task'[l].at \in {"idle", "practise"}
  PROVE  Working' /\ Owing' /\ OneRewarder'
  BY DEF Working, Owing, OneRewarder

LEMMA SeedKeeps ==
  ASSUME IInv, Seed
  PROVE  IInv'
<1> USE EconomyAssumption DEF IInv
<1>1. TypeOK'
  BY StepType DEF Next
<1> DEFINE new == Authored[boot]
<1>2. new \in Order /\ state \in [Order -> States]
  BY DEF TypeOK, Seed, Up
<1>3. /\ \A o \in Order : o # new => state'[o] = state[o]
      /\ state'[new] = IF state[new] = "absent" THEN Seeded(new) ELSE state[new]
  BY <1>2 DEF Seed
<1>4. UNCHANGED <<progress, units, paid, task>>
  BY DEF Seed, history
<1>5. \A o \in Order : state[o] # "absent" => state'[o] = state[o]
  BY <1>2, <1>3
<1>6. \A o \in Order : state[o] = "absent" =>
        state'[o] \in {"absent", "locked"} \/ (state'[o] = "open" /\ Prereq[o] = NoOrder)
  BY <1>2, <1>3 DEF Seeded
<1>7. Funding'
  BY <1>4, <1>5, <1>6 DEF Funding, Met
<1>8. Gates' /\ PaidOnce'
  BY <1>4, <1>5, <1>6, ZenonT(30) DEF Gates, PaidOnce
<1>9. Working' /\ Owing' /\ OneRewarder'
  BY <1>4, <1>5, Harmless
<1> QED
  BY <1>1, <1>7, <1>8, <1>9

\* The contribution that completes an order makes its listener the only one that
\* rewards for it: the order was open, and every other task is about another one.
LEMMA ContributeKeeps ==
  ASSUME IInv, NEW l \in Listener, NEW c \in Character, NEW o \in Order,
         NEW i \in Item, NEW q \in Asked, Contribute(l, c, o, i, q)
  PROVE  IInv'
<1> USE EconomyAssumption DEF IInv
<1>1. TypeOK'
  BY StepType DEF Next, Request
<1>2. /\ state[o] = "open" /\ paid' = paid /\ task[l] = Idle
      /\ IF Met(o, progress'[o])
         THEN /\ state' = [state EXCEPT ![o] = "completed"]
              /\ task' = [task EXCEPT ![l] = Reward(o, units'[o])]
         ELSE state' = state /\ task' = task
  BY DEF Contribute, Accepts, Ready, history
<1>3. /\ progress'[o][i] - progress[o][i] \in 0 .. Need(o, i)
      /\ \A j \in Item : j # i => progress'[o][j] = progress[o][j]
  BY Contribution
<1>4. \A x \in Order : x # o => progress'[x] = progress[x] /\ units'[x] = units[x]
  BY Contribution
<1>5. /\ state \in [Order -> States] /\ task \in [Listener -> Task]
      /\ units' \in [Order -> [Character -> Nat]]
  BY <1>1 DEF TypeOK
<1>6. /\ \A x \in Order : x # o => state'[x] = state[x]
      /\ state'[o] = IF Met(o, progress'[o]) THEN "completed" ELSE "open"
  BY <1>2, <1>5
<1>7. /\ \A k \in Listener : k # l => task'[k] = task[k]
      /\ task'[l] = IF Met(o, progress'[o]) THEN Reward(o, units'[o]) ELSE Idle
  BY <1>2, <1>5
<1>8. Funding'
  <2>1. \A x \in Order : x # o =>
          /\ state'[x] \in {"absent", "locked"} => \A j \in Item : progress'[x][j] = 0
          /\ \A j \in Item : progress'[x][j] <= Cost[x][j]
          /\ state'[x] = "completed" <=> Met(x, progress'[x])
    BY <1>4, <1>6, SMTT(20) DEF Funding
  <2>2. \A j \in Item : progress'[o][j] <= Cost[o][j]
    <3>1. /\ progress[o][i] \in Nat /\ Cost[o][i] \in Nat
          /\ progress[o][i] <= Cost[o][i]
      BY DEF TypeOK, Funding
    <3>2. progress'[o][i] \in Nat
      BY <1>1 DEF TypeOK
    <3>3. Need(o, i) = Cost[o][i] - progress[o][i]
      BY <3>1 DEF Need, Most
    <3>4. progress'[o][i] <= Cost[o][i]
      BY <1>3, <3>1, <3>2, <3>3
    <3> QED
      BY <1>3, <3>4 DEF Funding
  <2>3. state'[o] = "completed" <=> Met(o, progress'[o])
    BY <1>6
  <2>4. state'[o] \notin {"absent", "locked"}
    BY <1>6
  <2> QED
    BY <2>1, <2>2, <2>3, <2>4 DEF Funding, Met
<1>9. Gates' /\ PaidOnce'
  BY <1>2, <1>6 DEF Gates, PaidOnce
<1>10. Working'
  <2>1. \A k \in Listener : k # l /\ task'[k].at \in {"reward", "unlock"} =>
          /\ task'[k].order \in Order /\ state'[task'[k].order] = "completed"
          /\ task'[k].left \subseteq Dependents(task'[k].order)
    <3>1. \A x \in Order : state[x] = "completed" => state'[x] = "completed"
      BY <1>2, <1>6
    <3> QED
      BY <1>7, <3>1 DEF Working
  <2>2. task'[l].at \in {"reward", "unlock"} =>
          /\ task'[l].order \in Order /\ state'[task'[l].order] = "completed"
          /\ task'[l].left \subseteq Dependents(task'[l].order)
    BY <1>6, <1>7 DEF Reward, Idle
  <2> QED
    BY <2>1, <2>2 DEF Working, Dependents
<1>11. \A k \in Listener : k # l /\ task[k].at \in {"reward", "unlock"} => task[k].order # o
  BY <1>2 DEF Working
<1>12. Owing'
  <2>1. ASSUME NEW k \in Listener, NEW d \in Character,
               k # l, task'[k].at = "reward", task'[k].owed[d] > 0
        PROVE  paid'[task'[k].order][d] = 0 /\ units'[task'[k].order][d] > 0
    <3>1. /\ task'[k] = task[k] /\ task[k].order \in Order /\ task[k].order # o
          /\ paid[task[k].order][d] = 0 /\ units[task[k].order][d] > 0
      BY <1>7, <1>11, <2>1 DEF Owing, Working
    <3> QED
      BY <1>2, <1>4, <3>1
  <2>2. ASSUME NEW d \in Character, task'[l].at = "reward", task'[l].owed[d] > 0
        PROVE  paid'[task'[l].order][d] = 0 /\ units'[task'[l].order][d] > 0
    <3>1. task'[l] = Reward(o, units'[o])
      BY <1>7, <2>2 DEF Idle
    <3>2. task'[l].order = o /\ units'[o][d] * XpPerUnit > 0
      BY <2>2, <3>1 DEF Reward
    <3>3. units'[o][d] > 0
      BY <1>5, <3>2, Product
    <3>4. paid[o][d] = 0
      <4>1. paid[o][d] \in Nat /\ state[o] # "completed"
        BY <1>2 DEF TypeOK
      <4> QED
        BY <4>1 DEF PaidOnce
    <3> QED
      BY <1>2, <3>2, <3>3, <3>4
  <2> QED
    BY <2>1, <2>2 DEF Owing
<1>13. OneRewarder'
  <2>1. task'[l].at = "reward" => task'[l].order = o
    BY <1>7 DEF Reward, Idle
  <2>2. \A k \in Listener : k # l /\ task'[k].at = "reward" =>
          task'[k] = task[k] /\ task'[k].order # o
    BY <1>7, <1>11
  <2> QED
    BY <2>1, <2>2 DEF OneRewarder
<1> QED
  BY <1>1, <1>8, <1>9, <1>10, <1>12, <1>13

LEMMA GrantKeeps ==
  ASSUME IInv, NEW l \in Listener, NEW c \in Character, Grant(l, c) \/ GrantFails(l, c)
  PROVE  IInv'
<1> USE EconomyAssumption DEF IInv
<1>1. TypeOK'
  BY StepType DEF Next, Continue, Fault
<1>2. /\ Owes(l, c) /\ UNCHANGED <<state, progress, units>>
      /\ task' = [task EXCEPT ![l] = Past(task[l], c)]
      /\ \/ paid' = paid
         \/ task[l].at = "reward" /\ paid' = Adjusted(paid, task[l].order, c, 1)
  BY DEF Grant, GrantFails, db, history
<1>3. task \in [Listener -> Task] /\ paid \in [Order -> [Character -> Nat]]
  BY DEF TypeOK
<1>4. \A k \in Listener : k # l => task'[k] = task[k]
  BY <1>2, <1>3
<1>5. task'[l] = Past(task[l], c)
  BY <1>2, <1>3
<1>6. CASE task[l].at = "practise"
  <2>1. task'[l] = Idle /\ paid' = paid
    BY <1>2, <1>5, <1>6 DEF Past
  <2>2. Working' /\ Owing' /\ OneRewarder'
    BY <1>2, <1>4, <2>1, Harmless DEF Idle
  <2>3. Funding' /\ Gates' /\ PaidOnce'
    BY <1>2, <2>1, SameOrders
  <2> QED
    BY <1>1, <2>2, <2>3
<1>7. CASE task[l].at = "reward"
  <2> DEFINE o == task[l].order
  <2>1. o \in Order /\ state[o] = "completed" /\ paid[o][c] = 0 /\ units[o][c] > 0
    BY <1>2, <1>7 DEF Working, Owing, Owes
  <2>2. /\ \A x \in Order : x # o => paid'[x] = paid[x]
        /\ \A d \in Character : d # c => paid'[o][d] = paid[o][d]
        /\ paid'[o][c] \in {0, 1}
    BY <1>2, <1>3, <2>1 DEF Adjusted
  <2>3. /\ task'[l].at = "reward" /\ task'[l].order = o /\ task'[l].left = task[l].left
        /\ task'[l].owed[c] = 0
        /\ \A d \in Character : d # c => task'[l].owed[d] = task[l].owed[d]
    BY <1>3, <1>5, <1>7 DEF Past, Task
  <2>4. PaidOnce'
    <3>1. \A x \in Order, d \in Character : x # o \/ d # c => paid'[x][d] = paid[x][d]
      BY <2>2
    <3>2. paid'[o][c] > 0 => paid'[o][c] = 1 /\ state'[o] = "completed"
      BY <1>2, <2>1, <2>2
    <3> QED
      BY <1>2, <3>1, <3>2 DEF PaidOnce
  <2>5. Funding' /\ Gates'
    BY <1>2 DEF Funding, Gates, Met
  <2>6. Working' /\ OneRewarder'
    BY <1>2, <1>4, <1>7, <2>3 DEF Working, OneRewarder
  <2>7. Owing'
    <3>1. ASSUME NEW d \in Character, task'[l].owed[d] > 0
          PROVE  paid'[o][d] = 0 /\ units'[o][d] > 0
      <4>1. d # c /\ task[l].owed[d] > 0
        BY <2>3, <3>1
      <4>2. paid[o][d] = 0 /\ units[o][d] > 0
        BY <1>7, <4>1 DEF Owing
      <4> QED
        BY <1>2, <2>2, <4>1, <4>2
    <3>2. \A k \in Listener, d \in Character :
            k # l /\ task'[k].at = "reward" /\ task'[k].owed[d] > 0 =>
              paid'[task'[k].order][d] = 0 /\ units'[task'[k].order][d] > 0
      <4>1. \A k \in Listener : k # l /\ task[k].at = "reward" =>
              task[k].order \in Order /\ task[k].order # o
        BY <1>7 DEF Working, OneRewarder
      <4> QED
        BY <1>2, <1>4, <2>2, <4>1 DEF Owing
    <3> QED
      BY <2>3, <3>1, <3>2 DEF Owing
  <2> QED
    BY <1>1, <2>4, <2>5, <2>6, <2>7
<1> QED
  BY <1>2, <1>6, <1>7 DEF Owes

LEMMA UnlockKeeps ==
  ASSUME IInv, NEW l \in Listener, NEW d \in Order, Unlock(l, d) \/ UnlockFails(l, d)
  PROVE  IInv'
<1> USE EconomyAssumption DEF IInv
<1>1. TypeOK'
  BY StepType DEF Next, Continue, Fault
<1>2. /\ task[l].at = "unlock" /\ d \in task[l].left
      /\ UNCHANGED <<progress, units, paid>>
      /\ state' = state \/ state' = [state EXCEPT ![d] = Opened(d)]
      /\ task' = [task EXCEPT ![l] = Without(task[l], d)]
  BY DEF Unlock, UnlockFails, db, history
<1>3. task \in [Listener -> Task] /\ state \in [Order -> States]
  BY DEF TypeOK
<1>4. /\ \A k \in Listener : k # l => task'[k] = task[k]
      /\ task'[l].at = "unlock" /\ task'[l].order = task[l].order
      /\ task'[l].left \subseteq task[l].left
  BY <1>2, <1>3 DEF Without, Task
<1>5. Prereq[d] = task[l].order /\ state[task[l].order] = "completed"
  BY <1>2 DEF Working, Dependents
<1>6. /\ \A o \in Order : o # d => state'[o] = state[o]
      /\ state'[d] = state[d] \/ (state[d] = "locked" /\ state'[d] = "open")
  BY <1>2, <1>3 DEF Opened
<1>7. \A o \in Order : state[o] = "completed" => state'[o] = "completed"
  BY <1>6
<1>8. Gates'
  <2>1. Prereq[d] # NoOrder => state'[Prereq[d]] = "completed"
    BY <1>5, <1>7
  <2>2. ASSUME NEW o \in Order, state'[o] \in {"open", "completed"}, Prereq[o] # NoOrder
        PROVE  state'[Prereq[o]] = "completed"
    BY <1>6, <1>7, <2>1, <2>2 DEF Gates
  <2> QED
    BY <2>2 DEF Gates
<1>9. PaidOnce'
  BY <1>2, <1>6 DEF PaidOnce
<1>10. Working'
  <2>1. ASSUME NEW k \in Listener, task'[k].at \in {"reward", "unlock"}
        PROVE  /\ task'[k].order \in Order /\ state'[task'[k].order] = "completed"
               /\ task'[k].left \subseteq Dependents(task'[k].order)
    <3>1. /\ task[k].at \in {"reward", "unlock"} /\ task'[k].order = task[k].order
          /\ task'[k].left \subseteq task[k].left
      BY <1>2, <1>4, <2>1
    <3> QED
      BY <1>7, <3>1 DEF Working
  <2> QED
    BY <2>1 DEF Working, Dependents
<1>11. Owing'
  BY <1>2, <1>4 DEF Owing
<1>12. OneRewarder'
  BY <1>4 DEF OneRewarder
<1>13. Funding'
  BY <1>2, <1>6, ZenonT(30) DEF Funding, Met
<1> QED
  BY <1>1, <1>8, <1>9, <1>10, <1>11, <1>12, <1>13

LEMMA StepIInv ==
  ASSUME IInv, [Next]_vars
  PROVE  IInv'
<1> USE EconomyAssumption
<1>1. TypeOK'
  BY StepType DEF IInv
<1>2. ASSUME UNCHANGED <<state, progress, units, paid>>,
             \A l \in Listener : task'[l] = task[l] \/ task'[l].at \in {"idle", "practise"}
      PROVE  IInv'
  BY <1>1, <1>2, SameOrders, Harmless DEF IInv
<1>3. CASE UNCHANGED vars
  BY <1>2, <1>3 DEF vars, db, history
<1>4. CASE SeedFails
  BY <1>2, <1>4 DEF SeedFails, db, history
<1>5. CASE Crash
  BY <1>2, <1>5 DEF Crash, db, history, Idle
<1>6. ASSUME NEW l \in Listener, NEW c \in Character, NEW i \in Item, Gather(l, c, i)
      PROVE  IInv'
  <2>1. \A k \in Listener : task'[k] = task[k] \/ task'[k].at = "practise"
    BY <1>6 DEF Gather, Practise, Idle, IInv, TypeOK
  <2> QED
    BY <1>2, <1>6, <2>1 DEF Gather
<1>7. ASSUME NEW l \in Listener, NEW c \in Character, NEW i \in Item, NEW q \in Asked,
             Deposit(l, c, i, q) \/ Withdraw(l, c, i, q)
      PROVE  IInv'
  BY <1>2, <1>7 DEF Deposit, Withdraw, history
<1>8. ASSUME NEW l \in Listener, Announce(l)
      PROVE  IInv'
  <2>1. /\ UNCHANGED <<state, progress, units, paid>>
        /\ task[l].at = "reward"
        /\ task' = [task EXCEPT ![l] = [task[l] EXCEPT !.at = "unlock",
                                                       !.left = Dependents(task[l].order)]]
    BY <1>8 DEF Announce, db, history
  <2>2. /\ \A k \in Listener : k # l => task'[k] = task[k]
        /\ task'[l].at = "unlock" /\ task'[l].order = task[l].order
        /\ task'[l].left = Dependents(task[l].order)
    BY <2>1 DEF IInv, TypeOK, Task
  <2>3. Working' /\ Owing' /\ OneRewarder'
    BY <2>1, <2>2 DEF IInv, Working, Owing, OneRewarder
  <2> QED
    BY <1>1, <2>1, <2>3, SameOrders DEF IInv
<1>9. ASSUME NEW l \in Listener, Finish(l)
      PROVE  IInv'
  BY <1>2, <1>9 DEF Finish, db, history, Idle, IInv, TypeOK
<1> QED
  BY Steps, SeedKeeps, ContributeKeeps, GrantKeeps, UnlockKeeps,
     <1>3, <1>4, <1>5, <1>6, <1>7, <1>8, <1>9

THEOREM Invariance == Spec => []IInv
  BY InitIInv, StepIInv, PTL DEF Spec

\* No order opens before its prerequisite is completed, and one is completed
\* exactly when its requirements are met, in every tree of orders.
THEOREM TechTreeRespected == Spec => []TechTree
<1>1. IInv => TechTree
  <2> SUFFICES ASSUME IInv, NEW o \in Order
               PROVE  /\ state[o] \in {"open", "completed"} /\ Prereq[o] # NoOrder
                           => state[Prereq[o]] = "completed"
                      /\ state[o] = "completed" <=> state[o] # "absent" /\ Met(o, progress[o])
    BY DEF TechTree
  <2> QED
    BY DEF IInv, Gates, Funding
<1> QED
  BY <1>1, Invariance, PTL

\* No interleaving of listeners, errors and crashes pays a contributor twice for
\* an order, or for an order that is not completed.
THEOREM NobodyIsPaidTwice == Spec => []PaidOnce
<1>1. IInv => PaidOnce
  BY DEF IInv
<1> QED
  BY <1>1, Invariance, PTL

\* Restarts included, an order never goes back, and the books of a completed one
\* are closed: what its contributors are still to be paid for cannot change.
THEOREM OrdersOnlyAdvance == Spec => OnlyAdvance
<1> DEFINE Advance(o) ==
      /\ state[o] = "locked" => state'[o] \in {"locked", "open"}
      /\ state[o] = "open" => state'[o] \in {"open", "completed"}
      /\ state[o] = "completed" =>
           /\ state'[o] = "completed"
           /\ progress'[o] = progress[o] /\ units'[o] = units[o]
<1>1. ASSUME IInv, [Next]_vars, NEW o \in Order PROVE Advance(o)
  <2> USE EconomyAssumption
  <2>1. state \in [Order -> States]
    BY <1>1 DEF IInv, TypeOK
  <2>2. CASE UNCHANGED <<state, progress, units>>
    BY <2>2
  <2>3. CASE Seed
    BY <2>1, <2>3 DEF Seed, history
  <2>4. ASSUME NEW l \in Listener, NEW c \in Character, NEW x \in Order,
               NEW i \in Item, NEW q \in Asked, Contribute(l, c, x, i, q)
        PROVE  Advance(o)
    <3>1. state[x] = "open" /\ (state' = state \/ state' = [state EXCEPT ![x] = "completed"])
      BY <2>4 DEF Contribute, Accepts
    <3>2. o # x => progress'[o] = progress[o] /\ units'[o] = units[o]
      BY <1>1, <2>4, Contribution DEF IInv
    <3> QED
      BY <2>1, <3>1, <3>2
  <2>5. ASSUME NEW l \in Listener, NEW d \in Order, Unlock(l, d)
        PROVE  Advance(o)
    <3>1. /\ UNCHANGED <<progress, units>>
          /\ state' = [state EXCEPT ![d] = Opened(d)]
      BY <2>5 DEF Unlock
    <3> QED
      BY <2>1, <3>1 DEF Opened
  <2>6. ASSUME NEW l \in Listener, NEW c \in Character, NEW i \in Item,
               \/ Gather(l, c, i)
               \/ \E q \in Asked : Deposit(l, c, i, q) \/ Withdraw(l, c, i, q)
        PROVE  UNCHANGED <<state, progress, units>>
    BY <2>6 DEF Gather, Deposit, Withdraw
  <2>7. ASSUME NEW l \in Listener,
               \/ Announce(l) \/ Finish(l)
               \/ \E c \in Character : Grant(l, c) \/ GrantFails(l, c)
               \/ \E d \in Order : UnlockFails(l, d)
        PROVE  UNCHANGED <<state, progress, units>>
    BY <2>7 DEF Announce, Finish, Grant, GrantFails, UnlockFails, db
  <2>8. CASE UNCHANGED vars \/ SeedFails \/ Crash
    BY <2>2, <2>8 DEF vars, SeedFails, Crash, db
  <2> QED
    BY <1>1, Steps, <2>2, <2>3, <2>4, <2>5, <2>6, <2>7, <2>8
<1>2. ASSUME IInv, [Next]_vars PROVE [\A o \in Order : Advance(o)]_vars
  BY <1>1, <1>2
<1> QED
  BY <1>2, Invariance, PTL DEF Spec, OnlyAdvance

----------------------------------------------------------------------------
\* Refinement: each step of the gateway is one of the build tree, or changes
\* nothing a player was promised.

LEMMA TreeInit == Init => Tree!Init
<1> SUFFICES ASSUME Init PROVE Tree!Init
  OBVIOUS
<1>1. \A o \in Order, i \in Item : Cost[o][i] - progress[o][i] = Cost[o][i]
  BY EconomyAssumption DEF Init
<1>2. [o \in Order |-> [i \in Item |-> Cost[o][i] - progress[o][i]]] = Cost
  BY <1>1, EconomyAssumption
<1> QED
  BY <1>2 DEF Init, Tree!Init, Nobody

LEMMA TreeContribute ==
  ASSUME IInv, NEW l \in Listener, NEW c \in Character, NEW o \in Order,
         NEW i \in Item, NEW q \in Asked, Contribute(l, c, o, i, q)
  PROVE  [Tree!Next]_(Tree!board)
<1> USE EconomyAssumption
<1> DEFINE n == progress'[o][i] - progress[o][i]
           need == [x \in Order |-> [j \in Item |-> Cost[x][j] - progress[x][j]]]
<1>1. TypeOK /\ TypeOK'
  BY StepType DEF Next, Request, IInv
<1>0. /\ progress \in [Order -> [Item -> Nat]] /\ progress' \in [Order -> [Item -> Nat]]
      /\ units \in [Order -> [Character -> Nat]] /\ units' \in [Order -> [Character -> Nat]]
      /\ state \in [Order -> States]
  BY <1>1 DEF TypeOK
<1>2. /\ state[o] = "open" /\ paid' = paid
      /\ state' = IF Met(o, progress'[o]) THEN [state EXCEPT ![o] = "completed"] ELSE state
  BY DEF Contribute, Accepts, history
<1>3. /\ progress[o][i] \in Nat /\ Cost[o][i] \in Nat /\ progress[o][i] <= Cost[o][i]
      /\ progress'[o][i] \in Nat /\ ~Met(o, progress[o])
  BY <1>1, <1>2 DEF IInv, TypeOK, Funding
<1>4. n \in 0 .. need[o][i]
  <2>1. Need(o, i) = Cost[o][i] - progress[o][i]
    BY <1>3 DEF Need, Most
  <2>2. n \in 0 .. Need(o, i)
    BY <1>1, Contribution
  <2> QED
    BY <2>1, <2>2
<1>5. /\ \A x \in Order : x # o => progress'[x] = progress[x] /\ units'[x] = units[x]
      /\ \A j \in Item : j # i => progress'[o][j] = progress[o][j]
      /\ units'[o][c] = units[o][c] + n
      /\ \A d \in Character : d # c => units'[o][d] = units[o][d]
  BY <1>1, Contribution
<1> HIDE DEF need
<1>6. CASE n = 0
  <2>1. progress' = progress
    <3>1. \A j \in Item : progress'[o][j] = progress[o][j]
      BY <1>3, <1>5, <1>6
    <3>2. progress'[o] = progress[o]
      BY <1>0, <3>1
    <3> QED
      BY <1>0, <1>5, <3>2
  <2>2. units' = units
    <3>1. \A d \in Character : units'[o][d] = units[o][d]
      BY <1>0, <1>5, <1>6
    <3>2. units'[o] = units[o]
      BY <1>0, <3>1
    <3> QED
      BY <1>0, <1>5, <3>2
  <2>3. state' = state
    BY <1>2, <1>3, <2>1
  <2> QED
    BY <1>2, <2>1, <2>2, <2>3 DEF Tree!board
<1>7. CASE n # 0
  <2>1. n \in 1 .. need[o][i]
    BY <1>4, <1>7
  <2>2. need' = [need EXCEPT ![o][i] = @ - n]
    <3>0. /\ \A x \in Order, j \in Item : need[x][j] = Cost[x][j] - progress[x][j]
          /\ \A x \in Order, j \in Item : need'[x][j] = Cost[x][j] - progress'[x][j]
      BY DEF need
    <3>1. need \in [Order -> [Item -> Int]] /\ need' \in [Order -> [Item -> Int]]
      <4>1. \A x \in Order, j \in Item :
              Cost[x][j] - progress[x][j] \in Int /\ Cost[x][j] - progress'[x][j] \in Int
        BY <1>0, SMTT(20)
      <4> QED
        BY <4>1 DEF need
    <3>2. \A x \in Order, j \in Item :
            need'[x][j] = IF x = o /\ j = i THEN need[o][i] - n ELSE need[x][j]
      <4>1. need'[o][i] = need[o][i] - n
        BY <1>3, <3>0
      <4>2. ASSUME NEW x \in Order, NEW j \in Item, x # o
            PROVE  need'[x][j] = need[x][j]
        <5>1. progress'[x][j] = progress[x][j]
          BY <1>5, <4>2
        <5> QED
          BY <3>0, <5>1
      <4>3. ASSUME NEW j \in Item, j # i
            PROVE  need'[o][j] = need[o][j]
        BY <1>5, <3>0, <4>3
      <4> QED
        BY <4>1, <4>2, <4>3
    <3>3. \A x \in Order : x # o => need'[x] = need[x]
      BY <3>1, <3>2
    <3>4. need'[o] = [need[o] EXCEPT ![i] = need[o][i] - n]
      BY <3>1, <3>2
    <3> QED
      BY <3>1, <3>3, <3>4
  <2>3. units' = [units EXCEPT ![o][c] = @ + n]
    <3>1. units'[o] = [units[o] EXCEPT ![c] = units[o][c] + n]
      BY <1>0, <1>5
    <3> QED
      BY <1>0, <1>5, <3>1
  <2>4. state' = [state EXCEPT ![o] =
                    IF \A j \in Item : need'[o][j] = 0 THEN "completed" ELSE "open"]
    <3>1. \A j \in Item : progress'[o][j] \in Nat /\ Cost[o][j] \in Nat
                          /\ progress'[o][j] <= Cost[o][j]
      <4>1. \A j \in Item : progress[o][j] <= Cost[o][j]
        BY DEF IInv, Funding
      <4>2. progress'[o][i] <= Cost[o][i]
        BY <1>0, <1>3, <1>4 DEF need
      <4>3. \A j \in Item : progress'[o][j] <= Cost[o][j]
        BY <1>5, <4>1, <4>2
      <4>4. \A j \in Item : progress'[o][j] \in Nat /\ Cost[o][j] \in Nat
        BY <1>0
      <4> QED
        BY <4>3, <4>4
    <3>2. \E j \in Item : Cost[o][j] > 0
      BY <1>0, <1>3, <2>1 DEF need
    <3>3. Met(o, progress'[o]) <=> \A j \in Item : need'[o][j] = 0
      BY <3>1, <3>2 DEF Met, need
    <3> QED
      BY <1>1, <1>2, <3>3 DEF TypeOK
  <2>5. Tree!Fund(o, c, i)
    BY <1>2, <2>1, <2>2, <2>3, <2>4 DEF Tree!Fund, need
  <2> QED
    BY <2>5 DEF Tree!Next
<1> QED
  BY <1>6, <1>7

\* The gateway implements BuildTree: whatever the listeners interleave, and
\* wherever errors and crashes hit them, players see orders posted, opened,
\* funded, completed and paid as the abstract tree allows.
THEOREM ImplementsBuildTree == Spec => TreeSpec
<1>1. ASSUME IInv, [Next]_vars PROVE [Tree!Next]_(Tree!board)
  <2> USE EconomyAssumption
  <2>0. /\ state \in [Order -> States] /\ task \in [Listener -> Task]
        /\ paid \in [Order -> [Character -> Nat]]
    BY <1>1 DEF IInv, TypeOK
  <2>1. CASE UNCHANGED <<state, progress, units, paid>>
    BY <2>1 DEF Tree!board
  <2>2. CASE Seed
    <3> DEFINE o == Authored[boot]
    <3>1. o \in Order
      BY <1>1, <2>2 DEF IInv, TypeOK, Seed, Up
    <3>2. UNCHANGED <<progress, units, paid>>
      BY <2>2 DEF Seed, history
    <3>3. CASE state[o] = "absent"
      <4>1. state' = [state EXCEPT ![o] = IF Prereq[o] = NoOrder THEN "open" ELSE "locked"]
        BY <2>2, <3>3 DEF Seed, Seeded
      <4>2. Tree!Post(o)
        BY <3>2, <3>3, <4>1 DEF Tree!Post
      <4> QED
        BY <3>1, <4>2 DEF Tree!Next
    <3>4. CASE state[o] # "absent"
      BY <2>1, <2>2, <3>2, <3>4 DEF Seed
    <3> QED
      BY <3>3, <3>4
  <2>3. ASSUME NEW l \in Listener, NEW c \in Character, NEW o \in Order,
               NEW i \in Item, NEW q \in Asked, Contribute(l, c, o, i, q)
        PROVE  [Tree!Next]_(Tree!board)
    BY <1>1, <2>3, TreeContribute
  <2>4. ASSUME NEW l \in Listener, NEW c \in Character, Grant(l, c)
        PROVE  [Tree!Next]_(Tree!board)
    <3> DEFINE o == task[l].order
    <3>1. UNCHANGED <<state, progress, units>>
      BY <2>4 DEF Grant
    <3>2. CASE task[l].at = "practise"
      BY <2>1, <2>4, <3>1, <3>2 DEF Grant
    <3>3. CASE task[l].at = "reward"
      <4>1. o \in Order /\ state[o] = "completed" /\ paid[o][c] = 0 /\ units[o][c] > 0
        BY <1>1, <2>4, <3>3 DEF Grant, Owes, IInv, Working, Owing
      <4>2. paid' = Adjusted(paid, o, c, 1)
        BY <2>4, <3>3 DEF Grant
      <4>3. paid' = [paid EXCEPT ![o][c] = 1]
        BY <2>0, <4>1, <4>2 DEF Adjusted
      <4>4. Tree!Pay(o, c)
        BY <3>1, <4>1, <4>3 DEF Tree!Pay
      <4> QED
        BY <4>1, <4>4 DEF Tree!Next
    <3> QED
      BY <2>4, <3>2, <3>3 DEF Grant, Owes
  <2>5. ASSUME NEW l \in Listener, NEW d \in Order, Unlock(l, d)
        PROVE  [Tree!Next]_(Tree!board)
    <3>1. /\ UNCHANGED <<progress, units, paid>>
          /\ state' = [state EXCEPT ![d] = Opened(d)]
      BY <2>5 DEF Unlock, history
    <3>2. state[Prereq[d]] = "completed"
      BY <1>1, <2>5 DEF Unlock, IInv, Working, Dependents
    <3>3. CASE state[d] = "locked"
      <4>1. Tree!Open(d)
        BY <3>1, <3>2, <3>3 DEF Tree!Open, Opened
      <4> QED
        BY <4>1 DEF Tree!Next
    <3>4. CASE state[d] # "locked"
      <4>1. state' = state
        BY <2>0, <3>1, <3>4 DEF Opened
      <4> QED
        BY <2>1, <3>1, <4>1
    <3> QED
      BY <3>3, <3>4
  <2>6. ASSUME NEW l \in Listener, NEW c \in Character, NEW i \in Item,
               \/ Gather(l, c, i)
               \/ \E q \in Asked : Deposit(l, c, i, q) \/ Withdraw(l, c, i, q)
        PROVE  UNCHANGED <<state, progress, units, paid>>
    BY <2>6 DEF Gather, Deposit, Withdraw, history
  <2>7. ASSUME NEW l \in Listener,
               \/ Announce(l) \/ Finish(l)
               \/ \E c \in Character : GrantFails(l, c)
               \/ \E d \in Order : UnlockFails(l, d)
        PROVE  UNCHANGED <<state, progress, units, paid>>
    BY <2>7 DEF Announce, Finish, GrantFails, UnlockFails, db, history
  <2>8. CASE UNCHANGED vars \/ SeedFails \/ Crash
    BY <2>1, <2>8 DEF vars, SeedFails, Crash, db, history
  <2> QED
    BY <1>1, Steps, <2>1, <2>2, <2>3, <2>4, <2>5, <2>6, <2>7, <2>8
<1> QED
  BY <1>1, TreeInit, Invariance, PTL DEF Spec, TreeSpec, Tree!Spec
----------------------------------------------------------------------------
(***************************************************************************)
(* The books: sums over items, characters and orders. Each transaction     *)
(* changes one or two entries of the tables, and a sum changes by as much  *)
(* as the entry does (SumChanged).                                         *)
(***************************************************************************)

LEMMA OrderIsFinite == IsFiniteSet(Order)
<1>1. Authored \in Surjection(1 .. Len(Authored), Order)
  BY EconomyAssumption DEF Surjection, Order, Range
<1>2. IsFiniteSet(1 .. Len(Authored))
  BY EconomyAssumption, FS_Interval
<1> QED
  BY <1>1, <1>2, FS_Surjection

\* The sum of a row of a table, one entry of which is adjusted.
LEMMA RowSum ==
  ASSUME NEW S, NEW T, IsFiniteSet(T), NEW f \in [S -> [T -> Nat]], NEW g \in [S -> [T -> Nat]],
         NEW a \in S, NEW b \in T, NEW n \in Int, g = Adjusted(f, a, b, n)
  PROVE  \A x \in S :
           /\ SumFunction(f[x]) \in Int
           /\ SumFunction(g[x]) = SumFunction(f[x]) + IF x = a THEN n ELSE 0
<1>1. /\ \A x \in S : x # a => g[x] = f[x]
      /\ g[a][b] = f[a][b] + n
      /\ \A y \in T : y # b => g[a][y] = f[a][y]
  BY DEF Adjusted
<1>2. ASSUME NEW x \in S PROVE f[x] \in [T -> Int] /\ g[x] \in [T -> Int]
  BY <1>2
<1>3. ASSUME NEW x \in S PROVE SumFunction(f[x]) \in Int
  BY <1>2, SumOfFunction
<1>4. SumFunction(g[a]) = SumFunction(f[a]) + (g[a][b] - f[a][b])
  <2> DEFINE F == f[a]
             G == g[a]
  <2>1. F \in [T -> Int] /\ G \in [T -> Int] /\ \A y \in T : y # b => G[y] = F[y]
    BY <1>1, <1>2
  <2> HIDE DEF F, G
  <2>2. SumFunction(G) = SumFunction(F) + (G[b] - F[b])
    BY <2>1, SumChanged
  <2> QED
    BY <2>2 DEF F, G
<1>5. g[a][b] - f[a][b] = n
  BY <1>1
<1> QED
  BY <1>1, <1>3, <1>4, <1>5

\* A contribution moves the same number of units between the three tables.
LEMMA MovedUnits ==
  ASSUME NEW l \in Listener, NEW c \in Character, NEW o \in Order,
         NEW i \in Item, NEW q \in Asked, Contribute(l, c, o, i, q)
  PROVE  \E n \in Nat : /\ inv' = Adjusted(inv, c, i, -n)
                        /\ progress' = Adjusted(progress, o, i, n)
                        /\ units' = Adjusted(units, o, c, n)
<1>1. 0 .. q \subseteq Nat
  BY EconomyAssumption
<1> QED
  BY <1>1 DEF Contribute

\* No two operations of a character, interleaved anyhow, overfill it: each of
\* them sees the room that is left when it is applied.
LEMMA CarryStep ==
  ASSUME TypeOK, CarryCap, [Next]_vars
  PROVE  CarryCap'
<1> USE EconomyAssumption
<1>1. TypeOK'
  BY StepType
<1>2. inv \in [Character -> [Item -> Nat]] /\ inv' \in [Character -> [Item -> Nat]]
  BY <1>1 DEF TypeOK
<1>3. ASSUME NEW c \in Character, NEW i \in Item, NEW n \in Int,
             inv' = Adjusted(inv, c, i, n), n <= 0 \/ n <= Room(c)
      PROVE  CarryCap'
  <2>1. \A d \in Character :
          /\ SumFunction(inv[d]) \in Int
          /\ SumFunction(inv'[d]) = SumFunction(inv[d]) + IF d = c THEN n ELSE 0
    <3>1. IsFiniteSet(Item)
      OBVIOUS
    <3> QED
      BY ONLY <1>2, <1>3, <3>1, RowSum
  <2>2. \A d \in Character : SumFunction(inv[d]) <= MaxCarry
    BY DEF CarryCap, Carried
  <2>3. n <= 0 \/ n <= MaxCarry - SumFunction(inv[c])
    BY <1>3, <2>1 DEF Room, Most, Carried
  <2>4. \A d \in Character : SumFunction(inv'[d]) <= MaxCarry
    BY <2>1, <2>2, <2>3
  <2> QED
    BY <2>4 DEF CarryCap, Carried
<1>4. ASSUME inv' = inv PROVE CarryCap'
  BY <1>4 DEF CarryCap, Carried
<1>5. ASSUME NEW c \in Character PROVE Room(c) \in Nat
  <2>1. SumFunction(inv[c]) \in Int
    <3>1. inv[c] \in [Item -> Int]
      BY <1>2
    <3> QED
      BY <3>1, SumOfFunction
  <2> QED
    BY <2>1 DEF Room, Most, Carried
<1>6. ASSUME NEW l \in Listener, NEW c \in Character, NEW i \in Item, Gather(l, c, i)
      PROVE  CarryCap'
  <2>1. PICK n \in 0 .. 1 : n = Least(1, Room(c)) /\ inv' = Adjusted(inv, c, i, n)
    BY <1>6 DEF Gather
  <2>2. n \in Int /\ n <= Room(c)
    BY <1>5, <2>1 DEF Least
  <2> QED
    BY <1>3, <2>1, <2>2
<1>7. ASSUME NEW l \in Listener, NEW c \in Character, NEW i \in Item, NEW q \in Asked,
             Deposit(l, c, i, q)
      PROVE  CarryCap'
  <2>1. PICK n \in 1 .. q : inv' = Adjusted(inv, c, i, -n)
    BY <1>7 DEF Deposit
  <2>2. -n \in Int /\ -n <= 0
    OBVIOUS
  <2> QED
    BY <1>3, <2>1, <2>2
<1>8. ASSUME NEW l \in Listener, NEW c \in Character, NEW i \in Item, NEW q \in Asked,
             Withdraw(l, c, i, q)
      PROVE  CarryCap'
  <2>1. PICK n \in 1 .. q : /\ n = Least(Least(q, store[c][i]), Room(c))
                            /\ inv' = Adjusted(inv, c, i, n)
    BY <1>8 DEF Withdraw
  <2>2. Least(q, store[c][i]) \in Int
    BY DEF Least, TypeOK
  <2>3. n \in Int /\ n <= Room(c)
    BY <1>5, <2>1, <2>2 DEF Least
  <2> QED
    BY <1>3, <2>1, <2>3
<1>9. ASSUME NEW l \in Listener, NEW c \in Character, NEW o \in Order,
             NEW i \in Item, NEW q \in Asked, Contribute(l, c, o, i, q)
      PROVE  CarryCap'
  <2>1. PICK n \in Nat : inv' = Adjusted(inv, c, i, -n)
    BY <1>9, MovedUnits
  <2>2. -n \in Int /\ -n <= 0
    OBVIOUS
  <2> QED
    BY <1>3, <2>1, <2>2
<1>10. CASE UNCHANGED vars \/ Seed \/ SeedFails \/ Crash
  BY <1>4, <1>10 DEF vars, Seed, SeedFails, Crash, db
<1>11. ASSUME NEW l \in Listener,
              \/ \E c \in Character : Grant(l, c) \/ GrantFails(l, c)
              \/ Announce(l) \/ Finish(l)
              \/ \E d \in Order : Unlock(l, d) \/ UnlockFails(l, d)
       PROVE  CarryCap'
  BY <1>4, <1>11 DEF Grant, GrantFails, Announce, Finish, Unlock, UnlockFails, db
<1> QED
  BY Steps, <1>6, <1>7, <1>8, <1>9, <1>10, <1>11

\* No character ever carries more than the capacity, whatever its zones'
\* listeners interleave.
THEOREM NobodyOverloaded == Spec => []CarryCap
<1>1. Init => CarryCap
  <2> SUFFICES ASSUME Init, NEW c \in Character PROVE SumFunction(inv[c]) <= MaxCarry
    BY DEF CarryCap, Carried
  <2>1. inv[c] \in [Item -> Int] /\ \A i \in Item : inv[c][i] = 0
    BY DEF Init
  <2>2. SumFunction(inv[c]) = 0
    BY <2>1, SumOfZeros, EconomyAssumption
  <2> QED
    BY <2>2, EconomyAssumption
<1> QED
  BY <1>1, TypeCorrect, CarryStep, PTL DEF Spec

Held(i) == SumFunction([c \in Character |-> inv[c][i] + store[c][i]])
Built(i) == SumFunction([o \in Order |-> progress[o][i]])

\* What the characters hold changes by what is added to one of them.
LEMMA HeldChange ==
  ASSUME TypeOK, TypeOK', NEW c \in Character, NEW i \in Item, NEW n \in Int,
         \A d \in Character, j \in Item :
           inv'[d][j] + store'[d][j]
             = inv[d][j] + store[d][j] + IF d = c /\ j = i THEN n ELSE 0
  PROVE  \A j \in Item : Held(j)' = Held(j) + IF j = i THEN n ELSE 0
<1> SUFFICES ASSUME NEW j \in Item
             PROVE  Held(j)' = Held(j) + IF j = i THEN n ELSE 0
  OBVIOUS
<1> DEFINE F == [d \in Character |-> inv[d][j] + store[d][j]]
           G == [d \in Character |-> inv'[d][j] + store'[d][j]]
<1>1. F \in [Character -> Int] /\ G \in [Character -> Int]
  <2>1. \A d \in Character : /\ inv[d][j] \in Nat /\ store[d][j] \in Nat
                             /\ inv'[d][j] \in Nat /\ store'[d][j] \in Nat
    BY DEF TypeOK
  <2>2. \A d \in Character : F[d] \in Int /\ G[d] \in Int
    BY <2>1
  <2> QED
    BY <2>2
<1>2. /\ \A d \in Character : d # c => G[d] = F[d]
      /\ G[c] - F[c] = IF j = i THEN n ELSE 0
  BY <1>1
<1>3. Held(j) = SumFunction(F) /\ Held(j)' = SumFunction(G)
  BY DEF Held
<1>4. IsFiniteSet(Character)
  BY EconomyAssumption
<1> HIDE DEF F, G
<1>5. SumFunction(G) = SumFunction(F) + (G[c] - F[c])
  BY ONLY <1>1, <1>2, <1>4, SumChanged
<1> QED
  BY ONLY <1>2, <1>3, <1>5

\* What is built in of an item changes by what is added to one order.
LEMMA BuiltChange ==
  ASSUME TypeOK, TypeOK', NEW o \in Order, NEW i \in Item, NEW n \in Int,
         progress' = Adjusted(progress, o, i, n)
  PROVE  \A j \in Item : Built(j)' = Built(j) + IF j = i THEN n ELSE 0
<1> SUFFICES ASSUME NEW j \in Item
             PROVE  Built(j)' = Built(j) + IF j = i THEN n ELSE 0
  OBVIOUS
<1> DEFINE F == [x \in Order |-> progress[x][j]]
           G == [x \in Order |-> progress'[x][j]]
<1>0. progress \in [Order -> [Item -> Nat]] /\ progress' \in [Order -> [Item -> Nat]]
  BY DEF TypeOK
<1>1. F \in [Order -> Int] /\ G \in [Order -> Int]
  BY <1>0
<1>2. /\ \A x \in Order : x # o => G[x] = F[x]
      /\ G[o] - F[o] = IF j = i THEN n ELSE 0
  BY <1>0 DEF Adjusted
<1>3. Built(j) = SumFunction(F) /\ Built(j)' = SumFunction(G)
  BY DEF Built
<1>4. IsFiniteSet(Order)
  BY OrderIsFinite
<1> HIDE DEF F, G
<1>5. SumFunction(G) = SumFunction(F) + (G[o] - F[o])
  BY ONLY <1>1, <1>2, <1>4, SumChanged
<1> QED
  BY ONLY <1>2, <1>3, <1>5

\* Units only move, whatever moves them.
LEMMA ConservedStep ==
  ASSUME TypeOK, Conserved, [Next]_vars
  PROVE  Conserved'
<1>1. TypeOK'
  BY StepType
<1>2. /\ inv \in [Character -> [Item -> Nat]] /\ inv' \in [Character -> [Item -> Nat]]
      /\ store \in [Character -> [Item -> Nat]] /\ store' \in [Character -> [Item -> Nat]]
      /\ progress \in [Order -> [Item -> Nat]] /\ progress' \in [Order -> [Item -> Nat]]
      /\ kept \in [Item -> Nat] /\ kept' \in [Item -> Nat]
  BY <1>1 DEF TypeOK
<1>3. \A i \in Item : kept[i] = Held(i) + Built(i)
  BY DEF Conserved, Held, Built
<1>4. SUFFICES \A i \in Item : kept'[i] = Held(i)' + Built(i)'
  BY DEF Conserved, Held, Built
<1>5. \A i \in Item : Held(i) \in Int /\ Built(i) \in Int
  <2> SUFFICES ASSUME NEW i \in Item PROVE Held(i) \in Int /\ Built(i) \in Int
    OBVIOUS
  <2>1. [c \in Character |-> inv[c][i] + store[c][i]] \in [Character -> Int]
    BY <1>2
  <2>2. [o \in Order |-> progress[o][i]] \in [Order -> Int]
    BY <1>2
  <2>3. IsFiniteSet(Character) /\ IsFiniteSet(Order)
    BY EconomyAssumption, OrderIsFinite
  <2> QED
    BY ONLY <2>1, <2>2, <2>3, SumOfFunction DEF Held, Built
<1>6. CASE UNCHANGED <<inv, store, progress, kept>>
  BY <1>3, <1>6 DEF Held, Built
<1>7. ASSUME NEW l \in Listener, NEW c \in Character, NEW i \in Item, Gather(l, c, i)
      PROVE  \A j \in Item : kept'[j] = Held(j)' + Built(j)'
  <2>1. PICK n \in 0 .. 1 : /\ inv' = Adjusted(inv, c, i, n)
                            /\ kept' = [kept EXCEPT ![i] = @ + n]
    BY <1>7 DEF Gather
  <2>2. store' = store /\ progress' = progress
    BY <1>7 DEF Gather
  <2>3. \A d \in Character, j \in Item :
          inv'[d][j] + store'[d][j]
            = inv[d][j] + store[d][j] + IF d = c /\ j = i THEN n ELSE 0
    BY <1>2, <2>1, <2>2 DEF Adjusted
  <2>4. n \in Int
    OBVIOUS
  <2>5. \A j \in Item : Held(j)' = Held(j) + IF j = i THEN n ELSE 0
    BY <1>1, <2>3, <2>4, HeldChange
  <2>6. \A j \in Item : kept'[j] = kept[j] + IF j = i THEN n ELSE 0
    BY <1>2, <2>1
  <2>7. \A j \in Item : Built(j)' = Built(j)
    BY <2>2 DEF Built
  <2> QED
    BY <1>3, <1>5, <2>4, <2>5, <2>6, <2>7
<1>8. ASSUME NEW l \in Listener, NEW c \in Character, NEW i \in Item, NEW q \in Asked,
             Deposit(l, c, i, q) \/ Withdraw(l, c, i, q)
      PROVE  \A j \in Item : kept'[j] = Held(j)' + Built(j)'
  <2>1. PICK n \in Int : /\ inv' = Adjusted(inv, c, i, -n)
                         /\ store' = Adjusted(store, c, i, n)
    <3>1. CASE Deposit(l, c, i, q)
      BY <3>1 DEF Deposit
    <3>2. CASE Withdraw(l, c, i, q)
      <4>1. PICK m \in 1 .. q : /\ store' = Adjusted(store, c, i, -m)
                                /\ inv' = Adjusted(inv, c, i, m)
        BY <3>2 DEF Withdraw
      <4>2. -m \in Int /\ m = -(-m)
        OBVIOUS
      <4> QED
        BY <4>1, <4>2
    <3> QED
      BY <1>8, <3>1, <3>2
  <2>2. progress' = progress /\ kept' = kept
    BY <1>8 DEF Deposit, Withdraw, history
  <2>3. \A d \in Character, j \in Item :
          inv'[d][j] + store'[d][j]
            = inv[d][j] + store[d][j] + IF d = c /\ j = i THEN 0 ELSE 0
    <3>1. /\ inv'[c][i] = inv[c][i] + (-n) /\ store'[c][i] = store[c][i] + n
          /\ \A d \in Character, j \in Item : d # c \/ j # i =>
               inv'[d][j] = inv[d][j] /\ store'[d][j] = store[d][j]
      BY <1>2, <2>1 DEF Adjusted
    <3> QED
      BY <1>2, <3>1
  <2>4. \A j \in Item : Held(j)' = Held(j) + IF j = i THEN 0 ELSE 0
    <3>1. 0 \in Int
      OBVIOUS
    <3> QED
      BY <1>1, <2>3, <3>1, HeldChange
  <2>5. \A j \in Item : Built(j)' = Built(j)
    BY <2>2 DEF Built
  <2> QED
    BY <1>3, <1>5, <2>2, <2>4, <2>5
<1>9. ASSUME NEW l \in Listener, NEW c \in Character, NEW o \in Order,
             NEW i \in Item, NEW q \in Asked, Contribute(l, c, o, i, q)
      PROVE  \A j \in Item : kept'[j] = Held(j)' + Built(j)'
  <2>1. PICK n \in Nat : /\ inv' = Adjusted(inv, c, i, -n)
                         /\ progress' = Adjusted(progress, o, i, n)
    BY <1>9, MovedUnits
  <2>2. store' = store /\ kept' = kept
    BY <1>9 DEF Contribute, history
  <2>3. -n \in Int /\ n \in Int
    OBVIOUS
  <2>4. \A d \in Character, j \in Item :
          inv'[d][j] + store'[d][j]
            = inv[d][j] + store[d][j] + IF d = c /\ j = i THEN -n ELSE 0
    <3>1. /\ inv'[c][i] = inv[c][i] + (-n)
          /\ \A d \in Character, j \in Item : d # c \/ j # i => inv'[d][j] = inv[d][j]
      BY <1>2, <2>1 DEF Adjusted
    <3> QED
      BY <1>2, <2>2, <3>1
  <2>5. \A j \in Item : Held(j)' = Held(j) + IF j = i THEN -n ELSE 0
    BY <1>1, <2>3, <2>4, HeldChange
  <2>6. \A j \in Item : Built(j)' = Built(j) + IF j = i THEN n ELSE 0
    BY <1>1, <2>1, <2>3, BuiltChange
  <2> QED
    BY <1>3, <1>5, <2>2, <2>3, <2>5, <2>6
<1>10. CASE UNCHANGED vars \/ Seed \/ SeedFails \/ Crash
  BY <1>6, <1>10 DEF vars, Seed, SeedFails, Crash, db, history
<1>11. ASSUME NEW l \in Listener,
              \/ \E c \in Character : Grant(l, c) \/ GrantFails(l, c)
              \/ Announce(l) \/ Finish(l)
              \/ \E d \in Order : Unlock(l, d) \/ UnlockFails(l, d)
       PROVE  \A j \in Item : kept'[j] = Held(j)' + Built(j)'
  BY <1>6, <1>11 DEF Grant, GrantFails, Announce, Finish, Unlock, UnlockFails, db, history
<1> QED
  BY Steps, <1>7, <1>8, <1>9, <1>10, <1>11

\* No unit is lost or made by a transfer: what was ever taken in is carried,
\* stored or built in, for any number of players, orders, crashes and errors.
THEOREM UnitsAreConserved == Spec => []Conserved
<1>1. Init => Conserved
  <2> SUFFICES ASSUME Init, NEW i \in Item PROVE kept[i] = Held(i) + Built(i)
    BY DEF Conserved, Held, Built
  <2> DEFINE F == [c \in Character |-> inv[c][i] + store[c][i]]
             G == [o \in Order |-> progress[o][i]]
  <2>1. /\ F \in [Character -> Int] /\ \A c \in Character : F[c] = 0
        /\ G \in [Order -> Int] /\ \A o \in Order : G[o] = 0
    BY DEF Init
  <2>2. Held(i) = SumFunction(F) /\ Built(i) = SumFunction(G)
    BY DEF Held, Built
  <2> HIDE DEF F, G
  <2>3. SumFunction(F) = 0
    BY <2>1, SumOfZeros, EconomyAssumption
  <2>4. SumFunction(G) = 0
    BY <2>1, SumOfZeros, OrderIsFinite
  <2>5. kept[i] = 0
    BY DEF Init
  <2> QED
    BY <2>2, <2>3, <2>4, <2>5
<1> QED
  BY <1>1, TypeCorrect, ConservedStep, PTL DEF Spec

----------------------------------------------------------------------------
\* The two books of an order: what its contributors are credited with, and what
\* it progressed by.

Balanced == \A o \in Order : SumFunction(units[o]) = SumFunction(progress[o])

LEMMA BalancedStep ==
  ASSUME TypeOK, Balanced, [Next]_vars
  PROVE  Balanced'
<1>1. TypeOK'
  BY StepType
<1>2. /\ progress \in [Order -> [Item -> Nat]] /\ progress' \in [Order -> [Item -> Nat]]
      /\ units \in [Order -> [Character -> Nat]] /\ units' \in [Order -> [Character -> Nat]]
  BY <1>1 DEF TypeOK
<1>3. CASE UNCHANGED <<progress, units>>
  BY <1>3 DEF Balanced
<1>4. ASSUME NEW l \in Listener, NEW c \in Character, NEW o \in Order,
             NEW i \in Item, NEW q \in Asked, Contribute(l, c, o, i, q)
      PROVE  Balanced'
  <2>1. PICK n \in Nat : /\ progress' = Adjusted(progress, o, i, n)
                         /\ units' = Adjusted(units, o, c, n)
    BY <1>4, MovedUnits
  <2>2. n \in Int
    OBVIOUS
  <2>3. \A x \in Order :
          SumFunction(progress'[x]) = SumFunction(progress[x]) + IF x = o THEN n ELSE 0
    <3>1. IsFiniteSet(Item) /\ progress' = Adjusted(progress, o, i, n)
      BY <2>1, EconomyAssumption
    <3>2. progress \in [Order -> [Item -> Nat]] /\ progress' \in [Order -> [Item -> Nat]]
      BY <1>2
    <3> QED
      BY ONLY <2>2, <3>1, <3>2, RowSum
  <2>4. \A x \in Order :
          SumFunction(units'[x]) = SumFunction(units[x]) + IF x = o THEN n ELSE 0
    <3>1. IsFiniteSet(Character) /\ units' = Adjusted(units, o, c, n)
      BY <2>1, EconomyAssumption
    <3>2. units \in [Order -> [Character -> Nat]] /\ units' \in [Order -> [Character -> Nat]]
      BY <1>2
    <3> QED
      BY ONLY <2>2, <3>1, <3>2, RowSum
  <2> QED
    BY <2>3, <2>4 DEF Balanced
<1>5. CASE UNCHANGED vars \/ Seed \/ SeedFails \/ Crash
  BY <1>3, <1>5 DEF vars, Seed, SeedFails, Crash, db
<1>6. ASSUME NEW l \in Listener,
             \/ \E c \in Character, i \in Item :
                  \/ Gather(l, c, i)
                  \/ \E q \in Asked : Deposit(l, c, i, q) \/ Withdraw(l, c, i, q)
             \/ \E c \in Character : Grant(l, c) \/ GrantFails(l, c)
             \/ Announce(l) \/ Finish(l)
             \/ \E d \in Order : Unlock(l, d) \/ UnlockFails(l, d)
      PROVE  Balanced'
  BY <1>3, <1>6 DEF Gather, Deposit, Withdraw, Grant, GrantFails, Announce, Finish,
                    Unlock, UnlockFails, db
<1> QED
  BY Steps, <1>4, <1>5, <1>6

\* Every unit an order progressed by is credited to one contributor, and no order
\* takes more than it costs.
THEOREM BooksAgree == Spec => []Ledger
<1>1. Init => Balanced
  <2> SUFFICES ASSUME Init, NEW o \in Order
               PROVE  SumFunction(units[o]) = 0 /\ SumFunction(progress[o]) = 0
    BY DEF Balanced
  <2>1. /\ units[o] \in [Character -> Int] /\ \A c \in Character : units[o][c] = 0
        /\ progress[o] \in [Item -> Int] /\ \A i \in Item : progress[o][i] = 0
    BY DEF Init, Nobody
  <2>2. SumFunction(units[o]) = 0
    <3>1. IsFiniteSet(Character)
      BY EconomyAssumption
    <3> QED
      BY ONLY <2>1, <3>1, SumOfZeros
  <2>3. SumFunction(progress[o]) = 0
    <3>1. IsFiniteSet(Item)
      BY EconomyAssumption
    <3> QED
      BY ONLY <2>1, <3>1, SumOfZeros
  <2> QED
    BY <2>2, <2>3
<1>2. Balanced /\ IInv => Ledger
  BY DEF Balanced, Ledger, IInv, Funding
<1> QED
  BY <1>1, <1>2, TypeCorrect, BalancedStep, Invariance, PTL DEF Spec

----------------------------------------------------------------------------
(***************************************************************************)
(* The building skill. A listener computes what it owes from the shares it *)
(* read when the order completed; Rated says that this is still the final  *)
(* share when it is paid, however late: nothing changes the shares of a    *)
(* completed order. A share that is not final was never paid for.          *)
(***************************************************************************)

Rated == \A l \in Listener, c \in Character :
  task[l].at = "reward" /\ task[l].owed[c] > 0 =>
    task[l].owed[c] = units[task[l].order][c] * XpPerUnit

Earned(c) == SumFunction([o \in Order |-> paid[o][c] * units[o][c] * XpPerUnit])

LEMMA RatedStep ==
  ASSUME IInv, Rated, [Next]_vars
  PROVE  Rated'
<1>1. TypeOK /\ TypeOK' /\ Working
  BY StepType DEF IInv
<1>2. task \in [Listener -> Task]
  BY <1>1 DEF TypeOK
<1>3. ASSUME UNCHANGED units,
             \A k \in Listener :
               \/ task'[k] = task[k]
               \/ task'[k].at # "reward"
               \/ /\ task[k].at = "reward" /\ task'[k].order = task[k].order
                  /\ \A d \in Character : task'[k].owed[d] \in {0, task[k].owed[d]}
      PROVE  Rated'
  <2> SUFFICES ASSUME NEW k \in Listener, NEW d \in Character,
                      task'[k].at = "reward", task'[k].owed[d] > 0
               PROVE  task'[k].owed[d] = units[task'[k].order][d] * XpPerUnit
    BY <1>3 DEF Rated
  <2>1. /\ task[k].at = "reward" /\ task'[k].order = task[k].order
        /\ task'[k].owed[d] = task[k].owed[d]
    BY <1>3
  <2> QED
    BY <2>1 DEF Rated
<1>4. CASE UNCHANGED vars \/ Seed \/ SeedFails \/ Crash
  BY <1>3, <1>4 DEF vars, Seed, SeedFails, Crash, db, Idle
<1>5. ASSUME NEW l \in Listener, NEW c \in Character, NEW i \in Item,
             \/ Gather(l, c, i)
             \/ \E q \in Asked : Deposit(l, c, i, q) \/ Withdraw(l, c, i, q)
      PROVE  Rated'
  <2>1. UNCHANGED units /\ \/ task' = task
                           \/ task' = [task EXCEPT ![l] = Practise(c)]
    BY <1>5 DEF Gather, Deposit, Withdraw
  <2>2. Practise(c).at = "practise"
    BY DEF Practise, Idle
  <2>3. \A k \in Listener : task'[k] = task[k] \/ task'[k].at # "reward"
    BY <1>2, <2>1, <2>2
  <2> QED
    BY <1>3, <2>1, <2>3
<1>6. ASSUME NEW l \in Listener, NEW c \in Character, NEW o \in Order,
             NEW i \in Item, NEW q \in Asked, Contribute(l, c, o, i, q)
      PROVE  Rated'
  <2>1. state[o] = "open" /\ task[l] = Idle
        /\ \/ task' = task
           \/ task' = [task EXCEPT ![l] = Reward(o, units'[o])]
    BY <1>6 DEF Contribute, Accepts, Ready
  <2>2. \A x \in Order : x # o => units'[x] = units[x]
    BY <1>1, <1>6, Contribution
  <2>3. ASSUME NEW k \in Listener, NEW d \in Character,
               task'[k].at = "reward", task'[k].owed[d] > 0
        PROVE  task'[k].owed[d] = units'[task'[k].order][d] * XpPerUnit
    <3>1. CASE task'[k] = task[k]
      <4>1. task[k].order \in Order /\ task[k].order # o
        BY <1>1, <2>1, <2>3, <3>1 DEF Working
      <4> QED
        BY <2>2, <2>3, <3>1, <4>1 DEF Rated
    <3>2. CASE task'[k] # task[k]
      <4>1. task'[k] = Reward(o, units'[o])
        BY <1>2, <2>1, <3>2
      <4> QED
        BY <4>1 DEF Reward
    <3> QED
      BY <3>1, <3>2
  <2> QED
    BY <2>3 DEF Rated
<1>7. ASSUME NEW l \in Listener, NEW c \in Character, Grant(l, c) \/ GrantFails(l, c)
      PROVE  Rated'
  <2>1. /\ UNCHANGED units
        /\ task' = [task EXCEPT ![l] = Past(task[l], c)]
        /\ task[l].at \in {"practise", "reward"}
    BY <1>7 DEF Grant, GrantFails, Owes, db
  <2>2. task'[l] = Past(task[l], c) /\ task[l] \in Task
    BY <1>2, <2>1
  <2>3. \/ task'[l].at # "reward"
        \/ /\ task[l].at = "reward" /\ task'[l].order = task[l].order
           /\ \A d \in Character : task'[l].owed[d] \in {0, task[l].owed[d]}
    BY <2>1, <2>2 DEF Past, Task, Idle
  <2>4. \A k \in Listener : k # l => task'[k] = task[k]
    BY <1>2, <2>1
  <2> QED
    BY <1>3, <2>1, <2>3, <2>4
<1>8. ASSUME NEW l \in Listener,
             \/ Announce(l) \/ Finish(l)
             \/ \E d \in Order : Unlock(l, d) \/ UnlockFails(l, d)
      PROVE  Rated'
  <2>1. UNCHANGED units /\ \A k \in Listener : task'[k] = task[k] \/ task'[k].at # "reward"
    <3>1. CASE Announce(l)
      BY <1>2, <3>1 DEF Announce, db, Task
    <3>2. CASE Finish(l)
      BY <1>2, <3>2 DEF Finish, db, Idle
    <3>3. ASSUME NEW d \in Order, Unlock(l, d) \/ UnlockFails(l, d)
          PROVE  UNCHANGED units /\ \A k \in Listener : task'[k] = task[k] \/ task'[k].at # "reward"
      BY <1>2, <3>3 DEF Unlock, UnlockFails, Without, db, Task
    <3> QED
      BY <1>8, <3>1, <3>2, <3>3
  <2> QED
    BY <1>3, <2>1
<1> QED
  BY Steps, <1>4, <1>5, <1>6, <1>7, <1>8

LEMMA Worth ==
  /\ \A p, u \in Nat : p * u * XpPerUnit \in Nat
  /\ \A u \in Nat : 0 * u * XpPerUnit = 0 /\ 1 * u * XpPerUnit = u * XpPerUnit
  BY EconomyAssumption

\* What a character earned changes by what one order pays for, if it pays.
LEMMA EarnedChange ==
  ASSUME TypeOK, TypeOK', NEW o \in Order, NEW c \in Character, NEW n \in Int,
         \A x \in Order :
           paid'[x][c] * units'[x][c] * XpPerUnit
             = paid[x][c] * units[x][c] * XpPerUnit + IF x = o THEN n ELSE 0
  PROVE  Earned(c)' = Earned(c) + n
<1> DEFINE F == [x \in Order |-> paid[x][c] * units[x][c] * XpPerUnit]
           G == [x \in Order |-> paid'[x][c] * units'[x][c] * XpPerUnit]
<1>1. F \in [Order -> Int] /\ G \in [Order -> Int]
  <2>1. \A x \in Order : /\ paid[x][c] \in Nat /\ units[x][c] \in Nat
                         /\ paid'[x][c] \in Nat /\ units'[x][c] \in Nat
    BY DEF TypeOK
  <2>2. \A x \in Order : F[x] \in Int /\ G[x] \in Int
    BY <2>1, Worth
  <2> QED
    BY <2>2
<1>2. \A x \in Order : G[x] = F[x] + IF x = o THEN n ELSE 0
  OBVIOUS
<1>3. Earned(c) = SumFunction(F) /\ Earned(c)' = SumFunction(G)
  BY DEF Earned
<1> HIDE DEF F, G
<1>4. (\A x \in Order : x # o => G[x] = F[x]) /\ G[o] - F[o] = n
  BY <1>1, <1>2
<1>5. SumFunction(G) = SumFunction(F) + (G[o] - F[o])
  BY ONLY <1>1, <1>4, OrderIsFinite, SumChanged
<1> QED
  BY ONLY <1>3, <1>4, <1>5

LEMMA EarnedStep ==
  ASSUME IInv, Rated, SkillIsEarned, [Next]_vars
  PROVE  SkillIsEarned'
<1>1. /\ TypeOK /\ TypeOK' /\ Working /\ Owing /\ PaidOnce
      /\ \A c \in Character : skill["building"][c] = Earned(c)
  BY StepType DEF IInv, SkillIsEarned, Earned
<1>2. SUFFICES \A c \in Character : skill'["building"][c] = Earned(c)'
  BY DEF SkillIsEarned, Earned
<1>3. /\ skill \in [Skill -> [Character -> Nat]] /\ "building" \in Skill
      /\ paid \in [Order -> [Character -> Nat]] /\ units \in [Order -> [Character -> Nat]]
      /\ units' \in [Order -> [Character -> Nat]] /\ task \in [Listener -> Task]
  BY <1>1 DEF TypeOK, Skill
<1>4. CASE UNCHANGED <<units, skill, paid>>
  BY <1>1, <1>4 DEF Earned
<1>5. CASE UNCHANGED vars \/ Seed \/ SeedFails \/ Crash
  BY <1>4, <1>5 DEF vars, Seed, SeedFails, Crash, db, history
<1>6. ASSUME NEW l \in Listener,
             \/ \E c \in Character, i \in Item :
                  \/ Gather(l, c, i)
                  \/ \E q \in Asked : Deposit(l, c, i, q) \/ Withdraw(l, c, i, q)
             \/ \E c \in Character : GrantFails(l, c)
             \/ Announce(l) \/ Finish(l)
             \/ \E d \in Order : Unlock(l, d) \/ UnlockFails(l, d)
      PROVE  \A d \in Character : skill'["building"][d] = Earned(d)'
  BY <1>4, <1>6 DEF Gather, Deposit, Withdraw, GrantFails, Announce, Finish,
                    Unlock, UnlockFails, db, history
<1>7. ASSUME NEW l \in Listener, NEW c \in Character, NEW o \in Order,
             NEW i \in Item, NEW q \in Asked, Contribute(l, c, o, i, q)
      PROVE  \A d \in Character : skill'["building"][d] = Earned(d)'
  <2>1. state[o] = "open" /\ skill' = skill /\ paid' = paid
    BY <1>7 DEF Contribute, Accepts, history
  <2>2. \A x \in Order : x # o => units'[x] = units[x]
    BY <1>1, <1>7, Contribution
  <2>3. \A d \in Character : paid[o][d] = 0
    BY <1>1, <1>3, <2>1 DEF PaidOnce
  <2>4. ASSUME NEW d \in Character, NEW x \in Order
        PROVE  paid'[x][d] * units'[x][d] * XpPerUnit = paid[x][d] * units[x][d] * XpPerUnit
    <3>1. CASE x = o
      <4>1. units'[o][d] \in Nat /\ units[o][d] \in Nat
        BY <1>3
      <4>2. 0 * units'[o][d] * XpPerUnit = 0 /\ 0 * units[o][d] * XpPerUnit = 0
        BY <4>1, Worth
      <4> QED
        BY <2>1, <2>3, <3>1, <4>2
    <3>2. CASE x # o
      BY <2>1, <2>2, <3>2
    <3> QED
      BY <3>1, <3>2
  <2>5. \A d \in Character : Earned(d)' = Earned(d)
    BY <2>4 DEF Earned
  <2> QED
    BY <1>1, <2>1, <2>5
<1>8. ASSUME NEW l \in Listener, NEW c \in Character, Grant(l, c)
      PROVE  \A d \in Character : skill'["building"][d] = Earned(d)'
  <2>1. /\ UNCHANGED units
        /\ skill' = Adjusted(skill, Trained(task[l]), c, task[l].owed[c])
        /\ task[l].at \in {"practise", "reward"} /\ task[l].owed[c] > 0
        /\ paid' = IF task[l].at = "reward" THEN Adjusted(paid, task[l].order, c, 1)
                                            ELSE paid
    BY <1>8 DEF Grant, Owes
  <2>2. CASE task[l].at = "practise"
    <3>1. paid' = paid /\ skill'["building"] = skill["building"]
      BY <1>3, <2>1, <2>2 DEF Trained, Adjusted
    <3> QED
      BY <1>1, <2>1, <3>1 DEF Earned
  <2>3. CASE task[l].at = "reward"
    <3> DEFINE o == task[l].order
               xp == units[o][c] * XpPerUnit
    <3>1. o \in Order /\ paid[o][c] = 0 /\ task[l].owed[c] = xp
      BY <1>1, <2>1, <2>3 DEF Working, Owing, Rated
    <3>2. /\ paid'[o][c] = 1
          /\ \A x \in Order, d \in Character : x # o \/ d # c => paid'[x][d] = paid[x][d]
      BY <1>3, <2>1, <2>3, <3>1 DEF Adjusted
    <3>3. /\ skill'["building"][c] = skill["building"][c] + xp
          /\ \A d \in Character : d # c => skill'["building"][d] = skill["building"][d]
      <4>1. skill' = Adjusted(skill, "building", c, xp)
        BY <2>1, <2>3, <3>1 DEF Trained
      <4> HIDE DEF xp
      <4> QED
        BY <1>3, <4>1 DEF Adjusted
    <3>4. units[o][c] \in Nat /\ xp \in Nat
      BY <1>3, <3>1, EconomyAssumption, Product
    <3>5. Earned(c)' = Earned(c) + xp
      <4>1. ASSUME NEW x \in Order
            PROVE  paid'[x][c] * units'[x][c] * XpPerUnit
                     = paid[x][c] * units[x][c] * XpPerUnit + IF x = o THEN xp ELSE 0
        <5>1. CASE x = o
          <6>1. 0 * units[o][c] * XpPerUnit = 0 /\ 1 * units[o][c] * XpPerUnit = xp
            BY <3>4, Worth
          <6> QED
            BY <2>1, <3>1, <3>2, <3>4, <5>1, <6>1
        <5>2. CASE x # o
          <6>1. paid[x][c] * units[x][c] * XpPerUnit \in Nat
            BY <1>3, Worth
          <6> QED
            BY <2>1, <3>2, <5>2, <6>1
        <5> QED
          BY <5>1, <5>2
      <4> HIDE DEF o, xp
      <4> QED
        BY <1>1, <3>1, <3>4, <4>1, EarnedChange
    <3>6. \A d \in Character : d # c => Earned(d)' = Earned(d)
      BY <2>1, <3>2 DEF Earned
    <3> QED
      BY <1>1, <3>3, <3>5, <3>6
  <2> QED
    BY <2>1, <2>2, <2>3
<1> QED
  BY Steps, <1>5, <1>6, <1>7, <1>8

\* A character's building skill is what its orders paid it, each for the whole of
\* its final share: late, failed or interrupted payments never pay a stale share,
\* or the same one twice.
THEOREM SkillWasEarned == Spec => []SkillIsEarned
<1>1. Init => Rated /\ SkillIsEarned
  <2> SUFFICES ASSUME Init PROVE Rated /\ SkillIsEarned
    OBVIOUS
  <2>1. Rated
    BY DEF Init, Rated, Idle
  <2>2. ASSUME NEW c \in Character PROVE skill["building"][c] = Earned(c)
    <3> DEFINE F == [o \in Order |-> paid[o][c] * units[o][c] * XpPerUnit]
    <3>1. \A o \in Order : paid[o][c] = 0 /\ units[o][c] = 0
      BY DEF Init, Nobody
    <3>2. F \in [Order -> Int] /\ \A o \in Order : F[o] = 0
      BY <3>1, Worth
    <3>3. Earned(c) = SumFunction(F)
      BY DEF Earned
    <3> HIDE DEF F
    <3>4. SumFunction(F) = 0
      BY ONLY <3>2, OrderIsFinite, SumOfZeros
    <3>5. skill["building"][c] = 0
      BY DEF Init, Skill, Nobody
    <3> QED
      BY <3>3, <3>4, <3>5
  <2> QED
    BY <2>1, <2>2 DEF SkillIsEarned, Earned
<1> QED
  BY <1>1, Invariance, RatedStep, EarnedStep, PTL DEF Spec
============================================================================
