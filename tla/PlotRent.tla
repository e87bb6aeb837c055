------------------------------ MODULE PlotRent ------------------------------
(***************************************************************************)
(* Rented land: the pool of starter plots that the gateway seeds, and the  *)
(* life of a plot row - claimed, paid for, lapsed, reclaimed, claimed      *)
(* again - under the operations of the persistence layer. Each operation   *)
(* is one transaction; their order, and the moment each happens, is        *)
(* anybody's: a session claims at login, a payment may name any plot, and  *)
(* the rent tick comes to a plot late or not at all.                       *)
(*                                                                         *)
(* Seeding alone takes several statements: the gateway may die, or fail,   *)
(* between two inserts.                                                    *)
(***************************************************************************)
EXTENDS Integers, Sequences, Functions

CONSTANTS
  Character,
  Starter,        \* the authored starter plots in the order they are inserted
  DistrictOf,     \* the district of each
  Rank,           \* their order on the grid: by row, then by column
  Null,           \* the SQL NULL
  Period, Grace,  \* rent_period_secs, grace_secs
  MaxNow, MaxCrashes  \* bounds: the last day, the number of restarts

Plot == Range(Starter)
District == Range(DistrictOf)

ASSUME RentAssumption ==
  /\ Starter \in Seq(Plot)
  /\ \A i, j \in 1 .. Len(Starter) : Starter[i] = Starter[j] => i = j
  /\ DistrictOf \in [Plot -> District]
  /\ Rank \in [Plot -> Nat]
  /\ Null \notin Character /\ Null \notin Nat
  /\ Period \in Nat \ {0} /\ Grace \in Nat
  /\ MaxNow \in Nat /\ MaxCrashes \in Nat

VARIABLES
  row,       \* [Plot -> Row], the plot's row
  copies,    \* [Plot -> Nat], how many rows were inserted for the plot's cell
  now,       \* the caller's clock
  boot,      \* 0 before the pool is looked at, else the next plot to insert
  lastPaid,  \* history: when the plot was claimed or last paid for
  crashes

vars == <<row, copies, now, boot, lastPaid, crashes>>

Day == Nat \cup {Null}
States == {"unowned", "active", "lapsed", "reclaimed"}
Row == [owner : Character \cup {Null}, paid : Day, due : Day, state : States]

Unowned == [owner |-> Null, paid |-> Null, due |-> Null, state |-> "unowned"]

Up == boot > Len(Starter)

Exists(p) == copies[p] > 0

Later(a, b) == IF a >= b THEN a ELSE b

Init ==
  /\ row = [p \in Plot |-> Unowned]
  /\ copies = [p \in Plot |-> 0]
  /\ now = 0
  /\ boot = 0
  /\ lastPaid = [p \in Plot |-> Null]
  /\ crashes = 0

----------------------------------------------------------------------------
\* Boot: plots are seeded, one insert each, when the pool is empty.

\* Slip: the pool is not counted first.
AlwaysSeed ==
  /\ boot = 0
  /\ boot' = 1
  /\ UNCHANGED <<row, copies, now, lastPaid, crashes>>

CountPool ==
  /\ boot = 0
  /\ boot' = IF \A p \in Plot : ~Exists(p) THEN 1 ELSE Len(Starter) + 1
  /\ UNCHANGED <<row, copies, now, lastPaid, crashes>>

Insert ==
  /\ boot \in 1 .. Len(Starter)
  /\ copies' = [copies EXCEPT ![Starter[boot]] = @ + 1]
  /\ boot' = boot + 1
  /\ UNCHANGED <<row, now, lastPaid, crashes>>

\* A failed insert ends the seeding with a warning, and the gateway starts.
InsertFails ==
  /\ boot \in 1 .. Len(Starter) /\ crashes < MaxCrashes
  /\ crashes' = crashes + 1
  /\ boot' = Len(Starter) + 1
  /\ UNCHANGED <<row, copies, now, lastPaid>>

\* The gateway dies and is started again; the rows stay.
Restart ==
  /\ crashes < MaxCrashes
  /\ crashes' = crashes + 1
  /\ boot' = 0
  /\ UNCHANGED <<row, copies, now, lastPaid>>

----------------------------------------------------------------------------
\* claim_plot.

\* Slip: a plot whose rent lapsed does not count as held.
HoldsActive(c, p) == row[p].owner = c /\ row[p].state = "active"

\* The plot a character holds: an active or a lapsed one (plot_for_character).
Holds(c, p) == row[p].owner = c /\ row[p].state \in {"active", "lapsed"}

\* The pool: whatever its state, a plot without an owner is free.
Free(d) == {p \in Plot : Exists(p) /\ DistrictOf[p] = d /\ row[p].owner = Null}

ClaimedBy(c) == [owner |-> c, paid |-> now, due |-> now + Period, state |-> "active"]

\* A character that holds a plot is given that one again: nothing changes. An
\* empty pool changes nothing either. Else the first free plot is the character's.
Claim(c, d) ==
  /\ Up
  /\ \A p \in Plot : ~Holds(c, p)
  /\ \E p \in Free(d) :
       /\ \A q \in Free(d) : Rank[p] <= Rank[q]
       /\ row' = [row EXCEPT ![p] = ClaimedBy(c)]
       /\ lastPaid' = [lastPaid EXCEPT ![p] = now]
  /\ UNCHANGED <<copies, now, boot, crashes>>

----------------------------------------------------------------------------
\* pay_rent, on any plot, by anyone: the owner is neither asked nor changed.

\* The later of the moment and the date the rent is paid through, which is the
\* moment of the last payment: a period is added to it and not to the due date.
Base(r) == Later(IF r.paid = Null THEN now ELSE r.paid, now)

Renewed(r) == [r EXCEPT !.paid = Base(r), !.due = Base(r) + Period, !.state = "active"]

Pay(p) ==
  /\ Up /\ Exists(p)
  /\ row' = [row EXCEPT ![p] = Renewed(@)]
  /\ lastPaid' = [lastPaid EXCEPT ![p] = now]
  /\ UNCHANGED <<copies, now, boot, crashes>>

----------------------------------------------------------------------------
\* apply_rent_tick: one transition of one plot at most.

\* A plot without a due date is never overdue (i64::MAX).
Overdue(r, grace) == r.due # Null /\ now > r.due + grace

\* Slip: a plot that lapses is taken at once, the grace window is not waited for.
TakenAtOnce(r) ==
  IF r.state \in {"active", "lapsed"} /\ Overdue(r, 0)
  THEN [Unowned EXCEPT !.state = "reclaimed"]
  ELSE r

Ticked(r) ==
  IF r.state = "active" /\ Overdue(r, 0) THEN [r EXCEPT !.state = "lapsed"]
  ELSE IF r.state = "lapsed" /\ Overdue(r, Grace)
  THEN [Unowned EXCEPT !.state = "reclaimed"]
  ELSE r

Tick(p) ==
  /\ Up /\ Exists(p)
  /\ row' = [row EXCEPT ![p] = Ticked(@)]
  /\ UNCHANGED <<copies, now, boot, lastPaid, crashes>>

Pass ==
  /\ now < MaxNow
  /\ now' = now + 1
  /\ UNCHANGED <<row, copies, boot, lastPaid, crashes>>

----------------------------------------------------------------------------

Next ==
  \/ CountPool \/ Insert \/ InsertFails \/ Restart \/ Pass
  \/ \E c \in Character, d \in District : Claim(c, d)
  \/ \E p \in Plot : Pay(p) \/ Tick(p)

Spec == Init /\ [][Next]_vars

----------------------------------------------------------------------------

\* Every variable is of its type.
TypeOK ==
  /\ row \in [Plot -> Row]
  /\ copies \in [Plot -> Nat]
  /\ now \in Nat
  /\ boot \in 0 .. Len(Starter) + 1
  /\ lastPaid \in [Plot -> Day]
  /\ crashes \in Nat

\* Whatever dies or fails while the pool is seeded, no boot inserts the row of a
\* plot a second time (seed_capital: "safe to call on every boot").
SeededOnce == \A p \in Plot : copies[p] <= 1

\* A character never owns two plots, however it pays, lapses, loses and claims
\* again (claim_plot: "a reconnect can't hand out a second plot").
OnePlotEach == \A p, q \in Plot :
  row[p].owner # Null /\ row[p].owner = row[q].owner => p = q

\* A plot leaves its owner only when it was seen lapsed before and nobody has
\* paid for it for a period and the grace window, counted from the last payment
\* (not from the date paid ahead to: see PaidAheadStacks); and then to the pool,
\* never straight to another character.
PaidIsKept == [][\A p \in Plot :
  row[p].owner # Null /\ row'[p].owner # row[p].owner =>
    /\ row'[p].owner = Null
    /\ row[p].state = "lapsed"
    /\ now > lastPaid[p] + Period + Grace
  ]_vars

\* "paying early stacks time rather than losing it" (persistence/mod.rs:793): a
\* payment for an owned plot that is not past due adds a period to what is left.
PaidAheadStacks == [][\A p \in Plot :
  row[p].owner # Null /\ lastPaid'[p] # lastPaid[p] /\ now <= row[p].due =>
    row'[p].due >= row[p].due + Period
  ]_vars
============================================================================
