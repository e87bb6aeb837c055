--------------------------- MODULE PlotRentProofs ---------------------------
(***************************************************************************)
(* The life of a plot, proved for any pool of plots, any characters and    *)
(* any periods: the invariant that the claim's idempotence and the safety  *)
(* of a paid plot rest on, and the seeding of the pool.                    *)
(*                                                                         *)
(* OnePlotEach is not inductive alone. A claim looks for a plot that is    *)
(* ACTIVE or LAPSED and owned, while the property is about owners only:    *)
(* HeldIsDue says that the two agree. PaidIsKept needs the other half of   *)
(* HeldIsDue, that the due date is the last payment's.                     *)
(***************************************************************************)
EXTENDS PlotRent, TLAPS

\* No rent is paid through later than the moment, so that every payment counts
\* from the moment it is made.
PaidSoFar == \A p \in Plot : row[p].paid # Null => row[p].paid <= now

\* An owned plot is active or lapsed, and due a period after it was last paid for,
\* however far ahead it was paid before.
HeldIsDue == \A p \in Plot :
  row[p].owner # Null =>
    /\ row[p].state \in {"active", "lapsed"}
    /\ row[p].due # Null /\ lastPaid[p] # Null /\ row[p].due = lastPaid[p] + Period

IInv == TypeOK /\ PaidSoFar /\ HeldIsDue /\ OnePlotEach

----------------------------------------------------------------------------
\* What the operations make of a row.

\* The fields of a record of the type.
LEMMA RowFields ==
  ASSUME NEW r \in Row
  PROVE  /\ r.owner \in Character \cup {Null}
         /\ r.paid \in Day /\ r.due \in Day /\ r.state \in States
BY DEF Row

\* A renewed row keeps its owner and is due a period from now.
LEMMA RenewedRow ==
  ASSUME NEW r \in Row, now \in Nat, r.paid # Null => r.paid <= now
  PROVE  /\ Renewed(r) \in Row
         /\ Renewed(r).owner = r.owner
         /\ Renewed(r).state = "active"
         /\ Renewed(r).paid = now
         /\ Renewed(r).due = now + Period
<1>1. Base(r) = now
  BY RowFields DEF Base, Later, Day
<1>2. now \in Day /\ now + Period \in Day /\ "active" \in States
  BY RentAssumption DEF Day, States
<1>3. Renewed(r) = [r EXCEPT !.paid = now, !.due = now + Period, !.state = "active"]
  BY <1>1 DEF Renewed
<1>4. QED BY <1>2, <1>3 DEF Row

\* A tick leaves a row, marks it lapsed, or clears it when it was lapsed and the
\* grace window is over.
LEMMA TickedRow ==
  ASSUME NEW r \in Row
  PROVE  /\ Ticked(r) \in Row
         /\ Ticked(r).paid \in {r.paid, Null}
         /\ \/ Ticked(r) = r
            \/ /\ Ticked(r).owner = r.owner /\ Ticked(r).due = r.due
               /\ Ticked(r).state = "lapsed"
            \/ /\ Ticked(r).owner = Null
               /\ r.state = "lapsed" /\ r.due # Null /\ now > r.due + Grace
<1>1. CASE r.state = "active" /\ Overdue(r, 0)
  BY <1>1, "lapsed" \in States DEF Ticked, Row, States
<1>2. CASE r.state = "lapsed" /\ Overdue(r, Grace)
  <2>1. Ticked(r) = [Unowned EXCEPT !.state = "reclaimed"]
    BY <1>2 DEF Ticked
  <2>2. Ticked(r) = [owner |-> Null, paid |-> Null, due |-> Null, state |-> "reclaimed"]
    BY <2>1 DEF Unowned
  <2>3. QED BY <1>2, <2>2 DEF Overdue, Row, Day, States
<1>3. CASE ~(r.state = "active" /\ Overdue(r, 0)) /\ ~(r.state = "lapsed" /\ Overdue(r, Grace))
  BY <1>3 DEF Ticked
<1>4. QED BY <1>1, <1>2, <1>3
----------------------------------------------------------------------------
\* The invariant.

LEMMA InvInit == Init => IInv
<1> SUFFICES ASSUME Init PROVE IInv
  OBVIOUS
<1>1. TypeOK
  <2>1. Unowned \in Row
    BY DEF Unowned, Row, Day, States
  <2>2. boot \in 0 .. Len(Starter) + 1
    BY RentAssumption DEF Init
  <2>3. QED BY <2>1, <2>2 DEF TypeOK, Init, Day
<1>2. \A p \in Plot : row[p].owner = Null /\ row[p].paid = Null
  BY DEF Init, Unowned
<1>3. QED BY <1>1, <1>2 DEF IInv, PaidSoFar, HeldIsDue, OnePlotEach

\* A step that leaves the rows and the payments alone.
LEMMA InvIdle ==
  ASSUME IInv, TypeOK', UNCHANGED <<row, lastPaid>>, now' >= now
  PROVE  IInv'
<1>1. PaidSoFar'
  <2> SUFFICES ASSUME NEW p \in Plot, row[p].paid # Null PROVE row[p].paid <= now'
    BY DEF PaidSoFar
  <2>1. row[p].paid \in Nat /\ row[p].paid <= now
    BY RowFields DEF IInv, TypeOK, PaidSoFar, Day
  <2>2. QED BY <2>1 DEF IInv, TypeOK
<1>2. QED BY <1>1 DEF IInv, HeldIsDue, OnePlotEach

LEMMA InvClaim ==
  ASSUME IInv, NEW c \in Character, NEW d \in District, Claim(c, d)
  PROVE  IInv'
<1>1. PICK p \in Free(d) : /\ row' = [row EXCEPT ![p] = ClaimedBy(c)]
                           /\ lastPaid' = [lastPaid EXCEPT ![p] = now]
  BY DEF Claim
<1>2. p \in Plot /\ row[p].owner = Null
  BY <1>1 DEF Free
<1>3. \A q \in Plot : row'[q] = IF q = p THEN ClaimedBy(c) ELSE row[q]
  BY <1>1, <1>2 DEF IInv, TypeOK
<1>4. \A q \in Plot : lastPaid'[q] = IF q = p THEN now ELSE lastPaid[q]
  BY <1>1, <1>2 DEF IInv, TypeOK
<1>5. /\ ClaimedBy(c) \in Row
      /\ ClaimedBy(c).owner = c /\ ClaimedBy(c).paid = now
      /\ ClaimedBy(c).due = now + Period /\ ClaimedBy(c).state = "active"
  BY RentAssumption DEF ClaimedBy, Row, Day, States, IInv, TypeOK
<1>6. now' = now /\ now \in Nat /\ now + Period \in Nat
  BY RentAssumption DEF Claim, IInv, TypeOK
<1>7. TypeOK'
  BY <1>1, <1>2, <1>5, <1>6 DEF IInv, TypeOK, Claim, Day
<1>8. PaidSoFar'
  BY <1>3, <1>5, <1>6 DEF IInv, PaidSoFar
<1>9. HeldIsDue'
  BY <1>3, <1>4, <1>5, <1>6, RentAssumption DEF IInv, HeldIsDue
<1>10. \A q \in Plot : row[q].owner # c
  <2>1. c # Null
    BY RentAssumption
  <2>2. QED BY <2>1 DEF Claim, Holds, IInv, HeldIsDue
<1>11. OnePlotEach'
  BY <1>3, <1>5, <1>10 DEF IInv, OnePlotEach
<1>12. QED BY <1>7, <1>8, <1>9, <1>11 DEF IInv

LEMMA InvPay ==
  ASSUME IInv, NEW p \in Plot, Pay(p)
  PROVE  IInv'
<1>1. \A q \in Plot : row'[q] = IF q = p THEN Renewed(row[p]) ELSE row[q]
  BY DEF Pay, IInv, TypeOK
<1>2. \A q \in Plot : lastPaid'[q] = IF q = p THEN now ELSE lastPaid[q]
  BY DEF Pay, IInv, TypeOK
<1>3. /\ row[p] \in Row /\ now \in Nat /\ now' = now
      /\ row[p].paid # Null => row[p].paid <= now
  BY DEF Pay, IInv, TypeOK, PaidSoFar
<1>4. /\ Renewed(row[p]) \in Row
      /\ Renewed(row[p]).owner = row[p].owner
      /\ Renewed(row[p]).state = "active"
      /\ Renewed(row[p]).paid = now
      /\ Renewed(row[p]).due = now + Period
  BY <1>3, RenewedRow
<1>5. now # Null /\ now + Period # Null
  BY <1>3, RentAssumption
<1>6. TypeOK'
  BY <1>3, <1>4 DEF IInv, TypeOK, Pay, Day
<1>7. PaidSoFar'
  BY <1>1, <1>3, <1>4 DEF IInv, PaidSoFar
<1>8. HeldIsDue'
  BY <1>1, <1>2, <1>3, <1>4, <1>5 DEF IInv, HeldIsDue
<1>9. \A q \in Plot : row'[q].owner = row[q].owner
  BY <1>1, <1>4
<1>10. OnePlotEach'
  BY <1>9 DEF IInv, OnePlotEach
<1>11. QED BY <1>6, <1>7, <1>8, <1>10 DEF IInv

LEMMA InvTick ==
  ASSUME IInv, NEW p \in Plot, Tick(p)
  PROVE  IInv'
<1>1. \A q \in Plot : row'[q] = IF q = p THEN Ticked(row[p]) ELSE row[q]
  BY DEF Tick, IInv, TypeOK
<1>2. row[p] \in Row /\ now' = now /\ lastPaid' = lastPaid
  BY DEF Tick, IInv, TypeOK
<1>3. /\ Ticked(row[p]) \in Row
      /\ Ticked(row[p]).paid \in {row[p].paid, Null}
      /\ \/ Ticked(row[p]) = row[p]
         \/ /\ Ticked(row[p]).owner = row[p].owner /\ Ticked(row[p]).due = row[p].due
            /\ Ticked(row[p]).state = "lapsed"
         \/ Ticked(row[p]).owner = Null
  BY <1>2, TickedRow
<1>4. TypeOK'
  BY <1>3 DEF IInv, TypeOK, Tick
<1>5. PaidSoFar'
  BY <1>1, <1>2, <1>3 DEF IInv, PaidSoFar
<1>6. HeldIsDue'
  BY <1>1, <1>2, <1>3 DEF IInv, HeldIsDue
<1>7. \A q \in Plot : row'[q].owner \in {row[q].owner, Null}
  BY <1>1, <1>3
<1>8. OnePlotEach'
  BY <1>7 DEF IInv, OnePlotEach
<1>9. QED BY <1>4, <1>5, <1>6, <1>8 DEF IInv

LEMMA InvNext == IInv /\ [Next]_vars => IInv'
<1> SUFFICES ASSUME IInv, [Next]_vars PROVE IInv'
  OBVIOUS
<1> USE RentAssumption DEF IInv, TypeOK
<1>1. CASE CountPool
  <2>1. TypeOK'
    BY <1>1 DEF CountPool
  <2>2. QED BY <1>1, <2>1, InvIdle DEF CountPool
<1>2. CASE Insert
  <2>1. Starter[boot] \in Plot
    BY <1>2 DEF Insert, Plot, Range
  <2>2. TypeOK'
    BY <1>2, <2>1 DEF Insert
  <2>3. QED BY <1>2, <2>2, InvIdle DEF Insert
<1>3. CASE InsertFails
  <2>1. TypeOK'
    BY <1>3 DEF InsertFails
  <2>2. QED BY <1>3, <2>1, InvIdle DEF InsertFails
<1>4. CASE Restart
  <2>1. TypeOK'
    BY <1>4 DEF Restart
  <2>2. QED BY <1>4, <2>1, InvIdle DEF Restart
<1>5. CASE Pass
  <2>1. TypeOK' /\ now' >= now
    BY <1>5 DEF Pass
  <2>2. QED BY <1>5, <2>1, InvIdle DEF Pass
<1>6. CASE \E c \in Character, d \in District : Claim(c, d)
  BY <1>6, InvClaim
<1>7. CASE \E p \in Plot : Pay(p)
  BY <1>7, InvPay
<1>8. CASE \E p \in Plot : Tick(p)
  BY <1>8, InvTick
<1>9. CASE UNCHANGED vars
  <2>1. TypeOK' /\ now' >= now
    BY <1>9 DEF vars
  <2>2. QED BY <1>9, <2>1, InvIdle DEF vars
<1>10. QED BY <1>1, <1>2, <1>3, <1>4, <1>5, <1>6, <1>7, <1>8, <1>9 DEF Next

\* The invariant holds in every reachable state.
LEMMA Invariant == Spec => []IInv
BY InvInit, InvNext, PTL DEF Spec

----------------------------------------------------------------------------
\* The theorems.

\* The plots, the clock and the boot are of their types in every state, for any
\* pool and any periods.
THEOREM TypeCorrect == Spec => []TypeOK
<1>1. IInv => TypeOK
  BY DEF IInv
<1>2. QED BY <1>1, Invariant, PTL

\* No character ever owns two plots, however many there are and whatever it
\* pays, lets lapse, loses and claims again.
THEOREM NeverTwoPlots == Spec => []OnePlotEach
<1>1. IInv => OnePlotEach
  BY DEF IInv
<1>2. QED BY <1>1, Invariant, PTL

\* A plot that was paid for is not taken from its owner before the period and
\* the grace window are over.
THEOREM NotTakenEarly == Spec => PaidIsKept
<1> DEFINE Kept == \A p \in Plot :
  row[p].owner # Null /\ row'[p].owner # row[p].owner =>
    /\ row'[p].owner = Null
    /\ row[p].state = "lapsed"
    /\ now > lastPaid[p] + Period + Grace
<1>1. IInv /\ [Next]_vars => [Kept]_vars
  <2> SUFFICES ASSUME IInv, Next,
                      NEW p \in Plot, row[p].owner # Null,
                      row'[p].owner # row[p].owner
               PROVE  /\ row'[p].owner = Null
                      /\ row[p].state = "lapsed"
                      /\ now > lastPaid[p] + Period + Grace
    OBVIOUS
  <2>1. CASE CountPool \/ Insert \/ InsertFails \/ Restart \/ Pass
    BY <2>1 DEF CountPool, Insert, InsertFails, Restart, Pass
  <2>2. CASE \E c \in Character, d \in District : Claim(c, d)
    <3>1. PICK c \in Character, d \in District : Claim(c, d)
      BY <2>2
    <3>2. PICK q \in Free(d) : row' = [row EXCEPT ![q] = ClaimedBy(c)]
      BY <3>1 DEF Claim
    <3>3. row[q].owner = Null
      BY <3>2 DEF Free
    <3>4. QED BY <3>2, <3>3 DEF IInv, TypeOK
  <2>3. CASE \E q \in Plot : Pay(q)
    <3>1. PICK q \in Plot : Pay(q)
      BY <2>3
    <3>2. Renewed(row[q]).owner = row[q].owner
      BY <3>1, RenewedRow DEF IInv, TypeOK, PaidSoFar
    <3>3. QED BY <3>1, <3>2 DEF Pay, IInv, TypeOK
  <2>4. CASE \E q \in Plot : Tick(q)
    <3>1. PICK q \in Plot : Tick(q)
      BY <2>4
    <3>2. q = p /\ row'[p] = Ticked(row[p]) /\ row[p] \in Row
      BY <3>1 DEF Tick, IInv, TypeOK
    <3>3. /\ Ticked(row[p]).owner = Null
          /\ row[p].state = "lapsed" /\ now > row[p].due + Grace
      BY <3>2, TickedRow
    <3>4. row[p].due = lastPaid[p] + Period
      BY DEF IInv, HeldIsDue
    <3>5. QED BY <3>2, <3>3, <3>4
  <2>5. QED BY <2>1, <2>2, <2>3, <2>4 DEF Next
<1>2. [][Next]_vars /\ []IInv => [][Kept]_vars
  BY <1>1, PTL
<1>3. QED BY <1>2, Invariant, PTL DEF Spec, PaidIsKept
----------------------------------------------------------------------------
\* The seeding.

\* While the pool is being seeded, what is still to be inserted is absent: a
\* pool that holds anything is not seeded at all.
SeedInv ==
  /\ TypeOK /\ SeededOnce
  /\ boot \in 1 .. Len(Starter) =>
       \A k \in boot .. Len(Starter) : copies[Starter[k]] = 0

\* No row of the pool is inserted twice, whatever dies and fails.
THEOREM SeededOnlyOnce == Spec => []SeededOnce
<1>1. Init => SeedInv
  <2>1. Init => TypeOK
    BY InvInit DEF IInv
  <2>2. Init => SeededOnce /\ boot \notin 1 .. Len(Starter)
    BY DEF Init, SeededOnce
  <2>3. QED BY <2>1, <2>2 DEF SeedInv
<1>2. SeedInv /\ TypeOK' /\ [Next]_vars => SeedInv'
  <2> SUFFICES ASSUME SeedInv, TypeOK', [Next]_vars PROVE SeedInv'
    OBVIOUS
  <2>1. Len(Starter) \in Nat /\ \A k \in 1 .. Len(Starter) : Starter[k] \in Plot
    BY RentAssumption DEF Plot, Range
  <2>2. CASE UNCHANGED copies /\ boot' \notin 1 .. Len(Starter)
    BY <2>2 DEF SeedInv, SeededOnce
  <2>3. CASE CountPool
    <3>1. CASE \A p \in Plot : ~Exists(p)
      <4>1. \A p \in Plot : copies'[p] = 0
        BY <2>3, <3>1 DEF CountPool, Exists, SeedInv, TypeOK
      <4>2. boot' = 1
        BY <2>3, <3>1 DEF CountPool
      <4>3. QED BY <2>1, <4>1, <4>2 DEF SeedInv, SeededOnce
    <3>2. CASE ~(\A p \in Plot : ~Exists(p))
      BY <2>1, <2>2, <2>3, <3>2 DEF CountPool
    <3>3. QED BY <3>1, <3>2
  <2>4. CASE Insert
    <3>1. /\ boot \in 1 .. Len(Starter) /\ boot' = boot + 1
          /\ copies' = [copies EXCEPT ![Starter[boot]] = @ + 1]
      BY <2>4 DEF Insert
    <3>2. Starter[boot] \in Plot /\ copies[Starter[boot]] = 0
      BY <2>1, <3>1 DEF SeedInv
    <3>3. \A p \in Plot : copies'[p] = IF p = Starter[boot] THEN 1 ELSE copies[p]
      BY <3>1, <3>2 DEF SeedInv, TypeOK
    <3>4. \A k \in boot + 1 .. Len(Starter) :
            Starter[k] \in Plot /\ Starter[k] # Starter[boot] /\ copies[Starter[k]] = 0
      BY <2>1, <3>1, RentAssumption DEF SeedInv
    <3>5. \A k \in boot' .. Len(Starter) : copies'[Starter[k]] = 0
      BY <3>1, <3>3, <3>4
    <3>6. SeededOnce'
      BY <3>3 DEF SeedInv, SeededOnce
    <3>7. QED BY <3>5, <3>6 DEF SeedInv
  <2>5. CASE InsertFails
    BY <2>1, <2>2, <2>5 DEF InsertFails
  <2>6. CASE Restart
    BY <2>2, <2>6 DEF Restart
  <2>7. CASE UNCHANGED <<copies, boot>>
    BY <2>7 DEF SeedInv, SeededOnce
  <2>8. CASE \/ Pass
             \/ \E c \in Character, d \in District : Claim(c, d)
             \/ \E p \in Plot : Pay(p) \/ Tick(p)
    BY <2>7, <2>8 DEF Pass, Claim, Pay, Tick
  <2>9. QED BY <2>3, <2>4, <2>5, <2>6, <2>7, <2>8 DEF Next, vars
<1>3. SeedInv => SeededOnce
  BY DEF SeedInv
<1>4. QED BY <1>1, <1>2, <1>3, TypeCorrect, PTL DEF Spec
============================================================================
