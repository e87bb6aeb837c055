----------------------------- MODULE BuildTree -----------------------------
(***************************************************************************)
(* What the build orders promise their players, with no listener, crash or *)
(* error in sight: an order is funded while it is open and completed by    *)
(* the contribution that meets its last need, an order is unlocked by the  *)
(* completion of its prerequisite, and every contributor of a completed    *)
(* order is paid at most once. The funding of an order is over when it is  *)
(* completed, so what a contributor is paid for no longer changes.         *)
(***************************************************************************)
EXTENDS Naturals

CONSTANTS Order, Contributor, Item, Cost, Prereq, NoOrder

VARIABLES
  stage,  \* absent, locked, open or completed
  need,   \* units of each item an order is still short of
  share,  \* units each contributor put into an order
  paid    \* payouts of an order to a contributor

board == <<stage, need, share, paid>>

Init ==
  /\ stage = [o \in Order |-> "absent"]
  /\ need = Cost
  /\ share = [o \in Order |-> [c \in Contributor |-> 0]]
  /\ paid = share

Post(o) ==
  /\ stage[o] = "absent"
  /\ stage' = [stage EXCEPT ![o] = IF Prereq[o] = NoOrder THEN "open" ELSE "locked"]
  /\ UNCHANGED <<need, share, paid>>

Open(o) ==
  /\ stage[o] = "locked" /\ stage[Prereq[o]] = "completed"
  /\ stage' = [stage EXCEPT ![o] = "open"]
  /\ UNCHANGED <<need, share, paid>>

Fund(o, c, i) ==
  /\ stage[o] = "open"
  /\ \E n \in 1 .. need[o][i] :
       /\ need' = [need EXCEPT ![o][i] = @ - n]
       /\ share' = [share EXCEPT ![o][c] = @ + n]
  /\ stage' = [stage EXCEPT ![o] =
                 IF \A j \in Item : need'[o][j] = 0 THEN "completed" ELSE "open"]
  /\ UNCHANGED paid

Pay(o, c) ==
  /\ stage[o] = "completed" /\ share[o][c] > 0 /\ paid[o][c] = 0
  /\ paid' = [paid EXCEPT ![o][c] = 1]
  /\ UNCHANGED <<stage, need, share>>

Next == \E o \in Order :
  \/ Post(o) \/ Open(o)
  \/ \E c \in Contributor : Pay(o, c) \/ \E i \in Item : Fund(o, c, i)

Spec == Init /\ [][Next]_board
============================================================================
