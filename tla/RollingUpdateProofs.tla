------------------------ MODULE RollingUpdateProofs ------------------------
(***************************************************************************)
(* Types, and that no frame is handled twice, for any players, zones,      *)
(* process runs and operators: also when updates and migrations of one     *)
(* zone run at the same time. If no two updates of one zone do, routes     *)
(* lead to live processes and settled players stay simulated; with one     *)
(* operator, none of their input is lost.                                  *)
(***************************************************************************)
EXTENDS RollingUpdate, TLAPS

Numbers == [Player -> SUBSET FrameNo]
Counts == [Player -> [FrameNo -> Nat]]

----------------------------------------------------------------------------
\* Types.

LEMMA NothingType == Nothing \in Numbers /\ \A p \in Player : Nothing[p] = {}
BY DEF Nothing, Numbers

LEMMA IdleType == Idle \in Task
BY NothingType DEF Idle, Task, Numbers

LEMMA DoType ==
  ASSUME TypeOK, NEW o \in Operator, NEW t \in Task, Do(o, t)
  PROVE  /\ task' \in [Operator -> Task] /\ task'[o] = t
         /\ \A q \in Operator \ {o} : task'[q] = task[q]
BY DEF TypeOK, Do

LEMMA SpawnedType ==
  ASSUME TypeOK, NEW i \in Instance, NEW ps \in SUBSET Player
  PROVE  Spawned(i, ps) \in [Instance -> SUBSET Player]
BY DEF TypeOK, Spawned

LEMMA LeftType ==
  ASSUME TypeOK, NEW i \in Instance, NEW p \in Player
  PROVE  Left(i, p) \in [Instance -> SUBSET Player]
BY DEF TypeOK, Left

LEMMA PlayedType ==
  ASSUME TypeOK, NEW i \in Instance, NEW batch \in Numbers
  PROVE  /\ Played(i, batch) \in Counts
         /\ \A p \in Player, n \in FrameNo :
              Played(i, batch)[p][n] = handled[p][n] \/
              (n \in batch[p] /\ Played(i, batch)[p][n] = handled[p][n] + 1)
BY DEF TypeOK, Played, Counts

LEMMA InitType == Init => TypeOK
BY IdleType, NothingType, UpdateAssumption
   DEF Init, TypeOK, Mark, ProcState, Numbers, FrameNo

LEMMA ClientType ==
  ASSUME TypeOK, NEW p \in Player, Client(p)
  PROVE  TypeOK'
<1> USE DEF TypeOK, gateway, processes, players, history
<1>1. ASSUME NEW z \in Zone, Login(p, z) PROVE TypeOK'
  BY <1>1, SpawnedType DEF Login
<1>2. CASE Logout(p)
  <2>1. clients[p] \in Zone
    BY <1>2 DEF Logout, Online
  <2> QED
    BY <1>2, <2>1, LeftType DEF Logout
<1>3. ASSUME NEW z \in Zone, Cross(p, z) PROVE TypeOK'
  <2> DEFINE there == Spawned(tx[z], {p})
             from == tx[clients[p]]
  <2>1. there \in [Instance -> SUBSET Player]
    BY SpawnedType
  <2>2. ents' = [i \in Instance |-> IF i = from THEN ents[i] \ {p} ELSE there[i]]
    BY <1>3 DEF Cross
  <2> HIDE DEF there, from
  <2>3. ents' \in [Instance -> SUBSET Player]
    BY <2>1, <2>2
  <2> QED
    BY <1>3, <2>3 DEF Cross
<1>4. CASE Frame(p)
  <2>1. clients[p] \in Zone /\ sent[p] + 1 \in FrameNo
    BY <1>4 DEF Frame, Online
  <2>2. sent' \in [Player -> 0 .. MaxFrames]
    BY <1>4, <2>1, UpdateAssumption DEF Frame, FrameNo
  <2>3. CASE mark[clients[p]] = "marking"
    <3> DEFINE z == clients[p]
               n == sent[p] + 1
    <3>1. /\ buffer' = [buffer EXCEPT ![z] = [buffer[z] EXCEPT ![p] = buffer[z][p] \cup {n}]]
          /\ owed' = [owed EXCEPT ![p] = owed[p] \cup {n}]
          /\ UNCHANGED <<handled, tx, mark, child, proc, ents, clients, task, dropped, settled, faults>>
      BY <1>4, <2>3 DEF Frame
    <3>2. z \in Zone /\ n \in FrameNo
      BY <2>1
    <3> HIDE DEF z, n
    <3>3. [buffer[z] EXCEPT ![p] = buffer[z][p] \cup {n}] \in [Player -> SUBSET FrameNo]
      BY <3>2
    <3>4. buffer' \in [Zone -> [Player -> SUBSET FrameNo]] /\ owed' \in [Player -> SUBSET FrameNo]
      BY <3>1, <3>2, <3>3
    <3> QED
      BY <2>2, <3>1, <3>4
  <2>4. CASE mark[clients[p]] # "marking"
    <3>1. [Nothing EXCEPT ![p] = {sent[p] + 1}] \in Numbers
      BY <2>1, NothingType DEF Numbers
    <3>2. handled' \in Counts
      BY <1>4, <2>1, <2>4, <3>1, PlayedType DEF Frame
    <3> QED
      BY <1>4, <2>1, <2>2, <2>4, <3>2 DEF Frame, Counts
  <2> QED
    BY <2>3, <2>4
<1> QED
  BY <1>1, <1>2, <1>3, <1>4 DEF Client

LEMMA CommandType ==
  ASSUME TypeOK, NEW o \in Operator, Command(o) \/ Abort(o)
  PROVE  TypeOK'
<1> USE DEF TypeOK, gateway, processes, players, history
<1>1. ASSUME NEW z \in Zone, Begin(o, z) PROVE TypeOK'
  <2>1. [Idle EXCEPT !.at = "mark", !.zone = z, !.old = tx[z], !.who = Residents(z)] \in Task
    BY IdleType DEF Task, Residents
  <2> QED
    BY <1>1, <2>1, DoType DEF Begin
<1>2. ASSUME NEW z \in Zone, Phase1(o, z) PROVE TypeOK'
  BY <1>2 DEF Phase1, Mark
<1>3. ASSUME NEW z \in Zone, Phase3(o, z) PROVE TypeOK'
  BY <1>3 DEF Phase3, Mark, ProcState
<1>4. ASSUME NEW s \in Zone, NEW t \in Zone, Phase2(o, s, t) PROVE TypeOK'
  <2>1. [Idle EXCEPT !.at = "transfer", !.zone = s, !.to = t, !.who = Residents(s)] \in Task
    BY IdleType DEF Task, Residents
  <2> QED
    BY <1>4, <2>1, DoType DEF Phase2, Mark
<1>5. CASE Abort(o)
  <2>1. faults' \in 0 .. MaxFaults
    BY <1>5, UpdateAssumption DEF Abort
  <2>2. mark' \in [Zone -> Mark]
    BY <1>5 DEF Abort, Mark
  <2> QED
    BY <1>5, <2>1, <2>2, IdleType, DoType DEF Abort
<1> QED
  BY <1>1, <1>2, <1>3, <1>4, <1>5 DEF Command

\* A command that is under way knows its zones and, when it has one, its instance.
Aimed == \A o \in Operator :
  /\ task[o].at # "idle" => task[o].zone \in Zone
  /\ task[o].at \in {"transfer", "join"} => task[o].to \in Zone
  /\ task[o].at \in {"connect", "swap", "replay", "reap"} => task[o].new \in Instance

\* A task whose command is under way stays one with the zones and the instance it
\* has.
LEMMA AimedStep ==
  ASSUME TypeOK, Aimed, NEW o \in Operator, NEW t \in Task, Do(o, t),
         t.at # "idle" => t.zone \in Zone,
         t.at \in {"transfer", "join"} => t.to \in Zone,
         t.at \in {"connect", "swap", "replay", "reap"} => t.new \in Instance
  PROVE  Aimed'
<1> SUFFICES ASSUME NEW q \in Operator
             PROVE  /\ task'[q].at # "idle" => task'[q].zone \in Zone
                    /\ task'[q].at \in {"transfer", "join"} => task'[q].to \in Zone
                    /\ task'[q].at \in {"connect", "swap", "replay", "reap"} => task'[q].new \in Instance
  BY DEF Aimed
<1>1. CASE q = o
  BY <1>1, DoType
<1>2. CASE q # o
  BY <1>2, DoType DEF Aimed
<1> QED
  BY <1>1, <1>2

LEMMA FreshType == (\E i \in Instance : proc[i] = "none") => Fresh \in Instance
BY DEF Fresh

LEMMA UpdateType ==
  ASSUME TypeOK, Aimed, NEW o \in Operator,
         MarkZone(o) \/ Launch(o) \/ Recreate(o) \/ Swap(o) \/ Replay(o) \/ Reap(o)
  PROVE  TypeOK' /\ Aimed'
<1> USE DEF TypeOK, gateway, processes, players, history
<1>0. task[o] \in Task
  OBVIOUS
<1>1. CASE MarkZone(o)
  <2>1. [task[o] EXCEPT !.at = "launch"] \in Task
    BY <1>0 DEF Task
  <2>2. mark' \in [Zone -> Mark]
    BY <1>1 DEF MarkZone, Mark
  <2> QED
    BY <1>1, <2>1, <2>2, <1>0, DoType, AimedStep DEF MarkZone, Aimed, Task
<1>2. CASE Launch(o)
  <2>1. Fresh \in Instance
    BY <1>2, FreshType DEF Launch
  <2>2. [task[o] EXCEPT !.at = "connect", !.new = Fresh] \in Task
    BY <1>0, <2>1 DEF Task
  <2>3. proc' \in [Instance -> ProcState]
    BY <1>2, <2>1 DEF Launch, ProcState
  <2> QED
    BY <1>2, <2>1, <2>2, <2>3, <1>0, DoType, AimedStep DEF Launch, Aimed, Task
<1>3. CASE Recreate(o)
  <2>1. [task[o] EXCEPT !.at = "swap"] \in Task
    BY <1>0 DEF Task
  <2>2. ents' \in [Instance -> SUBSET Player]
    BY <1>3, <1>0, SpawnedType DEF Recreate, Aimed, Task
  <2> QED
    BY <1>3, <2>1, <2>2, <1>0, DoType, AimedStep DEF Recreate, Aimed, Task
<1>4. CASE Swap(o)
  <2>1. task[o].zone \in Zone /\ task[o].new \in Instance
    BY <1>4 DEF Swap, Aimed
  <2>2. [task[o] EXCEPT !.at = "replay", !.hand = buffer[task[o].zone]] \in Task
    BY <1>0, <2>1 DEF Task
  <2>3. /\ tx' \in [Zone -> Instance] /\ mark' \in [Zone -> Mark]
        /\ buffer' \in [Zone -> [Player -> SUBSET FrameNo]]
    BY <1>4, <2>1, NothingType DEF Swap, Mark, Numbers
  <2> QED
    BY <1>4, <2>1, <2>2, <2>3, <1>0, DoType, AimedStep DEF Swap, Aimed, Task
<1>5. CASE Replay(o)
  <2>1. task[o].new \in Instance /\ task[o].hand \in Numbers
    BY <1>5, <1>0 DEF Replay, Aimed, Task, Numbers
  <2>2. [task[o] EXCEPT !.at = "reap", !.hand = Nothing] \in Task
    BY <1>0, NothingType DEF Task, Numbers
  <2>3. handled' \in Counts
    BY <1>5, <2>1, PlayedType DEF Replay
  <2> QED
    BY <1>5, <2>1, <2>2, <2>3, <1>0, DoType, AimedStep DEF Replay, Aimed, Task, Counts
<1>6. CASE Reap(o)
  <2>1. task[o].zone \in Zone /\ task[o].new \in Instance
    BY <1>6 DEF Reap, Aimed
  <2>2. /\ proc' \in [Instance -> ProcState] /\ ents' \in [Instance -> SUBSET Player]
        /\ child' \in [Zone -> Instance \cup {NoInstance}]
    BY <1>6, <2>1 DEF Reap, ProcState
  <2>3. TypeOK'
    BY <1>6, <2>2, IdleType, DoType DEF Reap
  <2>4. Aimed'
    BY <1>6, IdleType, AimedStep DEF Reap, Idle
  <2> QED
    BY <2>3, <2>4
<1> QED
  BY <1>1, <1>2, <1>3, <1>4, <1>5, <1>6

\* What a transfer does with the frames it pops.
LEMMA AttachCounts ==
  ASSUME TypeOK, NEW s \in Zone, NEW t \in Zone, NEW p \in Player,
         handled' = [handled EXCEPT ![p] =
           [n \in FrameNo |-> @[n] + IF proc[tx[t]] = "up" /\ n \in buffer[s][p] THEN 1 ELSE 0]]
  PROVE  /\ handled' \in Counts
         /\ \A q \in Player, n \in FrameNo :
              handled'[q][n] = handled[q][n] \/
              (q = p /\ n \in buffer[s][p] /\ handled'[q][n] = handled[q][n] + 1)
BY DEF TypeOK, Counts

LEMMA TransferType ==
  ASSUME TypeOK, Aimed, NEW o \in Operator,
         (\E p \in Player : Detach(o, p)) \/ Attach(o) \/ Transferred(o)
  PROVE  TypeOK' /\ Aimed'
<1> USE DEF TypeOK, gateway, processes, players, history
<1>0. task[o] \in Task
  OBVIOUS
<1>1. ASSUME NEW p \in Player, Detach(o, p) PROVE TypeOK' /\ Aimed'
  <2>1. task[o].zone \in Zone /\ task[o].to \in Zone
    BY <1>1 DEF Detach, Aimed
  <2>2. [task[o] EXCEPT !.at = "join", !.who = @ \ {p}, !.mover = {p}] \in Task
    BY <1>0 DEF Task
  <2>3. ents' \in [Instance -> SUBSET Player]
    BY <1>1, <2>1, LeftType DEF Detach
  <2> QED
    BY <1>1, <2>1, <2>2, <2>3, <1>0, DoType, AimedStep DEF Detach, Task
<1>2. CASE Attach(o)
  <2> DEFINE s == task[o].zone
             t == task[o].to
  <2>1. s \in Zone /\ t \in Zone
    BY <1>2 DEF Attach, Aimed
  <2>2. PICK p \in task[o].mover :
           /\ buffer' = [buffer EXCEPT ![s][p] = {}]
           /\ clients' = Routed(p, t)
           /\ ents' = Spawned(tx[t], {p})
           /\ handled' = [handled EXCEPT ![p] =
                [n \in FrameNo |-> @[n] + IF proc[tx[t]] = "up" /\ n \in buffer[s][p] THEN 1 ELSE 0]]
           /\ owed' = [owed EXCEPT ![p] = {}]
           /\ settled' \in {settled, settled \ {p}}
    BY <1>2 DEF Attach
  <2>3. [task[o] EXCEPT !.at = "transfer", !.mover = {}] \in Task
    BY <1>0 DEF Task
  <2>4. p \in Player
    BY <1>0 DEF Task
  <2>5. /\ Do(o, [task[o] EXCEPT !.at = "transfer", !.mover = {}])
        /\ UNCHANGED <<tx, mark, child, proc, sent, dropped, faults>>
    BY <1>2 DEF Attach
  <2>6. Aimed'
    BY <2>1, <2>3, <2>5, <1>0, AimedStep DEF Task
  <2>7. task' \in [Operator -> Task]
    BY <2>3, <2>5, DoType
  <2> HIDE DEF s, t
  <2>8. handled' \in Counts
    <3>1. handled' = [handled EXCEPT ![p] =
            [n \in FrameNo |-> @[n] + IF proc[tx[t]] = "up" /\ n \in buffer[s][p] THEN 1 ELSE 0]]
      BY <2>2
    <3> QED
      BY <2>1, <2>4, <3>1, AttachCounts, ZenonT(30)
  <2>9. /\ buffer' \in [Zone -> [Player -> SUBSET FrameNo]]
        /\ clients' \in [Player -> Zone \cup {NoZone}]
        /\ owed' \in [Player -> SUBSET FrameNo] /\ settled' \subseteq Player
    BY <2>1, <2>2, <2>4 DEF Routed
  <2>10. ents' \in [Instance -> SUBSET Player]
    BY <2>1, <2>2, <2>4, SpawnedType
  <2> QED
    BY <2>5, <2>6, <2>7, <2>8, <2>9, <2>10 DEF Counts
<1>3. CASE Transferred(o)
  <2>1. TypeOK'
    BY <1>3, IdleType, DoType DEF Transferred
  <2>2. Aimed'
    BY <1>3, IdleType, AimedStep DEF Transferred, Idle
  <2> QED
    BY <2>1, <2>2
<1> QED
  BY <1>1, <1>2, <1>3

----------------------------------------------------------------------------
\* Where a frame can be: in the buffer of one zone, or in the hands of one
\* command, or handled.

Buffered(p, n) == {z \in Zone : n \in buffer[z][p]}
Carried(p, n) == {o \in Operator : n \in task[o].hand[p]}

\* It is in one place at the most, and a frame that was not sent in none.
OnePlace(p, n) ==
  /\ handled[p][n] <= 1
  /\ handled[p][n] > 0 => Buffered(p, n) = {} /\ Carried(p, n) = {}
  /\ Buffered(p, n) # {} => Carried(p, n) = {}
  /\ \A y, z \in Buffered(p, n) : y = z
  /\ \A o, q \in Carried(p, n) : o = q
  /\ n > sent[p] => handled[p][n] = 0 /\ Buffered(p, n) = {} /\ Carried(p, n) = {}

Apart == \A p \in Player, n \in FrameNo : OnePlace(p, n)

\* Frames that are forgotten do no harm.
LEMMA PlaceShrinks ==
  ASSUME NEW p \in Player, NEW n \in FrameNo, OnePlace(p, n),
         handled'[p][n] = handled[p][n], sent'[p] = sent[p],
         Buffered(p, n)' \subseteq Buffered(p, n), Carried(p, n)' \subseteq Carried(p, n)
  PROVE  OnePlace(p, n)'
BY DEF OnePlace

\* What a step leaves in one task's hands decides what is carried.
LEMMA CarriedBy ==
  ASSUME TypeOK, NEW o \in Operator, NEW t \in Task, Do(o, t),
         NEW p \in Player, NEW n \in FrameNo
  PROVE  /\ Carried(p, n)' \subseteq Carried(p, n) \cup {o}
         /\ o \in Carried(p, n)' <=> n \in t.hand[p]
         /\ \A q \in Operator \ {o} : q \in Carried(p, n)' <=> q \in Carried(p, n)
         /\ Carried(p, n) \subseteq Operator /\ Carried(p, n)' \subseteq Operator
BY DoType DEF Carried

\* A step that keeps or forgets what its task carries, and buffers nothing.
LEMMA QuietApart ==
  ASSUME TypeOK, Apart, NEW o \in Operator, NEW t \in Task, Do(o, t),
         UNCHANGED <<handled, sent, buffer>>,
         \A p \in Player : t.hand[p] \subseteq task[o].hand[p]
  PROVE  Apart'
<1> SUFFICES ASSUME NEW p \in Player, NEW n \in FrameNo PROVE OnePlace(p, n)'
  BY DEF Apart
<1>1. Carried(p, n)' \subseteq Carried(p, n)
  <2>1. n \in t.hand[p] => o \in Carried(p, n)
    BY DEF Carried
  <2> QED
    BY <2>1, CarriedBy
<1>2. Buffered(p, n)' \subseteq Buffered(p, n)
  BY DEF Buffered
<1> QED
  BY <1>1, <1>2, PlaceShrinks DEF Apart

LEMMA SwapApart ==
  ASSUME TypeOK, Aimed, Apart, NEW o \in Operator, Swap(o)
  PROVE  Apart'
<1> DEFINE z == task[o].zone
           t == [task[o] EXCEPT !.at = "replay", !.hand = buffer[z]]
<1>1. z \in Zone
  BY DEF Swap, Aimed
<1>2. t \in Task /\ t.hand = buffer[z]
  BY <1>1, ZenonT(30) DEF TypeOK, Task
<1>3. Do(o, t) /\ buffer' = [buffer EXCEPT ![z] = Nothing] /\ UNCHANGED <<handled, sent>>
  BY DEF Swap, players, history
<1> SUFFICES ASSUME NEW p \in Player, NEW n \in FrameNo PROVE OnePlace(p, n)'
  BY DEF Apart
<1> HIDE DEF z, t
<1>4. OnePlace(p, n)
  BY DEF Apart
<1>5. Buffered(p, n)' = Buffered(p, n) \ {z}
  BY <1>1, <1>3, NothingType DEF Buffered, TypeOK
<1>6. CASE n \in buffer[z][p]
  <2>1. z \in Buffered(p, n) /\ Carried(p, n) = {} /\ Buffered(p, n) = {z}
    BY <1>1, <1>4, <1>6 DEF OnePlace, Buffered
  <2>2. Carried(p, n)' \subseteq {o} /\ Buffered(p, n)' = {}
    BY <1>2, <1>3, <1>5, <2>1, CarriedBy
  <2> QED
    BY <1>3, <1>4, <2>1, <2>2 DEF OnePlace
<1>7. CASE n \notin buffer[z][p]
  <2>1. Carried(p, n)' \subseteq Carried(p, n)
    BY <1>2, <1>3, <1>7, CarriedBy
  <2> QED
    BY <1>3, <1>4, <1>5, <2>1, PlaceShrinks
<1> QED
  BY <1>6, <1>7

LEMMA ReplayApart ==
  ASSUME TypeOK, Aimed, Apart, NEW o \in Operator, Replay(o)
  PROVE  Apart'
<1> DEFINE i == task[o].new
           batch == task[o].hand
           t == [task[o] EXCEPT !.at = "reap", !.hand = Nothing]
<1>1. i \in Instance /\ batch \in Numbers
  BY DEF Replay, Aimed, TypeOK, Task, Numbers
<1>2. t \in Task /\ t.hand = Nothing
  <2>1. task[o] \in Task
    BY DEF TypeOK
  <2> QED
    BY <2>1, NothingType DEF Task, Numbers
<1>3. Do(o, t) /\ handled' = Played(i, batch) /\ UNCHANGED <<buffer, sent>>
  BY DEF Replay, gateway, players
<1> SUFFICES ASSUME NEW p \in Player, NEW n \in FrameNo PROVE OnePlace(p, n)'
  BY DEF Apart
<1>4. n \in batch[p] <=> o \in Carried(p, n)
  BY DEF Carried
<1> HIDE DEF i, batch, t
<1>5. OnePlace(p, n) /\ Buffered(p, n)' = Buffered(p, n) /\ sent'[p] = sent[p]
  BY <1>3 DEF Apart, Buffered
<1>6. Carried(p, n)' = Carried(p, n) \ {o}
  BY <1>2, <1>3, CarriedBy, NothingType
<1>7. handled[p][n] \in Nat /\ sent[p] \in Nat /\ n \in Nat
  BY UpdateAssumption DEF TypeOK, FrameNo
<1>8. CASE handled'[p][n] = handled[p][n]
  BY <1>5, <1>6, <1>8, PlaceShrinks
<1>9. CASE handled'[p][n] # handled[p][n]
  <2>1. n \in batch[p] /\ handled'[p][n] = handled[p][n] + 1
    BY <1>1, <1>3, <1>9, PlayedType
  <2>2. /\ Carried(p, n) = {o} /\ Buffered(p, n) = {} /\ handled[p][n] = 0
        /\ ~(n > sent[p])
    BY <1>4, <1>5, <1>7, <2>1 DEF OnePlace
  <2> QED
    BY <1>5, <1>6, <2>1, <2>2 DEF OnePlace
<1> QED
  BY <1>8, <1>9

LEMMA AttachApart ==
  ASSUME TypeOK, Aimed, Apart, NEW o \in Operator, Attach(o)
  PROVE  Apart'
<1> DEFINE s == task[o].zone
           d == task[o].to
           t == [task[o] EXCEPT !.at = "transfer", !.mover = {}]
<1>1. s \in Zone /\ d \in Zone
  BY DEF Attach, Aimed
<1>2. PICK m \in task[o].mover :
        /\ buffer' = [buffer EXCEPT ![s][m] = {}]
        /\ handled' = [handled EXCEPT ![m] =
             [n \in FrameNo |-> @[n] + IF proc[tx[d]] = "up" /\ n \in buffer[s][m] THEN 1 ELSE 0]]
  BY DEF Attach
<1>3. m \in Player /\ t \in Task /\ t.hand = task[o].hand
  BY ZenonT(30) DEF TypeOK, Task
<1>4. Do(o, t) /\ UNCHANGED sent
  BY DEF Attach
<1> SUFFICES ASSUME NEW p \in Player, NEW n \in FrameNo PROVE OnePlace(p, n)'
  BY DEF Apart
<1>5. n \in t.hand[p] <=> o \in Carried(p, n)
  BY <1>3 DEF Carried
<1>6. handled'[p][n] = handled[p][n] \/
      (p = m /\ n \in buffer[s][m] /\ handled'[p][n] = handled[p][n] + 1)
  <2>1. handled' = [handled EXCEPT ![m] =
             [k \in FrameNo |-> @[k] + IF proc[tx[d]] = "up" /\ k \in buffer[s][m] THEN 1 ELSE 0]]
    BY <1>2
  <2> QED
    BY <1>1, <1>3, <2>1, AttachCounts
<1> HIDE DEF s, d, t
<1>7. Carried(p, n)' = Carried(p, n)
  <2>1. t \in Task /\ Do(o, t)
    BY <1>3, <1>4
  <2>2. /\ o \in Carried(p, n)' <=> o \in Carried(p, n)
        /\ \A q \in Operator \ {o} : q \in Carried(p, n)' <=> q \in Carried(p, n)
        /\ Carried(p, n) \subseteq Operator /\ Carried(p, n)' \subseteq Operator
    BY <1>5, <2>1, CarriedBy
  <2> QED
    BY <2>2
<1>8. Buffered(p, n)' = IF p = m THEN Buffered(p, n) \ {s} ELSE Buffered(p, n)
  BY <1>1, <1>2, <1>3 DEF Buffered, TypeOK
<1>9. OnePlace(p, n) /\ sent'[p] = sent[p]
  BY <1>4 DEF Apart
<1>10. handled[p][n] \in Nat /\ sent[p] \in Nat /\ n \in Nat
  BY UpdateAssumption DEF TypeOK, FrameNo
<1>11. CASE handled'[p][n] = handled[p][n]
  BY <1>7, <1>8, <1>9, <1>11, PlaceShrinks
<1>12. CASE handled'[p][n] # handled[p][n]
  <2>1. p = m /\ n \in buffer[s][m] /\ handled'[p][n] = handled[p][n] + 1
    BY <1>6, <1>12
  <2>2. s \in Buffered(p, n)
    BY <1>1, <2>1 DEF Buffered
  <2>3. /\ Buffered(p, n) = {s} /\ Carried(p, n) = {} /\ handled[p][n] = 0
        /\ ~(n > sent[p])
    BY <1>9, <1>10, <2>2 DEF OnePlace
  <2> QED
    BY <1>7, <1>8, <1>9, <2>1, <2>3 DEF OnePlace
<1> QED
  BY <1>11, <1>12

LEMMA FrameApart ==
  ASSUME TypeOK, Apart, NEW m \in Player, Frame(m)
  PROVE  Apart'
<1> DEFINE z == clients[m]
           k == sent[m] + 1
<1>1. z \in Zone /\ k \in FrameNo /\ sent' = [sent EXCEPT ![m] = k] /\ UNCHANGED task
  BY DEF Frame, Online, TypeOK
<1>2. \/ /\ buffer' = [buffer EXCEPT ![z][m] = @ \cup {k}]
         /\ UNCHANGED handled
      \/ /\ handled' = Played(tx[z], [Nothing EXCEPT ![m] = {k}])
         /\ UNCHANGED buffer
  BY DEF Frame
<1>3. k > sent[m]
  BY UpdateAssumption DEF TypeOK
<1> HIDE DEF z, k
<1> SUFFICES ASSUME NEW p \in Player, NEW n \in FrameNo PROVE OnePlace(p, n)'
  BY DEF Apart
<1>4. OnePlace(p, n) /\ Carried(p, n)' = Carried(p, n)
  BY <1>1 DEF Apart, Carried
<1>5. /\ handled[p][n] \in Nat /\ sent[p] \in Nat /\ n \in Nat /\ k \in Nat
      /\ sent'[p] = IF p = m THEN k ELSE sent[p]
  BY <1>1, UpdateAssumption DEF TypeOK, FrameNo
<1>6. CASE buffer' = [buffer EXCEPT ![z][m] = @ \cup {k}] /\ UNCHANGED handled
  <2>1. Buffered(p, n)' = IF p = m /\ n = k THEN Buffered(p, n) \cup {z} ELSE Buffered(p, n)
    BY <1>1, <1>6 DEF Buffered, TypeOK
  <2>2. p = m /\ n = k => handled[p][n] = 0 /\ Buffered(p, n) = {} /\ Carried(p, n) = {}
    BY <1>3, <1>4 DEF OnePlace
  <2> QED
    BY <1>3, <1>4, <1>5, <1>6, <2>1, <2>2 DEF OnePlace
<1>7. CASE handled' = Played(tx[z], [Nothing EXCEPT ![m] = {k}]) /\ UNCHANGED buffer
  <2>1. [Nothing EXCEPT ![m] = {k}] \in Numbers /\ tx[z] \in Instance
    BY <1>1, NothingType DEF Numbers, TypeOK
  <2>2. n \in [Nothing EXCEPT ![m] = {k}][p] => p = m /\ n = k
    BY NothingType DEF Numbers
  <2>3. handled'[p][n] = handled[p][n] \/ (p = m /\ n = k /\ handled'[p][n] = handled[p][n] + 1)
    BY <1>7, <2>1, <2>2, PlayedType
  <2>4. Buffered(p, n)' = Buffered(p, n)
    BY <1>7 DEF Buffered
  <2>5. p = m /\ n = k => handled[p][n] = 0 /\ Buffered(p, n) = {} /\ Carried(p, n) = {}
    BY <1>3, <1>4 DEF OnePlace
  <2> QED
    BY <1>3, <1>4, <1>5, <2>3, <2>4, <2>5 DEF OnePlace
<1> QED
  BY <1>2, <1>6, <1>7

\* A new buffer for each of its players forgets what the zone had of theirs.
LEMMA Phase1Apart ==
  ASSUME TypeOK, Apart, NEW o \in Operator, NEW z \in Zone, Phase1(o, z)
  PROVE  Apart'
<1> SUFFICES ASSUME NEW p \in Player, NEW n \in FrameNo PROVE OnePlace(p, n)'
  BY DEF Apart
<1>1. UNCHANGED <<handled, sent, task>>
  BY DEF Phase1, players
<1>2. Carried(p, n)' = Carried(p, n)
  BY <1>1 DEF Carried
<1>3. Buffered(p, n)' \subseteq Buffered(p, n)
  BY DEF Phase1, Buffered, TypeOK
<1> QED
  BY <1>1, <1>2, <1>3, PlaceShrinks DEF Apart

LEMMA CommandApart ==
  ASSUME TypeOK, Aimed, Apart, NEW o \in Operator, Command(o) \/ Abort(o)
  PROVE  Apart'
<1> USE DEF gateway, players, history
<1>1. ASSUME NEW t \in Task, Do(o, t), t.hand = Nothing, UNCHANGED <<handled, sent, buffer>>
      PROVE  Apart'
  BY <1>1, QuietApart, NothingType
<1>2. ASSUME NEW z \in Zone, Begin(o, z) PROVE Apart'
  <2>1. [Idle EXCEPT !.at = "mark", !.zone = z, !.old = tx[z], !.who = Residents(z)] \in Task
    BY IdleType DEF Task, Residents, TypeOK
  <2> QED
    BY <1>1, <1>2, <2>1 DEF Begin, Idle
<1>3. ASSUME NEW s \in Zone, NEW d \in Zone, Phase2(o, s, d) PROVE Apart'
  <2>1. [Idle EXCEPT !.at = "transfer", !.zone = s, !.to = d, !.who = Residents(s)] \in Task
    BY IdleType DEF Task, Residents
  <2> QED
    BY <1>1, <1>3, <2>1 DEF Phase2, Idle
<1>4. ASSUME NEW z \in Zone, Phase3(o, z) PROVE Apart'
  <2>1. UNCHANGED <<handled, sent, buffer, task>>
    BY <1>4 DEF Phase3
  <2> QED
    BY <2>1 DEF Apart, OnePlace, Buffered, Carried
<1>5. CASE Abort(o)
  <2>1. Idle.hand = Nothing
    BY DEF Idle
  <2> QED
    BY <1>1, <1>5, <2>1, IdleType DEF Abort
<1> QED
  BY <1>2, <1>3, <1>4, <1>5, Phase1Apart DEF Command

LEMMA ContinueApart ==
  ASSUME TypeOK, Aimed, Apart, NEW o \in Operator, Continue(o)
  PROVE  Apart'
<1> USE DEF gateway, players, history
<1>0. task[o] \in Task
  BY DEF TypeOK
<1>1. ASSUME NEW t \in Task, Do(o, t), UNCHANGED <<handled, sent, buffer>>,
             t.hand = task[o].hand \/ t.hand = Nothing
      PROVE  Apart'
  BY <1>1, QuietApart, NothingType
<1>2. CASE MarkZone(o)
  <2>1. [task[o] EXCEPT !.at = "launch"] \in Task
    BY <1>0 DEF Task
  <2> QED
    BY <1>0, <1>1, <1>2, <2>1 DEF MarkZone, Task
<1>3. CASE Launch(o)
  <2>1. [task[o] EXCEPT !.at = "connect", !.new = Fresh] \in Task
    BY <1>0, <1>3, FreshType DEF Task, Launch
  <2> QED
    BY <1>0, <1>1, <1>3, <2>1 DEF Launch, Task
<1>4. CASE Recreate(o)
  <2>1. [task[o] EXCEPT !.at = "swap"] \in Task
    BY <1>0 DEF Task
  <2> QED
    BY <1>0, <1>1, <1>4, <2>1 DEF Recreate, Task
<1>5. CASE Reap(o) \/ Transferred(o)
  <2>1. Idle.hand = Nothing
    BY DEF Idle
  <2> QED
    BY <1>1, <1>5, <2>1, IdleType DEF Reap, Transferred
<1>6. ASSUME NEW p \in Player, Detach(o, p) PROVE Apart'
  <2>1. [task[o] EXCEPT !.at = "join", !.who = @ \ {p}, !.mover = {p}] \in Task
    BY <1>0 DEF Task
  <2> QED
    BY <1>0, <1>1, <1>6, <2>1 DEF Detach, Task
<1> QED
  BY <1>2, <1>3, <1>4, <1>5, <1>6, SwapApart, ReplayApart, AttachApart DEF Continue

\* Types, what a command knows, and the place of every frame: together they are
\* preserved by every step.
IInv == TypeOK /\ Aimed /\ Apart

LEMMA InvInit == Init => IInv
<1> SUFFICES ASSUME Init PROVE IInv
  OBVIOUS
<1>1. TypeOK
  BY InitType
<1>2. Aimed
  BY DEF Init, Aimed, Idle
<1>3. Apart
  <2> SUFFICES ASSUME NEW p \in Player, NEW n \in FrameNo PROVE OnePlace(p, n)
    BY DEF Apart
  <2>1. Buffered(p, n) = {} /\ Carried(p, n) = {}
    BY NothingType DEF Init, Buffered, Carried, Idle
  <2>2. handled[p][n] = 0
    BY DEF Init
  <2> QED
    BY <2>1, <2>2 DEF OnePlace
<1> QED
  BY <1>1, <1>2, <1>3 DEF IInv

\* What Command and Abort do to a task that is not theirs, and to their own.
LEMMA CommandAimed ==
  ASSUME TypeOK, Aimed, NEW o \in Operator, Command(o) \/ Abort(o)
  PROVE  Aimed'
<1> USE DEF Idle
<1>1. ASSUME NEW z \in Zone, Begin(o, z) PROVE Aimed'
  <2>1. [Idle EXCEPT !.at = "mark", !.zone = z, !.old = tx[z], !.who = Residents(z)] \in Task
    BY IdleType DEF Task, Residents, TypeOK
  <2> QED
    BY <1>1, <2>1, AimedStep DEF Begin
<1>2. ASSUME NEW s \in Zone, NEW d \in Zone, Phase2(o, s, d) PROVE Aimed'
  <2>1. [Idle EXCEPT !.at = "transfer", !.zone = s, !.to = d, !.who = Residents(s)] \in Task
    BY IdleType DEF Task, Residents
  <2> QED
    BY <1>2, <2>1, AimedStep DEF Phase2
<1>3. ASSUME NEW z \in Zone, Phase1(o, z) \/ Phase3(o, z) PROVE Aimed'
  BY <1>3 DEF Phase1, Phase3, Aimed
<1>4. CASE Abort(o)
  BY <1>4, IdleType, AimedStep DEF Abort
<1> QED
  BY <1>1, <1>2, <1>3, <1>4 DEF Command

LEMMA InvNext == IInv /\ [Next]_vars => IInv'
<1> SUFFICES ASSUME IInv, [Next]_vars PROVE IInv'
  OBVIOUS
<1> USE DEF IInv
<1>1. ASSUME NEW p \in Player, Client(p) PROVE IInv'
  <2>1. UNCHANGED task
    BY <1>1 DEF Client, Login, Logout, Cross, Frame
  <2>2. CASE Frame(p)
    BY <1>1, <2>1, <2>2, ClientType, FrameApart DEF Aimed
  <2>3. CASE ~Frame(p)
    <3>1. UNCHANGED <<handled, sent, buffer>>
      BY <1>1, <2>3 DEF Client, Login, Logout, Cross, gateway
    <3>2. Apart'
      BY <2>1, <3>1 DEF Apart, OnePlace, Buffered, Carried
    <3> QED
      BY <1>1, <2>1, <3>2, ClientType DEF Aimed
  <2> QED
    BY <2>2, <2>3
<1>2. ASSUME NEW o \in Operator, Command(o) \/ Abort(o) PROVE IInv'
  BY <1>2, CommandType, CommandAimed, CommandApart
<1>3. ASSUME NEW o \in Operator, Continue(o) PROVE IInv'
  BY <1>3, UpdateType, TransferType, ContinueApart DEF Continue
<1>4. CASE UNCHANGED vars
  <2>1. TypeOK' /\ Aimed'
    BY <1>4 DEF vars, gateway, processes, players, history, TypeOK, Aimed
  <2>2. Apart'
    BY <1>4 DEF vars, gateway, processes, players, history, Apart, OnePlace, Buffered, Carried
  <2> QED
    BY <2>1, <2>2
<1> QED
  BY <1>1, <1>2, <1>3, <1>4 DEF Next

LEMMA Invariance == Spec => []IInv
BY InvInit, InvNext, PTL DEF Spec

\* Whatever updates, migrations and failures run at the same time, clients are
\* routed to zones, zones to process runs, and every command is at a known step.
THEOREM TypeCorrect == Spec => []TypeOK
<1>1. IInv => TypeOK
  BY DEF IInv
<1> QED
  BY Invariance, <1>1, PTL

\* No frame is handled twice, for any number of players, zones and operators,
\* although the old instance, the new one and the target of a migration may all be
\* sent the frames of one player, and updates are aborted and repeated.
THEOREM NoFrameTwice == Spec => []HandledOnce
<1>1. IInv => HandledOnce
  BY DEF IInv, Apart, OnePlace, HandledOnce
<1> QED
  BY Invariance, <1>1, PTL

----------------------------------------------------------------------------
\* Which process a zone's channel leads to. An update that runs against another
\* one of the same zone may reap the instance the other has put in place: what
\* follows is about updates of which no two are of one zone.

Running(o) == task[o].at \in {"mark", "launch", "connect", "swap", "replay", "reap"}
Ready(o) == task[o].at \in {"connect", "swap"}
Swapped(o) == task[o].at \in {"replay", "reap"}

OneUpdateEach == \A o, q \in Operator :
  Running(o) /\ Running(q) /\ task[o].zone = task[q].zone => o = q

\* No two zones share a process ...
OwnChannel == \A y, z \in Zone : tx[y] = tx[z] => y = z

\* ... an update has the one in use until it swaps ...
OldInUse == \A o \in Operator :
  Running(o) /\ ~Swapped(o) => task[o].old = tx[task[o].zone]

\* ... the new instance runs, and is nobody else's until then ...
NewUnused == \A o \in Operator : Ready(o) =>
  /\ proc[task[o].new] = "up"
  /\ \A z \in Zone : tx[z] # task[o].new
  /\ \A q \in Operator : Ready(q) /\ task[q].new = task[o].new => q = o

\* ... and from then on the old one is nobody's, nor is the child to be reaped.
OldUnused == \A o \in Operator : Swapped(o) =>
  /\ tx[task[o].zone] = task[o].new
  /\ task[o].old \in Instance /\ proc[task[o].old] # "none"
  /\ \A z \in Zone : tx[z] # task[o].old
  /\ \A q \in Operator : Ready(q) => task[q].new # task[o].old
  /\ child[task[o].zone] \in {NoInstance, task[o].old}

ChildKnown == \A z \in Zone :
  \/ child[z] \in {NoInstance, tx[z]}
  \/ \E o \in Operator : Swapped(o) /\ task[o].zone = z

Led == OwnChannel /\ RouteIsLive /\ OldInUse /\ NewUnused /\ OldUnused /\ ChildKnown

\* A task that is no update before and after, or that stays as far as it is.
LEMMA LedAside ==
  ASSUME TypeOK, Led, NEW o \in Operator, NEW t \in Task, Do(o, t), UNCHANGED <<tx, child, proc>>,
         ~Swapped(o),
         \/ t.at \in {"idle", "transfer", "join"}
         \/ t.at \in {"mark", "launch"} /\ t.old = tx[t.zone]
         \/ t.at = "swap" /\ Ready(o) /\ t.old = task[o].old /\ t.new = task[o].new
                          /\ t.zone = task[o].zone
  PROVE  Led'
<1> USE DEF OwnChannel, RouteIsLive, OldInUse, NewUnused, OldUnused, ChildKnown
<1>1. task'[o] = t /\ \A q \in Operator \ {o} : task'[q] = task[q]
  BY DoType
<1>2. \A q \in Operator : Ready(q)' => Ready(q) /\ task'[q].new = task[q].new
  BY <1>1 DEF Ready
<1>3. \A q \in Operator : Swapped(q)' <=> Swapped(q) /\ q # o
  BY <1>1 DEF Swapped, Ready
<1>4. OwnChannel' /\ RouteIsLive' /\ OldInUse'
  BY <1>1 DEF Led, Running, Swapped, Ready
<1>5. NewUnused'
  BY <1>2 DEF Led
<1>6. OldUnused'
  BY <1>1, <1>2, <1>3 DEF Led
<1>7. ChildKnown'
  BY <1>1, <1>3 DEF Led
<1> QED
  BY <1>4, <1>5, <1>6, <1>7 DEF Led

\* The process that is launched was none before, so nobody knows it.
LEMMA LedLaunch ==
  ASSUME TypeOK, Led, NEW o \in Operator, Launch(o)
  PROVE  Led'
<1> USE DEF OwnChannel, RouteIsLive, OldInUse, NewUnused, OldUnused, ChildKnown
<1> DEFINE t == [task[o] EXCEPT !.at = "connect", !.new = Fresh]
<1>1. Fresh \in Instance /\ proc[Fresh] = "none"
  BY DEF Launch, Fresh
<1>2. proc' = [proc EXCEPT ![Fresh] = "up"] /\ UNCHANGED <<tx, child>>
  BY DEF Launch, gateway
<1>3. t \in Task /\ t.at = "connect" /\ t.new = Fresh /\ t.zone = task[o].zone /\ t.old = task[o].old
  BY <1>1, ZenonT(30) DEF TypeOK, Task
<1>4. task'[o] = t /\ \A q \in Operator \ {o} : task'[q] = task[q]
  BY <1>3, DoType DEF Launch
<1>5. Running(o) /\ ~Swapped(o) /\ ~Ready(o)
  BY DEF Launch, Running, Swapped, Ready
<1> HIDE DEF t
<1>6. \A q \in Operator : Swapped(q)' <=> Swapped(q)
  BY <1>3, <1>4, <1>5 DEF Swapped
<1>7. \A q \in Operator \ {o} : Ready(q)' <=> Ready(q)
  BY <1>4 DEF Ready
<1>8. \A i \in Instance : proc'[i] = IF i = Fresh THEN "up" ELSE proc[i]
  BY <1>1, <1>2 DEF TypeOK
<1>9. \A z \in Zone : tx[z] \in Instance /\ tx[z] # Fresh
  BY <1>1 DEF TypeOK, Led
<1>10. \A q \in Operator : task[q].new = Fresh => ~Ready(q)
  BY <1>1 DEF Led
<1>11. OwnChannel' /\ RouteIsLive' /\ OldInUse'
  <2>1. OldInUse'
    BY <1>2, <1>3, <1>4, <1>5 DEF Led, Running, Swapped
  <2> QED
    BY <1>2, <1>8, <1>9, <2>1 DEF Led
<1>12. NewUnused'
  <2> SUFFICES ASSUME NEW q \in Operator, Ready(q)'
               PROVE  /\ proc'[task'[q].new] = "up"
                      /\ \A z \in Zone : tx'[z] # task'[q].new
                      /\ \A r \in Operator : Ready(r)' /\ task'[r].new = task'[q].new => r = q
    OBVIOUS
  <2>1. CASE q = o
    BY <1>1, <1>2, <1>3, <1>4, <1>7, <1>8, <1>9, <1>10, <2>1
  <2>2. CASE q # o
    <3>1. Ready(q) /\ task'[q].new = task[q].new /\ task[q].new # Fresh
      BY <1>4, <1>7, <1>10, <2>2
    <3>2. proc'[task[q].new] = "up"
      BY <1>2, <1>1, <3>1 DEF Led, TypeOK
    <3> QED
      BY <1>2, <1>3, <1>4, <1>7, <3>1, <3>2 DEF Led
  <2> QED
    BY <2>1, <2>2
<1>13. OldUnused'
  <2> SUFFICES ASSUME NEW q \in Operator, Swapped(q)
               PROVE  /\ tx[task[q].zone] = task[q].new
                      /\ task[q].old \in Instance /\ proc'[task[q].old] # "none"
                      /\ \A z \in Zone : tx[z] # task[q].old
                      /\ \A r \in Operator : Ready(r)' => task'[r].new # task[q].old
                      /\ child[task[q].zone] \in {NoInstance, task[q].old}
    BY <1>2, <1>4, <1>5, <1>6
  <2>1. task[q].old # Fresh
    BY <1>1 DEF Led
  <2> QED
    BY <1>3, <1>4, <1>7, <1>8, <2>1 DEF Led
<1>14. ChildKnown'
  BY <1>2, <1>4, <1>5, <1>6 DEF Led
<1> QED
  BY <1>11, <1>12, <1>13, <1>14 DEF Led

\* The new instance takes the zone over; the old one, which the zone's child is
\* if it has one, is nobody's.
LEMMA LedSwap ==
  ASSUME TypeOK, Aimed, Led, OneUpdateEach, NEW o \in Operator, Swap(o)
  PROVE  Led'
<1> USE DEF OwnChannel, RouteIsLive, OldInUse, NewUnused, OldUnused, ChildKnown
<1> DEFINE z == task[o].zone
           t == [task[o] EXCEPT !.at = "replay", !.hand = buffer[z]]
<1>1. z \in Zone /\ task[o].new \in Instance
  BY DEF Swap, Aimed
<1>2. tx' = [tx EXCEPT ![z] = task[o].new] /\ UNCHANGED <<child, proc>>
  BY DEF Swap, processes
<1>3. t \in Task /\ t.at = "replay" /\ t.new = task[o].new /\ t.zone = z /\ t.old = task[o].old
  BY <1>1, ZenonT(30) DEF TypeOK, Task
<1>4. task'[o] = t /\ \A q \in Operator \ {o} : task'[q] = task[q]
  BY <1>3, DoType DEF Swap
<1>5. Running(o) /\ ~Swapped(o) /\ Ready(o)
  BY DEF Swap, Running, Swapped, Ready
<1>6. \A q \in Operator \ {o} : Running(q) => task[q].zone # z
  BY <1>5 DEF OneUpdateEach
<1>7. task[o].old = tx[z] /\ child[z] \in {NoInstance, tx[z]}
  <2>1. \A q \in Operator : Swapped(q) => task[q].zone # z
    BY <1>5, <1>6 DEF Running, Swapped
  <2> QED
    BY <1>1, <1>5, <2>1 DEF Led
<1> HIDE DEF t, z
<1>8. \A y \in Zone : tx'[y] = IF y = z THEN task[o].new ELSE tx[y]
  BY <1>1, <1>2 DEF TypeOK
<1>9. \A q \in Operator : Ready(q)' <=> Ready(q) /\ q # o
  BY <1>3, <1>4 DEF Ready
<1>10. \A q \in Operator : Swapped(q)' <=> Swapped(q) \/ q = o
  BY <1>3, <1>4 DEF Swapped
<1>11. OwnChannel' /\ RouteIsLive'
  BY <1>2, <1>5, <1>8 DEF Led
<1>12. OldInUse'
  BY <1>3, <1>4, <1>6, <1>8, <1>2, <1>1 DEF Led, Running, Swapped, Aimed
<1>13. NewUnused'
  BY <1>2, <1>4, <1>5, <1>8, <1>9 DEF Led
<1>14. OldUnused'
  <2>1. ASSUME NEW q \in Operator, q # o, Swapped(q)
        PROVE  /\ tx'[task[q].zone] = task[q].new
               /\ \A y \in Zone : tx'[y] # task[q].old
    <3>1. task[q].zone \in Zone \ {z}
      BY <1>6, <2>1 DEF Running, Swapped, Aimed
    <3> QED
      BY <1>5, <1>8, <2>1, <3>1 DEF Led
  <2>2. ASSUME NEW q \in Operator, q # o, Swapped(q)
        PROVE  /\ task[q].old \in Instance /\ proc'[task[q].old] # "none"
               /\ \A r \in Operator : Ready(r)' => task'[r].new # task[q].old
               /\ child'[task[q].zone] \in {NoInstance, task[q].old}
    BY <1>2, <1>4, <1>9, <2>2 DEF Led
  <2>3. /\ tx'[z] = task[o].new /\ child'[z] \in {NoInstance, task[o].old}
        /\ task[o].old \in Instance /\ proc'[task[o].old] # "none"
    <3>1. tx[z] \in Instance /\ proc[tx[z]] # "none"
      BY <1>1 DEF Led, TypeOK
    <3> QED
      BY <1>1, <1>2, <1>7, <1>8, <3>1
  <2>4. \A y \in Zone : tx'[y] # task[o].old
    BY <1>1, <1>5, <1>7, <1>8 DEF Led
  <2>5. \A r \in Operator : Ready(r)' => task'[r].new # task[o].old
    BY <1>1, <1>4, <1>7, <1>9 DEF Led
  <2> SUFFICES ASSUME NEW q \in Operator, Swapped(q)'
               PROVE  /\ tx'[task'[q].zone] = task'[q].new
                      /\ task'[q].old \in Instance /\ proc'[task'[q].old] # "none"
                      /\ \A y \in Zone : tx'[y] # task'[q].old
                      /\ \A r \in Operator : Ready(r)' => task'[r].new # task'[q].old
                      /\ child'[task'[q].zone] \in {NoInstance, task'[q].old}
    OBVIOUS
  <2>6. CASE q = o
    BY <1>3, <1>4, <2>3, <2>4, <2>5, <2>6
  <2>7. CASE q # o
    BY <1>4, <1>10, <2>1, <2>2, <2>7
  <2> QED
    BY <2>6, <2>7
<1>15. ChildKnown'
  <2> SUFFICES ASSUME NEW y \in Zone
               PROVE  \/ child'[y] \in {NoInstance, tx'[y]}
                      \/ \E q \in Operator : Swapped(q)' /\ task'[q].zone = y
    OBVIOUS
  <2>1. CASE y = z
    BY <1>3, <1>4, <1>10, <2>1
  <2>2. CASE y # z
    BY <1>2, <1>4, <1>5, <1>8, <1>10, <2>2 DEF Led
  <2> QED
    BY <2>1, <2>2
<1> QED
  BY <1>11, <1>12, <1>13, <1>14, <1>15 DEF Led

LEMMA LedReplay ==
  ASSUME TypeOK, Led, NEW o \in Operator, Replay(o)
  PROVE  Led'
<1> DEFINE t == [task[o] EXCEPT !.at = "reap", !.hand = Nothing]
<1>1. task[o] \in Task
  BY DEF TypeOK
<1>2. /\ t \in Task /\ t.at = "reap"
      /\ t.new = task[o].new /\ t.zone = task[o].zone /\ t.old = task[o].old
  BY <1>1, NothingType DEF Task, Numbers
<1>3. task'[o] = t /\ \A q \in Operator \ {o} : task'[q] = task[q]
  BY <1>2, DoType DEF Replay
<1>4. Swapped(o) /\ UNCHANGED <<tx, child, proc>>
  BY DEF Replay, Swapped, gateway, processes
<1> HIDE DEF t
<1>5. \A q \in Operator :
        /\ Ready(q)' <=> Ready(q)
        /\ Swapped(q)' <=> Swapped(q)
        /\ Running(q)' <=> Running(q)
        /\ task'[q].new = task[q].new /\ task'[q].old = task[q].old
        /\ task'[q].zone = task[q].zone
  BY <1>2, <1>3, <1>4 DEF Ready, Swapped, Running
<1> QED
  BY <1>4, <1>5
     DEF Led, OwnChannel, RouteIsLive, OldInUse, NewUnused, OldUnused, ChildKnown

\* What is reaped is the old instance and a child that is the old instance.
LEMMA LedReap ==
  ASSUME TypeOK, Aimed, Led, OneUpdateEach, NEW o \in Operator, Reap(o)
  PROVE  Led'
<1> USE DEF OwnChannel, RouteIsLive, OldInUse, NewUnused, OldUnused, ChildKnown
<1> DEFINE z == task[o].zone
           Stopped == {i \in {task[o].old} : proc[i] = "up"} \cup ({child[z]} \ {NoInstance})
<1>1. z \in Zone /\ task[o].new \in Instance /\ Swapped(o) /\ Running(o)
  BY DEF Reap, Aimed, Swapped, Running
<1>2. /\ proc' = [i \in Instance |-> IF i \in Stopped THEN "ended" ELSE proc[i]]
      /\ child' = [child EXCEPT ![z] = task[o].new] /\ UNCHANGED tx
  BY DEF Reap
<1>3. Stopped \subseteq {task[o].old}
  BY <1>1 DEF Led
<1>4. task'[o] = Idle /\ \A q \in Operator \ {o} : task'[q] = task[q]
  BY IdleType, DoType DEF Reap
<1> HIDE DEF Stopped
<1>5. \A q \in Operator :
        /\ Ready(q)' <=> Ready(q) /\ q # o
        /\ Swapped(q)' <=> Swapped(q) /\ q # o
        /\ Running(q)' <=> Running(q) /\ q # o
  BY <1>1, <1>4 DEF Ready, Swapped, Running, Idle
<1>6. \A i \in Instance : proc'[i] = IF i \in Stopped THEN "ended" ELSE proc[i]
  BY <1>2
<1>7. \A i \in Instance : proc[i] # "none" => proc'[i] # "none"
  BY <1>6
<1>8. \A i \in Instance : i # task[o].old => proc'[i] = proc[i]
  BY <1>3, <1>6
<1>9. \A y \in Zone : tx[y] \in Instance /\ tx[y] # task[o].old /\ child'[y] = IF y = z THEN tx[z] ELSE child[y]
  BY <1>1, <1>2 DEF Led, TypeOK
<1>10. \A q \in Operator : Running(q) /\ q # o => task[q].zone # z
  BY <1>1 DEF OneUpdateEach
<1> HIDE DEF z
<1>11. OwnChannel' /\ RouteIsLive'
  BY <1>2, <1>8, <1>9 DEF Led
<1>12. OldInUse'
  BY <1>2, <1>4, <1>5 DEF Led
<1>13. NewUnused'
  <2>1. \A q \in Operator : Ready(q) => task[q].new \in Instance /\ task[q].new # task[o].old
    BY <1>1 DEF Ready, Aimed, Led
  <2> QED
    BY <1>2, <1>4, <1>5, <1>8, <2>1 DEF Led
<1>14. OldUnused'
  <2> SUFFICES ASSUME NEW q \in Operator, Swapped(q), q # o
               PROVE  /\ tx[task[q].zone] = task[q].new
                      /\ task[q].old \in Instance /\ proc'[task[q].old] # "none"
                      /\ \A y \in Zone : tx[y] # task[q].old
                      /\ \A r \in Operator : Ready(r) => task[r].new # task[q].old
                      /\ child'[task[q].zone] \in {NoInstance, task[q].old}
    BY <1>2, <1>4, <1>5
  <2>1. task[q].zone \in Zone \ {z}
    BY <1>10 DEF Running, Swapped, Aimed
  <2>2. child'[task[q].zone] = child[task[q].zone]
    BY <1>9, <2>1
  <2> QED
    BY <1>7, <2>2 DEF Led
<1>15. ChildKnown'
  <2> SUFFICES ASSUME NEW y \in Zone
               PROVE  \/ child'[y] \in {NoInstance, tx[y]}
                      \/ \E q \in Operator : Swapped(q)' /\ task'[q].zone = y
    BY <1>2
  <2>1. CASE y = z
    BY <1>9, <2>1
  <2>2. CASE y # z
    BY <1>4, <1>5, <1>9, <2>2 DEF Led, z
  <2> QED
    BY <2>1, <2>2
<1> QED
  BY <1>11, <1>12, <1>13, <1>14, <1>15 DEF Led

LEMMA LedCommand ==
  ASSUME TypeOK, Led, NEW o \in Operator, Command(o) \/ Abort(o)
  PROVE  Led'
<1> USE DEF gateway, processes, players, history
<1>1. ASSUME NEW z \in Zone, Begin(o, z) PROVE Led'
  <2> DEFINE t == [Idle EXCEPT !.at = "mark", !.zone = z, !.old = tx[z], !.who = Residents(z)]
  <2>1. t \in Task /\ t.at = "mark" /\ t.old = tx[t.zone]
    BY IdleType DEF Task, Residents, TypeOK
  <2>2. ~Swapped(o)
    BY <1>1 DEF Begin, Swapped, Idle
  <2>3. Do(o, t) /\ UNCHANGED <<tx, child, proc>>
    BY <1>1 DEF Begin
  <2> HIDE DEF t
  <2> QED
    BY <2>1, <2>2, <2>3, LedAside
<1>2. ASSUME NEW s \in Zone, NEW d \in Zone, Phase2(o, s, d) PROVE Led'
  <2> DEFINE t == [Idle EXCEPT !.at = "transfer", !.zone = s, !.to = d, !.who = Residents(s)]
  <2>1. t \in Task /\ t.at = "transfer"
    BY IdleType DEF Task, Residents
  <2>2. ~Swapped(o)
    BY <1>2 DEF Phase2, Swapped, Idle
  <2>3. Do(o, t) /\ UNCHANGED <<tx, child, proc>>
    BY <1>2 DEF Phase2
  <2> HIDE DEF t
  <2> QED
    BY <2>1, <2>2, <2>3, LedAside
<1>3. ASSUME NEW z \in Zone, Phase1(o, z) PROVE Led'
  BY <1>3 DEF Phase1, Led, OwnChannel, RouteIsLive, OldInUse, NewUnused, OldUnused, ChildKnown,
              Running, Ready, Swapped
<1>4. ASSUME NEW z \in Zone, Phase3(o, z) PROVE Led'
  <2>1. proc' = [proc EXCEPT ![tx[z]] = IF @ = "up" THEN "closed" ELSE @] /\ UNCHANGED <<tx, child, task>>
    BY <1>4 DEF Phase3
  <2>2. \A i \in Instance : proc'[i] = IF i = tx[z] /\ proc[i] = "up" THEN "closed" ELSE proc[i]
    BY <2>1 DEF TypeOK
  <2>3. RouteIsLive'
    BY <2>1, <2>2 DEF Led, RouteIsLive, TypeOK
  <2>4. NewUnused'
    <3> SUFFICES ASSUME NEW q \in Operator, Ready(q)
                 PROVE  proc'[task[q].new] = "up"
      BY <2>1 DEF NewUnused, Led, Ready
    <3> QED
      BY <2>1 DEF NewUnused, Led, TypeOK
  <2>5. OldUnused'
    BY <2>1, <2>2 DEF OldUnused, Led, Ready, Swapped
  <2> QED
    BY <2>1, <2>3, <2>4, <2>5 DEF Led, OwnChannel, OldInUse, ChildKnown, Running, Ready, Swapped
<1>5. CASE Abort(o)
  <2>1. Idle \in Task /\ Idle.at = "idle" /\ ~Swapped(o)
    BY <1>5, IdleType DEF Abort, Swapped, Idle
  <2>2. Do(o, Idle) /\ UNCHANGED <<tx, child, proc>>
    BY <1>5 DEF Abort
  <2> QED
    BY <2>1, <2>2, LedAside
<1> QED
  BY <1>1, <1>2, <1>3, <1>4, <1>5 DEF Command

LEMMA LedContinue ==
  ASSUME TypeOK, Aimed, Led, OneUpdateEach, NEW o \in Operator, Continue(o)
  PROVE  Led'
<1> USE DEF gateway, processes, players, history
<1>0. task[o] \in Task
  BY DEF TypeOK
<1>1. CASE MarkZone(o)
  <2> DEFINE t == [task[o] EXCEPT !.at = "launch"]
  <2>1. t \in Task /\ t.at = "launch" /\ ~Swapped(o)
    BY <1>0, <1>1 DEF Task, MarkZone, Swapped
  <2>2. t.old = tx[t.zone]
    BY <1>0, <1>1 DEF Task, MarkZone, Running, Swapped, Led, OldInUse
  <2>3. Do(o, t) /\ UNCHANGED <<tx, child, proc>>
    BY <1>1 DEF MarkZone
  <2> HIDE DEF t
  <2> QED
    BY <2>1, <2>2, <2>3, LedAside
<1>2. CASE Recreate(o)
  <2> DEFINE t == [task[o] EXCEPT !.at = "swap"]
  <2>1. t \in Task /\ t.at = "swap" /\ t.old = task[o].old /\ t.new = task[o].new /\ t.zone = task[o].zone
    BY <1>0 DEF Task
  <2>2. Ready(o) /\ ~Swapped(o)
    BY <1>2 DEF Recreate, Ready, Swapped
  <2>3. Do(o, t) /\ UNCHANGED <<tx, child, proc>>
    BY <1>2 DEF Recreate
  <2> HIDE DEF t
  <2> QED
    BY <2>1, <2>2, <2>3, LedAside
<1>3. ASSUME NEW p \in Player, Detach(o, p) PROVE Led'
  <2> DEFINE t == [task[o] EXCEPT !.at = "join", !.who = @ \ {p}, !.mover = {p}]
  <2>1. t \in Task /\ t.at = "join" /\ ~Swapped(o)
    BY <1>0, <1>3 DEF Task, Detach, Swapped
  <2>2. Do(o, t) /\ UNCHANGED <<tx, child, proc>>
    BY <1>3 DEF Detach
  <2> HIDE DEF t
  <2> QED
    BY <2>1, <2>2, LedAside
<1>4. CASE Attach(o)
  <2> DEFINE t == [task[o] EXCEPT !.at = "transfer", !.mover = {}]
  <2>1. t \in Task /\ t.at = "transfer" /\ ~Swapped(o)
    BY <1>0, <1>4 DEF Task, Attach, Swapped
  <2>2. Do(o, t) /\ UNCHANGED <<tx, child, proc>>
    BY <1>4 DEF Attach
  <2> HIDE DEF t
  <2> QED
    BY <2>1, <2>2, LedAside
<1>5. CASE Transferred(o)
  <2>1. Idle \in Task /\ Idle.at = "idle" /\ ~Swapped(o)
    BY <1>5, IdleType DEF Transferred, Swapped, Idle
  <2>2. Do(o, Idle) /\ UNCHANGED <<tx, child, proc>>
    BY <1>5 DEF Transferred
  <2> QED
    BY <2>1, <2>2, LedAside
<1> QED
  BY <1>1, <1>2, <1>3, <1>4, <1>5, LedLaunch, LedSwap, LedReplay, LedReap DEF Continue

LEMMA LedInit == Init => Led
<1> SUFFICES ASSUME Init PROVE Led
  OBVIOUS
<1>1. \A o \in Operator : ~Running(o) /\ ~Ready(o) /\ ~Swapped(o)
  BY DEF Init, Idle, Running, Ready, Swapped
<1>2. OwnChannel /\ RouteIsLive
  BY UpdateAssumption DEF Init, OwnChannel, RouteIsLive
<1>3. ChildKnown
  BY DEF Init, ChildKnown
<1> QED
  BY <1>1, <1>2, <1>3 DEF Led, OldInUse, NewUnused, OldUnused

LEMMA LedNext == IInv /\ Led /\ OneUpdateEach /\ [Next]_vars => Led'
<1> SUFFICES ASSUME IInv, Led, OneUpdateEach, [Next]_vars PROVE Led'
  OBVIOUS
<1> USE DEF IInv
<1>1. ASSUME UNCHANGED <<tx, child, proc, task>> PROVE Led'
  BY <1>1 DEF Led, OwnChannel, RouteIsLive, OldInUse, NewUnused, OldUnused, ChildKnown,
              Running, Ready, Swapped
<1>2. ASSUME NEW p \in Player, Client(p) PROVE Led'
  BY <1>1, <1>2 DEF Client, Login, Logout, Cross, Frame, gateway, processes
<1>3. CASE UNCHANGED vars
  BY <1>1, <1>3 DEF vars, gateway, processes
<1> QED
  BY <1>2, <1>3, LedCommand, LedContinue DEF Next

\* The channel of a zone never leads to a process that was shut down or killed,
\* whatever players and the migrations of any number of operators do meanwhile,
\* as long as no two updates of one zone run at the same time.
THEOREM RoutedToTheLiving == Spec /\ []OneUpdateEach => []RouteIsLive
<1>1. Led => RouteIsLive
  BY DEF Led
<1>2. Spec => []IInv
  BY Invariance
<1> QED
  BY <1>1, <1>2, LedInit, LedNext, PTL DEF Spec

----------------------------------------------------------------------------
\* Who is simulated by the process in use.

\* Only a player that is being attached is between two zones.
Movers == \A o \in Operator :
  /\ task[o].at # "join" => task[o].mover = {}
  /\ task[o].at = "join" => \E p \in Player : task[o].mover = {p}

\* A settled player of a zone under update is in its snapshot, and in the new
\* instance as soon as the snapshot was recreated.
Followed == \A o \in Operator, p \in settled : clients[p] = task[o].zone =>
  /\ task[o].at \in {"mark", "launch", "connect"} => p \in task[o].who
  /\ task[o].at = "swap" => p \in ents[task[o].new]

Kept == Movers /\ Followed /\ SettledKept

LEMMA MoversStep ==
  ASSUME TypeOK, Movers, NEW o \in Operator, NEW t \in Task, Do(o, t),
         t.at # "join" => t.mover = {},
         t.at = "join" => \E p \in Player : t.mover = {p}
  PROVE  Movers'
<1>1. task'[o] = t /\ \A q \in Operator \ {o} : task'[q] = task[q]
  BY DoType
<1> QED
  BY <1>1 DEF Movers

\* Players come and go.
LEMMA KeptClient ==
  ASSUME IInv, Led, Kept, NEW p \in Player, Client(p)
  PROVE  Kept'
<1> USE DEF IInv
<1>1. UNCHANGED <<task, tx, proc>>
  BY DEF Client, Login, Logout, Cross, Frame, gateway, processes
<1>2. Movers' /\ \A q \in Player : BetweenZones(q)' <=> BetweenZones(q)
  BY <1>1 DEF Kept, Movers, BetweenZones
<1>3. \A o \in Operator : task[o].at = "swap" => task[o].new \in Instance
  BY DEF Aimed
<1>4. \A z \in Zone : tx[z] \in Instance
  BY DEF TypeOK
<1>5. \A o \in Operator : task[o].at \in {"mark", "launch", "connect", "swap"} => task[o].zone \in Zone
  BY DEF Aimed
<1>6. ASSUME NEW z \in Zone, Login(p, z) PROVE Kept'
  <2>1. /\ clients' = [clients EXCEPT ![p] = z]
        /\ ents' = Spawned(tx[z], {p})
        /\ settled' = IF Updating(z) THEN settled \ {p} ELSE settled \cup {p}
    BY <1>6 DEF Login
  <2>2. \A i \in Instance : ents[i] \subseteq ents'[i]
    BY <1>4, <2>1 DEF Spawned, TypeOK
  <2>3. proc[tx[z]] = "up" => p \in ents'[tx[z]]
    BY <1>4, <2>1 DEF Spawned, TypeOK
  <2>4. \A q \in settled' : q # p => q \in settled /\ clients'[q] = clients[q]
    BY <2>1 DEF TypeOK
  <2>5. clients'[p] = z
    BY <2>1 DEF TypeOK
  <2>6. Followed'
    <3> SUFFICES ASSUME NEW o \in Operator, NEW q \in settled', clients'[q] = task[o].zone
                 PROVE  /\ task[o].at \in {"mark", "launch", "connect"} => q \in task[o].who
                        /\ task[o].at = "swap" => q \in ents'[task[o].new]
      BY <1>1 DEF Followed
    <3>1. CASE q # p
      BY <1>3, <2>2, <2>4, <3>1 DEF Kept, Followed
    <3>2. CASE q = p
      <4>1. task[o].zone = z /\ ~Updating(z)
        BY <2>1, <2>5, <3>2
      <4> QED
        BY <4>1 DEF Updating
    <3> QED
      BY <3>1, <3>2
  <2>7. SettledKept'
    <3> SUFFICES ASSUME NEW q \in settled', clients'[q] # NoZone, ~BetweenZones(q),
                        proc[tx[clients'[q]]] = "up"
                 PROVE  q \in ents'[tx[clients'[q]]]
      BY <1>1, <1>2, <2>1 DEF SettledKept, Online, TypeOK
    <3>1. CASE q # p
      <4>1. q \in settled /\ clients'[q] = clients[q] /\ clients[q] \in Zone
        BY <2>4, <3>1 DEF TypeOK
      <4> QED
        BY <1>4, <2>2, <4>1 DEF Kept, SettledKept, Online
    <3>2. CASE q = p
      BY <2>3, <2>5, <3>2
    <3> QED
      BY <3>1, <3>2
  <2> QED
    BY <1>2, <2>6, <2>7 DEF Kept
<1>7. CASE Logout(p)
  <2>1. /\ clients' = [clients EXCEPT ![p] = NoZone]
        /\ ents' = Left(tx[clients[p]], p) /\ settled' = settled /\ clients[p] \in Zone
    BY <1>7 DEF Logout, Online, TypeOK
  <2>2. \A i \in Instance : ents[i] \ {p} \subseteq ents'[i]
    BY <1>4, <2>1 DEF Left, TypeOK
  <2>3. \A q \in Player : clients'[q] = IF q = p THEN NoZone ELSE clients[q]
    BY <2>1 DEF TypeOK
  <2>4. Followed'
    BY <1>1, <1>3, <1>5, <2>1, <2>2, <2>3, UpdateAssumption DEF Kept, Followed, TypeOK
  <2>5. SettledKept'
    <3> SUFFICES ASSUME NEW q \in settled, q # p, clients[q] # NoZone, ~BetweenZones(q),
                        proc[tx[clients[q]]] = "up"
                 PROVE  q \in ents'[tx[clients[q]]]
      BY <1>1, <1>2, <2>1, <2>3 DEF SettledKept, Online, TypeOK
    <3>1. clients[q] \in Zone
      BY DEF TypeOK
    <3> QED
      BY <1>4, <2>2, <3>1 DEF Kept, SettledKept, Online
  <2> QED
    BY <1>2, <2>4, <2>5 DEF Kept
<1>8. ASSUME NEW z \in Zone, Cross(p, z) PROVE Kept'
  <2> DEFINE from == tx[clients[p]]
             there == Spawned(tx[z], {p})
  <2>1. /\ clients[p] \in Zone /\ z # clients[p]
        /\ clients' = [clients EXCEPT ![p] = z]
        /\ ents' = [i \in Instance |-> IF i = from THEN ents[i] \ {p} ELSE there[i]]
        /\ settled' = IF Updating(clients[p]) \/ Updating(z) THEN settled \ {p} ELSE settled
    BY <1>8 DEF Cross, Online, TypeOK
  <2>2. \A i \in Instance : ents[i] \subseteq there[i]
    BY <1>4 DEF Spawned, TypeOK
  <2>3. tx[z] # from
    BY <2>1 DEF Led, OwnChannel
  <2>4. proc[tx[z]] = "up" => p \in there[tx[z]]
    BY <1>4 DEF Spawned, TypeOK
  <2> HIDE DEF from, there
  <2>5. \A i \in Instance : ents[i] \ {p} \subseteq ents'[i]
    BY <2>1, <2>2
  <2>6. proc[tx[z]] = "up" => p \in ents'[tx[z]]
    BY <1>4, <2>1, <2>3, <2>4
  <2>7. \A q \in Player : clients'[q] = IF q = p THEN z ELSE clients[q]
    BY <2>1 DEF TypeOK
  <2>8. settled' \subseteq settled /\ (Updating(z) => p \notin settled')
    BY <2>1
  <2>9. Followed'
    <3> SUFFICES ASSUME NEW o \in Operator, NEW q \in settled', clients'[q] = task[o].zone
                 PROVE  /\ task[o].at \in {"mark", "launch", "connect"} => q \in task[o].who
                        /\ task[o].at = "swap" => q \in ents'[task[o].new]
      BY <1>1 DEF Followed
    <3>1. CASE q # p
      BY <1>3, <2>5, <2>7, <2>8, <3>1 DEF Kept, Followed, TypeOK
    <3>2. CASE q = p
      BY <2>7, <2>8, <3>2 DEF Updating
    <3> QED
      BY <3>1, <3>2
  <2>10. SettledKept'
    <3> SUFFICES ASSUME NEW q \in settled', clients'[q] # NoZone, ~BetweenZones(q),
                        proc[tx[clients'[q]]] = "up"
                 PROVE  q \in ents'[tx[clients'[q]]]
      BY <1>1, <1>2, <2>8 DEF SettledKept, Online, TypeOK
    <3>1. CASE q # p
      <4>1. q \in settled /\ clients'[q] = clients[q] /\ clients[q] \in Zone
        BY <2>7, <2>8, <3>1 DEF TypeOK
      <4> QED
        BY <1>4, <2>5, <3>1, <4>1 DEF Kept, SettledKept, Online
    <3>2. CASE q = p
      BY <2>6, <2>7, <3>2
    <3> QED
      BY <3>1, <3>2
  <2> QED
    BY <1>2, <2>9, <2>10 DEF Kept
<1>9. CASE Frame(p)
  <2>1. UNCHANGED <<clients, ents, settled>> /\ settled \subseteq Player
    BY <1>9 DEF Frame, processes, TypeOK
  <2>2. Followed'
    BY <1>1, <2>1 DEF Kept, Followed
  <2>3. SettledKept'
    BY <1>1, <1>2, <2>1 DEF Kept, SettledKept, Online
  <2> QED
    BY <1>2, <2>2, <2>3 DEF Kept
<1> QED
  BY <1>6, <1>7, <1>8, <1>9 DEF Client

\* A command goes on; no player moves and no channel changes.
LEMMA KeptQuiet ==
  ASSUME TypeOK, Kept, NEW o \in Operator, NEW t \in Task, Do(o, t),
         UNCHANGED <<clients, ents, settled, tx>>,
         \A z \in Zone : proc'[tx[z]] = "up" => proc[tx[z]] = "up",
         task[o].mover = {}, t.mover = {}, t.at \notin {"join", "swap"},
         t.at \in {"mark", "launch", "connect"} =>
           \/ t.who = Residents(t.zone)
           \/ t.who = task[o].who /\ t.zone = task[o].zone /\ task[o].at \in {"mark", "launch"}
  PROVE  Kept'
<1>1. task'[o] = t /\ \A q \in Operator \ {o} : task'[q] = task[q]
  BY DoType
<1>2. Movers'
  BY MoversStep DEF Kept
<1>3. \A p \in Player : BetweenZones(p)' <=> BetweenZones(p)
  BY <1>1 DEF BetweenZones
<1>4. SettledKept'
  BY <1>3 DEF Kept, SettledKept, Online, TypeOK
<1>5. Followed'
  <2> SUFFICES ASSUME NEW q \in Operator, NEW p \in settled, clients[p] = task'[q].zone
               PROVE  /\ task'[q].at \in {"mark", "launch", "connect"} => p \in task'[q].who
                      /\ task'[q].at = "swap" => p \in ents[task'[q].new]
    BY DEF Followed
  <2>1. CASE q = o
    BY <1>1, <2>1 DEF Kept, Followed, Residents, TypeOK
  <2>2. CASE q # o
    BY <1>1, <2>2 DEF Kept, Followed
  <2> QED
    BY <2>1, <2>2
<1> QED
  BY <1>2, <1>4, <1>5 DEF Kept

LEMMA KeptCommand ==
  ASSUME IInv, Kept, NEW o \in Operator, Command(o) \/ Abort(o)
  PROVE  Kept'
<1> USE DEF IInv, gateway, processes, players, history
<1>1. ASSUME NEW z \in Zone, Begin(o, z) PROVE Kept'
  <2> DEFINE t == [Idle EXCEPT !.at = "mark", !.zone = z, !.old = tx[z], !.who = Residents(z)]
  <2>1. t \in Task /\ t.at = "mark" /\ t.who = Residents(t.zone) /\ t.mover = {}
    BY IdleType DEF Task, Residents, TypeOK, Idle
  <2>2. Do(o, t) /\ UNCHANGED <<clients, ents, settled, tx, proc>> /\ task[o].mover = {}
    BY <1>1 DEF Begin, Idle
  <2> HIDE DEF t
  <2> QED
    BY <2>1, <2>2, KeptQuiet
<1>2. ASSUME NEW s \in Zone, NEW d \in Zone, Phase2(o, s, d) PROVE Kept'
  <2> DEFINE t == [Idle EXCEPT !.at = "transfer", !.zone = s, !.to = d, !.who = Residents(s)]
  <2>1. t \in Task /\ t.at = "transfer" /\ t.mover = {}
    BY IdleType DEF Task, Residents, Idle
  <2>2. Do(o, t) /\ UNCHANGED <<clients, ents, settled, tx, proc>> /\ task[o].mover = {}
    BY <1>2 DEF Phase2, Idle
  <2> HIDE DEF t
  <2> QED
    BY <2>1, <2>2, KeptQuiet
<1>3. ASSUME NEW z \in Zone, Phase1(o, z) PROVE Kept'
  BY <1>3 DEF Phase1, Kept, Movers, Followed, SettledKept, Online, BetweenZones
<1>4. ASSUME NEW z \in Zone, Phase3(o, z) PROVE Kept'
  <2>1. UNCHANGED <<clients, ents, settled, tx, task>>
    BY <1>4 DEF Phase3
  <2>2. \A y \in Zone : proc'[tx[y]] = "up" => proc[tx[y]] = "up"
    BY <1>4 DEF Phase3, TypeOK
  <2>3. SettledKept'
    BY <2>1, <2>2 DEF Kept, SettledKept, Online, BetweenZones, TypeOK
  <2> QED
    BY <2>1, <2>3 DEF Kept, Movers, Followed
<1>5. CASE Abort(o)
  <2>1. Idle \in Task /\ Idle.at = "idle" /\ Idle.mover = {} /\ task[o].mover = {}
    BY <1>5, IdleType DEF Abort, Idle, Kept, Movers
  <2>2. Do(o, Idle) /\ UNCHANGED <<clients, ents, settled, tx, proc>>
    BY <1>5 DEF Abort
  <2> QED
    BY <2>1, <2>2, KeptQuiet
<1> QED
  BY <1>1, <1>2, <1>3, <1>4, <1>5 DEF Command

\* The steps of an update that leave players and channels alone.
LEMMA KeptOnward ==
  ASSUME IInv, Led, Kept, NEW o \in Operator,
         MarkZone(o) \/ Launch(o) \/ Replay(o) \/ Transferred(o)
  PROVE  Kept'
<1> USE DEF IInv, gateway, processes, players, history
<1>0. task[o] \in Task
  BY DEF TypeOK
<1>1. CASE MarkZone(o)
  <2> DEFINE t == [task[o] EXCEPT !.at = "launch"]
  <2>1. t \in Task /\ t.at = "launch" /\ t.who = task[o].who /\ t.zone = task[o].zone
        /\ t.mover = task[o].mover
    BY <1>0 DEF Task
  <2>2. /\ Do(o, t) /\ UNCHANGED <<clients, ents, settled, tx, proc>>
        /\ task[o].mover = {} /\ task[o].at = "mark"
    BY <1>1 DEF MarkZone, Kept, Movers
  <2> HIDE DEF t
  <2> QED
    BY <2>1, <2>2, KeptQuiet
<1>2. CASE Launch(o)
  <2> DEFINE t == [task[o] EXCEPT !.at = "connect", !.new = Fresh]
  <2>1. Fresh \in Instance /\ proc[Fresh] = "none"
    BY <1>2 DEF Launch, Fresh
  <2>2. t \in Task /\ t.at = "connect" /\ t.who = task[o].who /\ t.zone = task[o].zone
        /\ t.mover = task[o].mover
    BY <1>0, <2>1 DEF Task
  <2>3. /\ Do(o, t) /\ UNCHANGED <<clients, ents, settled, tx>>
        /\ task[o].mover = {} /\ task[o].at = "launch"
    BY <1>2 DEF Launch, Kept, Movers
  <2>4. \A z \in Zone : proc'[tx[z]] = "up" => proc[tx[z]] = "up"
    BY <1>2, <2>1 DEF Launch, Led, RouteIsLive, TypeOK
  <2> HIDE DEF t
  <2> QED
    BY <2>2, <2>3, <2>4, KeptQuiet
<1>3. CASE Replay(o)
  <2> DEFINE t == [task[o] EXCEPT !.at = "reap", !.hand = Nothing]
  <2>1. t \in Task /\ t.at = "reap" /\ t.mover = task[o].mover
    BY <1>0, NothingType DEF Task, Numbers
  <2>2. Do(o, t) /\ UNCHANGED <<clients, ents, settled, tx, proc>> /\ task[o].mover = {}
    BY <1>3 DEF Replay, Kept, Movers
  <2> HIDE DEF t
  <2> QED
    BY <2>1, <2>2, KeptQuiet
<1>4. CASE Transferred(o)
  <2>1. Idle \in Task /\ Idle.at = "idle" /\ Idle.mover = {} /\ task[o].mover = {}
    BY <1>4, IdleType DEF Transferred, Idle, Kept, Movers
  <2>2. Do(o, Idle) /\ UNCHANGED <<clients, ents, settled, tx, proc>>
    BY <1>4 DEF Transferred
  <2> QED
    BY <2>1, <2>2, KeptQuiet
<1> QED
  BY <1>1, <1>2, <1>3, <1>4

LEMMA KeptRecreate ==
  ASSUME IInv, Led, Kept, NEW o \in Operator, Recreate(o)
  PROVE  Kept'
<1> USE DEF IInv
<1> DEFINE t == [task[o] EXCEPT !.at = "swap"]
           i == task[o].new
<1>1. task[o] \in Task
  BY DEF TypeOK
<1>2. /\ t \in Task /\ t.at = "swap" /\ t.zone = task[o].zone /\ t.new = i
      /\ t.mover = task[o].mover
  BY <1>1 DEF Task
<1>3. /\ Do(o, t) /\ ents' = Spawned(i, task[o].who) /\ task[o].mover = {}
      /\ task[o].at = "connect" /\ UNCHANGED <<clients, settled, tx, proc>>
  BY DEF Recreate, gateway, players, history, Kept, Movers
<1>4. i \in Instance /\ proc[i] = "up"
  BY <1>3 DEF Aimed, Led, NewUnused, Ready
<1>5. task'[o] = t /\ \A q \in Operator \ {o} : task'[q] = task[q]
  BY <1>2, <1>3, DoType
<1>6. (\A j \in Instance : ents[j] \subseteq ents'[j]) /\ task[o].who \subseteq ents'[i]
  BY <1>3, <1>4 DEF Spawned, TypeOK
<1> HIDE DEF t, i
<1>7. Movers'
  BY <1>2, <1>3, MoversStep DEF Kept
<1>8. \A p \in Player : BetweenZones(p)' <=> BetweenZones(p)
  BY <1>2, <1>5 DEF BetweenZones
<1>9. SettledKept'
  BY <1>3, <1>6, <1>8 DEF Kept, SettledKept, Online, TypeOK
<1>10. Followed'
  <2> SUFFICES ASSUME NEW q \in Operator, NEW p \in settled, clients[p] = task'[q].zone
               PROVE  /\ task'[q].at \in {"mark", "launch", "connect"} => p \in task'[q].who
                      /\ task'[q].at = "swap" => p \in ents'[task'[q].new]
    BY <1>3 DEF Followed
  <2>1. CASE q = o
    BY <1>2, <1>3, <1>5, <1>6, <2>1 DEF Kept, Followed
  <2>2. CASE q # o
    <3>1. task[q].at = "swap" => task[q].new \in Instance
      BY DEF Aimed
    <3> QED
      BY <1>5, <1>6, <2>2, <3>1 DEF Kept, Followed
  <2> QED
    BY <2>1, <2>2
<1> QED
  BY <1>7, <1>9, <1>10 DEF Kept

LEMMA KeptSwap ==
  ASSUME IInv, Kept, NEW o \in Operator, Swap(o)
  PROVE  Kept'
<1> USE DEF IInv
<1> DEFINE z == task[o].zone
           t == [task[o] EXCEPT !.at = "replay", !.hand = buffer[z]]
<1>1. task[o] \in Task /\ z \in Zone /\ task[o].new \in Instance
  BY DEF Swap, Aimed, TypeOK
<1>2. t \in Task /\ t.at = "replay" /\ t.mover = task[o].mover
  BY <1>1 DEF Task, TypeOK
<1>3. /\ Do(o, t) /\ tx' = [tx EXCEPT ![z] = task[o].new] /\ task[o].mover = {}
      /\ task[o].at = "swap" /\ UNCHANGED <<clients, settled, ents, proc>>
  BY DEF Swap, processes, players, history, Kept, Movers
<1>4. task'[o] = t /\ \A q \in Operator \ {o} : task'[q] = task[q]
  BY <1>2, <1>3, DoType
<1> HIDE DEF t
<1>5. Movers'
  BY <1>2, <1>3, MoversStep DEF Kept
<1>6. \A p \in Player : BetweenZones(p)' <=> BetweenZones(p)
  BY <1>2, <1>4 DEF BetweenZones
<1>7. SettledKept'
  <2> SUFFICES ASSUME NEW p \in settled, clients[p] # NoZone, ~BetweenZones(p),
                      proc[tx'[clients[p]]] = "up"
               PROVE  p \in ents[tx'[clients[p]]]
    BY <1>3, <1>6 DEF SettledKept, Online, TypeOK
  <2>1. clients[p] \in Zone
    BY DEF TypeOK
  <2>2. CASE clients[p] = z
    BY <1>1, <1>3, <2>2 DEF Kept, Followed, TypeOK
  <2>3. CASE clients[p] # z
    BY <1>1, <1>3, <2>1, <2>3 DEF Kept, SettledKept, Online, TypeOK
  <2> QED
    BY <2>2, <2>3
<1>8. Followed'
  BY <1>2, <1>3, <1>4 DEF Kept, Followed
<1> QED
  BY <1>5, <1>7, <1>8 DEF Kept

\* What is reaped is no zone's and not the new instance of another update.
LEMMA KeptReap ==
  ASSUME IInv, Led, Kept, NEW o \in Operator, Reap(o)
  PROVE  Kept'
<1> USE DEF IInv
<1> DEFINE z == task[o].zone
           Stopped == {i \in {task[o].old} : proc[i] = "up"} \cup ({child[z]} \ {NoInstance})
<1>1. z \in Zone /\ Swapped(o)
  BY DEF Reap, Aimed, Swapped
<1>2. /\ proc' = [i \in Instance |-> IF i \in Stopped THEN "ended" ELSE proc[i]]
      /\ ents' = [i \in Instance |-> IF i \in Stopped THEN {} ELSE ents[i]]
      /\ Do(o, Idle) /\ task[o].mover = {} /\ UNCHANGED <<tx, clients, settled>>
  BY DEF Reap, players, history, Kept, Movers
<1>3. Stopped \subseteq {task[o].old}
  BY <1>1 DEF Led, OldUnused
<1>4. task'[o] = Idle /\ \A q \in Operator \ {o} : task'[q] = task[q]
  BY <1>2, IdleType, DoType
<1> HIDE DEF Stopped
<1>5. \A i \in Instance : i # task[o].old => proc'[i] = proc[i] /\ ents'[i] = ents[i]
  BY <1>2, <1>3
<1>6. \A y \in Zone : tx[y] \in Instance /\ tx[y] # task[o].old
  BY <1>1 DEF Led, OldUnused, TypeOK
<1>7. Movers'
  BY <1>2, IdleType, MoversStep DEF Kept, Idle
<1>8. \A p \in Player : BetweenZones(p)' <=> BetweenZones(p)
  BY <1>2, <1>4 DEF BetweenZones, Idle
<1>9. SettledKept'
  <2> SUFFICES ASSUME NEW p \in settled, clients[p] # NoZone, ~BetweenZones(p),
                      proc'[tx[clients[p]]] = "up"
               PROVE  p \in ents'[tx[clients[p]]]
    BY <1>2, <1>8 DEF SettledKept, Online, TypeOK
  <2>1. clients[p] \in Zone
    BY DEF TypeOK
  <2> QED
    BY <1>5, <1>6, <2>1 DEF Kept, SettledKept, Online
<1>10. Followed'
  <2>1. \A q \in Operator : task[q].at = "swap" => task[q].new \in Instance /\ task[q].new # task[o].old
    BY <1>1 DEF Aimed, Ready, Led, OldUnused
  <2> QED
    BY <1>2, <1>4, <1>5, <2>1 DEF Kept, Followed, Idle
<1> QED
  BY <1>7, <1>9, <1>10 DEF Kept

LEMMA KeptDetach ==
  ASSUME IInv, Led, Kept, NEW o \in Operator, NEW p \in Player, Detach(o, p)
  PROVE  Kept'
<1> USE DEF IInv
<1> DEFINE s == task[o].zone
           t == [task[o] EXCEPT !.at = "join", !.who = @ \ {p}, !.mover = {p}]
<1>1. task[o] \in Task /\ s \in Zone
  BY DEF Detach, Aimed, TypeOK
<1>2. t \in Task /\ t.at = "join" /\ t.mover = {p}
  BY <1>1 DEF Task
<1>3. /\ Do(o, t) /\ ents' = Left(tx[s], p) /\ task[o].mover = {}
      /\ UNCHANGED <<clients, settled, tx, proc>>
  BY DEF Detach, gateway, players, history, Kept, Movers
<1>4. task'[o] = t /\ \A q \in Operator \ {o} : task'[q] = task[q]
  BY <1>2, <1>3, DoType
<1>5. \A i \in Instance : ents[i] \ {p} \subseteq ents'[i] /\ (i # tx[s] => ents'[i] = ents[i])
  BY <1>1, <1>3 DEF Left, TypeOK
<1> HIDE DEF t, s
<1>6. Movers'
  BY <1>2, <1>3, MoversStep DEF Kept
<1>7. \A a \in Player : BetweenZones(a)' <=> BetweenZones(a) \/ a = p
  BY <1>2, <1>3, <1>4 DEF BetweenZones
<1>8. SettledKept'
  <2> SUFFICES ASSUME NEW a \in settled, clients[a] # NoZone, ~BetweenZones(a), a # p,
                      proc[tx[clients[a]]] = "up"
               PROVE  a \in ents'[tx[clients[a]]]
    BY <1>3, <1>7 DEF SettledKept, Online, TypeOK
  <2>1. clients[a] \in Zone /\ tx[clients[a]] \in Instance
    BY DEF TypeOK
  <2> QED
    BY <1>5, <2>1 DEF Kept, SettledKept, Online
<1>9. Followed'
  <2>1. \A q \in Operator : task[q].at = "swap" =>
          ents'[task[q].new] = ents[task[q].new]
    BY <1>1, <1>5 DEF Aimed, Ready, Led, NewUnused
  <2> QED
    BY <1>2, <1>3, <1>4, <2>1 DEF Kept, Followed
<1> QED
  BY <1>6, <1>8, <1>9 DEF Kept

\* The player is put into the process of the zone its client is routed to.
LEMMA KeptAttach ==
  ASSUME IInv, Kept, NEW o \in Operator, Attach(o)
  PROVE  Kept'
<1> USE DEF IInv
<1> DEFINE d == task[o].to
           t == [task[o] EXCEPT !.at = "transfer", !.mover = {}]
<1>1. task[o] \in Task /\ d \in Zone
  BY DEF Attach, Aimed, TypeOK
<1>2. PICK m \in Player : task[o].mover = {m}
  BY DEF Attach, Kept, Movers
<1>3. /\ clients' = Routed(m, d) /\ ents' = Spawned(tx[d], {m})
      /\ settled' \subseteq settled /\ (Updating(d) => m \notin settled')
  BY <1>2 DEF Attach
<1>4. Do(o, t) /\ UNCHANGED <<tx, proc>>
  BY DEF Attach
<1>5. t \in Task /\ t.at = "transfer" /\ t.mover = {}
  BY <1>1 DEF Task
<1>6. task'[o] = t /\ \A q \in Operator \ {o} : task'[q] = task[q]
  BY <1>4, <1>5, DoType
<1> HIDE DEF t, d
<1>7. Movers'
  BY <1>4, <1>5, MoversStep DEF Kept
<1>8. \A a \in Player : a # m => (BetweenZones(a)' <=> BetweenZones(a))
  BY <1>2, <1>5, <1>6 DEF BetweenZones
<1>9. /\ \A i \in Instance : ents[i] \subseteq ents'[i]
      /\ proc[tx[d]] = "up" => m \in ents'[tx[d]]
  BY <1>1, <1>3 DEF Spawned, TypeOK
<1>10. /\ \A a \in Player : a # m => clients'[a] = clients[a]
       /\ clients'[m] \in {NoZone, d}
  BY <1>3 DEF Routed, TypeOK
<1>11. settled' \subseteq Player
  BY <1>3 DEF TypeOK
<1>12. SettledKept'
  <2> SUFFICES ASSUME NEW a \in settled', clients'[a] # NoZone, ~BetweenZones(a)',
                      proc[tx[clients'[a]]] = "up"
               PROVE  a \in ents'[tx[clients'[a]]]
    BY <1>4 DEF SettledKept, Online
  <2>1. CASE a = m
    BY <1>9, <1>10, <2>1
  <2>2. CASE a # m
    <3>1. a \in settled /\ clients'[a] = clients[a] /\ clients[a] \in Zone /\ ~BetweenZones(a)
      BY <1>3, <1>8, <1>10, <1>11, <2>2 DEF TypeOK
    <3>2. tx[clients[a]] \in Instance
      BY <3>1 DEF TypeOK
    <3> QED
      BY <1>9, <3>1, <3>2 DEF Kept, SettledKept, Online
  <2> QED
    BY <2>1, <2>2
<1>13. Followed'
  <2> SUFFICES ASSUME NEW q \in Operator, q # o, NEW a \in settled', clients'[a] = task[q].zone,
                      task[q].at \in {"mark", "launch", "connect", "swap"}
               PROVE  /\ task[q].at \in {"mark", "launch", "connect"} => a \in task[q].who
                      /\ task[q].at = "swap" => a \in ents'[task[q].new]
    BY <1>5, <1>6 DEF Followed
  <2>1. task[q].zone \in Zone /\ (task[q].at = "swap" => task[q].new \in Instance)
    BY DEF Aimed
  <2>2. a # m
    BY <1>3, <1>10, <2>1, UpdateAssumption DEF Updating
  <2>3. a \in settled /\ clients[a] = task[q].zone
    BY <1>3, <1>10, <1>11, <2>2
  <2> QED
    BY <1>9, <2>1, <2>3 DEF Kept, Followed
<1> QED
  BY <1>7, <1>12, <1>13 DEF Kept

LEMMA KeptInit == Init => Kept
BY UpdateAssumption
   DEF Init, Idle, Kept, Movers, Followed, SettledKept, Online

LEMMA KeptNext == IInv /\ Led /\ Kept /\ [Next]_vars => Kept'
<1> SUFFICES ASSUME IInv, Led, Kept, [Next]_vars PROVE Kept'
  OBVIOUS
<1>1. CASE UNCHANGED vars
  BY <1>1 DEF vars, gateway, processes, players, history,
              Kept, Movers, Followed, SettledKept, Online, BetweenZones
<1> QED
  BY <1>1, KeptClient, KeptCommand, KeptOnward, KeptRecreate, KeptSwap, KeptReap,
     KeptDetach, KeptAttach DEF Next, Continue

\* A connected player that neither came nor went during an update is simulated by
\* the process its frames are sent to, before, during and after every update, with
\* any number of operators, as long as no two updates of one zone run at once.
THEOREM SettledPlayersKept == Spec /\ []OneUpdateEach => []SettledKept
<1>1. Kept => SettledKept
  BY DEF Kept
<1>2. Spec => []IInv
  BY Invariance
<1>3. Led /\ OneUpdateEach /\ IInv /\ [Next]_vars => Led'
  BY LedNext
<1> QED
  BY <1>1, <1>2, <1>3, LedInit, KeptInit, KeptNext, PTL DEF Spec

----------------------------------------------------------------------------
\* Buffered input. A second operator could retire the zone, or detach a player
\* from it, between the swap and the replay; so this is about one operator.

OneOperator == \A o, q \in Operator : o = q

\* Frames are in a command's hands only between its swap and its replay, and then
\* the new instance is open.
Hands == \A o \in Operator :
  /\ task[o].at # "replay" => task[o].hand = Nothing
  /\ task[o].at = "replay" => proc[task[o].new] = "up"

\* Where the frames owed to a player are: nowhere but at the zone it is in, and
\* somewhere if it is settled and no phase 1 has thrown them away.
Accounted(p) ==
  /\ owed[p] # {} => Online(p)
  /\ \A n \in owed[p] :
       /\ \A z \in Zone : n \in buffer[z][p] => clients[p] = z
       /\ \A o \in Operator : n \in task[o].hand[p] => clients[p] = task[o].zone
       /\ p \in settled /\ n \notin dropped[p] =>
            \/ handled[p][n] > 0
            \/ n \in buffer[clients[p]][p]
            \/ \E o \in Operator : n \in task[o].hand[p]

Accounts == Hands /\ \A p \in Player : Accounted(p)

\* A zone that does not buffer has something in its buffer only if a launch failed.
Waiting == \A z \in Zone, p \in Player :
  buffer[z][p] # {} /\ mark[z] = "normal" => faults > 0

\* A step that does nothing with what is owed to a player.
LEMMA AccountedSame ==
  ASSUME NEW p \in Player, Accounted(p),
         \/ owed'[p] = {}
         \/ /\ owed'[p] = owed[p] /\ clients'[p] = clients[p] /\ (p \in settled' => p \in settled)
            /\ \A n \in FrameNo : handled[p][n] > 0 => handled'[p][n] > 0
            /\ dropped[p] \subseteq dropped'[p]
            /\ \A z \in Zone : buffer'[z][p] \subseteq buffer[z][p]
                             /\ buffer[z][p] \subseteq buffer'[z][p] \cup dropped'[p]
            /\ \A o \in Operator : /\ task'[o].hand[p] = task[o].hand[p]
                                   /\ task'[o].hand[p] # {} => task'[o].zone = task[o].zone,
         owed[p] \subseteq FrameNo, clients[p] \in Zone \cup {NoZone}
  PROVE  Accounted(p)'
<1>1. CASE owed'[p] = {}
  BY <1>1 DEF Accounted
<1>2. CASE owed'[p] # {}
  <2>1. /\ owed'[p] = owed[p] /\ clients'[p] = clients[p] /\ clients[p] \in Zone
        /\ p \in settled' => p \in settled
        /\ \A n \in FrameNo : handled[p][n] > 0 => handled'[p][n] > 0
        /\ dropped[p] \subseteq dropped'[p]
        /\ \A z \in Zone : buffer'[z][p] \subseteq buffer[z][p]
                         /\ buffer[z][p] \subseteq buffer'[z][p] \cup dropped'[p]
        /\ \A o \in Operator : /\ task'[o].hand[p] = task[o].hand[p]
                               /\ task'[o].hand[p] # {} => task'[o].zone = task[o].zone
    BY <1>2 DEF Accounted, Online
  <2>2. Online(p)'
    BY <1>2, <2>1 DEF Accounted, Online
  <2> SUFFICES ASSUME NEW n \in owed[p]
               PROVE  /\ \A z \in Zone : n \in buffer'[z][p] => clients'[p] = z
                      /\ \A o \in Operator : n \in task'[o].hand[p] => clients'[p] = task'[o].zone
                      /\ p \in settled' /\ n \notin dropped'[p] =>
                           \/ handled'[p][n] > 0
                           \/ n \in buffer'[clients'[p]][p]
                           \/ \E o \in Operator : n \in task'[o].hand[p]
    BY <2>1, <2>2 DEF Accounted
  <2> QED
    BY <2>1 DEF Accounted
<1> QED
  BY <1>1, <1>2

\* A command goes on with empty hands.
LEMMA AccountsQuiet ==
  ASSUME IInv, Accounts, OneOperator, NEW o \in Operator, NEW t \in Task, Do(o, t),
         task[o].hand = Nothing, t.hand = Nothing, t.at # "replay",
         UNCHANGED <<owed, dropped, clients, settled, handled, buffer>>
  PROVE  Accounts'
<1>1. task'[o] = t /\ \A q \in Operator : q = o
  BY DoType DEF IInv, OneOperator
<1>2. Hands'
  BY <1>1 DEF Hands
<1>3. ASSUME NEW p \in Player PROVE Accounted(p)'
  <2>1. /\ owed[p] \subseteq FrameNo /\ clients[p] \in Zone \cup {NoZone} /\ Accounted(p)
        /\ Nothing[p] = {}
    BY NothingType DEF IInv, TypeOK, Accounts
  <2> QED
    BY <1>1, <2>1, AccountedSame
<1> QED
  BY <1>2, <1>3 DEF Accounts

LEMMA AccountsClient ==
  ASSUME IInv, Accounts, NEW m \in Player, Client(m)
  PROVE  Accounts'
<1> USE DEF IInv
<1>1. UNCHANGED <<task, proc>>
  BY DEF Client, Login, Logout, Cross, Frame, processes
<1>2. Hands'
  BY <1>1 DEF Accounts, Hands
<1>3. \A p \in Player :
        owed[p] \subseteq FrameNo /\ clients[p] \in Zone \cup {NoZone} /\ Accounted(p)
  BY DEF TypeOK, Accounts
<1>4. CASE Logout(m) \/ \E z \in Zone : Login(m, z) \/ Cross(m, z)
  <2>1. UNCHANGED <<handled, dropped, buffer>> /\ owed' \in {owed, [owed EXCEPT ![m] = {}]}
    BY <1>4 DEF Logout, Login, Cross, gateway
  <2>2. owed'[m] = {}
    <3>1. ~Online(m) => owed[m] = {}
      BY <1>3 DEF Accounted
    <3> QED
      BY <1>4, <3>1 DEF Logout, Login, Cross, TypeOK
  <2>3. ASSUME NEW p \in Player, p # m PROVE clients'[p] = clients[p] /\ (p \in settled' => p \in settled)
    BY <1>4, <2>3 DEF Logout, Login, Cross, TypeOK
  <2>4. ASSUME NEW p \in Player PROVE Accounted(p)'
    <3>1. p # m => owed'[p] = owed[p]
      BY <2>1 DEF TypeOK
    <3> QED
      BY <1>1, <1>3, <2>1, <2>2, <2>3, <3>1, AccountedSame
  <2> QED
    BY <1>2, <2>4 DEF Accounts
<1>5. CASE Frame(m)
  <2> DEFINE z == clients[m]
             k == sent[m] + 1
  <2>1. z \in Zone /\ k \in FrameNo /\ k > sent[m] /\ UNCHANGED <<clients, dropped, settled>>
    BY <1>5, UpdateAssumption DEF Frame, Online, TypeOK
  <2>2. \/ /\ buffer' = [buffer EXCEPT ![z][m] = @ \cup {k}]
           /\ owed' = [owed EXCEPT ![m] = @ \cup {k}]
           /\ UNCHANGED handled
        \/ /\ handled' = Played(tx[z], [Nothing EXCEPT ![m] = {k}])
           /\ UNCHANGED <<buffer, owed>>
    BY <1>5 DEF Frame
  <2> HIDE DEF z, k
  <2>3. CASE handled' = Played(tx[z], [Nothing EXCEPT ![m] = {k}]) /\ UNCHANGED <<buffer, owed>>
    <3>1. [Nothing EXCEPT ![m] = {k}] \in Numbers /\ tx[z] \in Instance
      BY <2>1, NothingType DEF Numbers, TypeOK
    <3>2. \A p \in Player, n \in FrameNo : handled[p][n] > 0 => handled'[p][n] > 0
      <4> SUFFICES ASSUME NEW p \in Player, NEW n \in FrameNo, handled[p][n] > 0
                   PROVE  handled'[p][n] > 0
        OBVIOUS
      <4>1. handled[p][n] \in Nat
        BY DEF TypeOK
      <4>2. handled'[p][n] \in {handled[p][n], handled[p][n] + 1}
        BY <2>3, <3>1, PlayedType
      <4> QED
        BY <4>1, <4>2
    <3>3. ASSUME NEW p \in Player PROVE Accounted(p)'
      BY <1>1, <1>3, <2>1, <2>3, <3>2, AccountedSame
    <3> QED
      BY <1>2, <3>3 DEF Accounts
  <2>4. CASE /\ buffer' = [buffer EXCEPT ![z][m] = @ \cup {k}]
             /\ owed' = [owed EXCEPT ![m] = @ \cup {k}]
             /\ UNCHANGED handled
    <3>1. ASSUME NEW p \in Player, p # m PROVE Accounted(p)'
      <4>1. owed'[p] = owed[p] /\ \A y \in Zone : buffer'[y][p] = buffer[y][p]
        BY <2>1, <2>4, <3>1 DEF TypeOK
      <4> QED
        BY <1>1, <1>3, <2>1, <2>4, <4>1, AccountedSame
    <3>2. Accounted(m)'
      <4>1. /\ owed'[m] = owed[m] \cup {k}
            /\ \A y \in Zone : buffer'[y][m] = IF y = z THEN buffer[y][m] \cup {k} ELSE buffer[y][m]
        BY <2>1, <2>4 DEF TypeOK
      <4>2. (\A y \in Zone : k \notin buffer[y][m]) /\ \A o \in Operator : k \notin task[o].hand[m]
        BY <2>1 DEF Apart, OnePlace, Buffered, Carried
      <4>3. ASSUME NEW n \in owed'[m]
            PROVE  /\ \A y \in Zone : n \in buffer'[y][m] => z = y
                   /\ \A o \in Operator : n \in task[o].hand[m] => z = task[o].zone
                   /\ m \in settled /\ n \notin dropped[m] =>
                        \/ handled[m][n] > 0
                        \/ n \in buffer'[z][m]
                        \/ \E o \in Operator : n \in task[o].hand[m]
        <5>1. CASE n = k
          BY <2>1, <4>1, <4>2, <5>1
        <5>2. CASE n # k
          BY <1>3, <2>1, <4>1, <5>2 DEF Accounted, z
        <5> QED
          BY <5>1, <5>2
      <4>4. z # NoZone
        BY <2>1, UpdateAssumption
      <4> QED
        BY <1>1, <2>1, <2>4, <4>3, <4>4 DEF Accounted, Online, z
    <3> QED
      BY <1>2, <3>1, <3>2 DEF Accounts
  <2> QED
    BY <2>2, <2>3, <2>4
<1> QED
  BY <1>4, <1>5 DEF Client

LEMMA AccountsCommand ==
  ASSUME IInv, Accounts, OneOperator, NEW o \in Operator, Command(o) \/ Abort(o)
  PROVE  Accounts'
<1> USE DEF IInv, gateway, processes, players, history
<1>0. Idle.hand = Nothing /\ Idle.at = "idle"
  BY DEF Idle
<1>1. ASSUME NEW z \in Zone, Begin(o, z) PROVE Accounts'
  <2> DEFINE t == [Idle EXCEPT !.at = "mark", !.zone = z, !.old = tx[z], !.who = Residents(z)]
  <2>1. t \in Task /\ t.at = "mark" /\ t.hand = Nothing
    BY IdleType DEF Task, Residents, TypeOK, Idle
  <2>2. /\ Do(o, t) /\ task[o].hand = Nothing
        /\ UNCHANGED <<owed, dropped, clients, settled, handled, buffer>>
    BY <1>0, <1>1 DEF Begin
  <2> HIDE DEF t
  <2> QED
    BY <2>1, <2>2, AccountsQuiet
<1>2. ASSUME NEW s \in Zone, NEW d \in Zone, Phase2(o, s, d) PROVE Accounts'
  <2> DEFINE t == [Idle EXCEPT !.at = "transfer", !.zone = s, !.to = d, !.who = Residents(s)]
  <2>1. t \in Task /\ t.at = "transfer" /\ t.hand = Nothing
    BY IdleType DEF Task, Residents, Idle
  <2>2. /\ Do(o, t) /\ task[o].hand = Nothing
        /\ UNCHANGED <<owed, dropped, clients, settled, handled, buffer>>
    BY <1>0, <1>2 DEF Phase2
  <2> HIDE DEF t
  <2> QED
    BY <2>1, <2>2, AccountsQuiet
<1>3. \A p \in Player :
        owed[p] \subseteq FrameNo /\ clients[p] \in Zone \cup {NoZone} /\ Accounted(p)
  BY DEF TypeOK, Accounts
<1>4. ASSUME NEW z \in Zone, Phase1(o, z) PROVE Accounts'
  <2>1. /\ buffer' = [buffer EXCEPT ![z] =
             [p \in Player |-> IF clients[p] = z THEN {} ELSE buffer[z][p]]]
        /\ dropped' = [p \in Player |->
             IF clients[p] = z THEN dropped[p] \cup buffer[z][p] ELSE dropped[p]]
        /\ UNCHANGED <<owed, clients, settled, handled, task, proc>>
    BY <1>4 DEF Phase1
  <2>2. ASSUME NEW p \in Player PROVE Accounted(p)'
    <3>1. dropped'[p] = IF clients[p] = z THEN dropped[p] \cup buffer[z][p] ELSE dropped[p]
      BY <2>1
    <3>2. \A y \in Zone : buffer'[y][p] = IF y = z /\ clients[p] = z THEN {} ELSE buffer[y][p]
      BY <2>1 DEF TypeOK
    <3> QED
      BY <1>3, <2>1, <3>1, <3>2, AccountedSame
  <2>3. Hands'
    BY <2>1 DEF Accounts, Hands
  <2> QED
    BY <2>2, <2>3 DEF Accounts
<1>5. ASSUME NEW z \in Zone, Phase3(o, z) PROVE Accounts'
  <2>1. UNCHANGED <<owed, dropped, clients, settled, handled, buffer, task>> /\ task[o] = Idle
    BY <1>5 DEF Phase3
  <2>2. Hands'
    BY <1>0, <2>1 DEF Accounts, Hands, OneOperator
  <2>3. ASSUME NEW p \in Player PROVE Accounted(p)'
    BY <1>3, <2>1, AccountedSame
  <2> QED
    BY <2>2, <2>3 DEF Accounts
<1>6. CASE Abort(o)
  <2>1. /\ Do(o, Idle) /\ task[o].hand = Nothing
        /\ UNCHANGED <<owed, dropped, clients, settled, handled, buffer>>
    BY <1>6 DEF Abort, Accounts, Hands
  <2> QED
    BY <1>0, <2>1, IdleType, AccountsQuiet
<1> QED
  BY <1>1, <1>2, <1>4, <1>5, <1>6 DEF Command

LEMMA AccountsOnward ==
  ASSUME IInv, Accounts, OneOperator, NEW o \in Operator,
         \/ MarkZone(o) \/ Launch(o) \/ Recreate(o) \/ Reap(o)
         \/ (\E p \in Player : Detach(o, p)) \/ Transferred(o)
  PROVE  Accounts'
<1> USE DEF IInv, gateway, processes, players, history
<1>0. /\ Idle.hand = Nothing /\ Idle.at = "idle"
      /\ task[o] \in Task /\ (task[o].at # "replay" => task[o].hand = Nothing)
  BY DEF Idle, TypeOK, Accounts, Hands
<1>1. CASE MarkZone(o)
  <2> DEFINE t == [task[o] EXCEPT !.at = "launch"]
  <2>1. t \in Task /\ t.at = "launch" /\ t.hand = task[o].hand
    BY <1>0 DEF Task
  <2>2. /\ Do(o, t) /\ task[o].hand = Nothing
        /\ UNCHANGED <<owed, dropped, clients, settled, handled, buffer>>
    BY <1>0, <1>1 DEF MarkZone
  <2> HIDE DEF t
  <2> QED
    BY <2>1, <2>2, AccountsQuiet
<1>2. CASE Launch(o)
  <2> DEFINE t == [task[o] EXCEPT !.at = "connect", !.new = Fresh]
  <2>1. t \in Task /\ t.at = "connect" /\ t.hand = task[o].hand
    BY <1>0, <1>2, FreshType DEF Task, Launch
  <2>2. /\ Do(o, t) /\ task[o].hand = Nothing
        /\ UNCHANGED <<owed, dropped, clients, settled, handled, buffer>>
    BY <1>0, <1>2 DEF Launch
  <2> HIDE DEF t
  <2> QED
    BY <2>1, <2>2, AccountsQuiet
<1>3. CASE Recreate(o)
  <2> DEFINE t == [task[o] EXCEPT !.at = "swap"]
  <2>1. t \in Task /\ t.at = "swap" /\ t.hand = task[o].hand
    BY <1>0 DEF Task
  <2>2. /\ Do(o, t) /\ task[o].hand = Nothing
        /\ UNCHANGED <<owed, dropped, clients, settled, handled, buffer>>
    BY <1>0, <1>3 DEF Recreate
  <2> HIDE DEF t
  <2> QED
    BY <2>1, <2>2, AccountsQuiet
<1>4. CASE Reap(o) \/ Transferred(o)
  <2>1. /\ Do(o, Idle) /\ task[o].hand = Nothing
        /\ UNCHANGED <<owed, dropped, clients, settled, handled, buffer>>
    BY <1>0, <1>4 DEF Reap, Transferred
  <2> QED
    BY <1>0, <2>1, IdleType, AccountsQuiet
<1>5. ASSUME NEW p \in Player, Detach(o, p) PROVE Accounts'
  <2> DEFINE t == [task[o] EXCEPT !.at = "join", !.who = @ \ {p}, !.mover = {p}]
  <2>1. t \in Task /\ t.at = "join" /\ t.hand = task[o].hand
    BY <1>0 DEF Task
  <2>2. /\ Do(o, t) /\ task[o].hand = Nothing
        /\ UNCHANGED <<owed, dropped, clients, settled, handled, buffer>>
    BY <1>0, <1>5 DEF Detach
  <2> HIDE DEF t
  <2> QED
    BY <2>1, <2>2, AccountsQuiet
<1> QED
  BY <1>1, <1>2, <1>3, <1>4, <1>5

\* The buffer, taken whole, is in the command's hands.
LEMMA AccountsSwap ==
  ASSUME IInv, Led, Accounts, OneOperator, NEW o \in Operator, Swap(o)
  PROVE  Accounts'
<1> USE DEF IInv
<1> DEFINE z == task[o].zone
           t == [task[o] EXCEPT !.at = "replay", !.hand = buffer[z]]
<1>1. task[o] \in Task /\ z \in Zone
  BY DEF Swap, Aimed, TypeOK
<1>2. t \in Task /\ t.at = "replay" /\ t.hand = buffer[z] /\ t.new = task[o].new /\ t.zone = z
  BY <1>1 DEF Task, TypeOK
<1>3. /\ Do(o, t) /\ buffer' = [buffer EXCEPT ![z] = Nothing]
      /\ UNCHANGED <<owed, dropped, clients, settled, handled, proc>>
  BY DEF Swap, processes, players, history
<1>4. \A q \in Operator : q = o /\ task'[q] = t
  BY <1>2, <1>3, DoType DEF OneOperator
<1>5. proc[task[o].new] = "up" /\ task[o].hand = Nothing
  BY DEF Swap, Led, NewUnused, Ready, Accounts, Hands
<1> HIDE DEF t, z
<1>6. Hands'
  BY <1>2, <1>3, <1>4, <1>5 DEF Hands
<1>7. ASSUME NEW p \in Player PROVE Accounted(p)'
  <2>1. Accounted(p) /\ Nothing[p] = {}
    BY NothingType DEF Accounts
  <2>2. \A y \in Zone : buffer'[y][p] = IF y = z THEN {} ELSE buffer[y][p]
    BY <1>1, <1>3, <2>1 DEF TypeOK
  <2>3. \A n \in owed[p], q \in Operator : n \notin task[q].hand[p]
    BY <1>4, <1>5, <2>1
  <2>4. owed[p] # {} => clients[p] \in Zone
    BY <2>1 DEF Accounted, Online, TypeOK
  <2>5. ASSUME NEW n \in owed[p]
        PROVE  /\ \A y \in Zone : n \in buffer'[y][p] => clients[p] = y
               /\ n \in buffer[z][p] => clients[p] = z
               /\ p \in settled /\ n \notin dropped[p] => \/ handled[p][n] > 0
                                   \/ n \in buffer'[clients[p]][p]
                                   \/ n \in buffer[z][p]
    BY <1>1, <2>1, <2>2, <2>3, <2>4 DEF Accounted
  <2>6. owed'[p] # {} => Online(p)'
    BY <1>3, <2>1 DEF Accounted, Online
  <2> QED
    BY <1>2, <1>3, <1>4, <2>5, <2>6 DEF Accounted
<1> QED
  BY <1>6, <1>7 DEF Accounts

\* A settled player is in the new instance, so that what is replayed is handled.
LEMMA AccountsReplay ==
  ASSUME IInv, Led, Kept, Accounts, OneOperator, NEW o \in Operator, Replay(o)
  PROVE  Accounts'
<1> USE DEF IInv
<1> DEFINE i == task[o].new
           h == task[o].hand
           t == [task[o] EXCEPT !.at = "reap", !.hand = Nothing]
<1>1. task[o] \in Task /\ i \in Instance /\ h \in Numbers
  BY DEF Replay, Aimed, TypeOK, Task, Numbers
<1>2. t \in Task /\ t.at = "reap" /\ t.hand = Nothing
  BY <1>1, NothingType DEF Task, Numbers
<1>3. /\ Do(o, t) /\ handled' = Played(i, h)
      /\ UNCHANGED <<owed, dropped, clients, settled, buffer>>
  BY DEF Replay, gateway, players
<1>4. \A q \in Operator : q = o /\ task'[q] = t
  BY <1>2, <1>3, DoType DEF OneOperator
<1>5. proc[i] = "up" /\ tx[task[o].zone] = i /\ task[o].mover = {}
  BY DEF Replay, Accounts, Hands, Led, OldUnused, Swapped, Kept, Movers
<1>6. ASSUME NEW p \in settled, clients[p] = task[o].zone PROVE p \in ents[i]
  <2>1. ~BetweenZones(p)
    BY <1>4, <1>5 DEF BetweenZones
  <2>2. Online(p)
    BY <1>6, UpdateAssumption DEF Replay, Aimed, Online
  <2> QED
    BY <1>5, <1>6, <2>1, <2>2 DEF Kept, SettledKept
<1>7. \A p \in Player, n \in FrameNo :
        handled'[p][n] = handled[p][n] + IF p \in ents[i] /\ n \in h[p] THEN 1 ELSE 0
  BY <1>3, <1>5 DEF Played
<1> HIDE DEF t
<1>8. Hands'
  BY <1>2, <1>4 DEF Hands
<1>9. ASSUME NEW p \in Player PROVE Accounted(p)'
  <2>1. Accounted(p) /\ Nothing[p] = {} /\ owed[p] \subseteq FrameNo
    BY NothingType DEF Accounts, TypeOK
  <2>2. ASSUME NEW n \in owed[p]
        PROVE  /\ \A y \in Zone : n \in buffer[y][p] => clients[p] = y
               /\ p \in settled /\ n \notin dropped[p] => \/ handled'[p][n] > 0
                                   \/ n \in buffer[clients[p]][p]
    <3>1. handled[p][n] \in Nat /\ n \in FrameNo
      BY <2>1 DEF TypeOK
    <3>2. handled[p][n] > 0 => handled'[p][n] > 0
      BY <1>7, <3>1
    <3>3. n \in h[p] /\ p \in settled /\ n \notin dropped[p] => handled'[p][n] > 0
      BY <1>6, <1>7, <2>1, <3>1 DEF Accounted
    <3> QED
      BY <1>4, <2>1, <3>2, <3>3 DEF Accounted
  <2>3. owed'[p] # {} => Online(p)'
    BY <1>3, <2>1 DEF Accounted, Online
  <2> QED
    BY <1>2, <1>3, <1>4, <2>1, <2>2, <2>3 DEF Accounted
<1> QED
  BY <1>8, <1>9 DEF Accounts

LEMMA AccountsAttach ==
  ASSUME IInv, Accounts, OneOperator, NEW o \in Operator, Attach(o)
  PROVE  Accounts'
<1> USE DEF IInv
<1> DEFINE s == task[o].zone
           d == task[o].to
           t == [task[o] EXCEPT !.at = "transfer", !.mover = {}]
<1>1. task[o] \in Task /\ s \in Zone
  BY DEF Attach, Aimed, TypeOK
<1>2. PICK m \in task[o].mover :
        /\ buffer' = [buffer EXCEPT ![s][m] = {}]
        /\ clients' = Routed(m, d)
        /\ handled' = [handled EXCEPT ![m] =
             [n \in FrameNo |-> @[n] + IF proc[tx[d]] = "up" /\ n \in buffer[s][m] THEN 1 ELSE 0]]
        /\ owed' = [owed EXCEPT ![m] = {}] /\ dropped' = dropped
        /\ settled' \subseteq settled
  BY DEF Attach
<1>3. m \in Player /\ t \in Task /\ t.at = "transfer" /\ t.hand = task[o].hand
  BY <1>1 DEF Task
<1>4. Do(o, t) /\ task[o].hand = Nothing
  BY DEF Attach, Accounts, Hands
<1>5. \A q \in Operator : q = o /\ task'[q] = t
  BY <1>3, <1>4, DoType DEF OneOperator
<1> HIDE DEF s, d, t
<1>6. Hands'
  BY <1>3, <1>4, <1>5 DEF Hands
<1>7. ASSUME NEW p \in Player PROVE Accounted(p)'
  <2>1. /\ owed[p] \subseteq FrameNo /\ clients[p] \in Zone \cup {NoZone} /\ Accounted(p)
        /\ Nothing[p] = {}
    BY NothingType DEF TypeOK, Accounts
  <2>2. CASE p = m
    <3>1. owed'[p] = {}
      BY <1>2, <1>3, <2>2 DEF TypeOK
    <3> QED
      BY <2>1, <3>1, AccountedSame
  <2>3. CASE p # m
    <3>1. /\ owed'[p] = owed[p] /\ clients'[p] = clients[p] /\ handled'[p] = handled[p]
          /\ p \in settled' => p \in settled
      BY <1>2, <1>3, <2>3 DEF TypeOK, Routed
    <3>2. \A y \in Zone : buffer'[y][p] = buffer[y][p]
      BY <1>1, <1>2, <1>3, <2>3 DEF TypeOK
    <3>3. \A q \in Operator : task'[q].hand[p] = task[q].hand[p] /\ task'[q].hand[p] = {}
      BY <1>3, <1>4, <1>5, <2>1
    <3> QED
      BY <1>2, <2>1, <3>1, <3>2, <3>3, AccountedSame
  <2> QED
    BY <2>2, <2>3
<1> QED
  BY <1>6, <1>7 DEF Accounts

LEMMA AccountsInit == Init => Accounts
BY NothingType DEF Init, Accounts, Hands, Accounted, Idle

LEMMA AccountsNext ==
  ASSUME OneOperator
  PROVE  IInv /\ Led /\ Kept /\ Accounts /\ [Next]_vars => Accounts'
<1> SUFFICES ASSUME IInv, Led, Kept, Accounts, [Next]_vars PROVE Accounts'
  OBVIOUS
<1>1. CASE UNCHANGED vars
  BY <1>1 DEF vars, gateway, processes, players, history, Accounts, Hands, Accounted, Online
<1> QED
  BY <1>1, AccountsClient, AccountsCommand, AccountsOnward, AccountsSwap, AccountsReplay,
     AccountsAttach DEF Next, Continue

LEMMA WaitingInit == Init => Waiting
BY DEF Init, Waiting, Nothing

\* Only a zone that is marking gets frames into its buffer; a swap takes all of
\* them, and of the other ends of an update each is a failure.
LEMMA WaitingNext == IInv /\ Waiting /\ [Next]_vars => Waiting'
<1> SUFFICES ASSUME IInv, Waiting, [Next]_vars PROVE Waiting'
  OBVIOUS
<1> USE DEF IInv, gateway, processes, players, history
<1>0. /\ buffer \in [Zone -> [Player -> SUBSET FrameNo]] /\ mark \in [Zone -> Mark]
      /\ faults \in Nat /\ \A o \in Operator : task[o].at # "idle" => task[o].zone \in Zone
  BY UpdateAssumption DEF TypeOK, Aimed
<1>1. ASSUME faults' = faults, mark' = mark,
             \A z \in Zone, p \in Player : buffer'[z][p] # {} => buffer[z][p] # {}
      PROVE  Waiting'
  BY <1>0, <1>1 DEF Waiting
<1>2. ASSUME NEW z \in Zone, NEW m \in {"marking", "migrating", "retired"},
             mark' = [mark EXCEPT ![z] = m], faults' = faults,
             \A y \in Zone, p \in Player : buffer'[y][p] # {} => buffer[y][p] # {}
      PROVE  Waiting'
  BY <1>0, <1>2 DEF Waiting
<1>3. ASSUME NEW p \in Player, Client(p) PROVE Waiting'
  <2>1. CASE Frame(p) /\ mark[clients[p]] = "marking"
    BY <1>0, <2>1 DEF Frame, Waiting
  <2>2. CASE ~(Frame(p) /\ mark[clients[p]] = "marking")
    BY <1>0, <1>1, <1>3, <2>2 DEF Client, Frame, Login, Logout, Cross
  <2> QED
    BY <2>1, <2>2
<1>4. ASSUME NEW o \in Operator, Command(o) PROVE Waiting'
  <2>1. ASSUME NEW z \in Zone, Begin(o, z) PROVE Waiting'
    BY <1>0, <1>1, <2>1 DEF Begin
  <2>2. ASSUME NEW z \in Zone, Phase1(o, z) PROVE Waiting'
    <3>1. \A y \in Zone, p \in Player : buffer'[y][p] # {} => buffer[y][p] # {}
      BY <1>0, <2>2 DEF Phase1
    <3> QED
      BY <1>2, <2>2, <3>1 DEF Phase1
  <2>3. ASSUME NEW z \in Zone, Phase3(o, z) PROVE Waiting'
    BY <1>2, <2>3 DEF Phase3
  <2>4. ASSUME NEW s \in Zone, NEW d \in Zone, Phase2(o, s, d) PROVE Waiting'
    BY <1>2, <2>4 DEF Phase2
  <2> QED
    BY <1>4, <2>1, <2>2, <2>3, <2>4 DEF Command
<1>5. ASSUME NEW o \in Operator, Abort(o) PROVE Waiting'
  <2>1. faults' > 0
    BY <1>0, <1>5 DEF Abort
  <2> QED
    BY <2>1 DEF Waiting
<1>6. ASSUME NEW o \in Operator, Swap(o) PROVE Waiting'
  <2>1. task[o].zone \in Zone
    BY <1>0, <1>6 DEF Swap
  <2>2. ASSUME NEW y \in Zone
        PROVE  /\ y = task[o].zone => buffer'[y] = Nothing
               /\ y # task[o].zone => buffer'[y] = buffer[y] /\ mark'[y] = mark[y]
    BY <1>0, <1>6, <2>1 DEF Swap
  <2>3. faults' = faults /\ \A p \in Player : Nothing[p] = {}
    BY <1>6 DEF Swap, Nothing
  <2> QED
    BY <2>2, <2>3 DEF Waiting
<1>7. ASSUME NEW o \in Operator, MarkZone(o) PROVE Waiting'
  BY <1>0, <1>2, <1>7 DEF MarkZone
<1>8. ASSUME NEW o \in Operator, Attach(o) PROVE Waiting'
  <2>1. PICK p \in task[o].mover : buffer' = [buffer EXCEPT ![task[o].zone][p] = {}]
    BY <1>8 DEF Attach
  <2>2. \A y \in Zone, q \in Player : buffer'[y][q] # {} => buffer[y][q] # {}
    BY <1>0, <2>1
  <2> QED
    BY <1>0, <1>1, <1>8, <2>2 DEF Attach
<1>9. ASSUME NEW o \in Operator,
             \/ Launch(o) \/ Recreate(o) \/ Replay(o) \/ Reap(o)
             \/ (\E p \in Player : Detach(o, p)) \/ Transferred(o)
      PROVE  Waiting'
  BY <1>0, <1>1, <1>9 DEF Launch, Recreate, Replay, Reap, Detach, Transferred
<1>10. CASE UNCHANGED vars
  BY <1>0, <1>1, <1>10 DEF vars
<1> QED
  BY <1>3, <1>4, <1>5, <1>6, <1>7, <1>8, <1>9, <1>10 DEF Next, Continue

\* With one operator at work, updates lose no buffered input of a settled player:
\* it is handled, or on its way to the new instance, or in its zone's buffer, where
\* only a failed update leaves it and only a phase 1 throws it away.
THEOREM InputIsKept ==
  ASSUME OneOperator
  PROVE  Spec => []InputKept
<1>1. OneUpdateEach
  BY DEF OneOperator, OneUpdateEach
<1>2. IInv /\ Accounts /\ Waiting => InputKept
  <2> SUFFICES ASSUME IInv, Accounts, Waiting, NEW p \in settled, NEW n \in owed[p] \ dropped[p]
               PROVE  \/ handled[p][n] > 0 \/ n \in InHand(p)
                      \/ /\ n \in buffer[clients[p]][p]
                         /\ mark[clients[p]] = "normal" => faults > 0
    BY DEF InputKept
  <2>1. p \in Player /\ Accounted(p) /\ owed[p] # {}
    BY DEF IInv, TypeOK, Accounts
  <2>2. clients[p] \in Zone
    BY <2>1 DEF Accounted, Online, IInv, TypeOK
  <2>3. \/ handled[p][n] > 0 \/ n \in buffer[clients[p]][p]
        \/ \E o \in Operator : n \in task[o].hand[p]
    BY <2>1 DEF Accounted
  <2> QED
    BY <2>1, <2>2, <2>3 DEF Waiting, InHand
<1>3. IInv /\ Led /\ [Next]_vars => Led'
  BY <1>1, LedNext
<1>4. IInv /\ Led /\ Kept /\ Accounts /\ [Next]_vars => Accounts'
  BY AccountsNext
<1> QED
  BY <1>2, <1>3, <1>4, Invariance, LedInit, KeptInit, KeptNext, AccountsInit, WaitingInit,
     WaitingNext, PTL DEF Spec

============================================================================
