--------------------------- MODULE RollingUpdate ---------------------------
(***************************************************************************)
(* Replacing a running zone process: the rolling update, which puts a new  *)
(* instance behind the same zone id, and the older three-phase migration,  *)
(* which empties one zone into another. Operators (admin connections and   *)
(* the gateway's console) run them command by command, while players log   *)
(* in, play, cross borders and leave.                                      *)
(*                                                                         *)
(* An instance is one process run. What the gateway sends it arrives in    *)
(* order and only this order counts here, so a message takes effect when   *)
(* it is sent; one to an instance that has ended is lost. The frames of a  *)
(* player are numbered. Positions and regions are left out (see Handoff),  *)
(* and a crossing, which Handoff shows in its steps, is one step here.     *)
(***************************************************************************)
EXTENDS Integers, FiniteSets

CONSTANTS
  Player, Zone, Operator,
  Instance,    \* process runs, those that may still be launched included
  First,       \* First[z]: the instance zone z was registered with
  Launchable,  \* zones registered with the path of their program (exe)
  NoZone, NoInstance,
  MaxFrames, MaxFaults  \* bounds: frames of a player, failed launches

FrameNo == 1 .. MaxFrames

ASSUME UpdateAssumption ==
  /\ First \in [Zone -> Instance]
  /\ \A y, z \in Zone : First[y] = First[z] => y = z
  /\ Launchable \subseteq Zone
  /\ NoZone \notin Zone /\ NoInstance \notin Instance
  /\ MaxFrames \in Nat /\ MaxFaults \in Nat

VARIABLES
  tx,        \* [Zone -> Instance], the instance a zone's channel leads to
  mark,      \* [Zone -> Mark], migration_state
  buffer,    \* [Zone -> [Player -> SUBSET FrameNo]], packet_buffer
  child,     \* [Zone -> Instance or NoInstance], processes the gateway started
  clients,   \* [Player -> Zone or NoZone], current_zone of each client
  proc,      \* [Instance -> ProcState]
  ents,      \* [Instance -> SUBSET Player], the players it simulates
  task,      \* [Operator -> Task], the command each operator is running
  sent,      \* [Player -> 0 .. MaxFrames], frames sent so far
  handled,   \* history: how often each frame was handled by an instance
  owed,      \* history: frames buffered for a player since it came to its zone
  dropped,   \* history: buffered frames that a phase 1 threw away
  settled,   \* history: players that neither came nor went during an update
  faults

gateway == <<tx, mark, buffer, child>>
processes == <<proc, ents>>
players == <<clients, sent>>
history == <<handled, owed, dropped, settled>>
vars == <<gateway, processes, players, task, history, faults>>

Mark == {"normal", "marking", "migrating", "retired"}
\* "closed" is a process whose connection the gateway has closed.
ProcState == {"none", "up", "closed", "ended"}

Nothing == [p \in Player |-> {}]

\* `zone` is the zone the command is about and `to` the one it empties into;
\* `who` are the players of the snapshot still to be seen to, `mover` the one
\* that is between two zones; `hand` are buffered frames taken out to replay.
Task == [at : {"idle", "mark", "launch", "connect", "swap", "replay", "reap",
               "transfer", "join"},
         zone : Zone \cup {NoZone}, to : Zone \cup {NoZone},
         old : Instance \cup {NoInstance}, new : Instance \cup {NoInstance},
         who : SUBSET Player, mover : SUBSET Player,
         hand : [Player -> SUBSET FrameNo]]

Idle == [at |-> "idle", zone |-> NoZone, to |-> NoZone, old |-> NoInstance,
         new |-> NoInstance, who |-> {}, mover |-> {}, hand |-> Nothing]

Init ==
  /\ tx = First
  /\ mark = [z \in Zone |-> "normal"]
  /\ buffer = [z \in Zone |-> Nothing]
  /\ child = [z \in Zone |-> NoInstance]
  /\ clients = [p \in Player |-> NoZone]
  /\ proc = [i \in Instance |-> IF \E z \in Zone : First[z] = i THEN "up" ELSE "none"]
  /\ ents = [i \in Instance |-> {}]
  /\ task = [o \in Operator |-> Idle]
  /\ sent = [p \in Player |-> 0]
  /\ handled = [p \in Player |-> [n \in FrameNo |-> 0]]
  /\ owed = Nothing
  /\ dropped = Nothing
  /\ settled = Player
  /\ faults = 0

----------------------------------------------------------------------------
\* What an instance does with a message.

Spawned(i, ps) == IF proc[i] = "up" THEN [ents EXCEPT ![i] = @ \cup ps] ELSE ents

Left(i, p) == IF proc[i] = "up" THEN [ents EXCEPT ![i] = @ \ {p}] ELSE ents

\* Frames of a player the instance does not simulate are ignored.
Played(i, batch) ==
  [p \in Player |-> [n \in FrameNo |->
     handled[p][n] + IF proc[i] = "up" /\ p \in ents[i] /\ n \in batch[p] THEN 1 ELSE 0]]

Online(p) == clients[p] # NoZone
Residents(z) == {p \in Player : clients[p] = z}

\* From the snapshot of an update to the swap of its instance, whoever comes is
\* put into the old instance, and whoever goes is still in the snapshot.
Updating(z) == \E o \in Operator :
  task[o].zone = z /\ task[o].at \in {"mark", "launch", "connect", "swap"}

----------------------------------------------------------------------------
\* Players.

Login(p, z) ==
  /\ ~Online(p)
  /\ clients' = [clients EXCEPT ![p] = z]
  /\ ents' = Spawned(tx[z], {p})
  /\ settled' = IF Updating(z) THEN settled \ {p} ELSE settled \cup {p}
  /\ UNCHANGED <<gateway, proc, sent, task, handled, owed, dropped, faults>>

\* Frames that are buffered for the player stay in the buffer.
Logout(p) ==
  /\ Online(p)
  /\ clients' = [clients EXCEPT ![p] = NoZone]
  /\ ents' = Left(tx[clients[p]], p)
  /\ owed' = [owed EXCEPT ![p] = {}]
  /\ UNCHANGED <<gateway, proc, sent, task, handled, dropped, settled, faults>>

\* The zone hands a player that left its region to another one.
Cross(p, z) ==
  /\ Online(p) /\ z # clients[p]
  /\ LET from == tx[clients[p]] IN
     /\ proc[from] = "up" /\ p \in ents[from]
     /\ ents' = [i \in Instance |->
          IF i = from THEN ents[i] \ {p} ELSE Spawned(tx[z], {p})[i]]
  /\ clients' = [clients EXCEPT ![p] = z]
  /\ owed' = [owed EXCEPT ![p] = {}]
  /\ settled' = IF Updating(clients[p]) \/ Updating(z) THEN settled \ {p} ELSE settled
  /\ UNCHANGED <<gateway, proc, sent, task, handled, dropped, faults>>

\* Only a zone that is MARKING buffers (route_client_frame).
Frame(p) ==
  LET n == sent[p] + 1
      z == clients[p]
  IN
  /\ Online(p) /\ n \in FrameNo
  /\ sent' = [sent EXCEPT ![p] = n]
  /\ IF mark[z] = "marking"
     THEN /\ buffer' = [buffer EXCEPT ![z][p] = @ \cup {n}]
          /\ owed' = [owed EXCEPT ![p] = @ \cup {n}]
          /\ UNCHANGED handled
     ELSE /\ handled' = Played(tx[z], [Nothing EXCEPT ![p] = {n}])
          /\ UNCHANGED <<buffer, owed>>
  /\ UNCHANGED <<tx, mark, child, processes, clients, task, dropped, settled, faults>>

----------------------------------------------------------------------------
\* rolling_update. An update of all zones is this one, zone after zone.

Do(o, t) == task' = [task EXCEPT ![o] = t]

\* The channel in use and the players of the zone are looked up ...
Begin(o, z) ==
  /\ task[o] = Idle /\ z \in Launchable
  /\ Do(o, [Idle EXCEPT !.at = "mark", !.zone = z, !.old = tx[z], !.who = Residents(z)])
  /\ UNCHANGED <<gateway, processes, players, history, faults>>

\* ... and the zone is marked; what its buffer holds already is kept.
MarkZone(o) ==
  /\ task[o].at = "mark"
  /\ mark' = [mark EXCEPT ![task[o].zone] = "marking"]
  /\ Do(o, [task[o] EXCEPT !.at = "launch"])
  /\ UNCHANGED <<tx, buffer, child, processes, players, history, faults>>

\* The next process run; which name it has does not matter.
Fresh == CHOOSE i \in Instance : proc[i] = "none"

Launch(o) ==
  /\ task[o].at = "launch" /\ \E i \in Instance : proc[i] = "none"
  /\ proc' = [proc EXCEPT ![Fresh] = "up"]
  /\ Do(o, [task[o] EXCEPT !.at = "connect", !.new = Fresh])
  /\ UNCHANGED <<gateway, ents, players, history, faults>>

\* A launch that fails, or an instance that is not reached in fifty attempts:
\* the zone goes on as it was. The buffer is left as it is, and so is the process.
Abort(o) ==
  /\ task[o].at \in {"launch", "connect"} /\ faults < MaxFaults
  /\ faults' = faults + 1
  /\ mark' = [mark EXCEPT ![task[o].zone] = "normal"]
  /\ Do(o, Idle)
  /\ UNCHANGED <<tx, buffer, child, processes, players, history>>

\* Slip: nobody is recreated: players are expected to join by themselves.
ReachOnly(o) ==
  /\ task[o].at = "connect"
  /\ Do(o, [task[o] EXCEPT !.at = "swap"])
  /\ UNCHANGED <<gateway, processes, players, history, faults>>

\* Slip: the old instance is shut down as soon as the new one answers.
ReachAndDrop(o) ==
  /\ task[o].at = "connect"
  /\ ents' = Spawned(task[o].new, task[o].who)
  /\ proc' = [proc EXCEPT ![task[o].old] = "ended"]
  /\ Do(o, [task[o] EXCEPT !.at = "swap"])
  /\ UNCHANGED <<gateway, players, history, faults>>

\* The new instance answers: the players of the snapshot are recreated in it,
\* connected or not by now.
Recreate(o) ==
  /\ task[o].at = "connect"
  /\ ents' = Spawned(task[o].new, task[o].who)
  /\ Do(o, [task[o] EXCEPT !.at = "swap"])
  /\ UNCHANGED <<gateway, proc, players, history, faults>>

\* Slip: the buffer is read but not emptied.
SwapCopy(o) ==
  LET z == task[o].zone IN
  /\ task[o].at = "swap"
  /\ tx' = [tx EXCEPT ![z] = task[o].new]
  /\ mark' = [mark EXCEPT ![z] = "normal"]
  /\ Do(o, [task[o] EXCEPT !.at = "replay", !.hand = buffer[z]])
  /\ UNCHANGED <<buffer, child, processes, players, history, faults>>

\* Slip: the buffer is emptied and what it held is not kept.
SwapDrop(o) ==
  LET z == task[o].zone IN
  /\ task[o].at = "swap"
  /\ tx' = [tx EXCEPT ![z] = task[o].new]
  /\ mark' = [mark EXCEPT ![z] = "normal"]
  /\ buffer' = [buffer EXCEPT ![z] = Nothing]
  /\ Do(o, [task[o] EXCEPT !.at = "replay"])
  /\ UNCHANGED <<child, processes, players, history, faults>>

\* Slip: the buffer is left for somebody else to replay.
SwapUntaken(o) ==
  LET z == task[o].zone IN
  /\ task[o].at = "swap"
  /\ tx' = [tx EXCEPT ![z] = task[o].new]
  /\ mark' = [mark EXCEPT ![z] = "normal"]
  /\ Do(o, [task[o] EXCEPT !.at = "replay"])
  /\ UNCHANGED <<buffer, child, processes, players, history, faults>>

\* Under one lock the channel is swapped, the mark cleared, the buffer taken.
Swap(o) ==
  LET z == task[o].zone IN
  /\ task[o].at = "swap"
  /\ tx' = [tx EXCEPT ![z] = task[o].new]
  /\ mark' = [mark EXCEPT ![z] = "normal"]
  /\ buffer' = [buffer EXCEPT ![z] = Nothing]
  /\ Do(o, [task[o] EXCEPT !.at = "replay", !.hand = buffer[z]])
  /\ UNCHANGED <<child, processes, players, history, faults>>

\* The buffered frames follow, behind any that came since the swap.
Replay(o) ==
  /\ task[o].at = "replay"
  /\ handled' = Played(task[o].new, task[o].hand)
  /\ Do(o, [task[o] EXCEPT !.at = "reap", !.hand = Nothing])
  /\ UNCHANGED <<gateway, processes, players, owed, dropped, settled, faults>>

\* The old instance is told to stop, which it hears unless it was closed, and
\* the process the gateway had started before for this zone is killed.
Reap(o) ==
  LET z == task[o].zone
      Stopped == {i \in {task[o].old} : proc[i] = "up"} \cup ({child[z]} \ {NoInstance})
  IN
  /\ task[o].at = "reap"
  /\ proc' = [i \in Instance |-> IF i \in Stopped THEN "ended" ELSE proc[i]]
  /\ ents' = [i \in Instance |-> IF i \in Stopped THEN {} ELSE ents[i]]
  /\ child' = [child EXCEPT ![z] = task[o].new]
  /\ Do(o, Idle)
  /\ UNCHANGED <<tx, mark, buffer, players, history, faults>>

----------------------------------------------------------------------------
\* The three-phase migration.

\* Phase 1 marks the zone and gives each of its players a NEW buffer: what one
\* of them had in it is dropped.
Phase1(o, z) ==
  /\ task[o] = Idle
  /\ mark' = [mark EXCEPT ![z] = "marking"]
  /\ buffer' = [buffer EXCEPT ![z] =
       [p \in Player |-> IF clients[p] = z THEN {} ELSE buffer[z][p]]]
  /\ dropped' = [p \in Player |->
       IF clients[p] = z THEN dropped[p] \cup buffer[z][p] ELSE dropped[p]]
  /\ UNCHANGED <<tx, child, processes, players, task, handled, owed, settled, faults>>

\* Phase 2 stops the buffering and takes the players over one by one.
Phase2(o, s, t) ==
  /\ task[o] = Idle
  /\ mark' = [mark EXCEPT ![s] = "migrating"]
  /\ Do(o, [Idle EXCEPT !.at = "transfer", !.zone = s, !.to = t, !.who = Residents(s)])
  /\ UNCHANGED <<tx, buffer, child, processes, players, history, faults>>

\* The source forgets the player ...
Detach(o, p) ==
  /\ task[o].at = "transfer" /\ p \in task[o].who
  /\ ents' = Left(tx[task[o].zone], p)
  /\ Do(o, [task[o] EXCEPT !.at = "join", !.who = @ \ {p}, !.mover = {p}])
  /\ UNCHANGED <<gateway, proc, players, history, faults>>

\* Slip: the client is routed to the target's process, not to its id.
RoutedToProcess(p, t) == [clients EXCEPT ![p] = IF @ = NoZone THEN NoZone ELSE tx[t]]

\* A client that is still connected is routed to t.
Routed(p, t) == [clients EXCEPT ![p] = IF @ = NoZone THEN NoZone ELSE t]

\* ... and a tenth of a second later its buffer is popped, its client routed to
\* the target, and the target told to let it join and to handle its frames.
Attach(o) ==
  LET s == task[o].zone
      t == task[o].to
  IN
  /\ task[o].at = "join"
  /\ \E p \in task[o].mover :
       /\ buffer' = [buffer EXCEPT ![s][p] = {}]
       /\ clients' = Routed(p, t)
       /\ ents' = Spawned(tx[t], {p})
       /\ handled' = [handled EXCEPT ![p] =
            [n \in FrameNo |-> @[n] + IF proc[tx[t]] = "up" /\ n \in buffer[s][p] THEN 1 ELSE 0]]
       /\ owed' = [owed EXCEPT ![p] = {}]
       /\ settled' = IF Updating(s) \/ Updating(t) \/ clients[p] \notin {s, NoZone}
                     THEN settled \ {p} ELSE settled
  /\ Do(o, [task[o] EXCEPT !.at = "transfer", !.mover = {}])
  /\ UNCHANGED <<tx, mark, child, proc, sent, dropped, faults>>

Transferred(o) ==
  /\ task[o].at = "transfer" /\ task[o].who = {}
  /\ Do(o, Idle)
  /\ UNCHANGED <<gateway, processes, players, history, faults>>

\* Phase 3 closes the connection; the zone stays in the map.
Phase3(o, z) ==
  /\ task[o] = Idle
  /\ mark' = [mark EXCEPT ![z] = "retired"]
  /\ proc' = [proc EXCEPT ![tx[z]] = IF @ = "up" THEN "closed" ELSE @]
  /\ UNCHANGED <<tx, buffer, child, ents, players, task, history, faults>>

----------------------------------------------------------------------------

Client(p) == \/ Logout(p) \/ Frame(p)
             \/ \E z \in Zone : Login(p, z) \/ Cross(p, z)

Command(o) == \E z \in Zone :
  Begin(o, z) \/ Phase1(o, z) \/ Phase3(o, z) \/ \E t \in Zone : Phase2(o, z, t)

\* What an operator's command goes on to do by itself.
Continue(o) ==
  \/ MarkZone(o) \/ Launch(o)
  \/ Recreate(o) \/ Swap(o) \/ Replay(o) \/ Reap(o)
  \/ (\E p \in Player : Detach(o, p)) \/ Attach(o) \/ Transferred(o)

Next == \/ \E p \in Player : Client(p)
        \/ \E o \in Operator : Command(o) \/ Continue(o) \/ Abort(o)

Spec == Init /\ [][Next]_vars

\* A command that was begun is a task that only waits for processes and timers
\* with a limit; nothing obliges players or operators to do anything.
FairSpec == Spec /\ \A o \in Operator : WF_vars(Continue(o) \/ Abort(o))

----------------------------------------------------------------------------

\* Every variable is of its type.
TypeOK ==
  /\ tx \in [Zone -> Instance]
  /\ mark \in [Zone -> Mark]
  /\ buffer \in [Zone -> [Player -> SUBSET FrameNo]]
  /\ child \in [Zone -> Instance \cup {NoInstance}]
  /\ clients \in [Player -> Zone \cup {NoZone}]
  /\ proc \in [Instance -> ProcState]
  /\ ents \in [Instance -> SUBSET Player]
  /\ task \in [Operator -> Task]
  /\ sent \in [Player -> 0 .. MaxFrames]
  /\ handled \in [Player -> [FrameNo -> Nat]]
  /\ owed \in [Player -> SUBSET FrameNo]
  /\ dropped \in [Player -> SUBSET FrameNo]
  /\ settled \subseteq Player
  /\ faults \in 0 .. MaxFaults

\* No frame is handled twice: not by the old and the new instance, not when an
\* update is aborted and repeated, not by two zones.
HandledOnce == \A p \in Player, n \in FrameNo : handled[p][n] <= 1

\* The channel of a zone never leads to an instance that was shut down or
\* killed ("so the world stays up").
RouteIsLive == \A z \in Zone : proc[tx[z]] \in {"up", "closed"}

BetweenZones(p) == \E o \in Operator : p \in task[o].mover

\* A connected player that did not come or go during an update is simulated by
\* the instance its frames are sent to, before, during and after every update.
SettledKept == \A p \in settled :
  Online(p) /\ ~BetweenZones(p) /\ proc[tx[clients[p]]] = "up"
    => p \in ents[tx[clients[p]]]

InHand(p) == UNION {task[o].hand[p] : o \in Operator}

\* An update loses no buffered input of a settled player that stays in its zone
\* ("no input lost"): it is handled, or on its way to the new instance, or in a
\* buffer that will be taken. It is left in the buffer of a zone that no longer
\* buffers only after a FAILED update, until the next one; and nothing throws it
\* away but a phase 1, which does, when it finds it in the buffer (`dropped`).
InputKept == \A p \in settled : \A n \in owed[p] \ dropped[p] :
  \/ handled[p][n] > 0 \/ n \in InHand(p)
  \/ /\ n \in buffer[clients[p]][p]
     /\ mark[clients[p]] = "normal" => faults > 0

\* Input that is in the buffer of a zone that is being updated is handled in the
\* end, if the player stays and no update fails.
InputDelivered == \A p \in Player, n \in FrameNo :
  Online(p) /\ n \in buffer[clients[p]][p] /\ p \in settled /\ Updating(clients[p])
    ~> handled[p][n] > 0 \/ n \notin owed[p] \/ p \notin settled \/ faults > 0

\* "3. recreate every entity in it at its last-known position" (proxy.rs:1015):
\* with no command running, every connected player of a zone whose process runs
\* is simulated by it.
EveryEntityRecreated ==
  (\A o \in Operator : task[o] = Idle) =>
    \A p \in Player : Online(p) /\ proc[tx[clients[p]]] = "up"
      => p \in ents[tx[clients[p]]]
============================================================================
