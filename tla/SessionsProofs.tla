-------------------------- MODULE SessionsProofs --------------------------
(***************************************************************************)
(* What Sessions keeps for any number of users, connections, attempts,     *)
(* crashes and errors: its types, the accounts, and who plays whom.        *)
(***************************************************************************)
EXTENDS Sessions, TLAPS

\* The one transaction under way holds one new account, of the connection that
\* has the database.
OneWriter ==
  /\ writer = NoSocket => staged = {}
  /\ writer # NoSocket =>
       /\ conn[writer].at = "inserted"
       /\ \E i \in Id : staged = {[email |-> conn[writer].who, id |-> i]}
  /\ \A a \in staged : ~Taken(a.email) /\ a.id \notin characters /\ a.id <= ids

\* Ids come from a counter: what is used is not used again.
IdsUsed ==
  /\ \A i \in characters : i <= ids
  /\ \A s \in Socket : conn[s].at \in InSession =>
       conn[s].char \in 1 .. ids /\ \A a \in staged : a.id # conn[s].char

TokensTrue == \A t \in tokens : [email |-> t[1], id |-> t[2]] \in accounts

\* An entry is of a connection that has entered and not yet cleaned up.
EntriesTrue == \A i \in Id : clients[i] # NoSocket =>
  conn[clients[i]].char = i /\ conn[clients[i]].at \in {"tracked", "live", "closing", "forgotten"}

PlaysOwn == \A s \in Socket : conn[s].at \in InSession /\ Persistent(conn[s].char) =>
  [email |-> conn[s].who, id |-> conn[s].char] \in accounts

\* Whoever has connected is a user.
Served == \A s \in Socket : conn[s].at # "off" => conn[s].who \in User

IInv == /\ TypeOK /\ Served /\ EveryAccountPlays /\ OneWriter /\ IdsUsed
        /\ TokensTrue /\ EntriesTrue /\ PlaysOwn

LEMMA InvInit == Init => IInv
<1> SUFFICES ASSUME Init PROVE IInv
  OBVIOUS
<1>1. Off \in Conn
  BY SessionAssumption DEF Off, Conn, At, Spawn, Position
<1>2. TypeOK
  BY <1>1, SessionAssumption DEF Init, TypeOK, Spawn, Position, Nowhere
<1>3. \A s \in Socket : conn[s].at \notin InSession
  BY DEF Init, Off, InSession
<1>4. QED
  BY <1>2, <1>3 DEF Init, IInv, EveryAccountPlays, OneWriter, IdsUsed, TokensTrue,
     EntriesTrue, PlaysOwn, Served, Off

----------------------------------------------------------------------------
\* Types.

LEMMA InitialTypes == Init => TypeOK
  BY InvInit DEF IInv

\* The two ways a task moves on.
LEMMA ConnTypes ==
  ASSUME TypeOK, NEW s \in Socket
  PROVE  /\ \A place \in At : Goes(s, place) => conn' \in [Socket -> Conn]
         /\ Ends(s) => conn' \in [Socket -> Conn]
         /\ Refused(s) => conn' \in [Socket -> Conn]
<1>1. Off \in Conn
  BY SessionAssumption DEF Off, Conn, At, Spawn, Position
<1>2. ASSUME NEW place \in At, Goes(s, place) PROVE conn' \in [Socket -> Conn]
  BY <1>2 DEF Goes, TypeOK, Conn
<1>3. ASSUME Ends(s) PROVE conn' \in [Socket -> Conn]
  BY <1>1, <1>3 DEF Ends, TypeOK
<1>4. ASSUME Refused(s) PROVE conn' \in [Socket -> Conn]
  <2>1. CASE conn[s].tries + 1 >= MaxTries
    BY <1>3, <1>4, <2>1 DEF Refused
  <2>2. CASE ~(conn[s].tries + 1 >= MaxTries)
    <3>1. conn[s] \in Conn /\ conn[s].tries + 1 \in 0 .. MaxTries - 1
      BY <2>2, SessionAssumption DEF TypeOK, Conn
    <3>2. conn' = [conn EXCEPT ![s].at = "auth", ![s].tries = @ + 1]
      BY <1>4, <2>2 DEF Refused
    <3>3. "auth" \in At
      BY DEF At
    <3>4. QED BY <3>1, <3>2, <3>3 DEF TypeOK, Conn
  <2>3. QED BY <2>1, <2>2
<1>5. QED BY <1>2, <1>3, <1>4

\* The two flags a task flips.
LEMMA FlagTypes ==
  ASSUME TypeOK, NEW s \in Socket, NEW b \in BOOLEAN
  PROVE  /\ [conn EXCEPT ![s].awaiting = b] \in [Socket -> Conn]
         /\ [conn EXCEPT ![s].gone = b] \in [Socket -> Conn]
<1>1. conn \in [Socket -> Conn] /\ conn[s] \in Conn
  BY DEF TypeOK
<1>2. /\ [conn[s] EXCEPT !.awaiting = b] \in Conn
      /\ [conn[s] EXCEPT !.gone = b] \in Conn
  BY <1>1 DEF Conn
<1>3. QED BY <1>1, <1>2

LEMMA LeaveTypes ==
  ASSUME TypeOK, NEW s \in Socket, Leaves(s)
  PROVE  conn' \in [Socket -> Conn]
<1>1. conn \in [Socket -> Conn] /\ conn[s] \in Conn /\ "closing" \in At
  BY DEF TypeOK, At
<1>2. [conn[s] EXCEPT !.at = "closing", !.awaiting = FALSE, !.gone = FALSE] \in Conn
  BY <1>1 DEF Conn
<1>3. QED BY <1>1, <1>2 DEF Leaves

LEMMA AdmitTypes ==
  ASSUME TypeOK, NEW s \in Socket, NEW i \in Id, NEW p \in Position, Admits(s, i, p),
         conn[s].who \in User
  PROVE  conn' \in [Socket -> Conn] /\ tokens' \subseteq User \X Id
<1>1. conn[s] \in Conn /\ "known" \in At /\ 0 \in 0 .. MaxTries - 1
  BY SessionAssumption DEF TypeOK, Conn, At
<1>2. conn' \in [Socket -> Conn]
  BY <1>1 DEF Admits, TypeOK, Conn
<1>3. QED BY <1>2 DEF Admits, TypeOK

LEMMA TypeHandshake ==
  ASSUME TypeOK, Served, NEW s \in Socket, Handshake(s)
  PROVE  TypeOK'
<1>1. ASSUME NEW u \in User, Connect(s, u) PROVE TypeOK'
  <2>1. [Off EXCEPT !.at = "auth", !.who = u] \in Conn
    <3>1. Off \in Conn /\ "auth" \in At
      BY SessionAssumption DEF Off, Conn, At, Spawn, Position
    <3>2. QED BY <3>1 DEF Conn
  <2>2. conn' \in [Socket -> Conn]
    BY <1>1, <2>1 DEF Connect, TypeOK
  <2>3. connects' \in 0 .. MaxConnects
    BY <1>1, SessionAssumption DEF Connect, TypeOK
  <2>4. QED BY <1>1, <2>2, <2>3 DEF Connect, TypeOK, db, world
<1>2. CASE Refuse(s)
  BY <1>2, ConnTypes DEF Refuse, TypeOK, db, world, bounds
<1>3. CASE HandshakeEnds(s)
  BY <1>3, ConnTypes DEF HandshakeEnds, TypeOK, db, world, bounds
<1>4. CASE Guest(s)
  <2>1. ids + 1 \in Id /\ ids' \in 0 .. MaxIds
    BY <1>4, SessionAssumption DEF Guest, TypeOK, Id
  <2>2. conn[s] \in Conn /\ "known" \in At /\ 0 \in 0 .. MaxTries - 1
    BY SessionAssumption DEF TypeOK, Conn, At
  <2>3. conn' = [conn EXCEPT ![s] = [conn[s] EXCEPT !.at = "known", !.char = ids + 1,
                                                    !.tries = 0]]
    BY <1>4 DEF Guest, TypeOK
  <2>4. conn' \in [Socket -> Conn]
    BY <2>1, <2>2, <2>3 DEF TypeOK, Conn
  <2>5. QED BY <1>4, <2>1, <2>4 DEF Guest, TypeOK, db, world
<1>5. CASE Register(s)
  BY <1>5, ConnTypes DEF Register, TypeOK, db, world, bounds, At
<1>6. CASE Insert(s)
  <2>1. conn' \in [Socket -> Conn]
    BY <1>6, ConnTypes DEF Insert, At
  <2>2. CASE Conflict(conn[s].who) /\ Refused(s) /\ UNCHANGED <<db, ids>>
    BY <1>6, <2>1, <2>2 DEF Insert, TypeOK, db, world
  <2>3. CASE /\ writer' = s /\ Stage(s, [email |-> conn[s].who, id |-> ids + 1])
             /\ ids' = ids + 1
    <3>1. ids + 1 \in Id /\ ids' \in 0 .. MaxIds
      BY <1>6, <2>3, SessionAssumption DEF Insert, TypeOK, Id
    <3>2. conn[s].who \in User
      BY <1>6 DEF Insert, Served
    <3>3. staged' \subseteq Account /\ UNCHANGED <<accounts, characters, row>>
      BY <2>3, <3>1, <3>2 DEF Stage, Account
    <3>4. QED BY <1>6, <2>1, <2>3, <3>1, <3>3 DEF Insert, TypeOK, world
  <2>4. QED BY <1>6, <2>2, <2>3 DEF Insert
<1>7. CASE Commit(s)
  <2>1. PICK a \in staged : /\ characters' = characters \cup {a.id}
                            /\ row' = [row EXCEPT ![a.id] = Spawn]
                            /\ Admits(s, a.id, Spawn)
    BY <1>7 DEF Commit
  <2>2. a.id \in Id /\ Spawn \in Position
    BY SessionAssumption DEF TypeOK, Account, Spawn, Position
  <2>3. conn[s].who \in User
    BY <1>7 DEF Commit, Served
  <2>4. conn' \in [Socket -> Conn] /\ tokens' \subseteq User \X Id
    BY <2>1, <2>2, <2>3, AdmitTypes
  <2>5. row' \in [Id -> Position] /\ characters' \subseteq Id
    BY <2>1, <2>2 DEF TypeOK
  <2>6. QED BY <1>7, <2>4, <2>5 DEF Commit, TypeOK, world, bounds
<1>8. CASE Rollback(s)
  <2>1. faults' \in 0 .. MaxFaults
    BY <1>8, SessionAssumption DEF Rollback, TypeOK
  <2>2. conn' \in [Socket -> Conn]
    BY <1>8, ConnTypes DEF Rollback
  <2>3. QED BY <1>8, <2>1, <2>2 DEF Rollback, TypeOK, world
<1>9. CASE Login(s)
  BY <1>9, AdmitTypes DEF Login, TypeOK, Account, db, world, bounds
<1>10. CASE Token(s)
  BY <1>10, AdmitTypes DEF Token, Opens, TypeOK, db, world, bounds
<1>11. QED
  BY <1>1, <1>2, <1>3, <1>4, <1>5, <1>6, <1>7, <1>8, <1>9, <1>10 DEF Handshake

LEMMA ReportTypes ==
  ASSUME TypeOK, NEW i \in Id, NEW p \in Position, Reports(i, p)
  PROVE  cache' \in [Id -> Position \cup {Nowhere}] /\ late' \subseteq Id \X Position
  BY DEF Reports, TypeOK

LEMMA TypeSession ==
  ASSUME TypeOK, IdsUsed, NEW s \in Socket, Session(s)
  PROVE  TypeOK'
<1>1. CASE Check(s)
  BY <1>1, ConnTypes DEF Check, TypeOK, db, world, bounds, At
<1>2. CASE NoZones(s)
  BY <1>2, ConnTypes DEF NoZones, TypeOK, db, world, bounds
<1>3. CASE Enter(s)
  BY <1>3, ConnTypes DEF Enter, TypeOK, db, world, bounds, At
<1>4. CASE SpawnIn(s)
  <2>1. conn' \in [Socket -> Conn]
    BY <1>4, ConnTypes DEF SpawnIn, At
  <2>2. conn[s].from \in Position
    BY DEF TypeOK, Conn
  <2>3. /\ body' \in [Id -> Position \cup {Nowhere}]
        /\ cache' \in [Id -> Position \cup {Nowhere}]
    BY <1>4, <2>2 DEF SpawnIn, TypeOK
  <2>4. QED BY <1>4, <2>1, <2>3 DEF SpawnIn, TypeOK, db, bounds
<1>5. CASE Frame(s)
  <2> DEFINE i == conn[s].char
  <2>1. CASE conn' = [conn EXCEPT ![s].awaiting = FALSE] /\ moves < MaxMoves
             /\ moves' = moves + 1
             /\ \/ UNCHANGED world
                \/ body' = [body EXCEPT ![i] = moves + 1] /\ Reports(i, moves + 1)
    <3>1. moves + 1 \in Position /\ moves' \in 0 .. MaxMoves
      BY <2>1, SessionAssumption DEF TypeOK, Position
    <3>2. conn' \in [Socket -> Conn]
      BY <2>1, FlagTypes
    <3>3. i \in Id
      <4>1. i \in 1 .. ids /\ ids \in 0 .. MaxIds
        BY <1>5 DEF Frame, Playing, IdsUsed, InSession, TypeOK
      <4>2. QED BY <4>1, SessionAssumption DEF Id
    <3>4. /\ body' \in [Id -> Position \cup {Nowhere}]
          /\ cache' \in [Id -> Position \cup {Nowhere}] /\ late' \subseteq Id \X Position
      <4>1. CASE UNCHANGED world
        BY <4>1 DEF TypeOK, world
      <4>2. CASE body' = [body EXCEPT ![i] = moves + 1] /\ Reports(i, moves + 1)
        <5>1. body' \in [Id -> Position \cup {Nowhere}]
          BY <3>1, <3>3, <4>2 DEF TypeOK
        <5>2. QED BY <3>1, <3>3, <4>2, <5>1, ReportTypes
      <4>3. QED BY <2>1, <4>1, <4>2
    <3>5. QED BY <1>5, <3>1, <3>2, <3>4 DEF Frame, TypeOK, db
  <2>2. CASE Leaves(s) /\ UNCHANGED <<moves, world>>
    <3>1. conn' \in [Socket -> Conn]
      BY <2>2, LeaveTypes
    <3>2. QED BY <1>5, <2>2, <3>1 DEF Frame, TypeOK, db, world
  <2>3. QED BY <1>5, <2>1, <2>2 DEF Frame, world
<1>6. CASE Pong(s)
  BY <1>6, FlagTypes DEF Pong, TypeOK, db, world, bounds
<1>7. CASE Hangup(s)
  BY <1>7, LeaveTypes DEF Hangup, TypeOK, db, world, bounds
<1>8. CASE Vanish(s)
  BY <1>8, FlagTypes DEF Vanish, TypeOK, db, world, bounds
<1>9. CASE PingTick(s)
  <2>1. conn' \in [Socket -> Conn]
    BY <1>9, LeaveTypes, FlagTypes DEF PingTick, Pinged
  <2>2. QED BY <1>9, <2>1 DEF PingTick, TypeOK, db, world, bounds
<1>10. CASE Forget(s)
  <2>1. conn[s] \in Conn /\ "forgotten" \in At
    BY DEF TypeOK, At
  <2>2. LastKnown(conn[s].char, conn[s].from) \in Position
    <3>1. conn[s].char \in Id
      <4>1. conn[s].char \in 1 .. ids /\ ids \in 0 .. MaxIds
        BY <1>10 DEF Forget, IdsUsed, InSession, TypeOK
      <4>2. QED BY <4>1, SessionAssumption DEF Id
    <3>2. QED BY <3>1, <2>1 DEF LastKnown, TypeOK, Conn
  <2>3. conn' \in [Socket -> Conn]
    BY <1>10, <2>1, <2>2 DEF Forget, TypeOK, Conn
  <2>4. QED BY <1>10, <2>3 DEF Forget, TypeOK, db, bounds
<1>13. CASE Remove(s)
  BY <1>13, ConnTypes DEF Remove, TypeOK, db, world, bounds, At
<1>11. CASE Save(s)
  <2>1. conn' \in [Socket -> Conn]
    BY <1>11, ConnTypes DEF Save, At
  <2>2. conn[s].from \in Position
    BY DEF TypeOK, Conn
  <2>3. row' \in [Id -> Position] /\ faults' \in 0 .. MaxFaults
    BY <1>11, <2>2, SessionAssumption DEF Save, TypeOK
  <2>4. QED BY <1>11, <2>1, <2>3 DEF Save, TypeOK, world
<1>12. CASE Part(s)
  BY <1>12, ConnTypes DEF Part, TypeOK, db, bounds
<1>14. QED
  BY <1>1, <1>2, <1>3, <1>4, <1>5, <1>6, <1>7, <1>8, <1>9, <1>10, <1>11, <1>12, <1>13
     DEF Session

LEMMA TypeRest ==
  ASSUME TypeOK, Zone \/ FlushTick \/ FlushNext \/ Crash
  PROVE  TypeOK'
<1>0. ASSUME NEW i \in Id, Tick(i) PROVE TypeOK'
  <2>1. body[i] \in Position /\ (moves' = moves + 1 /\ moves < MaxMoves => moves + 1 \in Position)
    BY <1>0, SessionAssumption DEF Tick, TypeOK, Position
  <2>2. /\ body' \in [Id -> Position \cup {Nowhere}] /\ moves' \in 0 .. MaxMoves
        /\ cache' \in [Id -> Position \cup {Nowhere}] /\ late' \subseteq Id \X Position
    BY <1>0, <2>1, ReportTypes DEF Tick, TypeOK, Position
  <2>3. QED BY <1>0, <2>2 DEF Tick, TypeOK, db
<1>1. ASSUME NEW t \in late, Hear(t) PROVE TypeOK'
  <2>1. t[1] \in Id /\ t[2] \in Position
    BY DEF TypeOK
  <2>2. cache' \in [Id -> Position \cup {Nowhere}] /\ late' \subseteq Id \X Position
    BY <1>1, <2>1 DEF Hear, TypeOK
  <2>3. QED BY <1>1, <2>2 DEF Hear, TypeOK, db, bounds
<1>2. CASE FlushTick
  <2>1. \A i \in Targets : cache[i] \in Position /\ i \in Id
    BY DEF Targets, TypeOK
  <2>2. flush' \subseteq Id \X Position
    BY <1>2, <2>1 DEF FlushTick
  <2>3. QED BY <1>2, <2>2 DEF FlushTick, TypeOK, db, world, bounds
<1>3. ASSUME NEW t \in flush, FlushSave(t) PROVE TypeOK'
  <2>1. row' \in [Id -> Position] /\ faults' \in 0 .. MaxFaults
    BY <1>3, SessionAssumption DEF FlushSave, TypeOK
  <2>2. flush' \subseteq Id \X Position
    BY <1>3 DEF FlushSave, TypeOK
  <2>3. QED BY <1>3, <2>1, <2>2 DEF FlushSave, TypeOK, world
<1>4. CASE Crash
  <2>1. Off \in Conn
    BY SessionAssumption DEF Off, Conn, At, Spawn, Position
  <2>2. faults' \in 0 .. MaxFaults
    BY <1>4, SessionAssumption DEF Crash, TypeOK
  <2>3. QED BY <1>4, <2>1, <2>2 DEF Crash, TypeOK
<1>5. QED BY <1>0, <1>1, <1>2, <1>3, <1>4 DEF FlushNext, Zone

----------------------------------------------------------------------------
\* Steps of one connection that leave the accounts alone.

Entered == {"tracked", "live", "closing", "forgotten"}

\* The connection plays what it played, or plays nobody afterwards.
LEMMA InvQuiet ==
  ASSUME IInv, NEW s \in Socket,
         UNCHANGED <<accounts, characters, staged, writer, tokens, ids>>,
         \A t \in Socket \ {s} : conn'[t] = conn[t],
         conn[s].at # "inserted",
         \/ /\ conn[s].at \in InSession /\ conn'[s].at \in InSession
            /\ conn'[s].who = conn[s].who /\ conn'[s].char = conn[s].char
         \/ /\ conn'[s].at \notin InSession
            /\ conn'[s].at = "off" \/ conn'[s].who \in User
  PROVE  EveryAccountPlays' /\ OneWriter' /\ IdsUsed' /\ TokensTrue' /\ PlaysOwn' /\ Served'
<1>1. EveryAccountPlays' /\ TokensTrue'
  BY DEF IInv, EveryAccountPlays, TokensTrue
<1>2. writer # s
  BY SessionAssumption DEF IInv, OneWriter
<1>3. OneWriter'
  <2>1. writer # NoSocket => conn'[writer] = conn[writer]
    BY <1>2 DEF IInv, TypeOK
  <2>2. QED BY <2>1 DEF IInv, OneWriter, Taken
<1>4. IdsUsed'
  BY DEF IInv, IdsUsed
<1>5. PlaysOwn'
  BY DEF IInv, PlaysOwn, Persistent
<1>6. Served'
  BY DEF IInv, Served, InSession
<1>7. QED BY <1>1, <1>3, <1>4, <1>5, <1>6

LEMMA EntriesStay ==
  ASSUME IInv, NEW s \in Socket, clients' = clients,
         \A t \in Socket \ {s} : conn'[t] = conn[t],
         \/ conn[s].at \notin Entered
         \/ conn'[s].at \in Entered /\ conn'[s].char = conn[s].char
  PROVE  EntriesTrue'
<1> SUFFICES ASSUME NEW i \in Id, clients[i] # NoSocket
             PROVE  conn'[clients[i]].char = i /\ conn'[clients[i]].at \in Entered
  BY DEF EntriesTrue, Entered
<1>1. conn[clients[i]].char = i /\ conn[clients[i]].at \in Entered /\ clients[i] \in Socket
  BY DEF IInv, TypeOK, EntriesTrue, Entered
<1>2. QED BY <1>1

\* The moves of a task, seen from its record.
LEMMA GoesOn ==
  ASSUME TypeOK, NEW s \in Socket, NEW place \in At, Goes(s, place)
  PROVE  /\ \A t \in Socket \ {s} : conn'[t] = conn[t]
         /\ conn'[s].at = place
         /\ conn'[s].who = conn[s].who /\ conn'[s].char = conn[s].char
  BY DEF Goes, TypeOK, Conn

LEMMA EndsOff ==
  ASSUME TypeOK, NEW s \in Socket, Ends(s)
  PROVE  /\ \A t \in Socket \ {s} : conn'[t] = conn[t]
         /\ conn'[s].at = "off"
  BY DEF Ends, TypeOK, Off

LEMMA RefusedOn ==
  ASSUME TypeOK, NEW s \in Socket, Refused(s)
  PROVE  /\ \A t \in Socket \ {s} : conn'[t] = conn[t]
         /\ \/ conn'[s].at = "off"
            \/ conn'[s].at = "auth" /\ conn'[s].who = conn[s].who
<1>1. CASE conn[s].tries + 1 >= MaxTries
  BY <1>1, EndsOff DEF Refused
<1>2. CASE ~(conn[s].tries + 1 >= MaxTries)
  <2>1. conn' = [conn EXCEPT ![s].at = "auth", ![s].tries = @ + 1]
    BY <1>2 DEF Refused
  <2>2. QED BY <2>1 DEF TypeOK, Conn
<1>3. QED BY <1>1, <1>2

----------------------------------------------------------------------------
\* Registering, and the other ways in.

LEMMA InvInsert ==
  ASSUME IInv, TypeOK', NEW s \in Socket, Insert(s)
  PROVE  IInv'
<1>1. CASE Conflict(conn[s].who) /\ Refused(s) /\ UNCHANGED <<db, ids>>
  <2>1. conn[s].at = "hashing" /\ conn[s].who \in User
    BY <1>1 DEF Insert, IInv, Served
  <2>2. UNCHANGED <<accounts, characters, staged, writer, tokens, ids, clients>>
    BY <1>1 DEF Insert, db
  <2>3. EntriesTrue'
    BY <2>1, <2>2, <1>1, RefusedOn, EntriesStay DEF IInv, Entered
  <2>4. QED
    BY <2>1, <2>2, <2>3, <1>1, RefusedOn, InvQuiet DEF IInv, InSession
<1>2. CASE /\ ~Conflict(conn[s].who) /\ writer' = s /\ Goes(s, "inserted")
           /\ Stage(s, [email |-> conn[s].who, id |-> ids + 1]) /\ ids' = ids + 1
  <2>1. /\ conn[s].at = "hashing" /\ conn[s].who \in User /\ writer = NoSocket
        /\ UNCHANGED <<tokens, clients>> /\ ids < MaxIds
    BY <1>2 DEF Insert, IInv, Served
  <2>2. /\ UNCHANGED <<accounts, characters>>
        /\ staged' = {[email |-> conn[s].who, id |-> ids + 1]}
    BY <1>2 DEF Stage
  <2>3. ids \in Nat /\ ids + 1 \in Id
    BY <2>1, SessionAssumption DEF IInv, TypeOK, Id
  <2>4. /\ \A t \in Socket \ {s} : conn'[t] = conn[t]
        /\ conn'[s].at = "inserted" /\ conn'[s].who = conn[s].who
    BY <1>2, GoesOn DEF IInv, At
  <2>5. EveryAccountPlays' /\ TokensTrue'
    BY <2>1, <2>2 DEF IInv, EveryAccountPlays, TokensTrue
  <2>6. OneWriter'
    <3>1. \A i \in characters : i <= ids
      BY DEF IInv, IdsUsed
    <3>2. ids + 1 \notin characters
      BY <2>3, <3>1 DEF IInv, TypeOK
    <3>3. ~Taken(conn[s].who)
      BY <1>2 DEF Conflict
    <3>4. writer' # NoSocket
      BY <1>2, SessionAssumption
    <3>5. QED BY <1>2, <2>2, <2>3, <2>4, <3>2, <3>3, <3>4 DEF OneWriter, Taken
  <2>7. IdsUsed'
    <3>1. \A i \in characters : i <= ids' /\ i \in Nat
      BY <1>2, <2>3 DEF IInv, IdsUsed, TypeOK, Id
    <3>2. \A t \in Socket : conn'[t].at \in InSession =>
            conn'[t].char \in 1 .. ids /\ t # s
      BY <2>4 DEF IInv, IdsUsed, InSession
    <3>3. \A t \in Socket : conn'[t].at \in InSession =>
            conn'[t].char \in 1 .. ids' /\ ids + 1 # conn'[t].char
      BY <1>2, <2>3, <3>2
    <3>4. QED BY <2>2, <3>1, <3>3 DEF IdsUsed
  <2>8. PlaysOwn'
    BY <2>2, <2>4 DEF IInv, PlaysOwn, Persistent, InSession
  <2>9. Served'
    BY <2>1, <2>4 DEF IInv, Served
  <2>10. EntriesTrue'
    BY <2>1, <2>4, EntriesStay DEF IInv, Entered
  <2>11. QED BY <2>5, <2>6, <2>7, <2>8, <2>9, <2>10 DEF IInv
<1>3. QED BY <1>1, <1>2 DEF Insert

LEMMA InvCommit ==
  ASSUME IInv, TypeOK', NEW s \in Socket, Commit(s)
  PROVE  IInv'
<1> DEFINE u == conn[s].who
<1>1. writer = s /\ s # NoSocket /\ conn[s].at = "inserted"
  BY SessionAssumption DEF Commit
<1>2. PICK i \in Id : staged = {[email |-> u, id |-> i]}
  BY <1>1 DEF IInv, OneWriter
<1> DEFINE a == [email |-> u, id |-> i]
<1>3. a.email = u /\ a.id = i
  OBVIOUS
<1>4. /\ characters' = characters \cup {i}
      /\ accounts' = accounts \cup {a}
      /\ Admits(s, i, Spawn)
      /\ staged' = {} /\ writer' = NoSocket
      /\ UNCHANGED <<clients, ids>>
  BY <1>2, <1>3 DEF Commit, bounds
<1>5. ~Taken(u) /\ i \notin characters /\ i <= ids /\ ids \in Nat
  BY <1>2, <1>3, SessionAssumption DEF IInv, OneWriter, TypeOK
<1>6. u \in User
  BY <1>1 DEF IInv, Served
<1>7. /\ \A t \in Socket \ {s} : conn'[t] = conn[t]
      /\ conn'[s].at = "known" /\ conn'[s].who = u /\ conn'[s].char = i
  BY <1>4 DEF Admits, IInv, TypeOK, Conn
<1>8. tokens' = tokens \cup {<<u, i>>}
  BY <1>4 DEF Admits
<1>9. EveryAccountPlays'
  <2>1. \A b \in accounts : b.email # u /\ b.id # i
    BY <1>5 DEF Taken, IInv, EveryAccountPlays
  <2>2. \A b, c \in accounts' : (b.email = c.email => b = c) /\ (b.id = c.id => b = c)
    BY <1>3, <1>4, <2>1 DEF IInv, EveryAccountPlays
  <2>3. {b.id : b \in accounts'} = characters'
    BY <1>3, <1>4 DEF IInv, EveryAccountPlays
  <2>4. QED BY <2>2, <2>3 DEF EveryAccountPlays
<1>10. OneWriter'
  BY <1>4 DEF OneWriter
<1>11. IdsUsed'
  <2>1. \A j \in characters' : j <= ids'
    BY <1>4, <1>5 DEF IInv, IdsUsed
  <2>2. \A t \in Socket : conn'[t].at \in InSession => conn'[t].char \in 1 .. ids'
    BY <1>4, <1>5, <1>7 DEF IInv, IdsUsed, Id
  <2>3. QED BY <1>4, <2>1, <2>2 DEF IdsUsed
<1>12. TokensTrue'
  <2> SUFFICES ASSUME NEW t \in tokens'
               PROVE  [email |-> t[1], id |-> t[2]] \in accounts'
    BY DEF TokensTrue
  <2>1. CASE t \in tokens
    BY <1>4, <2>1 DEF IInv, TokensTrue
  <2>2. CASE t = <<u, i>>
    BY <1>4, <2>2
  <2>3. QED BY <1>8, <2>1, <2>2
<1>13. EntriesTrue'
  BY <1>1, <1>4, <1>7, EntriesStay DEF Entered
<1>14. PlaysOwn'
  <2>1. \A t \in Socket \ {s} : conn[t].at \in InSession => conn[t].char # i
    BY <1>2, <1>3 DEF IInv, IdsUsed
  <2>2. QED BY <1>4, <1>7, <2>1 DEF IInv, PlaysOwn, Persistent
<1>15. Served'
  BY <1>6, <1>7 DEF IInv, Served
<1>16. QED BY <1>9, <1>10, <1>11, <1>12, <1>13, <1>14, <1>15 DEF IInv

LEMMA InvRollback ==
  ASSUME IInv, TypeOK', NEW s \in Socket, Rollback(s)
  PROVE  IInv'
<1>1. /\ writer = s /\ conn[s].at = "inserted" /\ staged' = {} /\ writer' = NoSocket
      /\ UNCHANGED <<accounts, characters, tokens, clients, ids>>
      /\ Refused(s)
  BY DEF Rollback
<1>2. /\ \A t \in Socket \ {s} : conn'[t] = conn[t]
      /\ \/ conn'[s].at = "off"
         \/ conn'[s].at = "auth" /\ conn'[s].who = conn[s].who
  BY <1>1, RefusedOn DEF IInv
<1>3. EveryAccountPlays' /\ TokensTrue' /\ OneWriter'
  <2>1. EveryAccountPlays'
    BY <1>1 DEF IInv, EveryAccountPlays
  <2>2. TokensTrue'
    BY <1>1 DEF IInv, TokensTrue
  <2>3. OneWriter'
    BY <1>1 DEF OneWriter
  <2>4. QED BY <2>1, <2>2, <2>3
<1>4. IdsUsed' /\ PlaysOwn'
  <2>1. conn'[s].at \notin InSession
    BY <1>2 DEF InSession
  <2>2. IdsUsed'
    BY <1>1, <1>2, <2>1 DEF IInv, IdsUsed
  <2>3. PlaysOwn'
    BY <1>1, <1>2, <2>1 DEF IInv, PlaysOwn, Persistent
  <2>4. QED BY <2>2, <2>3
<1>5. Served'
  BY <1>1, <1>2 DEF IInv, Served
<1>6. EntriesTrue'
  BY <1>1, <1>2, EntriesStay DEF Entered
<1>7. QED BY <1>3, <1>4, <1>5, <1>6 DEF IInv

\* A login or a token lets the user into an account it has.
LEMMA InvAdmit ==
  ASSUME IInv, TypeOK', NEW s \in Socket, NEW i \in Id, NEW p \in Position,
         Admits(s, i, p), conn[s].at = "auth",
         [email |-> conn[s].who, id |-> i] \in accounts,
         UNCHANGED <<db, clients, bounds>>
  PROVE  IInv'
<1>1. UNCHANGED <<accounts, characters, staged, writer, ids>>
  BY DEF db, bounds
<1>2. i \in characters /\ i <= ids /\ i \in 1 .. ids
  <2>1. [email |-> conn[s].who, id |-> i].id = i
    OBVIOUS
  <2>2. i \in characters
    BY <2>1 DEF IInv, EveryAccountPlays
  <2>3. i <= ids
    BY <2>2 DEF IInv, IdsUsed
  <2>4. i \in Nat /\ i >= 1 /\ ids \in Nat
    BY SessionAssumption DEF Id, IInv, TypeOK
  <2>5. QED BY <2>2, <2>3, <2>4
<1>3. /\ \A t \in Socket \ {s} : conn'[t] = conn[t]
      /\ conn'[s].at = "known" /\ conn'[s].who = conn[s].who /\ conn'[s].char = i
      /\ tokens' = tokens \cup {<<conn[s].who, i>>}
  BY DEF Admits, IInv, TypeOK, Conn
<1>4. EveryAccountPlays' /\ TokensTrue'
  BY <1>1, <1>3 DEF IInv, EveryAccountPlays, TokensTrue
<1>5. OneWriter'
  <2>1. writer # s
    BY SessionAssumption DEF IInv, OneWriter
  <2>2. writer # NoSocket => conn'[writer] = conn[writer]
    BY <1>3, <2>1 DEF IInv, TypeOK
  <2>3. QED BY <1>1, <2>2 DEF IInv, OneWriter, Taken
<1>6. IdsUsed'
  <2>1. \A a \in staged : a.id # i
    BY <1>2 DEF IInv, OneWriter
  <2>2. QED BY <1>1, <1>2, <1>3, <2>1 DEF IInv, IdsUsed
<1>7. PlaysOwn'
  BY <1>1, <1>3 DEF IInv, PlaysOwn, Persistent
<1>8. Served'
  BY <1>3 DEF IInv, Served
<1>9. EntriesTrue'
  BY <1>3, EntriesStay DEF Entered
<1>10. QED BY <1>4, <1>5, <1>6, <1>7, <1>8, <1>9 DEF IInv

LEMMA InvGuest ==
  ASSUME IInv, TypeOK', NEW s \in Socket, Guest(s)
  PROVE  IInv'
<1>1. /\ conn[s].at = "auth" /\ ids' = ids + 1 /\ ids \in Nat
      /\ UNCHANGED <<accounts, characters, staged, writer, tokens, clients>>
  BY SessionAssumption DEF Guest, db, IInv, TypeOK
<1>2. /\ \A t \in Socket \ {s} : conn'[t] = conn[t]
      /\ conn'[s].at = "known" /\ conn'[s].who = conn[s].who
      /\ conn'[s].char = ids + 1
  BY DEF Guest, IInv, TypeOK, Conn
<1>3. \A i \in characters : i <= ids /\ i \in Nat
  BY DEF IInv, IdsUsed, TypeOK, Id
<1>4. \A a \in staged : a.id <= ids /\ a.id \in Nat
  BY DEF IInv, OneWriter, TypeOK, Account, Id
<1>5. EveryAccountPlays' /\ TokensTrue'
  BY <1>1 DEF IInv, EveryAccountPlays, TokensTrue
<1>6. OneWriter'
  <2>1. writer # s
    BY <1>1, SessionAssumption DEF IInv, OneWriter
  <2>2. writer # NoSocket => conn'[writer] = conn[writer]
    BY <1>2, <2>1 DEF IInv, TypeOK
  <2>3. \A a \in staged : a.id <= ids + 1
    BY <1>1, <1>4
  <2>4. QED BY <1>1, <2>2, <2>3 DEF IInv, OneWriter, Taken
<1>7. IdsUsed'
  <2>1. \A i \in characters : i <= ids + 1
    BY <1>1, <1>3
  <2>2. \A a \in staged : a.id # ids + 1
    BY <1>1, <1>4
  <2>3. \A t \in Socket \ {s} : conn[t].at \in InSession =>
          conn[t].char \in 1 .. ids + 1 /\ \A a \in staged : a.id # conn[t].char
    BY <1>1 DEF IInv, IdsUsed
  <2>4. ids + 1 \in 1 .. ids + 1
    BY <1>1
  <2>5. QED BY <1>1, <1>2, <2>1, <2>2, <2>3, <2>4 DEF IdsUsed
<1>8. PlaysOwn'
  <2>1. ids + 1 \notin characters
    BY <1>1, <1>3
  <2>2. QED BY <1>1, <1>2, <2>1 DEF IInv, PlaysOwn, Persistent
<1>9. Served'
  BY <1>1, <1>2 DEF IInv, Served
<1>10. EntriesTrue'
  BY <1>1, <1>2, EntriesStay DEF Entered
<1>11. QED BY <1>5, <1>6, <1>7, <1>8, <1>9, <1>10 DEF IInv

----------------------------------------------------------------------------
\* Every step.

LEMMA InvHandshake ==
  ASSUME IInv, TypeOK', NEW s \in Socket, Handshake(s)
  PROVE  IInv'
<1>1. ASSUME NEW u \in User, Connect(s, u) PROVE IInv'
  <2>1. /\ \A t \in Socket \ {s} : conn'[t] = conn[t]
        /\ conn'[s].at = "auth" /\ conn'[s].who = u /\ conn[s].at = "off"
    BY <1>1 DEF Connect, Off, IInv, TypeOK
  <2>2. UNCHANGED <<accounts, characters, staged, writer, tokens, ids, clients>>
    BY <1>1 DEF Connect, db
  <2>3. EntriesTrue'
    BY <2>1, <2>2, EntriesStay DEF Entered
  <2>4. QED BY <2>1, <2>2, <2>3, InvQuiet DEF IInv, InSession
<1>2. CASE Refuse(s)
  <2>1. UNCHANGED <<accounts, characters, staged, writer, tokens, ids, clients>>
    BY <1>2 DEF Refuse, db, bounds
  <2>2. conn[s].at = "auth" /\ Refused(s) /\ conn[s].who \in User
    BY <1>2 DEF Refuse, IInv, Served
  <2>3. EntriesTrue'
    BY <2>1, <2>2, RefusedOn, EntriesStay DEF IInv, Entered
  <2>4. QED BY <2>1, <2>2, <2>3, RefusedOn, InvQuiet DEF IInv, InSession
<1>3. CASE HandshakeEnds(s)
  <2>1. UNCHANGED <<accounts, characters, staged, writer, tokens, ids, clients>>
    BY <1>3 DEF HandshakeEnds, db, bounds
  <2>2. conn[s].at = "auth" /\ Ends(s)
    BY <1>3 DEF HandshakeEnds
  <2>3. EntriesTrue'
    BY <2>1, <2>2, EndsOff, EntriesStay DEF IInv, Entered
  <2>4. QED BY <2>1, <2>2, <2>3, EndsOff, InvQuiet DEF IInv, InSession
<1>4. CASE Register(s)
  <2>1. UNCHANGED <<accounts, characters, staged, writer, tokens, ids, clients>>
    BY <1>4 DEF Register, db, bounds
  <2>2. /\ conn[s].at = "auth" /\ Goes(s, "hashing") /\ "hashing" \in At
        /\ conn[s].who \in User
    BY <1>4 DEF Register, At, IInv, Served
  <2>3. EntriesTrue'
    BY <2>1, <2>2, GoesOn, EntriesStay DEF IInv, Entered
  <2>4. QED BY <2>1, <2>2, <2>3, GoesOn, InvQuiet DEF IInv, InSession
<1>5. CASE Login(s)
  <2>1. PICK a \in accounts : a.email = conn[s].who /\ Admits(s, a.id, row[a.id])
    BY <1>5 DEF Login
  <2>2. a \in Account /\ a.id \in Id /\ row[a.id] \in Position
    BY DEF IInv, TypeOK, Account
  <2>3. a = [email |-> conn[s].who, id |-> a.id]
    BY <2>1, <2>2 DEF Account
  <2>4. conn[s].at = "auth" /\ UNCHANGED <<db, clients, bounds>>
    BY <1>5 DEF Login
  <2>5. QED BY <2>1, <2>2, <2>3, <2>4, InvAdmit
<1>6. CASE Token(s)
  <2>1. PICK i \in Opens(conn[s].who) : Admits(s, i, row[i])
    BY <1>6 DEF Token
  <2>2. i \in Id /\ row[i] \in Position /\ <<conn[s].who, i>> \in tokens
    BY <2>1 DEF Opens, IInv, TypeOK
  <2>3. [email |-> conn[s].who, id |-> i] \in accounts
    BY <2>2 DEF IInv, TokensTrue
  <2>4. conn[s].at = "auth" /\ UNCHANGED <<db, clients, bounds>>
    BY <1>6 DEF Token
  <2>5. QED BY <2>1, <2>2, <2>3, <2>4, InvAdmit
<1>7. QED
  BY <1>1, <1>2, <1>3, <1>4, <1>5, <1>6, InvInsert, InvCommit, InvRollback, InvGuest
     DEF Handshake

\* From one place of a session to another, with the entries as they are.
LEMMA InvMoves ==
  ASSUME IInv, TypeOK', NEW s \in Socket, NEW place \in InSession, Goes(s, place),
         conn[s].at \in InSession, conn[s].at \notin Entered \/ place \in Entered,
         UNCHANGED <<accounts, characters, staged, writer, tokens, ids, clients>>
  PROVE  IInv'
<1>1. place \in At
  BY DEF InSession, At
<1>2. EntriesTrue'
  BY <1>1, GoesOn, EntriesStay DEF IInv
<1>3. QED BY <1>1, <1>2, GoesOn, InvQuiet DEF IInv, InSession

\* From the loop to the end of the session.
LEMMA InvLeaves ==
  ASSUME IInv, TypeOK', NEW s \in Socket, conn[s].at = "live", Leaves(s),
         UNCHANGED <<accounts, characters, staged, writer, tokens, ids, clients>>
  PROVE  IInv'
<1>1. /\ \A t \in Socket \ {s} : conn'[t] = conn[t]
      /\ conn'[s].at = "closing"
      /\ conn'[s].who = conn[s].who /\ conn'[s].char = conn[s].char
  BY DEF Leaves, IInv, TypeOK, Conn
<1>2. EntriesTrue'
  BY <1>1, EntriesStay DEF Entered
<1>3. QED BY <1>1, <1>2, InvQuiet DEF IInv, InSession

LEMMA InvEnds ==
  ASSUME IInv, TypeOK', NEW s \in Socket, Ends(s),
         conn[s].at \in InSession, conn[s].at \notin Entered,
         UNCHANGED <<accounts, characters, staged, writer, tokens, ids, clients>>
  PROVE  IInv'
<1>1. EntriesTrue'
  BY EndsOff, EntriesStay DEF IInv
<1>2. QED BY <1>1, EndsOff, InvQuiet DEF IInv, InSession

\* A flag is flipped.
LEMMA InvFlag ==
  ASSUME IInv, TypeOK', NEW s \in Socket, conn[s].at = "live",
         \/ \E b \in BOOLEAN : conn' = [conn EXCEPT ![s].awaiting = b]
         \/ \E b \in BOOLEAN : conn' = [conn EXCEPT ![s].gone = b],
         UNCHANGED <<accounts, characters, staged, writer, tokens, ids, clients>>
  PROVE  IInv'
<1>1. /\ \A t \in Socket \ {s} : conn'[t] = conn[t]
      /\ conn'[s].at = "live"
      /\ conn'[s].who = conn[s].who /\ conn'[s].char = conn[s].char
  BY DEF IInv, TypeOK, Conn
<1>2. EntriesTrue'
  BY <1>1, EntriesStay DEF Entered
<1>3. QED BY <1>1, <1>2, InvQuiet DEF IInv, InSession

LEMMA InvEnter ==
  ASSUME IInv, TypeOK', NEW s \in Socket, Enter(s)
  PROVE  IInv'
<1>1. /\ conn[s].at = "passed" /\ Goes(s, "tracked") /\ "tracked" \in At
      /\ clients' = [clients EXCEPT ![conn[s].char] = s]
      /\ UNCHANGED <<accounts, characters, staged, writer, tokens, ids>>
  BY DEF Enter, db, bounds, At
<1>2. /\ \A t \in Socket \ {s} : conn'[t] = conn[t]
      /\ conn'[s].at = "tracked"
      /\ conn'[s].who = conn[s].who /\ conn'[s].char = conn[s].char
  BY <1>1, GoesOn DEF IInv
<1>3. EntriesTrue'
  <2> SUFFICES ASSUME NEW i \in Id, clients'[i] # NoSocket
               PROVE  conn'[clients'[i]].char = i /\ conn'[clients'[i]].at \in Entered
    BY DEF EntriesTrue, Entered
  <2>1. CASE i = conn[s].char
    BY <1>1, <1>2, <2>1 DEF IInv, TypeOK, Entered
  <2>2. CASE i # conn[s].char
    <3>1. clients'[i] = clients[i] /\ clients[i] \in Socket
      BY <1>1, <2>2 DEF IInv, TypeOK
    <3>2. conn[clients[i]].char = i /\ conn[clients[i]].at \in Entered
      BY <3>1 DEF IInv, EntriesTrue, Entered
    <3>3. QED BY <1>2, <2>2, <3>1, <3>2
  <2>3. QED BY <2>1, <2>2
<1>4. QED BY <1>1, <1>2, <1>3, InvQuiet DEF IInv, InSession

LEMMA InvForget ==
  ASSUME IInv, TypeOK', NEW s \in Socket, Forget(s)
  PROVE  IInv'
<1>1. /\ \A t \in Socket \ {s} : conn'[t] = conn[t]
      /\ conn[s].at = "closing" /\ conn'[s].at = "forgotten"
      /\ conn'[s].who = conn[s].who /\ conn'[s].char = conn[s].char
      /\ UNCHANGED <<accounts, characters, staged, writer, tokens, ids, clients>>
  BY DEF Forget, IInv, TypeOK, Conn, db, bounds
<1>2. EntriesTrue'
  BY <1>1, EntriesStay DEF Entered
<1>3. QED BY <1>1, <1>2, InvQuiet DEF IInv, InSession

LEMMA InvRemove ==
  ASSUME IInv, TypeOK', NEW s \in Socket, Remove(s)
  PROVE  IInv'
<1>1. /\ conn[s].at = "forgotten"
      /\ clients' = [clients EXCEPT ![conn[s].char] = NoSocket]
      /\ UNCHANGED <<accounts, characters, staged, writer, tokens, ids>>
  BY DEF Remove, db, bounds
<1>2. EntriesTrue'
  <2> SUFFICES ASSUME NEW i \in Id, clients'[i] # NoSocket
               PROVE  conn'[clients'[i]].char = i /\ conn'[clients'[i]].at \in Entered
    BY DEF EntriesTrue, Entered
  <2>1. i # conn[s].char /\ clients'[i] = clients[i] /\ clients[i] \in Socket
    BY <1>1 DEF IInv, TypeOK
  <2>2. conn[clients[i]].char = i /\ conn[clients[i]].at \in Entered
    BY <2>1 DEF IInv, EntriesTrue, Entered
  <2>3. \A t \in Socket \ {s} : conn'[t] = conn[t]
    BY EndsOff, GoesOn DEF Remove, IInv, At
  <2>4. QED BY <2>1, <2>2, <2>3
<1>3. CASE Ends(s)
  BY <1>1, <1>2, <1>3, EndsOff, InvQuiet DEF IInv, InSession
<1>4. ASSUME NEW place \in {"saving", "parting"}, Goes(s, place) PROVE IInv'
  <2>1. /\ \A t \in Socket \ {s} : conn'[t] = conn[t]
        /\ conn'[s].at = place
        /\ conn'[s].who = conn[s].who /\ conn'[s].char = conn[s].char
    BY <1>4, GoesOn DEF IInv, At
  <2>2. QED BY <1>1, <1>2, <1>4, <2>1, InvQuiet DEF IInv, InSession
<1>5. QED BY <1>3, <1>4 DEF Remove

LEMMA InvSession ==
  ASSUME IInv, TypeOK', NEW s \in Socket, Session(s)
  PROVE  IInv'
<1> USE DEF InSession, Entered
<1>1. CASE Check(s)
  BY <1>1, InvMoves, InvEnds DEF Check, db, bounds
<1>2. CASE NoZones(s)
  BY <1>2, InvEnds DEF NoZones, db, bounds
<1>3. CASE SpawnIn(s)
  BY <1>3, InvMoves DEF SpawnIn, db, bounds
<1>4. CASE Frame(s)
  BY <1>4, InvLeaves, InvFlag DEF Frame, Playing, db
<1>5. CASE Pong(s) \/ Vanish(s)
  BY <1>5, InvFlag DEF Pong, Vanish, Playing, db, bounds
<1>6. CASE Hangup(s)
  BY <1>6, InvLeaves DEF Hangup, Playing, db, bounds
<1>7. CASE PingTick(s)
  BY <1>7, InvLeaves, InvFlag DEF PingTick, Pinged, db, bounds
<1>8. CASE Save(s)
  BY <1>8, InvMoves DEF Save
<1>9. CASE Part(s)
  BY <1>9, InvEnds DEF Part, db, bounds
<1>10. QED
  BY <1>1, <1>2, <1>3, <1>4, <1>5, <1>6, <1>7, <1>8, <1>9, InvEnter, InvForget,
     InvRemove DEF Session

\* Nothing that the invariant speaks of changes.
LEMMA InvIdle ==
  ASSUME IInv, TypeOK',
         UNCHANGED <<accounts, characters, staged, writer, tokens, ids, clients, conn>>
  PROVE  IInv'
  BY DEF IInv, EveryAccountPlays, OneWriter, IdsUsed, TokensTrue, EntriesTrue, PlaysOwn,
     Served, Taken, Persistent

LEMMA InvCrash ==
  ASSUME IInv, TypeOK', Crash
  PROVE  IInv'
<1>1. \A s \in Socket : conn'[s].at = "off"
  BY DEF Crash, Off
<1>2. /\ staged' = {} /\ writer' = NoSocket /\ tokens' = {}
      /\ clients' = [i \in Id |-> NoSocket]
      /\ UNCHANGED <<accounts, characters, ids>>
  BY DEF Crash
<1>3. EveryAccountPlays'
  BY <1>2 DEF IInv, EveryAccountPlays
<1>4. OneWriter' /\ TokensTrue' /\ EntriesTrue'
  BY <1>2 DEF OneWriter, TokensTrue, EntriesTrue
<1>5. IdsUsed' /\ PlaysOwn' /\ Served'
  BY <1>1, <1>2 DEF IInv, IdsUsed, PlaysOwn, Served, InSession
<1>6. QED BY <1>3, <1>4, <1>5 DEF IInv

LEMMA InvNext == IInv /\ [Next]_vars => IInv'
<1> SUFFICES ASSUME IInv, [Next]_vars PROVE IInv'
  OBVIOUS
<1>1. ASSUME NEW s \in Socket, Handshake(s) PROVE IInv'
  BY <1>1, TypeHandshake, InvHandshake DEF IInv
<1>2. ASSUME NEW s \in Socket, Session(s) PROVE IInv'
  BY <1>2, TypeSession, InvSession DEF IInv
<1>3. CASE Zone
  <2>1. TypeOK'
    BY <1>3, TypeRest DEF IInv
  <2>2. QED BY <1>3, <2>1, InvIdle DEF Zone, Tick, Hear, db, bounds
<1>4. CASE FlushTick
  <2>1. TypeOK'
    BY <1>4, TypeRest DEF IInv
  <2>2. QED BY <1>4, <2>1, InvIdle DEF FlushTick, db, bounds
<1>5. CASE FlushNext
  <2>1. TypeOK'
    BY <1>5, TypeRest DEF IInv
  <2>2. QED BY <1>5, <2>1, InvIdle DEF FlushNext, FlushSave
<1>6. CASE Crash
  <2>1. TypeOK'
    BY <1>6, TypeRest DEF IInv
  <2>2. QED BY <1>6, <2>1, InvCrash
<1>7. CASE UNCHANGED vars
  <2>1. TypeOK'
    BY <1>7 DEF IInv, TypeOK, vars, db, world, bounds
  <2>2. QED BY <1>7, <2>1, InvIdle DEF vars, db, bounds
<1>8. QED BY <1>1, <1>2, <1>3, <1>4, <1>5, <1>6, <1>7 DEF Next

LEMMA Invariance == Spec => []IInv
  BY InvInit, InvNext, PTL DEF Spec

----------------------------------------------------------------------------

\* Whatever the tasks of the gateway do and however they are cut off, every table
\* and every record of theirs stays within its type.
THEOREM TypeCorrect == Spec => []TypeOK
<1>1. IInv => TypeOK
  BY DEF IInv
<1>2. QED BY Invariance, <1>1, PTL

\* Registrations that race, fail or die leave one account to an email, and one
\* character to an account.
THEOREM AccountsPlay == Spec => []EveryAccountPlays
<1>1. IInv => EveryAccountPlays
  BY DEF IInv
<1>2. QED BY Invariance, <1>1, PTL

\* Nobody plays the character of another user.
THEOREM OwnCharacterOnly == Spec => []OwnCharacter
<1>1. IInv => OwnCharacter
  BY DEF IInv, OwnCharacter, PlaysOwn, EntriesTrue
<1>2. QED BY Invariance, <1>1, PTL
============================================================================
