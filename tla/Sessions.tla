----------------------------- MODULE Sessions -----------------------------
(***************************************************************************)
(* Client sessions of the gateway: who a connection plays, from the        *)
(* handshake to the save at its end, and how positions reach the database. *)
(*                                                                         *)
(* Every connection is a task of its own, and so is the flush that saves   *)
(* all online characters once per interval. The steps of a task are what   *)
(* it does between two awaits; the other tasks run in between. The file    *)
(* database has one writer at a time, and registering is the one           *)
(* transaction of more than one statement.                                 *)
(*                                                                         *)
(* A position is the number of the move that led to it. The account and    *)
(* the character of a registration share one id; both are fresh uuids.     *)
(* Zones are one world here: Handoff shows which of them has a player.     *)
(***************************************************************************)
EXTENDS Integers, FiniteSets

CONSTANTS
  User,       \* people: each knows one email, its password, the tokens it got
  Socket, NoSocket, Nobody,
  MaxTries,   \* failed attempts a connection has in its handshake
  MaxIds, MaxMoves, MaxConnects,
  MaxLate,    \* reports that are late at a time
  MaxFaults   \* bounds; a fault is an error of the database or the gateway's death

ASSUME SessionAssumption ==
  /\ NoSocket \notin Socket /\ Nobody \notin User
  /\ MaxTries \in Nat \ {0} /\ MaxIds \in Nat /\ MaxMoves \in Nat
  /\ MaxConnects \in Nat /\ MaxLate \in Nat /\ MaxFaults \in Nat

VARIABLES
  accounts,    \* committed rows of account
  characters,  \* ids of the committed rows of character
  row,         \* [Id -> Position], where a character's row says it is
  writer,      \* the connection whose transaction has the database locked
  staged,      \* account rows of that transaction
  tokens,      \* the sessions map: token <<u, i>> was given to u and opens i
  clients,     \* [Id -> Socket or NoSocket], whose channel the entry holds
  cache,       \* [Id -> Position or Nowhere], entity_state
  body,        \* [Id -> Position or Nowhere], the entities of the zones
  late,        \* reports of the zones, built and not yet heard
  flush,       \* saves the flush has still to do
  conn,        \* [Socket -> Conn], what each connection's task knows
  ids, moves, connects, faults

db == <<accounts, characters, row, writer, staged>>
world == <<cache, body, late>>
bounds == <<ids, moves, connects, faults>>
vars == <<db, tokens, clients, world, flush, conn, bounds>>

Id == 1 .. MaxIds
Position == 0 .. MaxMoves
Nowhere == -1
Spawn == 0

At == {"off", "auth", "hashing", "inserted", "known", "passed", "tracked", "live",
       "closing", "forgotten", "saving", "parting"}

\* A task knows whom it serves, whom it plays (0: nobody yet) and from where on,
\* how often the handshake failed, whether a ping is unanswered, and not that its
\* client is gone.
Conn == [at : At, who : User \cup {Nobody}, char : Id \cup {0}, from : Position,
         tries : 0 .. MaxTries - 1, awaiting : BOOLEAN, gone : BOOLEAN]

Off == [at |-> "off", who |-> Nobody, char |-> 0, from |-> Spawn, tries |-> 0,
        awaiting |-> FALSE, gone |-> FALSE]

Init ==
  /\ accounts = {} /\ characters = {} /\ staged = {}
  /\ row = [i \in Id |-> Spawn]
  /\ writer = NoSocket
  /\ tokens = {}
  /\ clients = [i \in Id |-> NoSocket]
  /\ cache = [i \in Id |-> Nowhere] /\ body = cache
  /\ flush = {} /\ late = {}
  /\ conn = [s \in Socket |-> Off]
  /\ ids = 0 /\ moves = 0 /\ connects = 0 /\ faults = 0

\* The next step of a task; the end of it.
Goes(s, place) == conn' = [conn EXCEPT ![s].at = place]
Ends(s) == conn' = [conn EXCEPT ![s] = Off]

\* It leaves its loop, and what the loop knew of pings is forgotten.
Leaves(s) ==
  conn' = [conn EXCEPT ![s].at = "closing", ![s].awaiting = FALSE, ![s].gone = FALSE]

Persistent(i) == i \in characters
Taken(u) == \E a \in accounts : a.email = u

----------------------------------------------------------------------------
\* The handshake.

\* Connections are alike, and so are users: a new connection takes a fixed one of
\* the free names, and the first of all is of a fixed user.
Connect(s, u) ==
  /\ conn[s].at = "off" /\ connects < MaxConnects
  /\ connects = 0 => u = CHOOSE v \in User : TRUE
  /\ s = CHOOSE t \in Socket : conn[t].at = "off"
  /\ connects' = connects + 1
  /\ conn' = [conn EXCEPT ![s] = [Off EXCEPT !.at = "auth", !.who = u]]
  /\ UNCHANGED <<db, tokens, clients, world, flush, ids, moves, faults>>

\* An attempt has failed; the fifth ends the connection.
Refused(s) ==
  IF conn[s].tries + 1 >= MaxTries THEN Ends(s)
  ELSE conn' = [conn EXCEPT ![s].at = "auth", ![s].tries = @ + 1]

\* A malformed registration, a wrong password, a token nobody has, an email
\* that is taken, a database error before anything was written.
Refuse(s) ==
  /\ conn[s].at = "auth"
  /\ Refused(s)
  /\ UNCHANGED <<db, tokens, clients, world, flush, bounds>>

\* Closed by the client, by its wrong protocol version or after 120 silent seconds.
HandshakeEnds(s) ==
  /\ conn[s].at = "auth"
  /\ Ends(s)
  /\ UNCHANGED <<db, tokens, clients, world, flush, bounds>>

Guest(s) ==
  /\ conn[s].at = "auth" /\ ids < MaxIds
  /\ ids' = ids + 1
  /\ conn' = [conn EXCEPT ![s].at = "known", ![s].char = ids + 1, ![s].tries = 0]
  /\ UNCHANGED <<db, tokens, clients, world, flush, moves, connects, faults>>

\* The connection plays i from p on, and its user gets a token for it.
Admits(s, i, p) ==
  /\ conn' = [conn EXCEPT ![s].at = "known", ![s].char = i, ![s].from = p, ![s].tries = 0]
  /\ tokens' = tokens \cup {<<conn[s].who, i>>}

\* auth::register: the email is looked up, the password is hashed ...
Register(s) ==
  /\ conn[s].at = "auth" /\ ~Taken(conn[s].who)
  /\ Goes(s, "hashing")
  /\ UNCHANGED <<db, tokens, clients, world, flush, bounds>>

\* Slip: an index that is not UNIQUE.
NotUnique(u) == FALSE

Conflict(u) == Taken(u)

Stage(s, a) == staged' = {a} /\ UNCHANGED <<accounts, characters, row>>

\* ... and the account's row inserted, by whoever gets the database. The UNIQUE
\* email may be taken by now.
Insert(s) ==
  /\ conn[s].at = "hashing" /\ writer = NoSocket /\ ids < MaxIds
  /\ \/ /\ Conflict(conn[s].who)
        /\ Refused(s)
        /\ UNCHANGED <<db, ids>>
     \/ /\ ~Conflict(conn[s].who)
        /\ writer' = s
        /\ Stage(s, [email |-> conn[s].who, id |-> ids + 1])
        /\ ids' = ids + 1
        /\ Goes(s, "inserted")
  /\ UNCHANGED <<tokens, clients, world, flush, moves, connects, faults>>

\* The character's row and the commit.
Commit(s) ==
  /\ writer = s /\ conn[s].at = "inserted"
  /\ \E a \in staged :
       /\ characters' = characters \cup {a.id}
       /\ row' = [row EXCEPT ![a.id] = Spawn]
       /\ Admits(s, a.id, Spawn)
  /\ accounts' = accounts \cup staged
  /\ staged' = {} /\ writer' = NoSocket
  /\ UNCHANGED <<clients, world, flush, bounds>>

\* A statement fails (locked for too long, disk full): rolled back.
Rollback(s) ==
  /\ writer = s /\ conn[s].at = "inserted" /\ faults < MaxFaults
  /\ faults' = faults + 1
  /\ staged' = {} /\ writer' = NoSocket
  /\ Refused(s)
  /\ UNCHANGED <<accounts, characters, row, tokens, clients, world, flush,
                 ids, moves, connects>>

\* What the tokens of a user open. The slip takes whichever session there is.
OpensAny(u) == {i \in characters : \E v \in User : <<v, i>> \in tokens}
Opens(u) == {i \in characters : <<u, i>> \in tokens}

\* auth::login with the right password, and resume_token.
Login(s) ==
  /\ conn[s].at = "auth"
  /\ \E a \in accounts :
       /\ a.email = conn[s].who
       /\ a.id \in characters
       /\ Admits(s, a.id, row[a.id])
  /\ UNCHANGED <<db, clients, world, flush, bounds>>

Token(s) ==
  /\ conn[s].at = "auth"
  /\ \E i \in Opens(conn[s].who) : Admits(s, i, row[i])
  /\ UNCHANGED <<db, clients, world, flush, bounds>>

----------------------------------------------------------------------------
\* Into the world: three critical sections, with awaits between them.

Check(s) ==
  /\ conn[s].at = "known"
  /\ \/ clients[conn[s].char] = NoSocket /\ Goes(s, "passed")
     \/ clients[conn[s].char] # NoSocket /\ Ends(s)
  /\ UNCHANGED <<db, tokens, clients, world, flush, bounds>>

\* Five seconds without a zone.
NoZones(s) ==
  /\ conn[s].at = "passed"
  /\ Ends(s)
  /\ UNCHANGED <<db, tokens, clients, world, flush, bounds>>

Enter(s) ==
  /\ conn[s].at = "passed"
  /\ clients' = [clients EXCEPT ![conn[s].char] = s]
  /\ Goes(s, "tracked")
  /\ UNCHANGED <<db, tokens, world, flush, bounds>>

\* spawn_entity where the row said. A guest's player_join, and all that becomes of
\* its position, which nothing saves, is left out.
SpawnIn(s) ==
  /\ conn[s].at = "tracked"
  /\ IF Persistent(conn[s].char)
     THEN /\ body' = [body EXCEPT ![conn[s].char] = conn[s].from]
          /\ cache' = [cache EXCEPT ![conn[s].char] = conn[s].from]
     ELSE UNCHANGED <<body, cache>>
  /\ Goes(s, "live")
  /\ UNCHANGED <<db, tokens, clients, late, flush, bounds>>

----------------------------------------------------------------------------
\* In the world.

Playing(s) == conn[s].at = "live" /\ ~conn[s].gone

\* The zone reports that i is at p. The packet is built under the lock of the
\* entities and sent after it, by the message handler or by the game loop: it is
\* heard at once or late, behind newer ones too.
Reports(i, p) ==
  \/ cache' = [cache EXCEPT ![i] = p] /\ UNCHANGED late
  \/ Cardinality(late) < MaxLate /\ late' = late \cup {<<i, p>>} /\ UNCHANGED cache

\* A frame that moves the player. One of a connection that is no longer tracked
\* ends it.
Frame(s) ==
  LET i == conn[s].char IN
  /\ Playing(s)
  /\ \/ /\ clients[i] # NoSocket /\ moves < MaxMoves
        /\ moves' = moves + 1
        /\ \/ body[i] = Nowhere /\ UNCHANGED world
           \/ /\ body[i] # Nowhere
              /\ body' = [body EXCEPT ![i] = moves + 1]
              /\ Reports(i, moves + 1)
        /\ conn' = [conn EXCEPT ![s].awaiting = FALSE]
     \/ /\ clients[i] = NoSocket
        /\ Leaves(s)
        /\ UNCHANGED <<moves, world>>
  /\ UNCHANGED <<db, tokens, clients, flush, ids, connects, faults>>

\* Anything else a client sends, a pong for one.
Pong(s) ==
  /\ Playing(s) /\ conn[s].awaiting
  /\ conn' = [conn EXCEPT ![s].awaiting = FALSE]
  /\ UNCHANGED <<db, tokens, clients, world, flush, bounds>>

Hangup(s) ==
  /\ Playing(s)
  /\ Leaves(s)
  /\ UNCHANGED <<db, tokens, clients, world, flush, bounds>>

\* The client's end of the connection is gone, and nobody says so.
Vanish(s) ==
  /\ Playing(s)
  /\ conn' = [conn EXCEPT ![s].gone = TRUE]
  /\ UNCHANGED <<db, tokens, clients, world, flush, bounds>>

\* Slip: the ping is sent and not remembered.
PingForgets(s) == UNCHANGED conn

\* No frame since the last ping, or no room for the next one: dead.
Pinged(s) ==
  \/ Leaves(s)
  \/ ~conn[s].awaiting /\ conn' = [conn EXCEPT ![s].awaiting = TRUE]

PingTick(s) ==
  /\ conn[s].at = "live"
  /\ Pinged(s)
  /\ UNCHANGED <<db, tokens, clients, world, flush, bounds>>

\* The tick of the game loop reports a player it hurt or healed where it is, or
\* one it killed where it put it.
Tick(i) ==
  /\ body[i] # Nowhere
  /\ \/ Reports(i, body[i]) /\ UNCHANGED <<body, moves>>
     \/ /\ moves < MaxMoves
        /\ moves' = moves + 1
        /\ body' = [body EXCEPT ![i] = moves + 1]
        /\ Reports(i, moves + 1)
  /\ UNCHANGED <<db, tokens, clients, flush, conn, ids, connects, faults>>

\* A late status_update comes to the zone's listener, which takes it for the
\* latest, though the character may be elsewhere by now, or gone.
Hear(t) ==
  /\ t \in late
  /\ cache' = [cache EXCEPT ![t[1]] = t[2]]
  /\ late' = late \ {t}
  /\ UNCHANGED <<db, tokens, clients, body, flush, conn, bounds>>

----------------------------------------------------------------------------
\* Out of the world: the cache, the client map, the save, player_leave.

LastKnown(i, p) == IF cache[i] = Nowhere THEN p ELSE cache[i]

\* The last known position is taken out of the cache ...
Forget(s) ==
  /\ conn[s].at = "closing"
  /\ cache' = [cache EXCEPT ![conn[s].char] = Nowhere]
  /\ conn' = [conn EXCEPT ![s].at = "forgotten",
                          ![s].from = LastKnown(conn[s].char, @)]
  /\ UNCHANGED <<db, tokens, clients, body, late, flush, bounds>>

\* ... and then the entry out of the client map, whosever it is by now. A report
\* may have come in between.
Remove(s) ==
  /\ conn[s].at = "forgotten"
  /\ clients' = [clients EXCEPT ![conn[s].char] = NoSocket]
  /\ \/ clients[conn[s].char] = NoSocket /\ Ends(s)
     \/ /\ clients[conn[s].char] # NoSocket
        /\ Goes(s, IF Persistent(conn[s].char) THEN "saving" ELSE "parting")
  /\ UNCHANGED <<db, tokens, world, flush, bounds>>

\* save_character, or its error.
Save(s) ==
  /\ conn[s].at = "saving"
  /\ \/ /\ writer = NoSocket
        /\ row' = [row EXCEPT ![conn[s].char] = conn[s].from]
        /\ UNCHANGED faults
     \/ faults < MaxFaults /\ faults' = faults + 1 /\ UNCHANGED row
  /\ Goes(s, "parting")
  /\ UNCHANGED <<accounts, characters, writer, staged, tokens, clients, world, flush,
                 ids, moves, connects>>

Part(s) ==
  /\ conn[s].at = "parting"
  /\ body' = [body EXCEPT ![conn[s].char] = Nowhere]
  /\ Ends(s)
  /\ UNCHANGED <<db, tokens, clients, cache, late, flush, bounds>>

----------------------------------------------------------------------------
\* persistence_flush, and the gateway's death.

\* Slip: the filter the wrong way round.
GuestTargets == {i \in Id : clients[i] # NoSocket /\ ~Persistent(i) /\ cache[i] # Nowhere}
Targets == {i \in Id : clients[i] # NoSocket /\ Persistent(i) /\ cache[i] # Nowhere}

FlushTick ==
  /\ flush = {}
  /\ flush' = {<<i, cache[i]>> : i \in Targets}
  /\ UNCHANGED <<db, tokens, clients, world, conn, bounds>>

\* The next save, or its error.
FlushSave(t) ==
  /\ t \in flush
  /\ flush' = flush \ {t}
  /\ \/ writer = NoSocket /\ row' = [row EXCEPT ![t[1]] = t[2]] /\ UNCHANGED faults
     \/ faults < MaxFaults /\ faults' = faults + 1 /\ UNCHANGED row
  /\ UNCHANGED <<accounts, characters, writer, staged, tokens, clients, world, conn,
                 ids, moves, connects>>

\* Memory is lost, the connections with what they carried, and an open transaction
\* is rolled back. The zones outlive the gateway, with the entities they have, and
\* connect to the next one seconds later.
Crash ==
  /\ faults < MaxFaults
  /\ faults' = faults + 1
  /\ staged' = {} /\ writer' = NoSocket
  /\ tokens' = {} /\ flush' = {} /\ late' = {}
  /\ clients' = [i \in Id |-> NoSocket] /\ cache' = [i \in Id |-> Nowhere]
  /\ conn' = [s \in Socket |-> Off]
  /\ UNCHANGED <<accounts, characters, row, body, ids, moves, connects>>

Handshake(s) ==
  \/ \E u \in User : Connect(s, u)
  \/ Refuse(s) \/ HandshakeEnds(s) \/ Guest(s)
  \/ Register(s) \/ Insert(s) \/ Commit(s) \/ Rollback(s)
  \/ Login(s) \/ Token(s)

Session(s) ==
  \/ Check(s) \/ NoZones(s) \/ Enter(s) \/ SpawnIn(s)
  \/ Frame(s) \/ Pong(s) \/ Hangup(s) \/ Vanish(s) \/ PingTick(s)
  \/ Forget(s) \/ Remove(s) \/ Save(s) \/ Part(s)

Zone == (\E i \in Id : Tick(i)) \/ \E t \in late : Hear(t)

FlushNext == \E t \in flush : FlushSave(t)

Next ==
  \/ \E s \in Socket : Handshake(s) \/ Session(s)
  \/ Zone
  \/ FlushTick \/ FlushNext
  \/ Crash

Spec == Init /\ [][Next]_vars

\* Timers fire, statements that have the database come to an end, a task that
\* has left its loop cleans up, and listeners hear what comes. One task has at
\* most one of these to do.
Due(s) == Commit(s) \/ Rollback(s) \/ PingTick(s) \/ Forget(s) \/ Remove(s)

FairSpec ==
  /\ Spec
  /\ WF_vars(FlushTick \/ FlushNext)
  /\ \A s \in Socket : WF_vars(Due(s))
  /\ \A t \in Id \X Position : WF_vars(Hear(t))

----------------------------------------------------------------------------
\* Properties.

Account == [email : User, id : Id]

TypeOK ==
  /\ accounts \subseteq Account /\ staged \subseteq Account
  /\ characters \subseteq Id
  /\ row \in [Id -> Position]
  /\ writer \in Socket \cup {NoSocket}
  /\ tokens \subseteq User \X Id
  /\ clients \in [Id -> Socket \cup {NoSocket}]
  /\ cache \in [Id -> Position \cup {Nowhere}]
  /\ body \in [Id -> Position \cup {Nowhere}]
  /\ late \subseteq Id \X Position
  /\ flush \subseteq Id \X Position
  /\ conn \in [Socket -> Conn]
  /\ ids \in 0 .. MaxIds /\ moves \in 0 .. MaxMoves
  /\ connects \in 0 .. MaxConnects /\ faults \in 0 .. MaxFaults

\* However registrations of one email race, fail half way or are cut off by the
\* gateway's death, an email has one account at most and every account has its
\* character (migrations/0001: UNIQUE email, one character per account).
EveryAccountPlays ==
  /\ \A a, b \in accounts : a.email = b.email => a = b
  /\ \A a, b \in accounts : a.id = b.id => a = b
  /\ {a.id : a \in accounts} = characters

InSession == {"known", "passed", "tracked", "live", "closing", "forgotten", "saving",
              "parting"}

\* Who is let in as a durable character, with a password or with a token that
\* has outlived its connection, is the user the character was made for; and the
\* channel in a character's entry is of a connection that plays it.
OwnCharacter ==
  /\ \A s \in Socket : conn[s].at \in InSession /\ Persistent(conn[s].char) =>
       [email |-> conn[s].who, id |-> conn[s].char] \in accounts
  /\ \A i \in Id : clients[i] # NoSocket => conn[clients[i]].char = i

\* A character that stays online and stands still at p, and whose gateway does not
\* stop hearing that it is at p, is saved at p in the end and stays saved: what a
\* stale report, the save of an ended session, a flush that began earlier or an
\* error leave in the cache or in the row, the next report and the next flush
\* repair. (If a stale report is the LAST for as long as it stands there, the
\* gateway does stop; and nothing repairs the row of one that has gone offline.)
SavedInTheEnd == \A i \in Id, p \in Position :
  /\ <>[](clients[i] # NoSocket /\ Persistent(i) /\ body[i] = p)
  /\ []<>(cache[i] = p \/ <<i, p>> \in late)
  => <>[](row[i] = p)

\* A connection whose client is gone does not keep its character online: the
\* liveness check ends it, however full or empty its queue is.
Reaped == \A i \in Id, s \in Socket :
  clients[i] = s /\ conn[s].gone ~> clients[i] # s

\* "One active session per character: refuse a duplicate login" (proxy.rs:1998).
OneSession == \A s, t \in Socket :
  s # t /\ {conn[s].at, conn[t].at} \subseteq {"tracked", "live"} => conn[s].char # conn[t].char
============================================================================
