CONSTANTS
  ann = ann
  bob = bob
  s1 = s1
  s2 = s2
  NoSocket = NoSocket
  Nobody = Nobody
  User = {ann, bob}
  Socket = {s1, s2}
  MaxTries = 2
  MaxIds = 2
  MaxMoves = 1
  MaxConnects = 2
  MaxLate = 1
  MaxFaults = 1
SPECIFICATION Spec
INVARIANT OneSession
CHECK_DEADLOCK FALSE
