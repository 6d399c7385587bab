CONSTANTS
  Sockets = {s1, s2, s3}
  Accounts = {a1, a2, a3}
  NoAccount = id0
  Rooms = {r1}
  NoRoom = null
  MaxClients = 9
  MaxPlayers = 3
  OldIds = {}
  Sizes = {2}
SPECIFICATION Spec
SYMMETRY Symmetry
CONSTRAINT NotStrayed
CONSTRAINT NotReseated
CHECK_DEADLOCK FALSE
INVARIANT TypeOK
INVARIANT Watched
INVARIANT SeatsTaken
INVARIANT NoAbandonedLobby
