CONSTANTS
  Sockets = {s1, s2}
  Accounts = {a1, a2}
  NoAccount = id0
  Rooms = {r1}
  NoRoom = null
  MaxClients = 9
  MaxPlayers = 3
  OldIds = {}
  Sizes = {1, 2}
SPECIFICATION FairSpec
CONSTRAINT FewSeats
CHECK_DEADLOCK FALSE
PROPERTY StoppedRoomCloses
PROPERTY WinnerComesBack
