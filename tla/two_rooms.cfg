CONSTANTS
  Sockets = {s1, s2, s3}
  Accounts = {a1, a2}
  NoAccount = id0
  Rooms = {r1, r2}
  NoRoom = null
  MaxClients = 9
  MaxPlayers = 3
  OldIds = {1}
  Sizes = {1}
SPECIFICATION Spec
SYMMETRY Symmetry
CONSTRAINT NotStrayed
CONSTRAINT NoHangup
CONSTRAINT OneInvitation
CONSTRAINT OneLogin
CONSTRAINT LeftoverForTwo
CONSTRAINT OneGame
CHECK_DEADLOCK FALSE
INVARIANT MembersPointHome
INVARIANT DirectorySorted
INVARIANT BisectFinds
PROPERTY OnlyInvitedEnter
PROPERTY InCustody
