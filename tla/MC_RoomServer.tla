--------------------------- MODULE MC_RoomServer ---------------------------
(* Instances of RoomServer for TLC: a few sockets, accounts and rooms as     *)
(* model values, interchangeable among themselves, and the constraints that  *)
(* keep a run on one question.                                               *)
EXTENDS RoomServer, TLC

Symmetry == Permutations(Sockets) \cup Permutations(Accounts) \cup Permutations(Rooms)

\* The safety properties ask nothing of a server once a client went astray.
NotStrayed == ~strayed

\* No player joined its room twice: one that goes on doing so, in a room that
\* MODIFY made smaller than its number of gamers, gets seats without end.
NotReseated == reseated = {}
FewSeats == \A r \in Rooms : GamerCount(room[r]) <= 2

\* Only two clients come while rows of a former process are stored.
LeftoverForTwo == leftover # {} => Cardinality(clients) <= 2

\* Two rooms do not both play.
OneGame == Cardinality({r \in Rooms : room[r].playing}) <= 1

\* No client hangs up.
NoHangup == \A s \in Sockets : link[s] # "hup"

\* One invitation is ever sent.
OneInvitation == Cardinality(listed) <= 1

\* Nobody logs in twice.
OneLogin == \A s, t \in Sockets : account[s] = account[t] /\ s # t => account[s] = NoAccount
=============================================================================
