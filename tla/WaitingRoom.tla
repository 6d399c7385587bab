---------------------------- MODULE WaitingRoom ----------------------------
(***************************************************************************)
(* The waiting room of one game, seen from both ends of the connections:   *)
(* the lobby handlers of message.cpp and gameServer.cpp, the client's      *)
(* Lobby and LobbyMessage, and the menus around them.                      *)
(*                                                                         *)
(* The server keeps the room; every client keeps a list of who is in it,   *)
(* built from the UPDATE_PLAYER messages it was sent.  A client reads its   *)
(* one stream with whatever screen is up: the waiting room takes every      *)
(* message for a LobbyResponseHeader, the invitation menu takes the next   *)
(* one for its answer.  A handler is one step; RoomServer refines JOIN and  *)
(* the closing of a room, and GameSession goes on where a client plays.     *)
(***************************************************************************)
EXTENDS Naturals, Sequences, FiniteSets, Functions

CONSTANTS
    People,    \* players, by id, name and connection alike
    Leader,    \* who creates the room
    Sizes,     \* the numbers of gamers the settings screen offers
    Budgets    \* bound: the keys of each person that send a message, but for
               \* INVITE, and how often the leader invites it as gamer or spectator

Columns == {"gamer", "spectator"}

ASSUME WaitingAssumption ==
    /\ Leader \in People
    /\ Sizes \subseteq Nat \ {0}
    /\ Budgets \subseteq [People -> [keys : Nat, offers : [Columns -> Nat]]]

VARIABLES
    room,        \* [phase, playing, size, members, gamers]: the GameRoom
    invitations, \* number of rows of game_invitation, by invited and as_gamer
    deaf,        \* connections in no select set: taken off by a refused JOIN
    toServer, toClient, \* the two directions of each connection, FIFO
    at,          \* the screen of each client
    column,      \* isGamer_ of the room a client waits in; "junk" for a room id never given
    roster,      \* players_ and spectators_ of each client's Lobby, as bags
    menu,        \* the invitations a client's menu offers
    number,      \* the leader's Lobby::numberOfPlayer_
    keys,        \* keys pressed so far
    stay,        \* history: whether the server let the client in, and when
    newer,       \* history: who was let in after p
    astray,      \* history: clients that took a message for another one
    misled       \* history: those of them that took the answer of the menu for END

serverVars == <<room, invitations, deaf>>
streams == <<toServer, toClient>>
clientVars == <<at, column, roster, menu, number, keys>>
history == <<stay, newer, astray, misled>>
vars == <<serverVars, streams, clientVars, history>>

Screens == {"menu", "creating", "waiting", "settings", "fetching", "choosing",
            "playing", "broken", "again", "elsewhere"}

Empty == [c \in Columns |-> [q \in People |-> 0]]
Nobody == [q \in People |-> 0]
NoRoom == [phase |-> "none", playing |-> FALSE, size |-> 0, members |-> {}, gamers |-> Nobody]

Init ==
    /\ room = NoRoom
    /\ invitations = [p \in People |-> [c \in Columns |-> 0]]
    /\ deaf = {}
    /\ toServer = [p \in People |-> <<>>] /\ toClient = [p \in People |-> <<>>]
    /\ at = [p \in People |-> "menu"]
    /\ column = [p \in People |-> "junk"]
    /\ roster = [p \in People |-> Empty]
    /\ menu = [p \in People |-> {}]
    /\ number = 0
    /\ keys = [p \in People |-> 0]
    /\ stay = [p \in People |-> "out"]
    /\ newer = [p \in People |-> {}]
    /\ astray = {} /\ misled = {}

-----------------------------------------------------------------------------
(* The messages of the server. *)

Says(type) == [type |-> type]
PlayerRows(rows, added) == [type |-> "player", rows |-> rows, added |-> added]

\* seq[q] is what the room sends to q, in order.
Sends(seq) == toClient' = [q \in People |-> toClient[q] \o seq[q]]

ColumnOf(q) == IF room.gamers[q] > 0 THEN "gamer" ELSE "spectator"

\* sendParticipantList writes everybody else's row, but never the count, which
\* the client reads from whatever the buffer held: more rows than were written
\* are read past the message.
Lists(q) ==
    LET others == {<<o, ColumnOf(o)>> : o \in room.members \ {q}}
    IN  {PlayerRows(rows, TRUE) : rows \in SUBSET others} \cup {Says("overrun")}

-----------------------------------------------------------------------------
(* The client: what the keys do. *)

\* The invitations the leader sent, and whether k keys and i of them are allowed.
Offered == [q \in People |-> [c \in Columns |->
    invitations[q][c] + Cardinality({i \in DOMAIN toServer[Leader] :
        toServer[Leader][i] = [type |-> "INVITE", who |-> q, as |-> c]})]]
Allowed(k, i) == \E b \in Budgets : \A q \in People :
    k[q] <= b[q].keys /\ \A c \in Columns : i[q][c] <= b[q].offers[c]

Pressed(p) == [keys EXCEPT ![p] = @ + 1]
Press(p) == Allowed(Pressed(p), Offered) /\ keys' = Pressed(p)
Request(p, m) == toServer' = [toServer EXCEPT ![p] = Append(@, m)]
Goes(p, screen) == at' = [at EXCEPT ![p] = screen]
Itself(p, c) == [Empty EXCEPT ![c][p] = 1]

\* PLAY and the settings confirmed: setupGame sends CREATE and waits.
Create(p, n) ==
    /\ p = Leader /\ at[p] = "menu" /\ room.phase = "none"
    /\ Press(p) /\ Request(p, [type |-> "CREATE", size |-> n])
    /\ Goes(p, "creating")
    /\ number' = n
    /\ UNCHANGED <<serverVars, toClient, column, roster, menu, history>>

\* The same once the room has been created, for another room.  A guest that
\* does it is to this room as one that stays in the menu.
CreateAgain(p) ==
    /\ p = Leader /\ at[p] = "menu" /\ room.phase # "none"
    /\ Press(p) /\ Request(p, Says("CREATE_AGAIN"))
    /\ Goes(p, "again")
    /\ UNCHANGED <<serverVars, toClient, column, roster, menu, number, history>>

Invite(p, q, c) ==
    /\ p = Leader /\ at[p] = "waiting"
    /\ Allowed(keys, [Offered EXCEPT ![q][c] = @ + 1])
    /\ Request(p, [type |-> "INVITE", who |-> q, as |-> c])
    /\ UNCHANGED <<serverVars, toClient, clientVars, history>>

Start(p) ==
    /\ p = Leader /\ at[p] = "waiting"
    /\ Press(p) /\ Request(p, Says("START"))
    /\ UNCHANGED <<serverVars, toClient, at, column, roster, menu, number, history>>

\* 'm': the stream is not read while the settings screen is up.
OpenSettings(p) ==
    /\ p = Leader /\ at[p] = "waiting" /\ Allowed(Pressed(p), Offered)
    /\ Goes(p, "settings")
    /\ UNCHANGED <<serverVars, streams, column, roster, menu, number, keys, history>>

\* showLobbyModify clears isSetup_ and ENTER sets it; without it the waiting
\* room is over.  MODIFY is sent on both ways out, and LEAVE on none.
Confirm(p, n) ==
    /\ at[p] = "settings"
    /\ Press(p) /\ Request(p, [type |-> "MODIFY", size |-> n])
    /\ Goes(p, "waiting")
    /\ number' = n
    /\ UNCHANGED <<serverVars, toClient, column, roster, menu, history>>

Cancel(p) ==
    /\ at[p] = "settings"
    /\ Press(p) /\ Request(p, [type |-> "MODIFY", size |-> number])
    /\ Goes(p, "menu")
    /\ UNCHANGED <<serverVars, toClient, column, roster, menu, number, history>>

\* ESC: leaveLobby, and reset forgets the lists.
Leave(p) ==
    /\ at[p] = "waiting"
    /\ Press(p) /\ Request(p, [type |-> "LEAVE", known |-> column[p] # "junk"])
    /\ Goes(p, "menu")
    /\ roster' = [roster EXCEPT ![p] = Empty]
    /\ UNCHANGED <<serverVars, toClient, column, menu, number, history>>

\* GAME INVITATION: the menu asks, and waits for the answer.
Fetch(p) ==
    /\ at[p] = "menu"
    /\ Press(p) /\ Request(p, Says("GET_LOBBY_INVITE"))
    /\ Goes(p, "fetching")
    /\ UNCHANGED <<serverVars, toClient, column, roster, menu, number, history>>

\* joinLobby puts the client in its own list before the server has a say.
Join(p, c) ==
    /\ at[p] = "choosing" /\ c \in menu[p]
    /\ Press(p) /\ Request(p, [type |-> "JOIN", as |-> c])
    /\ Goes(p, "waiting")
    /\ column' = [column EXCEPT ![p] = c]
    /\ roster' = [roster EXCEPT ![p] = IF c = "junk" THEN Empty ELSE Itself(p, c)]
    /\ stay' = [stay EXCEPT ![p] = "out"]
    /\ UNCHANGED <<serverVars, toClient, menu, number, newer, astray, misled>>

Back(p) ==
    /\ at[p] = "choosing"
    /\ Goes(p, "menu")
    /\ UNCHANGED <<serverVars, streams, column, roster, menu, number, keys, history>>

-----------------------------------------------------------------------------
(* The client: what it reads. *)

Reads(p) == toClient[p] # <<>> /\ toClient' = [toClient EXCEPT ![p] = Tail(@)]

\* setupGame skips what is not CREATED.
ReadCreated(p) ==
    /\ at[p] = "creating" /\ Reads(p)
    /\ IF Head(toClient[p]).type = "created"
         THEN /\ Goes(p, "waiting")
              /\ column' = [column EXCEPT ![p] = "gamer"]
              /\ roster' = [roster EXCEPT ![p] = Itself(p, "gamer")]
         ELSE UNCHANGED <<at, column, roster>>
    /\ UNCHANGED <<serverVars, toServer, menu, number, keys, history>>

\* With the id of another room the client has left this module, which has no
\* more to say of what it does there.
ReadCreatedAgain(p) ==
    /\ at[p] = "again" /\ Reads(p)
    /\ IF Head(toClient[p]).type = "another" THEN Goes(p, "elsewhere") ELSE UNCHANGED at
    /\ UNCHANGED <<serverVars, toServer, column, roster, menu, number, keys, history>>

\* getLobbyInvitations: of a lobby message the response type is taken for the
\* number of invitations, and bytes of nothing for the invitations.
ReadInvitations(p) ==
    LET m == Head(toClient[p])
        offers == IF m.type = "invitations" THEN {c \in Columns : m.rows[c] > 0} ELSE {"junk"}
    IN  /\ at[p] = "fetching" /\ Reads(p)
        /\ menu' = [menu EXCEPT ![p] = offers]
        /\ Goes(p, IF offers = {} THEN "menu" ELSE "choosing")
        /\ astray' = IF m.type = "invitations" THEN astray ELSE astray \cup {p}
        /\ UNCHANGED <<serverVars, toServer, column, roster, number, keys, stay, newer, misled>>

\* An answer of the invitation menu read by the waiting room: the number of
\* invitations is taken for a LOBBY_RESPONSE, in the order of that enum.  What
\* follows is no error text and no update.
Meaning(m) ==
    LET n == m.rows["gamer"] + m.rows["spectator"]
    IN  IF m.type # "invitations" THEN m.type
        ELSE CASE n = 0 -> "created" [] n = 1 -> "started"
               [] n = 3 -> "end" [] OTHER -> "overrun"

\* Faulty variant: takes a name off without having found it.
Applied_Unchecked(r, m) ==
    [c \in Columns |-> [q \in People |->
        CASE <<q, c>> \in m.rows /\ m.added -> r[c][q] + 1
          [] <<q, c>> \in m.rows /\ ~m.added -> r[c][q] - 1
          [] OTHER -> r[c][q]]]

\* handleUPDATE_PLAYER
Applied(r, m) ==
    [c \in Columns |-> [q \in People |->
        CASE <<q, c>> \in m.rows /\ m.added -> r[c][q] + 1
          [] <<q, c>> \in m.rows /\ ~m.added /\ r[c][q] > 0 -> r[c][q] - 1
          [] OTHER -> r[c][q]]]

\* handleWaitingRoom.  The size in an UPDATE is a field nothing ever sets.
ReadWaiting(p) ==
    LET m == Head(toClient[p])
        meaning == Meaning(m)
        over == meaning \in {"end", "started"}
    IN  /\ at[p] = "waiting" /\ Reads(p)
        /\ at' = [at EXCEPT ![p] = CASE meaning = "end" -> "menu"
                                     [] meaning = "started" -> "playing"
                                     [] meaning = "overrun" -> "broken"
                                     [] OTHER -> @]
        /\ roster' = [roster EXCEPT ![p] = CASE over -> Empty
                                             [] meaning = "player" -> Applied(@, m)
                                             [] OTHER -> @]
        /\ number' = IF p = Leader /\ meaning = "update" THEN 0 ELSE number
        /\ astray' = IF m.type = "invitations" THEN astray \cup {p} ELSE astray
        /\ misled' = IF m.type = "invitations" /\ meaning = "end" THEN misled \cup {p} ELSE misled
        /\ UNCHANGED <<serverVars, toServer, column, menu, keys, stay, newer>>

-----------------------------------------------------------------------------
(* The server.  The main thread reads who is in no room, the room's thread    *)
(* its members, and both have the same handlers for lobby messages; a room    *)
(* that is closing is past reading them.                                      *)

Takes(p, type) ==
    /\ p \notin deaf /\ toServer[p] # <<>>
    /\ p \in room.members => room.phase = "open"
    /\ Head(toServer[p]).type = type
    /\ toServer' = [toServer EXCEPT ![p] = Tail(@)]

Exists == room.phase \in {"open", "closing"}

\* p is let in: everybody in the room has a newer member.
LetIn(p) ==
    /\ stay' = [stay EXCEPT ![p] =
                  IF room.phase = "closing" \/ room.playing THEN "late" ELSE "in"]
    /\ newer' = [q \in People |-> CASE q = p -> {}
                                    [] q \in room.members \ {p} -> newer[q] \cup {p}
                                    [] OTHER -> newer[q]]

\* gamers_ is a vector of ids: who joins twice is in it twice.
Seated(gamers, p, as) == IF as = "gamer" THEN [gamers EXCEPT ![p] = @ + 1] ELSE gamers
Unseated(gamers, gone) ==
    [q \in People |-> IF q \in gone /\ gamers[q] > 0 THEN gamers[q] - 1 ELSE gamers[q]]

HandleCreate(p) ==
    /\ Takes(p, "CREATE")
    /\ room' = [phase |-> "open", playing |-> FALSE, size |-> Head(toServer[p]).size,
                members |-> {p}, gamers |-> Seated(Nobody, p, "gamer")]
    /\ Sends([q \in People |-> IF q = p THEN <<Says("created")>> ELSE <<>>])
    /\ LetIn(p)
    /\ UNCHANGED <<invitations, deaf, clientVars, astray, misled>>

\* handleCreate makes a new room of every CREATE, and leaves its creator in the
\* room it is in.
HandleCreateAgain(p) ==
    /\ Takes(p, "CREATE_AGAIN")
    /\ Sends([q \in People |-> IF q = p THEN <<Says("another")>> ELSE <<>>])
    /\ UNCHANGED <<serverVars, clientVars, history>>

HandleInvite(p) ==
    LET m == Head(toServer[p])
    IN  /\ Takes(p, "INVITE")
        /\ invitations' = [invitations EXCEPT ![m.who][m.as] = @ + 1]
        /\ UNCHANGED <<room, deaf, toClient, clientVars, history>>

HandleModify(p) ==
    /\ Takes(p, "MODIFY")
    /\ IF Exists
         THEN /\ room' = [room EXCEPT !.size = Head(toServer[p]).size]
              /\ Sends([q \in People |-> IF q \in room.members THEN <<Says("update")>> ELSE <<>>])
         ELSE UNCHANGED <<room, toClient>>
    /\ UNCHANGED <<invitations, deaf, clientVars, history>>

\* Whom the room tells that p entered or left.
Hearers(p) == room.members \ {p}

Seats == SumFunction(room.gamers)
Full(as) == as = "gamer" /\ Seats = room.size
Invited(p) == \E c \in Columns : invitations[p][c] > 0

\* handleJoin: who finds the room full is refused, and sent the list.  Who is in
\* the room already is let in once more.
HandleJoin(p) ==
    LET as == Head(toServer[p]).as
        news == PlayerRows({<<p, as>>}, TRUE)
        told(list) == [q \in People |-> (IF q \in Hearers(p) THEN <<news>> ELSE <<>>)
                                        \o (IF q = p THEN <<list>> ELSE <<>>)]
    IN  /\ Takes(p, "JOIN")
        /\ CASE ~(Exists /\ as # "junk" /\ Invited(p)) ->
                  UNCHANGED <<room, deaf, toClient, stay, newer>>
             [] Exists /\ as # "junk" /\ Invited(p) /\ Full(as) ->
                  /\ deaf' = deaf \cup ({p} \ room.members)
                  /\ \E list \in Lists(p) :
                       Sends([q \in People |-> IF q = p THEN <<list>> ELSE <<>>])
                  /\ UNCHANGED <<room, stay, newer>>
             [] OTHER ->
                  /\ room' = [room EXCEPT !.members = @ \cup {p},
                                          !.gamers = Seated(@, p, as)]
                  /\ \E list \in Lists(p) : Sends(told(list))
                  /\ LetIn(p)
                  /\ UNCHANGED deaf
        /\ UNCHANGED <<invitations, clientVars, astray, misled>>

Dissolves(p) ==
    (p = Leader \/ Unseated(room.gamers, {p}) = Nobody) /\ ~room.playing

\* Faulty variant: a dissolved lobby is silent.
Farewell_None(p) == <<>>
Farewell(p) == IF Dissolves(p) THEN <<Says("end")>> ELSE <<>>

\* Faulty variant: whether it played is looked up after it was erased.
LeavingRow_Erased(p) == <<p, "spectator">>
LeavingRow(p) == <<p, ColumnOf(p)>>

\* playerLeaves: a lobby its leader or last gamer left is dissolved.
HandleLeave(p) ==
    LET known == Head(toServer[p]).known
        news == <<PlayerRows({LeavingRow(p)}, FALSE)>> \o Farewell(p)
    IN  /\ Takes(p, "LEAVE")
        /\ IF Exists /\ known
             THEN /\ room' = IF Dissolves(p)
                               THEN [room EXCEPT !.phase = "closing", !.members = {},
                                                 !.gamers = Unseated(@, room.members \cup {p})]
                               ELSE [room EXCEPT !.members = @ \ {p},
                                                 !.gamers = Unseated(@, {p})]
                  /\ Sends([q \in People |-> IF q \in Hearers(p) THEN news ELSE <<>>])
             ELSE UNCHANGED <<room, toClient>>
        /\ UNCHANGED <<invitations, deaf, clientVars, history>>

StartAccepted(p) == Exists /\ p = Leader /\ Seats >= room.size

\* Faulty variant: the room does not know that it plays.
Playing_Unset(p) == room.playing
Playing(p) == room.playing \/ StartAccepted(p)

\* Faulty variant: who asked is not told.
Started_Others(p) == room.members \ {p}
Started(p) == room.members

\* handleStartRequest; only the leader's client has the key.
HandleStart(p) ==
    LET accepted == StartAccepted(p)
        told == CASE accepted -> Started(p) [] Exists /\ ~accepted -> {p} [] OTHER -> {}
        answer == Says(IF accepted THEN "started" ELSE "error")
    IN  /\ Takes(p, "START")
        /\ room' = [room EXCEPT !.playing = Playing(p)]
        /\ Sends([q \in People |-> IF q \in told THEN <<answer>> ELSE <<>>])
        /\ UNCHANGED <<invitations, deaf, clientVars, history>>

\* Faulty variant: no answer to who has no invitations.
HandleGetLobbyInvite_SilentIfNone(p) ==
    /\ Takes(p, "GET_LOBBY_INVITE")
    /\ Sends([q \in People |-> IF q = p /\ q \notin room.members /\ Invited(q)
                 THEN <<[type |-> "invitations", rows |-> invitations[p]]>> ELSE <<>>])
    /\ UNCHANGED <<serverVars, clientVars, history>>

\* A room's thread handles LOBBY and GAME messages and drops the others.
HandleGetLobbyInvite(p) ==
    /\ Takes(p, "GET_LOBBY_INVITE")
    /\ Sends([q \in People |-> IF q = p /\ q \notin room.members
                 THEN <<[type |-> "invitations", rows |-> invitations[p]]>> ELSE <<>>])
    /\ UNCHANGED <<serverVars, clientVars, history>>

\* The end of loop: who entered meanwhile is handed back without a word.
Close ==
    /\ room.phase = "closing"
    /\ room' = [room EXCEPT !.phase = "gone", !.members = {}, !.gamers = Nobody]
    /\ invitations' = [p \in People |-> [c \in Columns |-> 0]]
    /\ UNCHANGED <<deaf, streams, clientVars, history>>

-----------------------------------------------------------------------------
Keys(p) ==
    \/ \E n \in Sizes : Create(p, n) \/ Confirm(p, n)
    \/ \E q \in People \ {Leader}, c \in Columns : Invite(p, q, c)
    \/ CreateAgain(p) \/ Start(p) \/ OpenSettings(p) \/ Cancel(p) \/ Leave(p)
    \/ Fetch(p) \/ Back(p) \/ \E c \in Columns \cup {"junk"} : Join(p, c)

Reading(p) ==
    \/ ReadCreated(p) \/ ReadCreatedAgain(p) \/ ReadInvitations(p) \/ ReadWaiting(p)

Serve(p) ==
    \/ HandleCreate(p) \/ HandleCreateAgain(p) \/ HandleInvite(p) \/ HandleModify(p) \/ HandleJoin(p)
    \/ HandleLeave(p) \/ HandleStart(p) \/ HandleGetLobbyInvite(p)

Next == Close \/ \E p \in People : Keys(p) \/ Reading(p) \/ Serve(p)

\* The server's threads do not all stop while there is something to serve, nor
\* the clients while there is something to read, which they do before keys.
Fairness ==
    /\ WF_vars(Close \/ \E p \in People : Serve(p))
    /\ WF_vars(\E p \in People : Reading(p))

Spec == Init /\ [][Next]_vars /\ Fairness

-----------------------------------------------------------------------------
(* Properties. *)

Answers ==
    [type : {"created", "another", "update", "error", "started", "end", "overrun"}]
      \cup [type : {"player"}, rows : SUBSET (People \X Columns), added : BOOLEAN]
      \cup [type : {"invitations"}, rows : [Columns -> Nat]]

Requests ==
    [type : {"CREATE", "MODIFY"}, size : Nat]
      \cup [type : {"INVITE"}, who : People, as : Columns]
      \cup [type : {"JOIN"}, as : Columns \cup {"junk"}]
      \cup [type : {"LEAVE"}, known : BOOLEAN]
      \cup [type : {"CREATE_AGAIN", "START", "GET_LOBBY_INVITE"}]

\* Everything has its type.  The lists are bags of names (addPlayer,
\* removePlayer), the room's players are a map (gameServer.h).
TypeOK ==
    /\ room \in [phase : {"none", "open", "closing", "gone"}, playing : BOOLEAN,
                 size : Nat, members : SUBSET People, gamers : [People -> Nat]]
    /\ invitations \in [People -> [Columns -> Nat]]
    /\ deaf \subseteq People
    /\ toServer \in [People -> Seq(Requests)] /\ toClient \in [People -> Seq(Answers)]
    /\ at \in [People -> Screens] /\ column \in [People -> Columns \cup {"junk"}]
    /\ roster \in [People -> [Columns -> [People -> Nat]]]
    /\ menu \in [People -> SUBSET (Columns \cup {"junk"})]
    /\ number \in Nat /\ keys \in [People -> Nat]
    /\ stay \in [People -> {"out", "in", "late"}]
    /\ newer \in [People -> SUBSET People] /\ astray \subseteq People
    /\ misled \subseteq astray

\* A client in the waiting room that has read everything and never misread.
Settled(p) == at[p] = "waiting" /\ toClient[p] = <<>> /\ p \notin astray

\* What a settled client that is in the room shows: itself and everybody who
\* came after it exactly once and in the right column, nobody twice, and
\* nobody who is not in the room (addPlayer, sendParticipantLeaving and
\* handleUPDATE_PLAYER, whatever comes and goes meanwhile).  Excepted are the
\* rows of who took its menu's answer for END: it may join a room it is in.
Roster ==
    \A p \in People : Settled(p) /\ p \in room.members =>
        \A q \in People \ misled, c \in Columns :
            LET here == q \in room.members /\ ColumnOf(q) = c
            IN  /\ roster[p][c][q] <= IF here THEN 1 ELSE 0
                /\ q \in newer[p] \cup {p} /\ here => roster[p][c][q] = 1

\* Nobody is left behind: who was let into the lobby and waits with nothing
\* left to read is still in it (playerLeaves tells everybody it removes).
NobodyLeftBehind ==
    \A p \in People : Settled(p) /\ stay[p] = "in" /\ toServer[p] = <<>> => p \in room.members

\* A client that never misread a message plays only after the room's leader
\* started the game (handleStartRequest, handleWaitingRoom).
StartedByLeader == \A p \in People \ astray : at[p] = "playing" => room.playing

\* Once the lobby has started or is over, nobody who was let in before goes on
\* waiting for it (the STARTED and END broadcasts).
WaitEnds ==
    \A p \in People :
        at[p] = "waiting" /\ stay[p] = "in" /\ (room.playing \/ room.phase \in {"closing", "gone"})
        ~> at[p] # "waiting"

\* The question of an invitation menu gets something to show, unless no thread
\* reads the connection, or the thread of a room drops it.  Only two kinds of
\* players are in a room there: the leader that cancelled its settings, and who
\* took the answer of the menu for END (handleGetLobbyInvite, processMessage
\* of gameServer.cpp).
MenuAnswered ==
    \A p \in People : at[p] = "fetching" ~>
        \/ at[p] # "fetching"
        \/ p \in deaf
        \/ p \in room.members /\ p \in misled \cup {Leader}

\* "WAITING FOR LEADER TO START THE GAME": whoever plays was let in by the
\* server and started by the leader.
NobodyPlaysAlone == \A p \in People : at[p] = "playing" => room.playing
=============================================================================
