----------------------------- MODULE RoomServer -----------------------------
(***************************************************************************)
(* The connections and game rooms of the Tetris Royale server              *)
(* (server.cpp, gameServer.cpp and the lobby and end-of-game handlers of   *)
(* message.cpp).                                                           *)
(*                                                                         *)
(* One main thread accepts connections and serves the clients that are in  *)
(* no room (Server::run).  Every room has a thread of its own, started by  *)
(* the CREATE handler, that serves the room's players (GameRoom::loop).    *)
(* The threads share the client table, the two kinds of select sets, the   *)
(* room directory and one database connection, and the server takes no     *)
(* lock.  A message handler is one step, except where it stays open long   *)
(* enough for the other threads to act: JOIN, which waits for the          *)
(* database between looking the room up and entering it, and the closing   *)
(* of a room.                                                              *)
(***************************************************************************)
EXTENDS Naturals, Sequences, FiniteSets, Functions

CONSTANTS
    Sockets,     \* file descriptors of client connections
    Accounts,    \* player ids of the registered users
    NoAccount,   \* the id 0 of a connection that never logged in
    Rooms,       \* GameRoom objects; bounds the rooms ever created
    NoRoom,      \* a null gameRoom pointer
    MaxClients,  \* MAX_CLIENTS
    MaxPlayers,  \* MAX_PLAYERS_NUMBERS
    Sizes,       \* the room sizes a client may ask for
    OldIds       \* ids of rooms of a former server process

ASSUME SocketsFinite == IsFiniteSet(Sockets)
ASSUME NoAccountOutside == NoAccount \notin Accounts
ASSUME NoRoomOutside == NoRoom \notin Rooms
ASSUME BoundsAreNat == MaxClients \in Nat /\ MaxPlayers \in Nat
ASSUME SizesAreNat == Sizes \subseteq Nat
ASSUME OldIdsAreNat == OldIds \subseteq Nat

VARIABLES
    up,         \* the server process is alive
    link,       \* [Sockets -> "free", "open" or "hup"]: "hup" once the peer hung up
    clients,    \* the keys of Server::clients
    active,     \* Server::allActiveSockets, the set the main thread selects on
    account,    \* Player::ID
    gameRoom,   \* Player::gameRoom
    isPlaying,  \* Player::isPlaying
    directory,  \* Server::gameRooms_, a vector of rooms
    room,       \* the fields of every GameRoom
    invitations,\* rows of the table game_invitation: <<invited id, room id>>
    main,       \* Idle, or the local variables of the JOIN handler
    lobby,      \* the client's Lobby::gameRoomId_, 0 for none
    listed,     \* invitations that some client may still hold in its menu
    verdict,    \* LOST or WIN, the last sent to a client in its present room;
                \* "late": its room closed before the client's START was read
    refused,    \* history: the sockets whose last JOIN found the room full
    strayed,    \* history: a JOIN entered a closed room, or not the one it looked up,
                \* a LEAVE or a START reached a room that was closing already, or the
                \* thread of a room read a CREATE, or the JOIN of another room
    revived,    \* history: the rooms dissolved before their thread ran
    reseated,   \* history: the rooms one of whose players joined them once more
    asked,      \* history: who was invited to which GameRoom object
    leftover    \* history: those of the rows that a former process left

netVars == <<link, clients, active, account>>
dbVars == <<invitations, listed, asked, leftover>>
history == <<refused, strayed, revived, reseated>>
vars == <<up, link, clients, active, account, gameRoom, isPlaying, directory,
          room, invitations, main, lobby, listed, verdict, refused, strayed,
          revived, reseated, asked, leftover>>

Ids == Accounts \cup {NoAccount}
NoGamers == [a \in Ids |-> 0]
Idle == [op |-> "idle"]

\* The thread of a room: "start" before pthread_create runs it, "loop" while it
\* serves players, then the steps that close the room.
LoopPhases == {"start", "loop"}
Phases == LoopPhases \cup {"unused", "restore", "purge", "remove", "gone"}

Unused == [id |-> 0, phase |-> "unused", running |-> FALSE, playing |-> FALSE,
           leader |-> NoAccount, size |-> 0, gamers |-> NoGamers,
           players |-> {}, ready |-> {}, todo |-> {}]

\* The server starts with no client and no room, but the table of invitations
\* is as the last process left it, and room ids begin with 1 again.
Init ==
    /\ up = TRUE
    /\ link = [s \in Sockets |-> "free"]
    /\ clients = {} /\ active = {}
    /\ account = [s \in Sockets |-> NoAccount]
    /\ gameRoom = [s \in Sockets |-> NoRoom]
    /\ isPlaying = [s \in Sockets |-> FALSE]
    /\ directory = <<>>
    /\ room = [r \in Rooms |-> Unused]
    /\ leftover \in SUBSET (Accounts \X OldIds)
    /\ invitations = leftover /\ listed = leftover /\ asked = {}
    /\ main = Idle
    /\ lobby = [s \in Sockets |-> 0]
    /\ verdict = [s \in Sockets |-> "none"]
    /\ refused = {} /\ strayed = FALSE /\ revived = {} /\ reseated = {}

-----------------------------------------------------------------------------
(* Helpers on a room's record.  gamers_ is a vector of ids searched and      *)
(* erased by value, never by position, so it is modelled as a bag of ids.    *)

\* The rooms once room r has the fields rec.
Becomes(r, rec) == [room EXCEPT ![r] = rec]

\* A room whose thread has been told to stop, or has already left its loop.
Closed(rec) == rec.phase # "start" /\ ~rec.running

GamerCount(rec) == SumFunction(rec.gamers)
IsPlayerGamer(rec, s) == rec.gamers[account[s]] > 0
NoGamer(rec) == \A a \in Ids : rec.gamers[a] = 0
Cap(n) == IF n > MaxPlayers THEN MaxPlayers ELSE n

\* Faulty variant: erases without having found the id.
EraseGamer_Unchecked(gamers, a) == [gamers EXCEPT ![a] = @ - 1]
EraseGamer(gamers, a) == [gamers EXCEPT ![a] = IF @ > 0 THEN @ - 1 ELSE 0]

\* Faulty variants: the seat, or the player's socket, stays behind.
RemovePlayer_KeepsSeat(rec, s) == [rec EXCEPT !.players = @ \ {s}, !.ready = @ \ {s}]
RemovePlayer_KeepsSocket(rec, s) ==
    [rec EXCEPT !.gamers = EraseGamer(@, account[s]), !.ready = @ \ {s}]
RemovePlayer(rec, s) ==
    [rec EXCEPT !.gamers = EraseGamer(@, account[s]),
                !.players = @ \ {s}, !.ready = @ \ {s}]

\* removePlayer for every player that is left
RemoveAll(rec) ==
    LET n(a) == Cardinality({p \in rec.players : account[p] = a})
    IN  [rec EXCEPT
           !.gamers = [a \in Ids |-> IF @[a] > n(a) THEN @[a] - n(a) ELSE 0],
           !.players = {}, !.ready = {}]

\* The index findRoomIndex returns, as the set of the indices it may return.
IndexOf(id) == {i \in DOMAIN directory : room[directory[i]].id = id}

\* Faulty variant: the first room is never looked at.
Bisect_FromSecond(id) ==
    LET n == Len(directory)
        ends[span \in (1..n + 1) \X (0..n)] ==
          LET left == span[1]
              right == span[2]
              mid == left + (right - left) \div 2
          IN
          IF left > right THEN left
          ELSE IF room[directory[mid]].id < id THEN ends[<<mid + 1, right>>]
          ELSE IF room[directory[mid]].id > id THEN ends[<<left, mid - 1>>]
          ELSE mid
    IN  ends[<<IF n > 0 THEN 2 ELSE 1, n>>]

\* The index whose room findRoomIndex looks at last.  It is one past the end
\* where left ends up there, and that is read too, unless there is no room.
Bisect(id) ==
    LET n == Len(directory)
        ends[span \in (1..n + 1) \X (0..n)] ==
          LET left == span[1]
              right == span[2]
              mid == left + (right - left) \div 2
          IN
          IF left > right THEN left
          ELSE IF room[directory[mid]].id < id THEN ends[<<mid + 1, right>>]
          ELSE IF room[directory[mid]].id > id THEN ends[<<left, mid - 1>>]
          ELSE mid
    IN  ends[<<1, n>>]

\* Between two statements no thread but JOIN's holds a transaction open, and
\* the one connection refuses a second one with an exception nobody catches.
DatabaseFree == main = Idle
Crash ==
    /\ up' = FALSE
    /\ UNCHANGED <<link, clients, active, account, gameRoom, isPlaying, directory,
                   room, dbVars, main, lobby, verdict, history>>

-----------------------------------------------------------------------------
(* The clients' side of a connection (external): connect and hang up.        *)

\* handleNewConnection.  The client table is never shrunk.
Connect(s) ==
    /\ main = Idle
    /\ link[s] = "free"
    /\ Cardinality(clients) <= MaxClients
    /\ link' = [link EXCEPT ![s] = "open"]
    /\ clients' = clients \cup {s}
    /\ active' = active \cup {s}
    /\ account' = [account EXCEPT ![s] = NoAccount]
    /\ gameRoom' = [gameRoom EXCEPT ![s] = NoRoom]
    /\ isPlaying' = [isPlaying EXCEPT ![s] = FALSE]
    /\ lobby' = [lobby EXCEPT ![s] = 0]
    /\ UNCHANGED <<up, directory, room, dbVars, main, verdict, history>>

\* The client process ends: the messages it sent before are still readable.
HangUp(s) ==
    /\ link[s] = "open"
    /\ link' = [link EXCEPT ![s] = "hup"]
    /\ UNCHANGED <<up, clients, active, account, gameRoom, isPlaying, directory,
                   room, dbVars, main, lobby, verdict, history>>

-----------------------------------------------------------------------------
(* The main thread.                                                          *)

MainServes(s) == main = Idle /\ s \in active /\ link[s] # "free"

\* The stream is read in order: a START on its way comes first.
MainReads(s) == MainServes(s) /\ verdict[s] # "late"

\* disconnectClient, on LOGOUT or at the end of the stream: the descriptor is
\* closed, its entry of clients stays.
Disconnect(s) ==
    /\ MainServes(s)
    /\ active' = active \ {s}
    /\ link' = [link EXCEPT ![s] = "free"]
    /\ verdict' = [verdict EXCEPT ![s] = "none"]
    /\ UNCHANGED <<up, clients, account, gameRoom, isPlaying, directory, room,
                   dbVars, main, lobby, history>>

\* A successful LOGIN installs a new Player object for the socket.
Login(s, a) ==
    /\ MainReads(s)
    /\ account[s] = NoAccount
    /\ account' = [account EXCEPT ![s] = a]
    /\ gameRoom' = [gameRoom EXCEPT ![s] = NoRoom]
    /\ isPlaying' = [isPlaying EXCEPT ![s] = FALSE]
    /\ UNCHANGED <<up, link, clients, active, directory, room, dbVars, main,
                   lobby, verdict, history>>

\* Faulty variant: the id of the last room again.
NextRoomId_Reused == IF directory = <<>> THEN 1 ELSE room[directory[Len(directory)]].id
NextRoomId ==
    IF directory = <<>> THEN 1 ELSE room[directory[Len(directory)]].id + 1

\* The creator leads its room and is its first gamer.
Opened(s, n) ==
    [Unused EXCEPT !.id = NextRoomId, !.phase = "start",
                   !.leader = account[s], !.size = Cap(n),
                   !.gamers = [NoGamers EXCEPT ![account[s]] = 1], !.players = {s}]

\* handleCreate
Create(s, r, n) ==
    /\ MainReads(s)
    /\ room[r].phase = "unused"
    /\ n > 0
    /\ active' = active \ {s}
    /\ directory' = Append(directory, r)
    /\ room' = Becomes(r, Opened(s, n))
    /\ gameRoom' = [gameRoom EXCEPT ![s] = r]
    /\ lobby' = [lobby EXCEPT ![s] = NextRoomId]
    /\ UNCHANGED <<up, link, clients, account, isPlaying, dbVars, main, verdict,
                   history>>

\* The first half of handleJoin: look the room up, check the invitation, and
\* take the socket off the main thread's set.
JoinBegin(s, id, asGamer) ==
    /\ MainReads(s)
    /\ <<account[s], id>> \in listed
    /\ lobby' = [lobby EXCEPT ![s] = id]
    /\ IF <<account[s], id>> \in invitations /\ IndexOf(id) # {}
         THEN \E i \in IndexOf(id) :
                /\ active' = active \ {s}
                /\ main' = [op |-> "join", sock |-> s, index |-> i,
                            asGamer |-> asGamer, wanted |-> directory[i]]
         ELSE UNCHANGED <<active, main>>
    /\ UNCHANGED <<up, link, clients, account, gameRoom, isPlaying, directory, room,
                   dbVars, verdict, history>>

\* addPlayer refuses a gamer when every seat is taken, and nobody else.
Full(rec, asGamer) == asGamer /\ GamerCount(rec) = rec.size
Entered(rec, s, asGamer) ==
    [rec EXCEPT !.players = @ \cup {s},
                !.gamers[account[s]] = IF asGamer THEN @ + 1 ELSE @]

\* The second half of handleJoin: addPlayer on the room that is now at the
\* remembered index.  An index past the end dereferences a dead shared_ptr.
JoinEnter ==
    /\ main # Idle
    /\ IF main.index > Len(directory) THEN Crash
       ELSE LET s == main.sock
                r == directory[main.index]
                rec == room[r]
                full == Full(rec, main.asGamer)
            IN  /\ room' = IF full THEN room ELSE Becomes(r, Entered(rec, s, main.asGamer))
                /\ gameRoom' = IF full THEN gameRoom ELSE [gameRoom EXCEPT ![s] = r]
                /\ refused' = IF full THEN refused \cup {s} ELSE refused \ {s}
                /\ strayed' = (strayed \/ (~full /\ (r # main.wanted \/ Closed(rec))))
                /\ main' = Idle
                /\ UNCHANGED <<up, link, clients, active, account, isPlaying, directory,
                               dbVars, lobby, verdict, revived, reseated>>

-----------------------------------------------------------------------------
(* playerLeaves, called by both kinds of threads: the player goes back to    *)
(* the main thread's set, or is disconnected when its peer hung up; a lobby  *)
(* its leader or last gamer left is dissolved.                               *)

Dissolves(rec, s) ==
    /\ account[s] = rec.leader \/ NoGamer(RemovePlayer(rec, s))
    /\ ~rec.playing

\* Faulty variant: the thread of a dissolved lobby is not told to stop.
AfterLeave_RunsOn(rec, s) ==
    IF Dissolves(rec, s) THEN RemoveAll(RemovePlayer(rec, s)) ELSE RemovePlayer(rec, s)

AfterLeave(rec, s) ==
    IF Dissolves(rec, s)
      THEN [RemoveAll(RemovePlayer(rec, s)) EXCEPT !.running = FALSE]
      ELSE RemovePlayer(rec, s)

\* Faulty variant: the players of a dissolved lobby are not given back.
Released_Alone(rec, s) == {s}
Released(rec, s) == {s} \cup (IF Dissolves(rec, s) THEN rec.players ELSE {})

\* drained: nothing the peer sent is unread, so the end of the stream shows.
PlayerLeaves(rec, s, drained) ==
    LET gone == Released(rec, s)
        closed == IF link[s] = "hup" /\ drained THEN {s} ELSE {}
    IN  /\ gameRoom' = [p \in Sockets |-> IF p \in gone THEN NoRoom ELSE gameRoom[p]]
        /\ isPlaying' = [p \in Sockets |-> IF p \in gone THEN FALSE ELSE isPlaying[p]]
        /\ verdict' = [p \in Sockets |-> IF p \in gone THEN "none" ELSE verdict[p]]
        /\ active' = (active \cup gone) \ closed
        /\ clients' = clients \cup gone
        /\ link' = [p \in Sockets |-> IF p \in closed THEN "free" ELSE link[p]]

\* LEAVE read by the main thread: the client left a lobby that was dissolved,
\* or that never let it in.
MainLeave(s) ==
    /\ MainReads(s)
    /\ lobby[s] # 0
    /\ lobby' = [lobby EXCEPT ![s] = 0]
    /\ IF IndexOf(lobby[s]) = {}
         THEN UNCHANGED <<link, clients, active, gameRoom, isPlaying, room, verdict,
                          strayed, revived>>
         ELSE \E i \in IndexOf(lobby[s]), drained \in BOOLEAN :
                LET rec == room[directory[i]] IN
                /\ PlayerLeaves(rec, s, drained)
                /\ room' = Becomes(directory[i], AfterLeave(rec, s))
                /\ strayed' = (strayed \/ (Dissolves(rec, s) /\ rec.phase \notin LoopPhases))
                /\ revived' = IF Dissolves(rec, s) /\ rec.phase = "start"
                                THEN revived \cup {directory[i]} ELSE revived
    /\ UNCHANGED <<up, account, directory, dbVars, main, refused, reseated>>

\* GAME START read by the main thread: it only finds the client in a room whose
\* thread gave it back and has not cleared players_ yet.
MainStart(s) ==
    LET found == \E i \in DOMAIN directory : s \in room[directory[i]].players IN
    /\ MainServes(s) /\ verdict[s] = "late"
    /\ verdict' = [verdict EXCEPT ![s] = "none"]
    /\ isPlaying' = [isPlaying EXCEPT ![s] = @ \/ found]
    /\ strayed' = (strayed \/ found)
    /\ UNCHANGED <<up, netVars, dbVars, gameRoom, directory, room, main, lobby, refused,
                   revived, reseated>>

-----------------------------------------------------------------------------
(* The thread of room r.  A pass of its loop handles one message of every    *)
(* socket that select reported; between passes ready is empty.               *)

SetPhase(r, from, to) ==
    /\ room[r].phase = from
    /\ room' = Becomes(r, [room[r] EXCEPT !.phase = to])

RoomStart(r) ==
    /\ room[r].phase = "start"
    /\ room' = Becomes(r, [room[r] EXCEPT !.phase = "loop", !.running = TRUE])
    /\ UNCHANGED <<up, netVars, dbVars, gameRoom, isPlaying, directory, main, lobby,
                   verdict, history>>

RoomSelect(r) ==
    /\ room[r].phase = "loop" /\ room[r].running /\ room[r].ready = {}
    /\ \E S \in SUBSET room[r].players \ {{}} :
         room' = Becomes(r, [room[r] EXCEPT !.ready = S])
    /\ UNCHANGED <<up, netVars, dbVars, gameRoom, isPlaying, directory, main, lobby,
                   verdict, history>>

RoomServes(r, s) ==
    room[r].phase = "loop" /\ s \in room[r].ready /\ link[s] # "free"

Handled(r, s) == room[r].ready \ {s}

\* playerLeaves erases the map node the loop's iterator stands on, so where
\* the loop goes on from is undefined: with the other sockets, or nowhere.
AfterErase(r, s) == {Handled(r, s), {}}

\* The thread of r goes on with the sockets next of its pass.
Ready(rec, next) == [rec EXCEPT !.ready = next \cap rec.players]
Passed(rooms, r, next) == [rooms EXCEPT ![r] = Ready(rooms[r], next)]

\* A message without effect on rooms: a refused START, CHAT, MOVE, ROTATE, ...
RoomIgnore(r, s) ==
    /\ RoomServes(r, s)
    /\ room' = Passed(room, r, Handled(r, s))
    /\ UNCHANGED <<up, netVars, dbVars, gameRoom, isPlaying, directory, main, lobby,
                   verdict, history>>

\* readSafe reports the end of the stream.
RoomHangup(r, s) ==
    /\ RoomServes(r, s) /\ link[s] = "hup"
    /\ PlayerLeaves(room[r], s, TRUE)
    /\ \E next \in AfterErase(r, s) :
         room' = Passed(Becomes(r, AfterLeave(room[r], s)), r, next)
    /\ UNCHANGED <<up, account, directory, dbVars, main, lobby, history>>

\* LEAVE names the room by the id the client holds.
RoomLeave(r, s) ==
    /\ RoomServes(r, s)
    /\ lobby[s] # 0
    /\ lobby' = [lobby EXCEPT ![s] = 0]
    /\ IF IndexOf(lobby[s]) = {}
         THEN /\ room' = Passed(room, r, Handled(r, s))
              /\ UNCHANGED <<link, clients, active, gameRoom, isPlaying, verdict>>
         ELSE \E i \in IndexOf(lobby[s]), next \in AfterErase(r, s), drained \in BOOLEAN :
                /\ PlayerLeaves(room[directory[i]], s, drained)
                /\ room' = Passed(Becomes(directory[i], AfterLeave(room[directory[i]], s)),
                                  r, next)
    /\ UNCHANGED <<up, account, directory, dbVars, main, history>>

\* handleStartRequest: the leader starts the game of a full lobby.
LobbyStart(r, s) ==
    /\ RoomServes(r, s)
    /\ \E i \in IndexOf(lobby[s]) :
         LET q == directory[i] IN
         /\ account[s] = room[q].leader
         /\ GamerCount(room[q]) >= room[q].size
         /\ room' = Passed(Becomes(q, [room[q] EXCEPT !.playing = TRUE]), r, Handled(r, s))
         /\ isPlaying' = [p \in Sockets |-> isPlaying[p] \/ p \in room[q].players]
         /\ verdict' = [p \in Sockets |->
                          IF p \in room[q].players THEN "none" ELSE verdict[p]]
    /\ UNCHANGED <<up, netVars, dbVars, gameRoom, directory, main, lobby, history>>

\* handleModify, sent by the leader's waiting room.
Modify(r, s, n) ==
    /\ RoomServes(r, s)
    /\ \E i \in IndexOf(lobby[s]) :
         LET q == directory[i] IN
         /\ account[s] = room[q].leader
         /\ room' = Passed(Becomes(q, [room[q] EXCEPT !.size = Cap(n)]), r, Handled(r, s))
    /\ UNCHANGED <<up, netVars, dbVars, gameRoom, isPlaying, directory, main, lobby,
                   verdict, history>>

\* CREATE read by the thread of room r: processMessage lets every lobby message
\* through.  The leader is back in the menu after ESC in the settings of its
\* waiting room, which sends no LEAVE, and from then on a player of two rooms.
RoomCreate(r, s, q, n) ==
    /\ RoomServes(r, s)
    /\ room[q].phase = "unused"
    /\ n > 0
    /\ active' = active \ {s}
    /\ directory' = Append(directory, q)
    /\ room' = Passed(Becomes(q, Opened(s, n)), r, Handled(r, s))
    /\ gameRoom' = [gameRoom EXCEPT ![s] = q]
    /\ lobby' = [lobby EXCEPT ![s] = NextRoomId]
    /\ strayed' = TRUE
    /\ UNCHANGED <<up, link, clients, account, isPlaying, dbVars, main, verdict,
                   refused, revived, reseated>>

\* JOIN read by the thread of room r, from a player whose waiting room took
\* another message for its end: it may take a second seat, or a second room.
RoomJoin(r, s, id, asGamer) ==
    /\ RoomServes(r, s)
    /\ <<account[s], id>> \in listed
    /\ IF ~DatabaseFree THEN Crash
       ELSE /\ lobby' = [lobby EXCEPT ![s] = id]
            /\ strayed' = (strayed \/ id # room[r].id)
            /\ IF <<account[s], id>> \in invitations /\ IndexOf(id) # {}
                 THEN \E i \in IndexOf(id) :
                   LET q == directory[i]
                       full == Full(room[q], asGamer)
                   IN  /\ active' = active \ {s}
                       /\ room' = Passed(IF full THEN room
                                         ELSE Becomes(q, Entered(room[q], s, asGamer)),
                                       r, Handled(r, s))
                       /\ gameRoom' = IF full THEN gameRoom ELSE [gameRoom EXCEPT ![s] = q]
                       /\ reseated' = IF full \/ ~asGamer THEN reseated ELSE reseated \cup {q}
                 ELSE /\ room' = Passed(room, r, Handled(r, s))
                      /\ UNCHANGED <<active, gameRoom, reseated>>
            /\ UNCHANGED <<up, link, clients, account, isPlaying, directory, dbVars,
                           main, verdict, refused, revived>>

\* handleInviteFriend, sent by the leader's waiting room.  The row's foreign
\* key rejects an inviter whose connection registered but never logged in.
Invite(r, s, a) ==
    /\ RoomServes(r, s)
    /\ lobby[s] # 0 /\ account[s] = room[r].leader /\ a # account[s]
    /\ IF ~DatabaseFree \/ account[s] = NoAccount THEN Crash
       ELSE /\ invitations' = invitations \cup {<<a, lobby[s]>>}
            /\ listed' = listed \cup {<<a, lobby[s]>>}
            /\ asked' = asked \cup {<<a, r>>}
            /\ room' = Passed(room, r, Handled(r, s))
            /\ UNCHANGED <<up, netVars, gameRoom, isPlaying, directory, main, lobby,
                           verdict, leftover, history>>

\* TETRAMINO_REQUEST when the new piece does not fit: the player loses, and
\* the game ends when at most one player of the room is still playing.
Lose(r, s) ==
    LET q == gameRoom[s]
        alive == {p \in room[q].players : isPlaying[p] /\ p # s}
    IN  /\ RoomServes(r, s)
        /\ isPlaying[s] /\ q # NoRoom
        /\ IsPlayerGamer(room[q], s)
        /\ isPlaying' = [isPlaying EXCEPT ![s] = FALSE]
        /\ verdict' = [p \in Sockets |-> CASE p = s -> "lost"
                         [] p # s /\ alive = {p} -> "won"
                         [] OTHER -> verdict[p]]
        /\ room' = Passed(Becomes(q, [room[q] EXCEPT !.running = @ /\ Cardinality(alive) > 1]),
                          r, Handled(r, s))
        /\ UNCHANGED <<up, netVars, dbVars, gameRoom, directory, main, lobby, history>>

\* handleEndMsg: the client left the game, on a verdict or with its quit key.
GameEnd(r, s) ==
    LET q == gameRoom[s]
        rec == [room[q] EXCEPT !.playing = @ /\ GamerCount(room[q]) # 1]
        left == AfterLeave(rec, s)
        ended == [left EXCEPT !.running = @ /\ ~NoGamer(left)]
    IN  /\ RoomServes(r, s)
        /\ q # NoRoom
        /\ isPlaying[s] \/ verdict[s] \in {"lost", "won"}
        /\ IF ~DatabaseFree THEN Crash
           ELSE /\ \E drained \in BOOLEAN : PlayerLeaves(rec, s, drained)
                /\ \E next \in AfterErase(r, s) :
                     room' = Passed(Becomes(q, ended), r, next)
                /\ lobby' = [lobby EXCEPT ![s] = 0]
                /\ UNCHANGED <<up, account, directory, dbVars, main, history>>

-----------------------------------------------------------------------------
(* The thread of room r closes the room.                                     *)

\* Faulty variant: the loop goes on until its last player is gone.
RoomExit_Waits(r) ==
    /\ room[r].phase = "loop" /\ ~room[r].running /\ room[r].players = {}
    /\ room' = Becomes(r, [room[r] EXCEPT !.phase = "restore", !.todo = room[r].players])
    /\ UNCHANGED <<up, netVars, dbVars, gameRoom, isPlaying, directory, main, lobby,
                   verdict, history>>

RoomExit(r) ==
    /\ room[r].phase = "loop" /\ ~room[r].running /\ room[r].ready = {}
    /\ room' = Becomes(r, [room[r] EXCEPT !.phase = "restore", !.todo = room[r].players])
    /\ UNCHANGED <<up, netVars, dbVars, gameRoom, isPlaying, directory, main, lobby,
                   verdict, history>>

\* A gamer still playing may not have sent its START yet.
Undelivered(r, s) ==
    IF isPlaying[s] /\ IsPlayerGamer(room[r], s) THEN {"none", "late"} ELSE {"none"}

\* Faulty variants: isPlaying is not reset, or the socket is not given back.
RoomRestore_StillPlaying(r, s) ==
    /\ room[r].phase = "restore" /\ s \in room[r].todo
    /\ room' = Becomes(r, [room[r] EXCEPT !.todo = @ \ {s}])
    /\ gameRoom' = [gameRoom EXCEPT ![s] = NoRoom]
    /\ \E v \in Undelivered(r, s) : verdict' = [verdict EXCEPT ![s] = v]
    /\ active' = active \cup {s}
    /\ clients' = clients \cup {s}
    /\ lobby' = [lobby EXCEPT ![s] = 0]
    /\ UNCHANGED <<up, link, account, dbVars, isPlaying, directory, main, history>>

RoomRestore_Forgets(r, s) ==
    /\ room[r].phase = "restore" /\ s \in room[r].todo
    /\ room' = Becomes(r, [room[r] EXCEPT !.todo = @ \ {s}])
    /\ gameRoom' = [gameRoom EXCEPT ![s] = NoRoom]
    /\ isPlaying' = [isPlaying EXCEPT ![s] = FALSE]
    /\ \E v \in Undelivered(r, s) : verdict' = [verdict EXCEPT ![s] = v]
    /\ lobby' = [lobby EXCEPT ![s] = 0]
    /\ UNCHANGED <<up, netVars, dbVars, directory, main, history>>

RoomRestore(r, s) ==
    /\ room[r].phase = "restore" /\ s \in room[r].todo
    /\ room' = Becomes(r, [room[r] EXCEPT !.todo = @ \ {s}])
    /\ gameRoom' = [gameRoom EXCEPT ![s] = NoRoom]
    /\ isPlaying' = [isPlaying EXCEPT ![s] = FALSE]
    /\ \E v \in Undelivered(r, s) : verdict' = [verdict EXCEPT ![s] = v]
    /\ active' = active \cup {s}
    /\ clients' = clients \cup {s}
    /\ lobby' = [lobby EXCEPT ![s] = 0]
    /\ UNCHANGED <<up, link, account, dbVars, directory, main, history>>

RoomClear(r) ==
    /\ room[r].phase = "restore" /\ room[r].todo = {}
    /\ room' = Becomes(r, [room[r] EXCEPT !.phase = "purge", !.players = {},
                                          !.ready = {}, !.gamers = NoGamers])
    /\ UNCHANGED <<up, netVars, dbVars, gameRoom, isPlaying, directory, main, lobby,
                   verdict, history>>

\* Faulty variant: the rows stay.
RoomPurge_KeepsRows(r) ==
    /\ room[r].phase = "purge"
    /\ IF ~DatabaseFree THEN Crash
       ELSE /\ SetPhase(r, "purge", "remove")
            /\ UNCHANGED <<up, netVars, gameRoom, isPlaying, directory, main, lobby,
                           dbVars, verdict, history>>

\* deleteAllInvitations
RoomPurge(r) ==
    /\ room[r].phase = "purge"
    /\ IF ~DatabaseFree THEN Crash
       ELSE /\ SetPhase(r, "purge", "remove")
            /\ invitations' = {row \in invitations : row[2] # room[r].id}
            /\ leftover' = {row \in leftover : row[2] # room[r].id}
            /\ UNCHANGED <<up, netVars, gameRoom, isPlaying, directory, main, lobby,
                           listed, asked, verdict, history>>

\* removeGameRoom erases the directory entry with the room's id.
RoomRemove(r) ==
    /\ SetPhase(r, "remove", "gone")
    /\ \E i \in IndexOf(room[r].id) :
         directory' = SubSeq(directory, 1, i - 1) \o SubSeq(directory, i + 1, Len(directory))
    /\ UNCHANGED <<up, netVars, dbVars, gameRoom, isPlaying, main, lobby, verdict, history>>

-----------------------------------------------------------------------------
Outside == \E s \in Sockets : Connect(s) \/ HangUp(s)

MainThread ==
    \/ \E s \in Sockets : \/ Disconnect(s)
                          \/ MainLeave(s)
                          \/ MainStart(s)
                          \/ \E a \in Accounts : Login(s, a)
                          \/ \E r \in Rooms, n \in Sizes : Create(s, r, n)
                          \/ \E row \in listed, g \in BOOLEAN : JoinBegin(s, row[2], g)
    \/ JoinEnter

RoomThread(r) ==
    \/ RoomStart(r) \/ RoomSelect(r)
    \/ RoomExit(r) \/ RoomClear(r) \/ RoomPurge(r) \/ RoomRemove(r)
    \/ \E s \in Sockets : \/ RoomIgnore(r, s) \/ RoomHangup(r, s) \/ RoomLeave(r, s)
                          \/ LobbyStart(r, s) \/ Lose(r, s) \/ GameEnd(r, s)
                          \/ RoomRestore(r, s)
                          \/ \E n \in Sizes : Modify(r, s, n)
                          \/ \E a \in Accounts : Invite(r, s, a)
                          \/ \E q \in Rooms, n \in Sizes : RoomCreate(r, s, q, n)
                          \/ \E row \in listed, g \in BOOLEAN : RoomJoin(r, s, row[2], g)

Next == up /\ (Outside \/ MainThread \/ \E r \in Rooms : RoomThread(r))

Spec == Init /\ [][Next]_vars

\* The scheduler runs every room thread, and the database answers.
Fairness ==
    /\ \A r \in Rooms : WF_vars(up /\ RoomThread(r))
    /\ WF_vars(up /\ JoinEnter)

FairSpec == Spec /\ Fairness

-----------------------------------------------------------------------------
(* Properties.                                                               *)

RoomType ==
    [id : Nat, phase : Phases, running : BOOLEAN, playing : BOOLEAN, leader : Ids,
     size : Nat, gamers : [Ids -> Nat], players : SUBSET Sockets,
     ready : SUBSET Sockets, todo : SUBSET Sockets]

JoinType == [op : {"join"}, sock : Sockets, index : Nat \ {0}, asGamer : BOOLEAN, wanted : Rooms]

\* Every variable ranges over the values its C++ declaration admits.
TypeOK ==
    /\ up \in BOOLEAN
    /\ link \in [Sockets -> {"free", "open", "hup"}]
    /\ clients \subseteq Sockets
    /\ active \subseteq Sockets
    /\ account \in [Sockets -> Ids]
    /\ gameRoom \in [Sockets -> Rooms \cup {NoRoom}]
    /\ isPlaying \in [Sockets -> BOOLEAN]
    /\ directory \in Seq(Rooms)
    /\ room \in [Rooms -> RoomType]
    /\ invitations \subseteq Accounts \X Nat
    /\ listed \subseteq Accounts \X Nat
    /\ main \in {Idle} \cup JoinType
    /\ lobby \in [Sockets -> Nat]
    /\ verdict \in [Sockets -> {"none", "lost", "won", "late"}]
    /\ refused \subseteq Sockets
    /\ strayed \in BOOLEAN
    /\ revived \subseteq Rooms /\ reseated \subseteq Rooms
    /\ asked \subseteq Accounts \X Rooms
    /\ leftover \subseteq Accounts \X Nat

InLoop(s, r) == s \in room[r].players /\ room[r].phase \in LoopPhases
BeingJoined(s) == main # Idle /\ main.sock = s

\* At most one thread reads a client's socket: two readers would each take a
\* part of the client's messages (select sets of Server::run and GameRoom::loop).
\* Like the next ones it says nothing once a client went astray: a leader that
\* opens a second room from the menu is read by the threads of both.
OneListener ==
    ~strayed => \A s \in Sockets, r \in Rooms : InLoop(s, r) =>
                  /\ s \notin active /\ ~BeingJoined(s)
                  /\ \A q \in Rooms : InLoop(s, q) => q = r

\* Every connected client is read by some thread, except one whose JOIN was
\* refused: nothing else loses a socket on its way between the main thread's and
\* a room's select set, until a client went astray.
Watched ==
    ~strayed => \A s \in Sockets : link[s] # "free" /\ s \notin refused =>
                  \/ s \in active
                  \/ BeingJoined(s)
                  \/ \E r \in Rooms : InLoop(s, r) \/ s \in room[r].todo

\* A room thread serves only players whose gameRoom is that room, and no stale
\* gameRoom or isPlaying outlives the stay in a room: handleMove and the malus
\* handlers dereference the gameRoom of a playing client without a check.  This
\* holds until a client went astray (a late JOIN, a CREATE read by a room).
MembersPointHome ==
    ~strayed => \A s \in Sockets :
                  /\ \A r \in Rooms : InLoop(s, r) => gameRoom[s] = r
                  /\ gameRoom[s] # NoRoom => s \in room[gameRoom[s]].players
                  /\ isPlaying[s] => gameRoom[s] # NoRoom

\* The directory is strictly increasing in the room ids, what the binary
\* search of findRoomIndex relies on, and lists exactly the open rooms.
DirectorySorted ==
    /\ \A i, j \in DOMAIN directory :
          i < j => room[directory[i]].id < room[directory[j]].id
    /\ \A r \in Rooms : room[r].phase \notin {"unused", "gone"}
                          <=> \E i \in DOMAIN directory : directory[i] = r

\* findRoomIndex finds every room that is open, and reads past the end of the
\* directory only for an id larger than all of them.
BisectFinds ==
    \A id \in 1..Cardinality(Rooms) + 1 :
      /\ IndexOf(id) # {} => Bisect(id) \in IndexOf(id)
      /\ Bisect(id) > Len(directory) => \A i \in DOMAIN directory : room[directory[i]].id < id

\* A running room without players was deserted during its game: a waiting
\* lobby always ends with its last player (playerLeaves), except one dissolved
\* before its thread ran, for loop() then sets running_ again, or one with a
\* seat that a second JOIN left behind.
NoAbandonedLobby ==
    ~strayed => \A r \in Rooms \ (revived \cup reseated) :
        room[r].phase = "loop" /\ room[r].running /\ room[r].players = {}
            => room[r].playing

\* Nobody holds a seat of a room without being one of its players, or the
\* lobby would look full for ever: gamers_ is searched by player id and players_
\* by socket (addPlayer, removePlayer).  A player that joins its room once more
\* does get a second seat, and so do players of rooms in which one went astray.
SeatsTaken ==
    ~strayed => \A r \in Rooms \ reseated : room[r].phase \in LoopPhases =>
        \A a \in Ids :
            room[r].gamers[a] <= Cardinality({s \in room[r].players : account[s] = a})

\* What these invariants rest on: a client has one place, and every copy the
\* threads keep of it (gameRoom, select sets, players_, the client's lobby) agrees.
Holds(s, r) ==
    s \in room[r].players /\ (room[r].phase \in LoopPhases \/ s \in room[r].todo)

OutOfRooms(s) ==
    /\ gameRoom[s] = NoRoom /\ ~isPlaying[s]
    /\ \A r \in Rooms : ~Holds(s, r)

WithMain(s) ==
    /\ OutOfRooms(s) /\ ~BeingJoined(s)
    /\ s \in active => link[s] # "free"
    /\ link[s] # "free" => s \in active \cup refused

InJoin(s) ==
    /\ OutOfRooms(s) /\ BeingJoined(s)
    /\ s \notin active /\ link[s] # "free"
    /\ lobby[s] = room[main.wanted].id

InRoom(s, r) ==
    /\ gameRoom[s] = r
    /\ \A q \in Rooms : Holds(s, q) <=> q = r
    /\ ~BeingJoined(s) /\ s \notin active /\ link[s] # "free"
    /\ room[r].phase \in LoopPhases => lobby[s] = room[r].id

HasPlace(s) == WithMain(s) \/ InJoin(s) \/ \E r \in Rooms : InRoom(s, r)

Placed ==
    ~strayed => /\ \A s \in Sockets : HasPlace(s)
              /\ \A r \in Rooms : room[r].todo \subseteq room[r].players

\* The fields of a room agree with the stage its thread has reached.
StageOK(rec) ==
    /\ rec.ready \subseteq rec.players
    /\ rec.ready # {} => rec.phase = "loop"
    /\ rec.todo # {} => rec.phase = "restore"
    /\ rec.phase \in LoopPhases \cup {"unused"} \/ ~rec.running
    /\ rec.phase = "unused" \/ rec.id > 0

RoomStages ==
    /\ \A r \in Rooms : StageOK(room[r])
    /\ main # Idle => room[main.wanted].phase # "unused"

\* The inductive invariant of the proofs.
Inductive == TypeOK /\ RoomStages /\ DirectorySorted /\ Placed

\* A client enters a room it did not create only if its account was invited to
\* that very room, and not to an earlier one of the same id that some menu still
\* shows (handleJoin, deleteAllInvitations), or if a former process left a row
\* for the id that no room's closing has deleted; unless somebody went astray.
OnlyInvitedEnter ==
    [][~strayed' => \A s \in Sockets, r \in Rooms :
          s \in room'[r].players \ room[r].players /\ room[r].phase # "unused"
              => <<account[s], r>> \in asked \/ <<account[s], room[r].id>> \in leftover]_vars

\* A room that was told to stop disappears from the directory (loop).
StoppedRoomCloses ==
    \A r \in Rooms :
        room[r].phase = "loop" /\ ~room[r].running ~> ~up \/ room[r].phase = "gone"

\* The winner of a game comes back to the main thread's select set, whoever
\* else stays, leaves or hangs up (handleTetraminoMsg, loop).
WinnerComesBack ==
    \A s \in Sockets : verdict[s] = "won" ~> ~up \/ s \in active \/ link[s] = "free"
\* The refinement of Custody: who has a client's socket.  JOIN's has left the
\* main thread's set, but not yet the thread.
atMain == {s \in Sockets : link[s] # "free" /\ (s \in active \/ BeingJoined(s))}
held == [r \in Rooms |-> {s \in Sockets : Holds(s, r)}]
forgotten ==
    {s \in Sockets : link[s] # "free" /\ s \notin atMain /\ \A r \in Rooms : s \notin held[r]}

StageOf(rec) ==
    CASE rec.phase = "unused" -> "none"
      [] rec.phase \in {"purge", "remove", "gone"} -> "gone"
      [] OTHER -> IF Closed(rec) THEN "closing" ELSE "open"
stage == [r \in Rooms |-> StageOf(room[r])]

\* The threads, select sets and room records implement Custody: a socket is
\* never with two threads, gets lost only in a refused JOIN, enters no closing
\* room, and no room is gone before it gave back all it had (addPlayer,
\* playerLeaves, loop).
Contract == INSTANCE Custody WITH broken <- strayed
InCustody == Contract!Spec
=============================================================================
