# Formal models of the Tetris Royale server and clients

TLA+ modules, TLC configurations and TLAPS proofs about the C++ program under
`src/`: a multiplayer Tetris whose server keeps the boards, the lobbies and the
accounts, and whose terminal clients replay what the server answers.

## 1. The system

| part | source | state it keeps | operations |
|---|---|---|---|
| Connections | `server/server.cpp` | `clients` (socket -> `Player`), `allActiveSockets` (select set of the main thread), `gameRooms_` | accept, read one message, dispatch, disconnect |
| Game rooms | `server/gameServer.cpp` (`GameRoom`), lobby half of `server/message.cpp` | leader, `gamers_` (ids), `players_` (by socket), own select set, `running_`, `playing_`, size, mode | CREATE, MODIFY, JOIN, LEAVE, START, INVITE; one thread per room; closing |
| Game sessions | `server/gameServer.cpp` (`GameServer`), game half of `message.cpp` | per player: grid, piece, points, energy | TETRAMINO_REQUEST, MOVE, ROTATE, LOCK, MALUS, BONUS, authorisations, START, END |
| Accounts | `message.cpp` 61-185 | `users` and `score` tables; `userDatabase`, a copy read at start-up | LOGIN, REGISTER, LOGOUT |
| Friends, invitations | `message.cpp` 896-1189 | `friend_list`, `friend_request`, `game_invitation` tables | request, accept, remove, list; menus that show older answers |
| Chat | `message.cpp` 1191-1352, `client/controller/ChatController.cpp`, `view/ChatView.cpp` | `chat_messages` table, `isInChatRoom`, `receiver` | history, send, enter, leave; a receiver thread on the client |
| Ranking | `message.cpp` 239-257, 1398-1413 | `score` table | read-compare-update at END, listing |
| Client game | `client/model/Game.cpp` | copy of the board, current piece, score, energy, `controllerWait` | keys, gravity, replay of server messages |
| Client lobby | `client/model/Lobby.cpp`, `Message.cpp`, `controller/Controller.cpp` | room id, member lists, setup flag | create, join, wait, modify, invite, leave, start |
| Views | `client/view/*` | none of its own | drawing, input fields |

**Threads.** The server's main thread (`Server::run`) serves connections that are
in no room.  CREATE starts a thread per room (`GameRoom::loop`), which serves that
room's players.  A socket moves between the main thread's select set and a room's:
CREATE and JOIN take it out of the first, leaving or closing a room puts it back.
All threads share `clients`, the select sets, `gameRooms_` and one `pqxx`
connection, **without any lock**.

**What is hard.** Sockets on the move between two select sets; a room closing
while a client joins, leaves or starts; positions in `gameRooms_` used after a wait
for the database; ids of rooms that are reused; hang-ups seen late because earlier
messages are read first; erasing from the map the loop iterates over; two losers in
one pass; the client's copies of the board, of the lobby and of its energy, kept only by
replaying messages in order; menus, a chat thread and a game loop that read one stream in
turn and take what comes next for the answer they expect; people that act on a menu drawn
from an older answer; a client that waits for an answer the server never sends; an exception
of the database, which ends the process.  `PROJECT.json`
("hazards") has them with their lines.

## 2. Modules

| module | models |
|---|---|
| `Custody` | the abstract specification of a client's socket: which thread has it, and when it passes on |
| `RoomServer` | connections, rooms, lobbies and the end of games: `server.cpp`, `GameRoom`, the lobby, login, start, lose and end handlers of `message.cpp`; implements `Custody` |
| `MC_RoomServer` | its instances: symmetry, state constraints |
| `RoomServer_proofs` | its types, the room directory and the stages of a room, the binary search: proved |
| `RoomServer_places` | every client has one place, every seat a player, every guest an invitation, and `RoomServer` implements `Custody`: proved |
| `Board` | boards and pieces as pure operators: fitting, turning, stamping, clearing rows, malus rows |
| `GameSession` | the players of one room during a game: boards on the server, their copies on the clients, the two streams between them |
| `MC_GameSession` | its instances: small pieces |
| `GameSession_proofs` | its invariants, and the operators of `Board` they rest on, proved |
| `RoyalGame` | a game in the mode Tetris Royal: energy on both sides, authorisations, menus, maluses |
| `RoyalGame_proofs` | its invariants, proved |
| `WaitingRoom` | the lobby seen from both ends: what the room's members are sent, and what every client shows |
| `WaitingRoom_proofs` | its invariants proved |
| `Friendship` | the abstract specification of friends: both at once, and only by consent |
| `Friends` | accounts, friend requests and friends: tables, handlers, menus; implements `Friendship` |
| `Friends_proofs` | its invariants, and that it implements `Friendship`, proved |
| `Chat` | the chat: handlers, screen, receiving thread and its cancellation |
| `Chat_proofs` | whom a message reaches, the order on a screen, and what it shows, proved |
| `Induction` | induction on the natural numbers and recursive functions, for the proofs above |
| `MC_RoyalGame`, `MC_WaitingRoom`, `MC_Friends`, `MC_Chat` | their instances |

`RoomServer` is about threads and sockets and leaves out what members are told;
`WaitingRoom` is about what they are told and takes each of RoomServer's handlers, and the closing of a
room, in one or two steps.  Where a client of `WaitingRoom` plays, `GameSession` (boards) and
`RoyalGame` (energy) go on; both abstract the closing of the room to one step.
`Friends` and `Chat` share the profile menu: `Chat` takes the friends as given.

### RoomServer

State, and where it lives in the code:

| variable | code |
|---|---|
| `clients`, `active`, `directory` | `Server::clients` (keys), `Server::allActiveSockets`, `Server::gameRooms_` |
| `account`, `gameRoom`, `isPlaying` | the fields of the socket's `Player` |
| `room[r]` | a `GameRoom`: `roomId_`, `running_`, `playing_`, `groupeLeader_`, `nbrPlayers_`, `gamers_` (a bag: it is searched and erased by value), `players_` together with the room's select set (always changed together), `readySockets_`; `phase` is where its thread is, `todo` the local `remainingPlayers` |
| `invitations` | rows of `game_invitation` |
| `main` | `Idle`, or the locals of `handleJoin` while it waits for the database |
| `link`, `lobby`, `listed`, `verdict` | the outside: the connection, the client's `gameRoomId_`, the invitations a menu may still show, the verdict it was sent (or the START it still owes) |
| `up` | the process is alive |
| `refused`, `strayed`, `revived`, `reseated`, `asked`, `leftover` | history, used by properties only: clients whose JOIN was refused; whether a client went astray; rooms dissolved before their thread ran; rooms joined again by one of their own players; who was invited to which `GameRoom` object; the rows a former process left |

One action per handler: `Connect` (handleNewConnection), `Disconnect`
(disconnectClient on LOGOUT or end of stream), `Login`, `Create`, `JoinBegin` /
`JoinEnter` (handleJoin up to the answer of the database; `addPlayer` after it),
`MainLeave` / `RoomLeave` (LEAVE read by either thread), `MainStart` (START of a game
read too late), `LobbyStart`, `Modify`, `Invite`, `RoomCreate` and `RoomJoin` (CREATE and JOIN
read by the thread of a room, which hands them to the same handlers), `Lose` (TETRAMINO_REQUEST that
does not fit, with LOST, WIN and the end of the game), `GameEnd`, `RoomHangup`,
`RoomIgnore` (messages without effect on rooms).  The thread of a room runs
`RoomStart`, then passes of `RoomSelect` followed by one message per ready socket,
then `RoomExit`, `RoomRestore` per player, `RoomClear`, `RoomPurge`, `RoomRemove`.
`playerLeaves` is the operator pair `PlayerLeaves` (server side) and `AfterLeave`
(room side), used by every handler that calls it.

`Init` leaves `invitations` as a former process may have left them (`OldIds`): nothing clears the table, and room
ids begin with 1 again.

Atomicity.  A handler is one step except JOIN in the main thread, which waits for the database between
finding the room and entering it, and the closing of a room, whose statements
are far apart and touch what the main thread touches.  Three things are
nondeterministic because the C++ is: where the loop goes on after
`playerLeaves` erased the node its iterator stands on (`AfterErase`), whether the
`MSG_PEEK` of `playerLeaves` sees the end of the stream (`drained`: only once
everything sent before was read), and which of two rooms of equal id a binary
search finds (`IndexOf`; `DirectorySorted` shows there is at most one).
`Crash` is the exception `pqxx` throws on a second open transaction, or on an
invitation by id 0, which ends the process.

Not in this module: the transaction of a *room* thread being open while the main
thread opens one (only the opposite order is modelled; `RoomJoin` is one step), SIGPIPE and failing sends,
partial reads, the `EBADF` that `select` fails with once a socket of two rooms was closed by one of them, the messages themselves beyond the fields above.

`strayed` marks an execution in which a client went astray: a JOIN entered a room that had closed (or the wrong
room), a LEAVE or START reached a room that was closing, or the thread of a room read a CREATE or the JOIN of another
room.  The last needs no race.  A leader that leaves its settings screen by ESC is back in the menu and has sent no
LEAVE; PLAY sends CREATE, its room's thread passes it on, and from then on two rooms have its socket.  All these
really happen in the code, and strand a client, leave stale fields or split a stream between two readers; the
safety invariants are about executions before the first of them, and the hazards say what goes wrong after it.
A client may also join the room it is in once more, when its waiting room took another message for END
(see WaitingRoom): `addPlayer` gives it a second seat, LEAVE takes one.  That alone moves no socket, so it is no straying;
`reseated` remembers the room, and `SeatsTaken` and `NoAbandonedLobby` except it.
A lobby dissolved before its thread ran lives on: `loop` starts with `setRunning(true)`.
`revived` remembers it.

`Custody` is what all of this is for: a client's socket is with the main thread (`atMain`), with one room (`held`) or,
after a refused JOIN, with nobody (`forgotten`), and a room is none, open, closing or gone (`stage`).
`RoomServer` implements it with `atMain` the open connections in `active` or in a JOIN under way, `held[r]` the
players that r serves or has yet to give back (`Holds`), and the stage of a room by its phase and `running`
(`StageOf`: a room that was never started is open even when it was dissolved, since its loop will run).
`PlayerLeaves` together with `AfterLeave` is `Leave` or `Dissolve` there, the closing of a room is `Stop`, a `Leave` for each
player and `Finish`; message handlers that move nobody do not show.  `broken` is `strayed`, and once somebody is astray `Custody` allows everything.

Other things the handlers do although nobody wants them are steps of the model too,
which no property excludes: a refused JOIN leaves its socket in no select set (`refused`), a player that joins twice sits twice, a LEAVE that names the id of a
dissolved lobby acts on the next room of that id, a spectator may be counted as the last player alive, a room left by ENTER and ESC plays on
empty, a room lowered by MODIFY below its number of gamers refuses nobody, and `clients`
counts descriptors ever used.

### Board and GameSession

A grid is a function from rows (0 at the top, as in the code) to the set of filled columns; a
piece is a place and a matrix given by its filled cells.  Colours are left out.
`ClearPass` is one pass of the server's loop over the rows, with its second look at
an index whose row was erased; `ClearFullRow` runs the loop, `ClearFullRows` is the client's replay
of the reported rows, `Collapsed` the reference ("the rows that are not full sink in order").  `Replayed` replays a
whole stream of answers, as a recursive function.  The constants carry what the code's
`SHAPES` have in common: a shape is as small as its matrix (`Tight`) and not wider than the
board (`ShapesTight`), and only the keys of `handleKey` are pressed (`KeysKnown`).

| variable of `GameSession` | code |
|---|---|
| `server[p]` | `Player::isPlaying`, membership of the room, `GameState::grid_`, `currentTetramino` |
| `client[p]` | `Game`: waiting room, game loop or left; `board_`, `current_` |
| `toServer`, `toClient` | the two directions of the connection, FIFO |
| `running`, `crashed` | `GameRoom::running_`; the process after erasing from an empty vector |
| `falling` | history: the players whose piece has not been locked since it was handed out |

A client acts by `Start`, `Press` (any key), `Gravity`, `Receive` (replay one answer) and
`Quit`; the server reads one message at a time: `HandleStart`, `HandleTetramino`,
`HandleMoveMsg` (`HandleMove` or `Lock`), `HandleRotate`, `HandleEnd`, then `RoomExit` and
`Late`: what the main thread reads after the room closed.  `getPlayer` puts a new `GameState` where the
room's thread left a null one, with an empty grid and a piece of no cells, so a late ROTATE is still answered, with place 0.  `Lock` is the whole of the blocked `handleMove`: stamp, clear, malus to another
gamer (random in Classic, the opponent in Dual), LOCK, picture to the others.
`lockPending_` does not appear: the client sets and resets it within one handler.
The modules meet at the end of a game: `RoomServer` has what END and
LOST do to rooms and threads, and `GameSession`'s `RoomExit` is its closing of a room in one step.
Messages that reach a client after it left the game are dropped (in the code the rest of a
20 ms drain is read by the menus).

A MOVE in flight when the piece is locked is answered by a second LOCK (two pieces are
asked for), and the picture sent at a LOCK shows the old piece again: both are steps of the
model, and `Mirror` holds through the first.

Left out: points, colours and the pace of gravity; the Tetris Royal mode (see `RoyalGame`);
spectators; lost connections.

### RoyalGame

| variable | code |
|---|---|
| `server[p]` | `Player::energy`, `isPlaying`, membership of the room; `above`: rows left under the piece |
| `client[p]` | `Game::energy`, `controllerWait`, `blockedInput_`, `invCMDCount`, `speedUp`, `blackScreen`, `activeMalus`; `stage` is the screen: the game, one of the two menus, over; `blocking`: whether `getch` of `stdscr` waits for a key; `standing`: the loop is in that `getch` |
| `room`, `up` | `running_` and the thread of the room; the process |
| `cleared`, `bold` | history: lines cleared (bounded), and who asked with no energy on display |

A pass of the client's loop takes a key, reads all that came, and ends with gravity, if it is time, and the
drawing.  The keys are `Ask`, `Quit`, `Steer` (moves and turns; under inverted commands 's' sends MOVE -1 0) and
`IdleKey` (any other, or any at all for a client that waits or is blocked); `Receive` reads, and the end of a pass is
`EndPass`, as `Gravity` with the tick or `Show` without.  The game makes `getch` return at once, but the two menus
make it block (`basicMenuConfig`) and nothing undoes that before the next game.  So after its first menu a client's
loop `stands` at the end of each pass until a key is pressed: no gravity, nothing read.

`Ask` charges the client's unit and stops its keys; `HandleAsk` charges the server's and answers, or
says nothing.  `ChooseMalus` and `ChooseBonus` are the ends of the two menus, during which nothing
is read.  `HandleMove` moves the piece or locks it, clearing up to four rows; `Locked` is all of
`handleLock`.  Once the room is closed the player's room is null: a question or a malus then ends the server
(`up`), after which nothing is said.  MOVE finds the player not playing, and BONUS and ROTATE a
new `GameState`.
The board is a height: a step sideways or a turn may put any number of rows under the piece.  LOST, WIN and END are one
verdict, the bonus of small pieces changes nothing here, and of the pass in which a client's game ends the rest is left out.

### WaitingRoom

| variable | code |
|---|---|
| `room` | `GameRoom`: `players_` (`members`), `gamers_` (a bag of ids),  `nbrPlayers_` (`size`), `playing_`, and where its thread is |
| `invitations` | rows of `game_invitation`, counted |
| `deaf` | sockets taken off the main thread's set by a JOIN that was refused |
| `at` | which function of the client runs: a menu, `setupGame`, `waitGameStart`, `showLobbyModify`, `getLobbyInvitations`, the game |
| `column`, `roster`, `number` | `Lobby::isGamer_` with the room id, `players_` / `spectators_`, `numberOfPlayer_` |
| `menu` | the invitations on the screen |
| `stay`, `newer`, `astray`, `misled` | history: whether the server let the client in (`late`: while the room closed or played), who came after it, who took a message for another one, and who of these took the answer of its invitation menu for END |

The waiting room takes any message for a `LobbyResponseHeader` and the invitation menu takes any
for its answer: `Meaning` and `ReadInvitations` are what the bytes become.  `Lists` is the
participant list whose count is never copied to the buffer: any part of it may be
read, or more than was sent, after which the client is `broken`.  The UPDATE of the settings sends a field nothing
sets (0).  ESC inside the settings screen (`Cancel`) leaves the waiting room
without LEAVE.  A room's thread drops requests that are neither lobby nor game
messages, so `GET_LOBBY_INVITE` of a member gets no answer: a member in the menu is the leader after `Cancel`, or
who took the answer of the menu for END (`misled`).  Such a client may join once more, and sits twice.  The leader
may press PLAY again (`CreateAgain`): the server makes another room, and what the client does in it is not this
module's any more (`elsewhere`), though it stays among the first room's players.  A guest's PLAY is left out: its CREATE
goes to the main thread, and to this room it is as one that stays in the menu; a misled guest that plays elsewhere
is in two rooms like that leader (`RoomCreate` in RoomServer).

### Friendship and Friends

| variable of `Friends` | code |
|---|---|
| `users`, `friendRequest`, `friendList` | the tables |
| `userDatabase` | `Server::userDatabase`: names are looked up in it, and REGISTER does not extend it |
| `session[p]` | `Player::ID` of p's connection: 0 after REGISTER |
| `client[p]` | the menu, the answer it waits for, `vectorFriends_`, `vectorInvitations_` |
| `up` | the process; a violated constraint of a table throws through every handler (`Crash`) |

Each handler is one database transaction in the main thread, hence one step; what
interleaves is people, who act on lists drawn earlier.  `Quit` ends a client that waits for nothing; its person can log in
again, also as one that `userDatabase` does not know.  A list is a set of ids: the names that `getFriendData` puts
beside them are left out.  `Restart` keeps the tables and loses the rest.
`Friendship` has two variables: open requests and friends.  `Friends` implements it with
`friends` the unordered pairs of the table and `asked` everything that may
still be acted upon: requests in the table, in an answer under way, in a menu, or being
accepted.  That a request outlives its row is what the code allows; that it never lets two people become
friends unasked is what the refinement shows.

### Chat

| variable | code |
|---|---|
| `player[p]` | `Player::isInChatRoom`, `receiver` |
| `table` | `chat_messages` by timestamp |
| `at`, `partner` | the main thread of the client; `friendSelected` |
| `screen` | `g_lastMsgs`, from the opening of the chat to the profile |
| `thread`, `chatMutex` | the receiving thread (`hand`: the message it has read), and the mutex |

`OpenChat` sends INCHATROOM and GET_MESSAGE together; `ShowHistory` reads what comes next as the history
and starts the thread.  ESC sends LEAVE_CHAT, waits a second, cancels the thread (`Cancel`)
and asks for the friend list.  A cancelled thread that had read a message goes on to its next
cancellation point, which may be the drawing, with the mutex held.  A menu that reads
another message than its answer overruns the buffer of the count (`broken`).

## 3. Runs

Deadlock is not checked (`CHECK_DEADLOCK FALSE`): the program legitimately stops when the
process has ended (`up = FALSE`), and a server whose clients are all idle, gone or
stranded waits in `select` for ever.

| run | instance | shows |
|---|---|---|
| `one_room` | 3 sockets, 3 accounts, 1 room of size 2, all hang-ups, logins, games | `TypeOK`; `Watched`: every connected client is read by a thread; `SeatsTaken`: no seat without a player; `NoAbandonedLobby`; each until a client goes astray |
| `two_rooms` | 3 sockets, 2 accounts, 2 rooms, rows a former process left for id 1 | `InCustody`: RoomServer implements `Custody`, so no socket is read by two threads or lost between them; `MembersPointHome`: the copies of a client's room agree; `DirectorySorted`: what the binary search needs; `BisectFinds`: it finds every open room, and reads past the end only for an id beyond the last; `OnlyInvitedEnter`: who enters was invited to that very room, not to an earlier one of the same id |
| `closing` | 2 sockets, 1 room, sizes 1 and 2, fairness | `StoppedRoomCloses`, `WinnerComesBack` |
| `solo` | 1 player, 3x3 board, domino and corner, all keys, fairness | `TypeOK`; `Mirror`: replaying what is under way gives the server's board and piece; `FallingFits`; `RowsCollapse`; `PieceLands`: keys never keep a piece up |
| `duel` | 2 players, 2x2 board, dominos and squares, turns, malus rows, fairness | `Mirror` with malus rows sent from the other player's handler; `EveryoneIsTold`: a decided game ends at every client |
| `friends` | 2 people, every menu, lost connections, restarts, fairness | `Mutual`, `NoRequestBetweenFriends`; `MenuAnswered`; `Consent`: Friends implements `Friendship` |
| `chat` | 2 people, one stored message, two more typed, screens of 2 lines, fairness | `ScreenIsHistory`: with nothing under way the screen is the table's end; `InOrder`; `Delivered`; `GetsBack` |
| `waiting` | leader, gamer and spectator, sizes 1 and 2, three budgets of keys, fairness | `Roster`: lists agree with the room; `NobodyLeftBehind`, `WaitEnds`, `StartedByLeader`; `MenuAnswered`: only the leader back from its settings and who was misled can wait for an answer in vain |
| `royal` | 2 unlike players, 3 maluses, bonuses, fairness | `Ledger`: the two counts of energy agree up to what is under way; `PaidIsGranted`, `ShownWhileItLasts`; `BlockEnds`: blocked keys come back to who goes on pressing keys |
| `serverdown` | 2 people | violation of `NeverDies`: adding a friend after registering, or accepting a crossed request, ends the server |
| `history` | 2 people | violation of `Opens`: a message read as the number of old messages |
| `alone` | 3 people | violation of `NobodyPlaysAlone`: an answer of the invitation menu read as the start of a game |

**Bounds.**  `Rooms` bounds the rooms ever created (ids are reused within it);
`Sizes` the sizes asked for by CREATE and MODIFY; `MaxClients` is 9 as in
`CONSTANT.h`; `MaxPlayers` is 3 instead of 8, larger than the
number of clients.  Three sockets are enough for a leader, a second gamer or
spectator, and a third party that acts in between; two rooms for a client that moves from
one to the other and for a directory with two entries.  A JOIN that goes astray to a wrong *open* room
needs three rooms (the looked-up one, one before it that closes, one after it)
and is left to `strayed`.

In `GameSession` `MaxSent` bounds the keys in flight (one more message is kept for
gravity), `MaxAnswers` the answers after which the server waits.  Two messages in flight
are what it takes to lock a piece twice; `duel` has no key in flight beside gravity (`MaxSent` 0) and one key, a turn, which may be
read late.
The boards are as small as their pieces allow: a domino and a corner
on 3x3 fill one row or two, in either order, and turn in a narrow space; a square on
width 2 fills two rows at once, the least that sends a malus row.  Three and four rows at once
(2 and 4 malus rows), and a third player as random target, are not reached.

`friends` has no bound but the number of people: handlers touch the rows of two, and a client
that waits takes no key, so streams stay short.  In `chat` `MaxTyped` bounds the lines ever written, the
stored one included, and `MAX_CHAT_MESSAGES` is 2 (5 in the code), so that a screen scrolls and
a history is longer than a screen; one of the texts is "Message sent".  A cancelled thread is
taken to have met its cancellation before the next chat is opened, which takes
the user at least two keys and a network round trip.
In `waiting` what everybody presses must fit one of three `Budgets`: for each person so many keys that send a message, and so many
invitations of each kind to it.  `AllPlay` (2, 3 and 2 keys, an invitation for each guest): the leader can create and
start, create and modify, or create and leave, and a guest can look, join and leave.  `InAndOut` (8 keys and three
invitations for one guest): it can be misled and ask for its invitations from inside the room.  `Returns` (4
keys for the leader): it can cancel its settings and play again, or ask for invitations.  `alone` has a budget of its own (`Restless`).
Invited people are known to `userDatabase`, and there is one room (rooms of equal id are in `two_rooms`).
In `royal` (`Habits`) one player steers, asks for bonuses with energy or without and can clear two lines, at once
or one by one; the other clears one, and attacks with three maluses.  So the first can be hit by a malus while its
own keyboard blocks since a bonus, and both can lose, win or quit then.  A player moves its piece, by key or gravity, only while no queue of its is longer than `MaxUnread`; a piece
has one row to fall (`Rows` 1), so that it can be in the air.  The malus "fast" is left out of the instance, and with it the only bonus that undoes it.
Three and four lines at once are covered by the proofs only.

**Constraints.**  `NotStrayed` cuts executions after a client went astray (the invariants promise nothing
then).  `one_room` cuts those in which a player joined its room twice (`NotReseated`): in a room that MODIFY made smaller
than its number of gamers it gets seats without end.  `two_rooms` forbids hang-ups (`NoHangup`), second logins of an
account (`OneLogin`) and more than one invitation, old rows included (`OneInvitation`), which `one_room` allows; with old rows only two clients
come (`LeftoverForTwo`), and only one of two rooms plays (`OneGame`).  `closing` cuts rooms with more than two seats taken (`FewSeats`), which two clients
reach by second JOINs only; nothing after straying is cut there.  Without these constraints the state
space is out of reach; the proofs below need none of them.  So a socket that is closed as its
client leaves (in `InCustody`) is covered by the proof, and by `Watched` in `one_room`.

`NoAbandonedLobby` is checked with one room only, to keep `two_rooms` small; its proof is for
any number of rooms.

**Fairness** (`closing`).  Weak fairness of each room's thread: the
operating system schedules it and its `select` has a timeout, so it never blocks;
and of the second half of JOIN: the database answers.  Nothing is assumed of
clients: they may stop sending at any time.  In `solo` and `duel` the clients run too:
gravity is a timer of the client's loop, and each pass of a room's thread reads one message of every
player that sent some, hence strong fairness of `Serve` (the server's waiting for a
full stream is a bound of the model and must not starve another player).  Keys are never fair.
In `friends` and `chat`, weak fairness of the main thread for each connection (it visits every
one with input), of a client that waits for an answer (it does nothing else) and of the chat's
two threads.  In `waiting`, that the server's threads do not all stop while something can be
served, nor the clients while something can be read: `waitGameStart` polls its socket and reads before it
looks at the keyboard.  In `royal`, for each player: the thread that has the connection serves it
(`WF` of `Serve`), and passes of the loop that come again and again read what is there and tick when it is time (`SF` of `Receive` and of
`Gravity`, since between two passes the loop may stand at the keyboard).  That the passes come again and again is not assumed:
once the keyboard blocks, each needs a key, and keys are never fair.  `BlockEnds` says so itself: it is about players
whose loop does not stand for ever (`Loops`).

## 4. Proofs

`RoomServer`: for any finite set of sockets, any accounts, rooms, sizes and
bounds (its named `ASSUME`s: `SocketsFinite`, `NoAccountOutside`,
`NoRoomOutside`, `BoundsAreNat`, `SizesAreNat`, `OldIdsAreNat`).

- `RoomServer_proofs!TypeCorrect`: `Spec => []TypeOK`, with one lemma per helper
  (`EraseGamer`, `RemoveAll`, `AfterLeave`, `PlayerLeaves`, ...) and one step per action.
- `RoomServer_proofs!DirectoryStaysSorted`: `Spec => []DirectorySorted`.  Not
  inductive alone: it needs `RoomStages`, which relates the fields of a room to the
  stage of its thread (an unused room is never the target of a JOIN, a room has a
  positive id, a closing room does not run).
- `RoomServer_places!InductiveHolds`: `Spec => []Inductive`, where
  `Inductive == TypeOK /\ RoomStages /\ DirectorySorted /\ Placed`.  `Placed` says that until
  a client goes astray every client is in exactly one of three
  places: with the main thread, in a JOIN under way, or in one room, and in each
  that all the copies (gameRoom, both select sets, `players_`, the client's lobby id)
  agree.  That is what the three invariants below cannot say by themselves: to
  know that a JOIN does not put a socket into a second room one must know that it
  is in no room while the main thread reads it.
- `OneListenerHolds`, `WatchedHolds`, `MembersPointHomeHolds`: consequences.  `OneListener` (no socket in two select sets) is in
  no run of its own: `two_rooms` checks it as part of `InCustody`.
- `RoomServer_proofs!BisectionFinds`: `Spec => []BisectFinds`, for a directory of any length: in every pass all ids before
  `left` are smaller and all after `right` larger (`Narrowed`), which halving keeps because of `DirectorySorted`;
  `BisectFound` is the induction on the width of what is left.
- `RoomServer_places!SeatsAreTaken`, `LobbiesAreKept`: from a second invariant, `Lobbies`.  A room has no more seats of an
  id than players of that id (`Seated`), and a lobby that runs has a gamer or plays (`Attended`), unless a
  client went astray, or the room is in `reseated` (for the first) or `revived` (for the second).  The seat alone says nothing of the player: what carries the proof is
  that with `Placed` a leaving player is the one its id names, so that the leader's LEAVE finds the
  room it dissolves.  `revived` is what the proof found: the invariant without it fails for a lobby
  whose leader leaves before the room's thread ran.
- `RoomServer_places!OnlyTheInvitedEnter`: `Spec => OnlyInvitedEnter`, an action property about `GameRoom` objects, where the
  handler compares ids.  `Recorded` says that every row of the table is one a former process left, or was written for the
  one room in use that has its id: this is what deleting the rows of a closing room before removing it from the directory is for, and `DirectorySorted`
  that no other room in use has the id.  `Vouched` says that a JOIN under way was checked against a row that is still
  stored, for the room it will enter.
- `RoomServer_places!ImplementsCustody`: `Spec => InCustody`.  `CustodyNext` shows from `Inductive` that each step is one of
  `Custody`'s or leaves its variables alone (`Kept`): every lemma names whose socket moves and that the others'
  stays (`Stays`).  The step that needs most is `playerLeaves` (`GivesBack`): what it adds to the main thread's set
  is what the room held, so nobody is lost and nobody is taken from another room; that LEAVE may be read by the main
  thread, for a lobby its client is not in any more, is why `Custody` lets somebody else dissolve a room.

`Friends`: for any set of people (`NoOneOutside`).

- `Friends_proofs!InductiveHolds`: `Spec => []Inductive`, where
  `Inductive == TypeOK /\ Mutual /\ NoRequestBetweenFriends /\ Strangers`.  `TypeOK` says that nobody is a
  friend of itself, which an ACCEPT naming its sender would break: acceptFriendinvite
  looks at no request.  `Strangers` follows such an id backwards, from the message to the menu,
  to the answer that filled the menu, to the table, and says that none of them leads a person to itself.
- `TypeCorrect`, `MutualHolds`, `NoRequestBetweenFriendsHolds`: consequences.
- `Friends_proofs!ImplementsFriendship`: `Spec => Consent`.  A request is open (`IsOpen`) in one of four places, and
  each step of a menu or a handler either opens none and makes no friends (`Forgets`), or is one of the three other
  actions of `Friendship`: INVITE opens one, ACCEPT makes friends, which is allowed since the very message was
  an open request, REMOVE parts.  `Inductive` is what makes the pairs of the
  table and the unordered pairs of the contract correspond (`PairOf`).

`Chat`: for any people, friends, texts and bounds (`ChatAssumption`).

- `Chat_proofs!PrivateHolds`: `Spec => []Private`.  The server forwards by the receiver it
  has in mind for the writer when it reads the message, and the writer typed to the friend it had chosen by then; it may have
  left that chat and opened another one before anything is read.  `Addressed` says that
  the receiver which the INCHATROOM and LEAVE_CHAT in front of a message will
  leave behind (`Faces`) is the one the message is for, and at the end of the stream the friend
  on the screen.  `Private` says nothing with two people, and a larger instance is out of reach with the
  liveness of `chat`: it is in no run.
- `Types`: `TypeOK`, with the answers under way and the one in a thread's hand.
- `InOrderHolds`: `InOrder`.  What a person types is numbered; the invariant `Ordered` follows the numbers from its
  stream (`Script`: in order, and none above `typed`) over the table and the answers to the screens
  (`Follows`).  A message counts as `Served` once nothing its writer has under way is older; everything in the
  table and every answer is, so the next message the server reads is newer than all of its writer's that anybody
  can have (`FollowsMore`).  A screen that listens holds nothing newer than what it is about to read: one that was
  left may, which is why `Follows` says so only of a thread that runs.
- `ScreenIsHistoryHolds`: `ScreenIsHistory`.  The invariant `Staged` adds to the other two where each row of the two friends
  is: while the chat opens, in the history or behind it (`Answered`), and in the chat on the screen or in an answer (`Missing`),
  unless the screen has scrolled.  That the server sends a friend's message to a chat exactly when it is one of
  the two's (`HearsFriend`) needs the argument of `Private`: the receiver the server has in mind for whoever is in a
  chat is the friend on its screen (`FacesFriend`).  That it is there once is `InOrder`.

The history is a function over the table's length (`History`), equal to the filter of its rows (`HistoryIs`, by `Induction`).

`GameSession`: for any players, boards of any size, and any shapes that fit their matrix
(`HeightPositive`, `WidthPositive`, `ModeKnown`, `ShapesTight`, `KeysKnown`).

- `GameSession_proofs!Types`: `Spec => []TypeOK`.  The place of a piece travels as a natural number, so the types need that
  no piece goes up or left beyond the border, and that nobody plays who is not in the room.  `Typed` adds that the cells of a piece lie in its matrix, and
  that is why a tight piece that fits has its corner on the board.  A move
  of a piece the constructor made would fit anywhere: `Orderly` says that START is the first message of a
  client and its request the second, so that no key is read before there is a piece.
- `ClientsShowTheBoard`: `Spec => []Mirror`, from the invariant `AllFaithful`, which is `Mirror` from the first state on, when neither side has a
  board.  Every handler answers in a way that `Echoes` what it did: replaying its answers on any
  board that was the server's gives the server's new one.  For LOCK that is the loop of
  `clearFullRow` against the client's erasing of the reported rows one by one.
- `FullRowsGo`: `Spec => RowsCollapse`.  At every pass of the loop no row below the index is full, what
  `Collapsed` makes of the grid is what it makes of the first one, and erasing the reported rows from the first
  grid gives this one (`Clearing`); `ClearFullRowClears` is the induction on the passes, and shows that `2 * Height` of them
  are enough.
- `TheFallingPieceFits`: `Spec => []FallingFits` in the endless mode, the one `solo` runs.  In the others it is false,
  and not claimed: malus rows push the settled cells up into the piece that falls.

`RoyalGame`: for any finite set of players, any maluses, rows and lines (`RoyalAssumption`).

- `RoyalGame_proofs!Types`, `ScreensAreTrue` (`ShownWhileItLasts`): inductive as they stand, with the types of the streams.
- `TheLedgerBalances` (`Ledger`), `PaidQuestionsAreAnswered` (`PaidIsGranted`): from `AllSound`.  A player's account is the energy on its
  screen, and what is under way: the lines in LOCKs to it, the charged questions to the server.  The
  server has exactly that (`Balanced`), a player that asks only with energy on display sends no unpaid
  question (`Honest`), and what it waits for is in one of the two streams (`Waits`).  Messages
  are counted by the positions that hold them, a LOCK of several lines once for each (`LocksOf`); `CountAppend`, `CountHead` say what a stream's two operations do.

`WaitingRoom`: for any set of people, invitations, sizes and keys (`WaitingAssumption`).

- `WaitingRoom_proofs!Types`, and `PlayersWereStarted` (`StartedByLeader`), `NobodyIsLeft` (`NobodyLeftBehind`), from `Inductive`.  Who was let in
  and waits is in the room, or END is under way (`Kept`).  A client may only read END as what it is
  while it takes no message for another one, so most of the invariant is about what can be under
  way on each screen (`Orderly`): the answer of the invitation menu to a client that waits for
  it and nothing behind it, no LEAVE from a client on the waiting screen, no second JOIN;
  and about the time before the leader's CREATE was read (`Unopened`, `Created`).  STARTED is under way only in a room that plays (`StartedTold`).
- `ListsAreRight`: `Spec => []Roster`, from `Listed`, which adds to `Inductive` what the lists depend on.  `Mirrors`: whatever
  `handleUPDATE_PLAYER` makes of a member's lists when it reads everything under way fits the room (a `Path` through the
  stream from the lists the client has to ones that `Fits` accepts).  A row is counted, so an entry is right only if nobody
  enters a room it is in: `OneStays` follows the requests under way of each guest that was not misled from its place in the room to its screen; JOIN comes
  from who is out, and only a LEAVE that names the room takes out who is in.  This must also hold of a client that
  misread another message, since its rows are on the others' screens.  `Entering` gives who joins its own row before the list
  arrives, `EndLate` and `GamersIn` (who is not misled sits at most once, and only as a member) the room's side.

  `Roster` excepts the rows of who was `misled`: the answer of the invitation menu, read by the waiting room, is END
  when it has three rows, and the client is back in its menu with its JOIN under way.  If it has asked for invitations often
  enough before, another answer lets it join again; `addPlayer` adds its row twice, LEAVE takes one off, and everybody else shows
  it for good.  Without the exception the property is false (two people, three invitations of one guest, nine
  of its keys: too large for a run); in `InAndOut` a client is misled and asks again.

`Induction`: `Nat \subseteq T` for a set `T` with 0 that adding one does not leave, proved from the finiteness of `0..n`
and the pigeonhole of `FiniteSetTheorems`; from it, that a recursive function over
`0..n` exists and satisfies its equation.  The library's theorems take operators as parameters, which the
installed provers cannot instantiate; with sets and functions in their place they can.

Every invariant and every action property of the passing runs is proved, and both refinements: `RoomServer` implements `Custody`, `Friends`
implements `Friendship`.
Only model-checked: the liveness properties (`StoppedRoomCloses`, `WinnerComesBack`, `PieceLands`, `EveryoneIsTold`,
`MenuAnswered`, `Delivered`, `GetsBack`, `WaitEnds`, `BlockEnds`), since liveness under fairness and `ENABLED` are out of the
prover's reach, as are `RECURSIVE` operators; and the three properties that the code violates.

## 5. Plan

1. **Done**: `RoomServer`, its runs and proofs.
2. **Done**: `Board`, `GameSession` and their runs.  Left: points, three players.
3. **Done**: `RoyalGame`, `WaitingRoom`, `Friends` with `Friendship`, `Chat`.
4. Proofs.  **Done**: the invariants and action properties of `RoomServer`, `GameSession`, `RoyalGame`, `WaitingRoom`, `Friends` and
   `Chat`, that `Friends` implements `Friendship` and `RoomServer` implements `Custody`.

## 6. Not modelled

Drawing and input fields (terminal output), the layout of messages (structs copied with
`memcpy` between identical builds; what a struct read as another one means is in `Chat` and
`WaitingRoom`), passwords and failed logins, the collision of ids drawn at random
(`generatePlayerID` does not look), the SQL schema, points and rankings (one
read-compare-update per END inside one handler), partial reads and failing sends.
