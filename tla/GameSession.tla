----------------------------- MODULE GameSession ----------------------------
(***************************************************************************)
(* A game: the players of one room, from the moment the leader started it. *)
(*                                                                         *)
(* The server keeps every player's grid and piece and decides on every     *)
(* move (GameServer in gameServer.cpp, GameMessage in message.cpp).  A     *)
(* client sends its keys, one MOVE down at each tick of gravity, and keeps *)
(* a copy of its board by replaying the answers (Game.cpp).  Both streams  *)
(* of a connection are FIFO; nothing else relates the copies.              *)
(*                                                                         *)
(* Left out: colours, points and what depends on points (the pace of       *)
(* gravity), spectators, the Tetris Royal mode, lost connections.          *)
(***************************************************************************)
EXTENDS Board

CONSTANTS
    Players,     \* the gamers of the room
    Mode,        \* its game mode
    Shapes,      \* SHAPES of CONSTANT.h
    Keys,        \* the keys the players use
    MaxSent,     \* bound: keys a client has in flight
    MaxAnswers   \* bound: answers a stream holds before the server waits

\* A shape is no larger than its matrix, and no smaller: it has a cell in the
\* first and the last row, and in the first and the last column.
Tight(s) ==
    /\ s \in [h : Nat \ {0}, w : Nat \ {0}, cells : SUBSET (Nat \X Nat)]
    /\ \A c \in s.cells : c[1] < s.h /\ c[2] < s.w
    /\ \A r \in {0, s.h - 1} : \E c \in s.cells : c[1] = r
    /\ \A col \in {0, s.w - 1} : \E c \in s.cells : c[2] = col

ASSUME ModeKnown == Mode \in {"Endless", "Dual", "Classic"}
ASSUME ShapesTight == \A s \in Shapes : Tight(s) /\ s.w <= Width
ASSUME KeysKnown == Keys \subseteq {"q", "d", "s", "z", "e"}

VARIABLES
    running,     \* GameRoom::running_
    server,      \* [Players -> the server's Player and its GameState]
    client,      \* [Players -> the client's Game]
    toServer,    \* [Players -> the messages of the client under way]
    toClient,    \* [Players -> the answers of the server under way]
    falling,     \* history: the players whose piece has not been locked
    crashed      \* the server erased a row of an empty vector

vars == <<running, server, client, toServer, toClient, falling, crashed>>

NoGrid == <<>>   \* the grid_ of a GameState before init()

Init ==
    /\ running = TRUE
    /\ server = [p \in Players |-> [member |-> TRUE, playing |-> TRUE,
                                    grid |-> NoGrid, piece |-> NoPiece]]
    /\ client = [p \in Players |-> [stage |-> "waiting", grid |-> EmptyGrid,
                                    piece |-> NoPiece]]
    /\ toServer = [p \in Players |-> <<>>]
    /\ toClient = [p \in Players |-> <<>>]
    /\ falling = {}
    /\ crashed = FALSE

-----------------------------------------------------------------------------
(* The client.                                                               *)

\* The streams once client p has sent msgs.
Sent(p, msgs) == [toServer EXCEPT ![p] = @ \o msgs]
Started == [op |-> "start"]
Request == [op |-> "request"]
End == [op |-> "end"]
Move(dx, dy) == [op |-> "move", dx |-> dx, dy |-> dy]
Rotation(clockwise) == [op |-> "rotate", clockwise |-> clockwise]

\* What each key makes the client send (handleKey).
KeyMessage ==
    [q |-> Move(0, -1), d |-> Move(0, 1), s |-> Move(1, 0),
     z |-> Rotation(TRUE), e |-> Rotation(FALSE)]

\* The client read GAME STARTED in the waiting room (Game::start).
Start(p) ==
    /\ client[p].stage = "waiting"
    /\ client' = [client EXCEPT ![p].stage = "playing"]
    /\ toServer' = Sent(p, <<Started, Request>>)
    /\ UNCHANGED <<running, server, toClient, falling, crashed>>

Press(p, k) ==
    /\ client[p].stage = "playing" /\ Len(toServer[p]) < MaxSent
    /\ toServer' = Sent(p, <<KeyMessage[k]>>)
    /\ UNCHANGED <<running, server, client, toClient, falling, crashed>>

\* The key that leaves the game.
Quit(p) ==
    /\ client[p].stage = "playing" /\ Len(toServer[p]) <= MaxSent
    /\ client' = [client EXCEPT ![p].stage = "over"]
    /\ toServer' = Sent(p, <<End>>)
    /\ UNCHANGED <<running, server, toClient, falling, crashed>>

\* Keys leave room for gravity, which no key delays.
Gravity(p) ==
    /\ client[p].stage = "playing" /\ Len(toServer[p]) <= MaxSent
    /\ toServer' = Sent(p, <<Move(1, 0)>>)
    /\ UNCHANGED <<running, server, client, toClient, falling, crashed>>

\* The client's board b after an answer m: handleTetramino, handleMove,
\* handleRotate, handleLock (newBoard, then clearFullRows) and addMalusRow.
\* Faulty variant: the rows are erased before the piece is part of the board.
TakePiece(b, m) == [b EXCEPT !.piece = m.piece]
TakeMove(b, m) == [b EXCEPT !.piece.x = m.x, !.piece.y = m.y]
TakeRotation(b, m) == [TakeMove(b, m) EXCEPT !.piece = Turned(@, m.clockwise)]
NewBoard(b) == Stamp(b.grid, b.piece)
TakeLock_ErasesFirst(b, m) == [b EXCEPT !.grid = Stamp(ClearFullRows(@, m.rows), b.piece)]
TakeLock(b, m) == [b EXCEPT !.grid = ClearFullRows(NewBoard(b), m.rows)]
TakeMalus(b, m) == [b EXCEPT !.grid = AddMalusRow(@, m.lines, m.hole)]

\* A picture of another board changes nothing here (handleUpdateGrid).
Replay(b, m) ==
    CASE m.op = "piece" -> TakePiece(b, m)
      [] m.op = "move" -> TakeMove(b, m)
      [] m.op = "rotate" -> TakeRotation(b, m)
      [] m.op = "lock" -> TakeLock(b, m)
      [] m.op = "malus" -> TakeMalus(b, m)
      [] OTHER -> b

\* The board once all of them have been replayed.
Replayed(b, answers) ==
    LET after[n \in 0..Len(answers)] ==
          IF n = 0 THEN b ELSE Replay(after[n - 1], answers[n])
    IN  after[Len(answers)]

Verdicts == {"lost", "win", "end"}

\* processServerResponse; a client that left the game drops what still comes
\* (drainPendingServerMessages).
Receive(p) ==
    /\ client[p].stage # "waiting" /\ toClient[p] # <<>>
    /\ toClient' = [toClient EXCEPT ![p] = Tail(@)]
    /\ LET m == Head(toClient[p])
           b == Replay(client[p], m)
       IN
       IF client[p].stage = "over" THEN UNCHANGED <<client, toServer>>
       ELSE /\ client' = [client EXCEPT ![p] =
                            [b EXCEPT !.stage = IF m.op \in Verdicts THEN "over" ELSE @]]
            /\ toServer' = Sent(p, CASE m.op = "lock" -> <<Request>>
                                     [] m.op \in Verdicts -> <<End>>
                                     [] OTHER -> <<>>)
    /\ UNCHANGED <<running, server, falling, crashed>>

-----------------------------------------------------------------------------
(* The server: the thread of the room reads a message of player p.           *)

Member(p) == server[p].member
Members == {p \in Players : Member(p)}
Alive == {p \in Members : server[p].playing}

\* Who is still in the game once p has lost.  Faulty variant: p is counted.
Rivals_WithLoser(p) == Alive
Rivals(p) == Alive \ {p}

Reads(p, op) ==
    /\ ~crashed /\ Member(p)
    /\ toServer[p] # <<>> /\ Head(toServer[p]).op = op
    /\ \A q \in Players : Len(toClient[q]) < MaxAnswers
    /\ toServer' = [toServer EXCEPT ![p] = Tail(@)]
    /\ UNCHANGED client

\* The streams once the server has sent each player q the answers msgs[q].
Answered(msgs) == [q \in Players |-> toClient[q] \o msgs[q]]
OnlyTo(p, msgs) == [q \in Players |-> IF q = p THEN msgs ELSE <<>>]

\* A message that has no effect in its player's state.
Ignore(p, op) ==
    /\ Reads(p, op)
    /\ UNCHANGED <<running, server, toClient, falling, crashed>>

HandleStart(p) ==
    /\ Reads(p, "start")
    /\ server' = [server EXCEPT ![p] = [@ EXCEPT !.playing = TRUE, !.grid = EmptyGrid,
                                                 !.piece = NoPiece]]
    /\ UNCHANGED <<running, toClient, falling, crashed>>

SendTetramino(p, t) == Answered(OnlyTo(p, <<[op |-> "piece", piece |-> t]>>))

\* LOST to p, WIN to the last rival, END to all when at most one is left.
SendLose(p) ==
    Answered([q \in Players |->
                (IF q = p THEN <<[op |-> "lost"]>> ELSE <<>>)
             \o (IF Rivals(p) = {q} THEN <<[op |-> "win"]>> ELSE <<>>)
             \o (IF Cardinality(Rivals(p)) <= 1 /\ Member(q) THEN <<End>> ELSE <<>>)])

\* A new piece, or the end of the player's game when it does not fit.
HandleTetramino(p) ==
    /\ server[p].playing
    /\ Reads(p, "request")
    /\ \E s \in Shapes :
         LET t == Spawned(s) IN
         IF CanMoveOrPlace(server[p].grid, t, 0, 0)
         THEN /\ server' = [server EXCEPT ![p].piece = t]
              /\ toClient' = SendTetramino(p, t)
              /\ falling' = falling \cup {p}
              /\ UNCHANGED running
         ELSE /\ server' = [server EXCEPT ![p].piece = t, ![p].playing = FALSE]
              /\ toClient' = SendLose(p)
              /\ falling' = falling \ {p}
              /\ running' = (running /\ Cardinality(Rivals(p)) > 1)
    /\ UNCHANGED crashed

\* sendGridToOpponent: the picture of a board, piece included, for the others.
Picture(p, g, t) == [op |-> "updategrid", of |-> p, grid |-> Stamp(g, t)]
ToOthers(p, m) ==
    [q \in Players |-> IF q # p /\ Member(q) THEN <<m>> ELSE <<>>]

\* The piece cannot go down any more.  Faulty variant: only the floor stops it.
Blocked_ByFloor(p, m) ==
    m.dx = 1 /\ \E c \in Cells(server[p].piece, 1, m.dy) : c[1] = Height
Blocked(p, m) == m.dx = 1 /\ ~CanMoveOrPlace(server[p].grid, server[p].piece, m.dx, m.dy)

\* The piece moves, or stays where it is.
HandleMove(p, m) ==
    LET g == server[p].grid
        t == IF CanMoveOrPlace(g, server[p].piece, m.dx, m.dy)
             THEN Moved(server[p].piece, m.dx, m.dy) ELSE server[p].piece
        view == Picture(p, g, t)
    IN  /\ ~Blocked(p, m)
        /\ server' = [server EXCEPT ![p].piece = t]
        /\ toClient' = Answered([ToOthers(p, view) EXCEPT
                                   ![p] = <<[op |-> "move", x |-> t.x, y |-> t.y]>>])
        /\ UNCHANGED <<running, falling, crashed>>

MalusCount(lines) ==
    CASE lines = 2 -> 1 [] lines = 3 -> 2 [] lines = 4 -> 4 [] OTHER -> 0

\* randomTarget and getOpponentSocket: any other gamer of the room.
Targets(p, lines) ==
    IF Mode \in {"Classic", "Dual"} /\ lines >= 2 THEN Members \ {p} ELSE {}

RowMalus(lines, hole) == [op |-> "malus", lines |-> lines, hole |-> hole]

\* The piece is locked, full rows go, and another player may be given malus
\* rows: the locked half of handleMove, with checkIfMalus.
Lock(p, m) ==
    LET t == server[p].piece
        done == ClearFullRow(Stamp(server[p].grid, t))
        lock == [op |-> "lock", rows |-> done.rows]
        view == Picture(p, done.grid, t)
        n == MalusCount(Len(done.rows))
        cleared == [server EXCEPT ![p].grid = done.grid]
    IN  /\ Blocked(p, m)
        /\ falling' = falling \ {p}
        /\ \/ /\ Targets(p, Len(done.rows)) = {}
              /\ server' = cleared
              /\ toClient' = Answered([ToOthers(p, view) EXCEPT ![p] = <<lock>>])
              /\ UNCHANGED crashed
           \/ \E q \in Targets(p, Len(done.rows)), hole \in Col :
              IF server[q].grid = NoGrid
              THEN crashed' = TRUE /\ UNCHANGED <<server, toClient>>
              ELSE /\ server' = [cleared EXCEPT ![q].grid = AddMalusRow(@, n, hole)]
                   /\ toClient' = Answered([ToOthers(p, view) EXCEPT
                                              ![p] = <<lock>>, ![q] = <<RowMalus(n, hole)>> \o @])
                   /\ UNCHANGED crashed
        /\ UNCHANGED running

HandleMoveMsg(p) ==
    /\ server[p].playing
    /\ Reads(p, "move")
    /\ LET m == Head(toServer[p]) IN HandleMove(p, m) \/ Lock(p, m)

\* A turn that does not fit is not answered; isPlaying is not looked at.
HandleRotate(p) ==
    /\ Reads(p, "rotate")
    /\ LET cw == Head(toServer[p]).clockwise
           t == Turned(server[p].piece, cw)
       IN  IF CheckRotation(server[p].grid, t)
           THEN /\ server' = [server EXCEPT ![p].piece = t]
                /\ toClient' = Answered(OnlyTo(p,
                     <<[op |-> "rotate", clockwise |-> cw, x |-> t.x, y |-> t.y]>>))
           ELSE UNCHANGED <<server, toClient>>
    /\ UNCHANGED <<running, falling, crashed>>

\* handleEndMsg: the player leaves the room, which stops with its last one.
HandleEnd(p) ==
    /\ Reads(p, "end")
    /\ server' = [server EXCEPT ![p] = [member |-> FALSE, playing |-> FALSE,
                                        grid |-> NoGrid, piece |-> NoPiece]]
    /\ falling' = falling \ {p}
    /\ running' = (running /\ Members # {p})
    /\ UNCHANGED <<toClient, crashed>>

\* The room is told to stop: its thread gives every player back (loop).
RoomExit ==
    /\ ~crashed /\ ~running /\ Members # {}
    /\ server' = [p \in Players |-> [member |-> FALSE, playing |-> FALSE,
                                     grid |-> NoGrid, piece |-> NoPiece]]
    /\ falling' = {}
    /\ UNCHANGED <<running, client, toServer, toClient, crashed>>

\* The main thread finds messages of a game that is over.  Only a turn does not
\* look whether the player is in one: getPlayer gives it a new GameState, whose
\* empty piece turns anywhere (handleRotate).
Late(p) ==
    /\ ~crashed /\ ~Member(p)
    /\ toServer[p] # <<>> /\ Len(toClient[p]) < MaxAnswers
    /\ toServer' = [toServer EXCEPT ![p] = Tail(@)]
    /\ LET m == Head(toServer[p])
           answer == [op |-> "rotate", clockwise |-> m.clockwise, x |-> 0, y |-> 0]
       IN  toClient' = IF m.op = "rotate" THEN Answered(OnlyTo(p, <<answer>>)) ELSE toClient
    /\ UNCHANGED <<running, server, client, falling, crashed>>

-----------------------------------------------------------------------------
Client(p) ==
    Start(p) \/ Gravity(p) \/ Receive(p) \/ Quit(p) \/ \E k \in Keys : Press(p, k)

Serve(p) ==
    \/ HandleStart(p) \/ HandleTetramino(p) \/ HandleMoveMsg(p) \/ HandleRotate(p)
    \/ HandleEnd(p) \/ Late(p)
    \/ ~server[p].playing /\ (Ignore(p, "request") \/ Ignore(p, "move"))

Next == RoomExit \/ \E p \in Players : Client(p) \/ Serve(p)

Spec == Init /\ [][Next]_vars

\* The clients run, gravity included; a player need not press anything.  Each
\* pass of the room's thread reads one message of every player that sent some,
\* so no player waits for ever while others are served.
Fairness ==
    /\ WF_vars(RoomExit)
    /\ \A p \in Players : /\ WF_vars(Start(p)) /\ WF_vars(Gravity(p))
                          /\ WF_vars(Receive(p)) /\ SF_vars(Serve(p))

FairSpec == Spec /\ Fairness

-----------------------------------------------------------------------------
(* Properties.                                                               *)

PieceType == [x : Nat, y : Nat, shape : [h : Nat, w : Nat, cells : SUBSET (Nat \X Nat)]]
ToServerType ==
    [op : {"start", "request", "end"}] \cup [op : {"move"}, dx : Int, dy : Int]
    \cup [op : {"rotate"}, clockwise : BOOLEAN]
ToClientType ==
    [op : Verdicts] \cup [op : {"piece"}, piece : PieceType]
    \cup [op : {"move"}, x : Nat, y : Nat]
    \cup [op : {"rotate"}, clockwise : BOOLEAN, x : Nat, y : Nat]
    \cup [op : {"lock"}, rows : Seq(Row)]
    \cup [op : {"malus"}, lines : Nat, hole : Col]
    \cup [op : {"updategrid"}, of : Players, grid : Grid]

\* Every variable ranges over the values its C++ declaration admits; the place of
\* a piece is never negative, for it travels in unsigned bytes (GameUpdateHeader).
TypeOK ==
    /\ running \in BOOLEAN /\ crashed \in BOOLEAN
    /\ server \in [Players -> [member : BOOLEAN, playing : BOOLEAN,
                               grid : Grid \cup {NoGrid}, piece : PieceType]]
    /\ client \in [Players -> [stage : {"waiting", "playing", "over"},
                               grid : Grid, piece : PieceType]]
    /\ toServer \in [Players -> Seq(ToServerType)]
    /\ toClient \in [Players -> Seq(ToClientType)]
    /\ falling \subseteq Players

\* Once a playing client has replayed the answers under way to it, its board
\* and piece are the server's: the client never asks for them again, so a
\* difference would stay (processServerResponse against GameServer).
Mirror ==
    \A p \in Players :
        server[p].playing /\ server[p].grid # NoGrid /\ client[p].stage = "playing"
          => LET b == Replayed(client[p], toClient[p])
             IN  b.grid = server[p].grid /\ b.piece = server[p].piece

\* While a player is alone with its board the falling piece never lies over a
\* settled cell or outside the board, whatever keys are under way
\* (canMoveOrPlace, checkRotation).
FallingFits ==
    \A p \in falling : CanMoveOrPlace(server[p].grid, server[p].piece, 0, 0)

\* The step sends player p an answer op.
Answers(p, op) ==
    Len(toClient'[p]) > Len(toClient[p]) /\ Last(toClient'[p]).op = op

\* Locking a piece clears every full row, and only them, and the others keep
\* their order (clearFullRow, which erases from the vector it walks over).
RowsCollapse ==
    [][\A p \in Players : Answers(p, "lock")
         => server'[p].grid = Collapsed(Stamp(server[p].grid, server[p].piece))]_vars

\* Every piece is locked at last: the keys and turns under way never keep it up
\* (Game::start, handleMove).
PieceLands == \A p \in Players : p \in falling ~> p \notin falling

\* When a loss leaves at most one player in the game, every client learns that
\* its game is over (handleTetraminoMsg, sendEndGameMsg, handleEnd).
EveryoneIsTold ==
    /\ Cardinality(Alive) <= 1 /\ \E p \in Members : ~server[p].playing
    ~> \A p \in Players : client[p].stage = "over"
=============================================================================
