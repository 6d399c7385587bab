----------------------------- MODULE RoyalGame -----------------------------
(***************************************************************************)
(* A game in the mode "Tetris Royal": a line cleared is a unit of energy,  *)
(* and a unit buys a malus for somebody else or a bonus for oneself.        *)
(*                                                                         *)
(* Both the server (Player::energy) and the client (Game::energy) count.   *)
(* A client asks for an authorisation and takes no key until it has one;   *)
(* the server answers only if its own count allows.  The authorisation     *)
(* opens a menu, and nothing is read while it is up.                       *)
(*                                                                         *)
(* What the menu leaves behind is that the keyboard is waited for: from    *)
(* then on the client's loop goes round once for each key.                 *)
(*                                                                         *)
(* What GameSession models is left out here: the board is the number of    *)
(* rows left under the piece, the answer to a request only says who has     *)
(* lost, and LOST, WIN and END are one verdict.  So are the points, and the *)
(* next pieces that the bonus 3 makes small, and what is left of the        *)
(* loop's pass in which a client's game ends.  Nothing is said of a client  *)
(* whose server is dead.                                                    *)
(***************************************************************************)
EXTENDS Integers, Sequences, FiniteSets

CONSTANTS
    Players,    \* the gamers of the room
    Maluses,    \* what the menu offers: "blocked", "inverted", "fast", "dark"
    Rows,       \* rows a piece falls
    Habits,     \* bound: what each player does, and the lines it clears
    MaxUnread   \* bound: messages each way with which a client moves its piece

ASSUME RoyalAssumption ==
    /\ IsFiniteSet(Players) /\ Rows \in Nat /\ MaxUnread \in Nat
    /\ Maluses \subseteq {"blocked", "inverted", "fast", "dark"}
    /\ Habits \in [Players -> [lines : Nat, asks : SUBSET {"malus", "bonus"},
                                maluses : SUBSET Maluses, steers : BOOLEAN, rash : BOOLEAN]]

VARIABLES
    up,       \* the server process is alive
    room,     \* "running"; "stopping": told to stop; "closed"
    server,   \* the server's Player of each connection, and what is left to fall
    cleared,  \* lines cleared so far
    client,   \* the client's Game
    toServer, toClient, \* the two directions of each connection, FIFO
    bold      \* history: the players that asked with no energy on display

vars == <<up, room, server, cleared, client, toServer, toClient, bold>>
serverVars == <<up, room, server, cleared>>

Nobody == [stage |-> "playing", blocking |-> FALSE, standing |-> FALSE,
           energy |-> 0, wait |-> FALSE, blocked |-> FALSE,
           invCMDCount |-> 0, speedUp |-> FALSE, blackScreen |-> FALSE, activeMalus |-> {}]
\* The next game resets all of it.
Over == [Nobody EXCEPT !.stage = "over"]

Init ==
    /\ up = TRUE /\ room = "running"
    /\ server = [p \in Players |->
                   [inRoom |-> TRUE, isPlaying |-> TRUE, energy |-> 0, above |-> Rows]]
    /\ cleared = [p \in Players |-> 0]
    /\ client = [p \in Players |-> Nobody]
    /\ toServer = [p \in Players |-> <<>>] /\ toClient = [p \in Players |-> <<>>]
    /\ bold = {}

Says(type) == [type |-> type]
Sent(p, m) == toServer' = [toServer EXCEPT ![p] = Append(@, m)]

-----------------------------------------------------------------------------
(* The client: one loop takes a key, reads, ticks and shows (Game::start).   *)

\* The loop stands in a getch that blocks, or it runs; one that never blocks
\* takes a key at any time.
Runs(p) == client[p].stage = "playing" /\ ~client[p].standing
AtKey(p) == client[p].stage = "playing" /\ client[p].standing = client[p].blocking

Listens(p) == AtKey(p) /\ ~client[p].wait /\ ~client[p].blocked
Moves(p) == Len(toServer[p]) <= MaxUnread /\ Len(toClient[p]) <= MaxUnread

\* Faulty variants: the unit is left for the authorisation to take; it is taken
\* though there is none.
Charge_Late(c) == c.energy
Charge_Unchecked(c) == c.energy - 1

Charge(c) == IF c.energy > 0 THEN c.energy - 1 ELSE 0

\* 'm' or 'b': askRoyalPermission
Ask(p, kind) ==
    /\ Listens(p)
    /\ client[p].energy > 0 \/ Habits[p].rash
    /\ Sent(p, [type |-> "ask", kind |-> kind, charged |-> client[p].energy > 0])
    /\ client' = [client EXCEPT ![p].wait = TRUE, ![p].energy = Charge(client[p]),
                                ![p].standing = FALSE]
    /\ bold' = IF client[p].energy = 0 THEN bold \cup {p} ELSE bold
    /\ UNCHANGED <<serverVars, toClient>>

\* 'x'
Quit(p) ==
    /\ Listens(p)
    /\ Sent(p, Says("end"))
    /\ client' = [client EXCEPT ![p] = Over]
    /\ toClient' = [toClient EXCEPT ![p] = <<>>]
    /\ UNCHANGED <<serverVars, bold>>

\* 's', 'q' and 'd', 'z' and 'e': inverted, the first sends the piece up, and the
\* others change sides.
Steer(p, m) ==
    /\ Listens(p) /\ Moves(p) /\ Habits[p].steers
    /\ Sent(p, m)
    /\ client' = [client EXCEPT ![p].standing = FALSE]
    /\ UNCHANGED <<serverVars, toClient, bold>>
Steered(p) ==
    {[type |-> "move", dx |-> IF client[p].invCMDCount > 0 THEN -1 ELSE 1],
     [type |-> "move", dx |-> 0], Says("rotate")}

\* Any other key, or any key at all for who waits or is blocked.
IdleKey(p) ==
    /\ AtKey(p) /\ client[p].blocking
    /\ client' = [client EXCEPT ![p].standing = FALSE]
    /\ UNCHANGED <<serverVars, toServer, toClient, bold>>

\* The end of a pass: gravity ticks when it is time, which neither the wait nor a
\* malus stops, showGame ends a blackout of five seconds (isBlackScreen), and
\* the next key is taken.
EndPass(p, ticks, lights) ==
    /\ Runs(p)
    /\ client[p].blocking \/ ticks \/ lights
    /\ IF ticks THEN Moves(p) /\ Sent(p, [type |-> "move", dx |-> 1]) ELSE UNCHANGED toServer
    /\ lights => client[p].blackScreen
    /\ client' = [client EXCEPT
         ![p].standing = client[p].blocking,
         ![p].blackScreen = @ /\ ~lights,
         ![p].activeMalus = IF lights THEN @ \ {"dark"} ELSE @]
    /\ UNCHANGED <<serverVars, toClient, bold>>
Gravity(p) == \E lights \in BOOLEAN : EndPass(p, TRUE, lights)
Show(p) == \E lights \in BOOLEAN : EndPass(p, FALSE, lights)

\* The end of handleMalusAuthorisation.  Who can be chosen is whose picture has
\* come; with none yet, nobody is.
ChooseMalus(p, malus, target) ==
    /\ client[p].stage = "malus"
    /\ Sent(p, [type |-> "malus", malus |-> malus, target |-> target])
    /\ client' = [client EXCEPT ![p].stage = "playing", ![p].wait = FALSE]
    /\ UNCHANGED <<serverVars, toClient, bold>>

\* The end of handleBonusAuthorisation: of the bonuses, slowing down is the one
\* that undoes a malus.
ChooseBonus(p, slow) ==
    /\ client[p].stage = "bonus"
    /\ Sent(p, Says("bonus"))
    /\ client' = [client EXCEPT ![p].stage = "playing", ![p].wait = FALSE,
                     ![p].speedUp = @ /\ ~slow,
                     ![p].activeMalus = IF slow THEN @ \ {"fast"} ELSE @]
    /\ UNCHANGED <<serverVars, toClient, bold>>

\* applyMalus
Applied(c, malus) ==
    [c EXCEPT !.blocked = @ \/ malus = "blocked",
              !.invCMDCount = IF malus = "inverted" THEN 3 ELSE @,
              !.speedUp = @ \/ malus = "fast",
              !.blackScreen = @ \/ malus = "dark",
              !.activeMalus = @ \cup {malus}]

\* Faulty variants: the keys stay blocked; the name of the inversion goes with
\* its first piece.
Locked_Blocked(c, lines) ==
    [c EXCEPT !.invCMDCount = IF @ > 0 THEN @ - 1 ELSE 0,
              !.activeMalus = IF c.invCMDCount = 1 THEN @ \ {"inverted"} ELSE @,
              !.energy = @ + lines]
Locked_Early(c, lines) ==
    [c EXCEPT !.blocked = FALSE,
              !.invCMDCount = IF @ > 0 THEN @ - 1 ELSE 0,
              !.activeMalus = @ \ {"blocked", "inverted"},
              !.energy = @ + lines]

\* handleLock: the piece the malus was for is down.
Locked(c, lines) ==
    [c EXCEPT !.blocked = FALSE,
              !.invCMDCount = IF @ > 0 THEN @ - 1 ELSE 0,
              !.activeMalus = @ \ ((IF c.blocked THEN {"blocked"} ELSE {})
                                 \cup (IF c.invCMDCount = 1 THEN {"inverted"} ELSE {})),
              !.energy = @ + lines]

\* processServerResponse.  The menu makes getch block (basicMenuConfig), and
\* nothing undoes that before the next game.
Receive(p) ==
    LET m == Head(toClient[p])
        c == client[p]
    IN  /\ Runs(p) /\ toClient[p] # <<>>
        /\ toClient' = [toClient EXCEPT ![p] = IF m.type = "verdict" THEN <<>> ELSE Tail(@)]
        /\ client' = [client EXCEPT ![p] =
             CASE m.type = "lock" -> Locked(c, m.lines)
               [] m.type = "malus" -> Applied(c, m.malus)
               [] m.type = "authorisation" -> [c EXCEPT !.stage = m.kind, !.blocking = TRUE]
               [] m.type = "verdict" -> Over]
        /\ toServer' = [toServer EXCEPT ![p] = @ \o
             CASE m.type = "lock" -> <<Says("request")>>
               [] m.type = "verdict" -> <<Says("end")>>
               [] OTHER -> <<>>]
        /\ UNCHANGED <<serverVars, bold>>

-----------------------------------------------------------------------------
(* The server: the room's thread for who is in the room, else the main one.   *)

Takes(p, type) ==
    /\ toServer[p] # <<>> /\ Head(toServer[p]).type = type
    /\ toServer' = [toServer EXCEPT ![p] = Tail(@)]

\* What a client is sent after its game is over is not this game's (drain).
Tells(to, m) ==
    toClient' = [q \in Players |-> IF q \in to /\ client[q].stage # "over"
                                     THEN Append(toClient[q], m) ELSE toClient[q]]

InGame(p) == server[p].inRoom /\ server[p].isPlaying

\* Faulty variant: full rows give points alone.
Earned_Nothing(lines) == 0
Earned(lines) == lines

\* handleMove, of a piece that still can: down or up one row, or sideways to
\* where other rows are under it.
Onward(above, dx) ==
    CASE dx = 1 -> {above - 1} \cap Nat
      [] dx = -1 -> {above, above + 1} \cap 0..Rows
      [] OTHER -> 0..Rows

\* handleMove: the piece moves, or is locked and up to four rows are cleared.
HandleMove(p) ==
    LET dx == Head(toServer[p]).dx
    IN  /\ Takes(p, "move")
        /\ \/ /\ InGame(p)
              /\ \E above \in Onward(server[p].above, dx) :
                   server' = [server EXCEPT ![p].above = above]
              /\ UNCHANGED <<cleared, toClient>>
           \/ /\ InGame(p) /\ server[p].above = 0 /\ dx = 1
              /\ \E lines \in 0..4 :
                   /\ cleared[p] + lines <= Habits[p].lines
                   /\ cleared' = [cleared EXCEPT ![p] = @ + lines]
                   /\ server' = [server EXCEPT ![p].energy = @ + Earned(lines)]
                   /\ Tells({p}, [type |-> "lock", lines |-> lines])
           \/ /\ ~InGame(p)
              /\ UNCHANGED <<server, cleared, toClient>>
        /\ UNCHANGED <<up, room, client, bold>>

\* handleRotate: a lost piece still turns; out of the room there is none.
HandleRotate(p) ==
    /\ Takes(p, "rotate")
    /\ \/ /\ server[p].inRoom
          /\ \E above \in 0..Rows : server' = [server EXCEPT ![p].above = above]
       \/ UNCHANGED server
    /\ UNCHANGED <<up, room, cleared, client, toClient, bold>>

\* handleTetraminoMsg: the next piece fits, or the player has lost.
HandleRequest(p) ==
    LET alive == {q \in Players \ {p} : InGame(q)}
        ends == Cardinality(alive) <= 1
        told == {p} \cup (IF ends THEN {q \in Players : server[q].inRoom} ELSE {})
    IN  /\ Takes(p, "request")
        /\ \/ /\ InGame(p)
              /\ server' = [server EXCEPT ![p].above = Rows]
              /\ UNCHANGED <<room, toClient>>
           \/ /\ InGame(p)
              /\ server' = [server EXCEPT ![p].isPlaying = FALSE]
              /\ Tells(told, Says("verdict"))
              /\ room' = IF ends /\ room = "running" THEN "stopping" ELSE room
           \/ /\ ~InGame(p)
              /\ UNCHANGED <<room, server, toClient>>
        /\ UNCHANGED <<up, cleared, client, bold>>

\* handleMalusAuthorisationMsg and handleBonusAuthorisationMsg: no answer when
\* the energy is out, and a null pointer once the room is closed.
HandleAsk(p) ==
    LET granted == server[p].inRoom /\ server[p].energy > 0
    IN  /\ Takes(p, "ask")
        /\ up' = server[p].inRoom
        /\ server' = IF granted THEN [server EXCEPT ![p].energy = @ - 1] ELSE server
        /\ IF granted
             THEN Tells({p}, [type |-> "authorisation", kind |-> Head(toServer[p]).kind])
             ELSE UNCHANGED toClient
        /\ UNCHANGED <<room, cleared, client, bold>>

\* handleMalusMsg looks the target up among the players of the sender's room.
HandleMalus(p) ==
    LET m == Head(toServer[p])
        there == m.target \in Players /\ server[m.target].inRoom
    IN  /\ Takes(p, "malus")
        /\ up' = server[p].inRoom
        /\ IF up' /\ there THEN Tells({m.target}, [type |-> "malus", malus |-> m.malus])
           ELSE UNCHANGED toClient
        /\ UNCHANGED <<room, server, cleared, client, bold>>

\* handleBonusMsg: points, or small pieces, in the player's GameState, which
\* getPlayer makes anew once the room is closed.
HandleBonus(p) ==
    /\ Takes(p, "bonus")
    /\ UNCHANGED <<serverVars, client, toClient, bold>>

Gone == [inRoom |-> FALSE, isPlaying |-> FALSE, energy |-> 0, above |-> 0]

\* handleEndMsg: the player leaves; the last one ends the game.
HandleEnd(p) ==
    LET others == \E q \in Players \ {p} : server[q].inRoom
    IN  /\ Takes(p, "end")
        /\ server' = [server EXCEPT ![p] = Gone]
        /\ room' = IF server[p].inRoom /\ ~others /\ room = "running" THEN "stopping" ELSE room
        /\ UNCHANGED <<up, cleared, client, toClient, bold>>

\* The room's thread ends (loop).
CloseRoom ==
    /\ room = "stopping"
    /\ room' = "closed"
    /\ server' = [p \in Players |-> Gone]
    /\ UNCHANGED <<up, cleared, client, toServer, toClient, bold>>

-----------------------------------------------------------------------------
Plays(p) ==
    \/ Gravity(p) \/ Show(p) \/ Quit(p) \/ Receive(p) \/ IdleKey(p)
    \/ \E m \in Steered(p) : Steer(p, m)
    \/ \E kind \in Habits[p].asks : Ask(p, kind)
    \/ \E malus \in Habits[p].maluses, target \in (Players \ {p}) \cup {-1} : ChooseMalus(p, malus, target)
    \/ \E slow \in BOOLEAN : ChooseBonus(p, slow)

Serve(p) ==
    \/ HandleMove(p) \/ HandleRotate(p) \/ HandleRequest(p) \/ HandleAsk(p) \/ HandleMalus(p)
    \/ HandleBonus(p) \/ HandleEnd(p)

Next == up /\ (CloseRoom \/ \E p \in Players : Plays(p) \/ Serve(p))

\* The thread that reads a connection serves it.  Each pass of a client's loop
\* reads what has come, and a tick put off becomes due: infinitely many passes
\* read and tick, be they a key apart.
Fairness ==
    \A p \in Players : /\ WF_vars(up /\ Serve(p))
                       /\ SF_vars(up /\ Receive(p)) /\ SF_vars(up /\ Gravity(p))

Spec == Init /\ [][Next]_vars /\ Fairness

-----------------------------------------------------------------------------
(* Properties. *)

\* What a client's malus effects are called on its screen.
Effects(c) ==
    (IF c.blocked THEN {"blocked"} ELSE {}) \cup (IF c.invCMDCount > 0 THEN {"inverted"} ELSE {})
      \cup (IF c.speedUp THEN {"fast"} ELSE {}) \cup (IF c.blackScreen THEN {"dark"} ELSE {})

\* Everything has its type (gameServer.h, Game.h).
TypeOK ==
    /\ up \in BOOLEAN /\ room \in {"running", "stopping", "closed"}
    /\ server \in [Players -> [inRoom : BOOLEAN, isPlaying : BOOLEAN, energy : Nat, above : 0..Rows]]
    /\ cleared \in [Players -> Nat]
    /\ client \in [Players -> [stage : {"playing", "malus", "bonus", "over"}, blocking : BOOLEAN,
                     standing : BOOLEAN, energy : Nat, wait : BOOLEAN, blocked : BOOLEAN,
                     invCMDCount : 0..3, speedUp : BOOLEAN, blackScreen : BOOLEAN, activeMalus : SUBSET Maluses]]
    /\ bold \subseteq Players

\* A lock of n lines is counted n times, and brings at most four.
LocksOf(p, n) ==
    Cardinality({i \in DOMAIN toClient[p] : toClient[p][i].type = "lock" /\ toClient[p][i].lines >= n})
LinesUnderWay(p) == LocksOf(p, 1) + LocksOf(p, 2) + LocksOf(p, 3) + LocksOf(p, 4)

ChargesUnderWay(p) ==
    Cardinality({i \in DOMAIN toServer[p] : toServer[p][i].type = "ask" /\ toServer[p][i].charged})

\* The two counts of energy agree, up to what is under way, for every player
\* that asks only with energy on display; nobody's server ever has more than
\* the client shows (clearFullRow, askRoyalPermission, handleMalusAuthorisationMsg).
Ledger ==
    \A p \in Players : server[p].inRoom /\ client[p].stage # "over" =>
        LET shown == client[p].energy + LinesUnderWay(p) + ChargesUnderWay(p)
        IN  /\ server[p].energy <= shown
            /\ p \notin bold => server[p].energy = shown

\* The screen names a malus exactly while it lasts (applyMalus, handleLock,
\* isBlackScreen, applyBonus).
ShownWhileItLasts == \A p \in Players : client[p].activeMalus = Effects(client[p])

\* A client that waits for what it paid for will be let go: either its question
\* is unread and the server has the unit for it, or the answer is unread
\* (askRoyalPermission stops all its keys, handleMalusAuthorisationMsg never
\* says no).
PaidIsGranted ==
    \A p \in Players :
        client[p].wait /\ client[p].stage = "playing" /\ server[p].inRoom /\ p \notin bold =>
            \/ server[p].energy > 0 /\ \E i \in DOMAIN toServer[p] : toServer[p][i].type = "ask"
            \/ \E i \in DOMAIN toClient[p] : toClient[p][i].type = "authorisation"

\* Blocked keys come back with the next piece, unless the player is in a menu or
\* out of the game, and as long as the keyboard is not waited for in vain: after
\* a menu, nothing is read until a key is pressed (handleLock, basicMenuConfig).
Loops(p) == []<>(~client[p].standing)
BlockEnds ==
    \A p \in Players :
        Loops(p) => (client[p].blocked ~> ~up \/ client[p].stage # "playing" \/ ~client[p].blocked)
=============================================================================
