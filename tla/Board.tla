------------------------------- MODULE Board --------------------------------
(***************************************************************************)
(* A board and the piece that falls on it.  The server (GameServer in      *)
(* gameServer.cpp) decides on them, the client (Game in Game.cpp) replays  *)
(* what the server decided; each has its own code for it.                  *)
(*                                                                         *)
(* A grid maps each row, counted from 0 at the top as in the code, to the  *)
(* set of its filled columns: colours are left out.  A piece is a          *)
(* Tetramino: the place of its upper left corner (x_ is the row, y_ the    *)
(* column) and its shape, a matrix given by its size and filled cells.     *)
(***************************************************************************)
EXTENDS Integers, Sequences, FiniteSets, SequencesExt

CONSTANTS Height, Width    \* HEIGHT and WIDTH of CONSTANT.h

ASSUME HeightPositive == Height \in Nat \ {0}
ASSUME WidthPositive == Width \in Nat \ {0}

Row == 0 .. Height - 1
Col == 0 .. Width - 1
Grid == [Row -> SUBSET Col]
EmptyGrid == [r \in Row |-> {}]
IsFull(g, r) == g[r] = Col

ShapeOf(h, w, cells) == [h |-> h, w |-> w, cells |-> cells]
\* The Tetramino() constructor: a 4 by 4 matrix of zeros.
NoPiece == [x |-> 0, y |-> 0, shape |-> ShapeOf(4, 4, {})]
\* Where a new piece appears: at the top, in the middle.
Spawned(s) == [x |-> 0, y |-> Width \div 2 - s.w \div 2, shape |-> s]

\* The cells piece t would fill after a move by dx rows and dy columns.
Cells(t, dx, dy) == {<<t.x + c[1] + dx, t.y + c[2] + dy>> : c \in t.shape.cells}

\* Faulty variant: the left border is not tested.
CanMoveOrPlace_NoLeft(g, t, dx, dy) ==
    \A c \in Cells(t, dx, dy) : c[1] \in Row /\ c[2] < Width /\ c[2] \notin g[c[1]]
CanMoveOrPlace(g, t, dx, dy) ==
    \A c \in Cells(t, dx, dy) : c[1] \in Row /\ c[2] \in Col /\ c[2] \notin g[c[1]]

Moved(t, dx, dy) == [t EXCEPT !.x = @ + dx, !.y = @ + dy]

\* A quarter turn about the upper left corner.
Rotate(s, clockwise) ==
    ShapeOf(s.w, s.h, {IF clockwise THEN <<c[2], s.h - 1 - c[1]>>
                                    ELSE <<s.w - 1 - c[2], c[1]>> : c \in s.cells})
Turned(t, clockwise) == [t EXCEPT !.shape = Rotate(@, clockwise)]

\* Faulty variant: a turn is checked against the borders only.
CheckRotation_BordersOnly(g, t) ==
    \A c \in Cells(t, 0, 0) : c[1] \in Row /\ c[2] \in Col
CheckRotation(g, t) == CanMoveOrPlace(g, t, 0, 0)

\* The piece becomes part of the grid; cells outside it are dropped.
Stamp(g, t) == [r \in Row |-> g[r] \cup {c \in Col : <<r, c>> \in Cells(t, 0, 0)}]

\* erase(begin() + i), then emplace(begin(), WIDTH, 0)
EraseRow(g, i) ==
    [r \in Row |-> IF r = 0 THEN {} ELSE IF r <= i THEN g[r - 1] ELSE g[r]]

\* One pass of the loop of the server's clearFullRow: the row to look at, the
\* grid and the rows erased so far.  An erased row is looked at again, for the
\* row above has fallen into its place.
\* Faulty variants: goes up after erasing a row; reports a row by the place it
\* had before the first was erased.
ClearPass_SkipsFallen(s) ==
    IF IsFull(s.grid, s.i)
    THEN [i |-> s.i - 1, grid |-> EraseRow(s.grid, s.i), rows |-> Append(s.rows, s.i)]
    ELSE [s EXCEPT !.i = @ - 1]
ClearPass_OldPlaces(s) ==
    IF IsFull(s.grid, s.i)
    THEN [s EXCEPT !.grid = EraseRow(@, s.i), !.rows = Append(@, s.i - Len(@))]
    ELSE [s EXCEPT !.i = @ - 1]
ClearPass(s) ==
    IF IsFull(s.grid, s.i)
    THEN [s EXCEPT !.grid = EraseRow(@, s.i), !.rows = Append(@, s.i)]
    ELSE [s EXCEPT !.i = @ - 1]

\* The loop stops above the top row.  Each pass goes up a row or erases one of at
\* most Height full rows, so 2 * Height passes are enough.  after[n] holds the one
\* state after n passes.
ClearFullRow(g) ==
    LET after[n \in 0..2 * Height] ==
          IF n = 0 THEN {[i |-> Height - 1, grid |-> g, rows |-> <<>>]}
          ELSE {IF s.i < 0 THEN s ELSE ClearPass(s) : s \in after[n - 1]}
    IN  CHOOSE s \in after[2 * Height] : TRUE

\* The client erases the rows it is told, one after the other.
ClearFullRows(g, rows) ==
    LET erased[n \in 0..Len(rows)] ==
          IF n = 0 THEN g ELSE EraseRow(erased[n - 1], rows[n])
    IN  erased[Len(rows)]

\* n times: the top row goes, a row with one hole comes up from below.
AddMalusRow(g, n, hole) ==
    [r \in Row |-> IF r + n < Height THEN g[r + n] ELSE Col \ {hole}]

\* What clearing rows means: the rows that are not full keep their order and
\* sink to the bottom, under empty rows.
Collapsed(g) ==
    LET Kept == {k \in Row : ~IsFull(g, k)}
        Below(k) == Cardinality({j \in Kept : j > k})
    IN  [r \in Row |-> UNION {g[k] : k \in {k \in Kept : Below(k) = Height - 1 - r}}]
=============================================================================
