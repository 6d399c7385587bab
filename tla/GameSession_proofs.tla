------------------------- MODULE GameSession_proofs -------------------------
(***************************************************************************)
(* Proofs about GameSession and its Board, for boards of any size, any     *)
(* tight shapes and any players: its types, that replaying what is under   *)
(* way makes a client's board the server's, that clearing rows does what   *)
(* it means, and that the falling piece fits.                              *)
(***************************************************************************)
EXTENDS GameSession, Induction, SequenceTheorems, FiniteSetTheorems, TLAPS

-----------------------------------------------------------------------------
(* Boards and pieces. *)

\* A shape whose cells lie in its matrix, and a piece of such a shape.
Inside(s) == \A c \in s.cells : c[1] < s.h /\ c[2] < s.w
Pieces == {t \in PieceType : Inside(t.shape)}

\* The constructor's piece and a new one.
LEMMA NoPieceType == NoPiece \in Pieces
BY DEF NoPiece, Pieces, PieceType, Inside, ShapeOf

LEMMA SpawnedType ==
    ASSUME NEW s \in Shapes
    PROVE  Spawned(s) \in Pieces /\ Tight(Spawned(s).shape)
<1>1. Tight(s) /\ s.w <= Width
  BY ShapesTight
<1>2. Width \div 2 - s.w \div 2 \in Nat
  <2>1. s.w \in Nat /\ Width \in Nat
    BY <1>1, WidthPositive DEF Tight
  <2> QED
    BY <1>1, <2>1
<1> QED
  BY <1>1, <1>2 DEF Spawned, Pieces, PieceType, Inside, Tight

\* A quarter turn keeps a shape in its matrix, and tight.
LEMMA RotateType ==
    ASSUME NEW t \in Pieces, NEW clockwise \in BOOLEAN
    PROVE  /\ Turned(t, clockwise) \in Pieces
           /\ Tight(t.shape) => Tight(Turned(t, clockwise).shape)
<1> DEFINE s == t.shape
           cell(c) == IF clockwise THEN <<c[2], s.h - 1 - c[1]>>
                                   ELSE <<s.w - 1 - c[2], c[1]>>
           new == Rotate(s, clockwise)
<1>1. /\ s \in [h : Nat, w : Nat, cells : SUBSET (Nat \X Nat)]
      /\ \A c \in s.cells : c \in Nat \X Nat /\ c[1] < s.h /\ c[2] < s.w
  BY DEF Pieces, PieceType, Inside
<1>2. new = [h |-> s.w, w |-> s.h, cells |-> {cell(c) : c \in s.cells}]
  BY DEF Rotate, ShapeOf
<1>3. \A c \in s.cells : cell(c) \in Nat \X Nat /\ cell(c)[1] < s.w /\ cell(c)[2] < s.h
  BY <1>1
<1>4. /\ new.h = s.w /\ new.w = s.h /\ new.cells = {cell(c) : c \in s.cells}
      /\ new \in [h : Nat, w : Nat, cells : SUBSET (Nat \X Nat)] /\ Inside(new)
  <2> HIDE DEF cell, s
  <2> QED
    BY <1>1, <1>2, <1>3 DEF Inside
<1>5. Turned(t, clockwise) = [t EXCEPT !.shape = new]
  BY DEF Turned
<1>6. Turned(t, clockwise) \in Pieces /\ Turned(t, clockwise).shape = new
  BY <1>4, <1>5 DEF Pieces, PieceType
<1>7. \A c \in s.cells :
        /\ cell(c) \in new.cells
        /\ clockwise => cell(c)[1] = c[2] /\ cell(c)[2] = s.h - 1 - c[1]
        /\ ~clockwise => cell(c)[1] = s.w - 1 - c[2] /\ cell(c)[2] = c[1]
  BY <1>4
<1>8. ASSUME Tight(s) PROVE Tight(new)
  <2> HIDE DEF new, cell, s
  <2>1. /\ s.h \in Nat \ {0} /\ s.w \in Nat \ {0}
        /\ \A r \in {0, s.h - 1} : \E c \in s.cells : c[1] = r
        /\ \A col \in {0, s.w - 1} : \E c \in s.cells : c[2] = col
    BY <1>8 DEF Tight
  <2>2. ASSUME NEW r \in {0, new.h - 1} PROVE \E c \in new.cells : c[1] = r
    <3>1. r \in {0, s.w - 1} /\ s.w - 1 - r \in {0, s.w - 1}
      BY <1>4, <2>1
    <3>2. PICK a \in s.cells, b \in s.cells : a[2] = r /\ b[2] = s.w - 1 - r
      BY <2>1, <3>1
    <3>3. clockwise => cell(a)[1] = r
      BY <1>7, <3>2
    <3>4. ~clockwise => cell(b)[1] = r
      BY <1>7, <2>1, <3>1, <3>2
    <3> QED
      BY <1>7, <3>3, <3>4
  <2>3. ASSUME NEW col \in {0, new.w - 1} PROVE \E c \in new.cells : c[2] = col
    <3>1. col \in {0, s.h - 1} /\ s.h - 1 - col \in {0, s.h - 1}
      BY <1>4, <2>1
    <3>2. PICK a \in s.cells, b \in s.cells : a[1] = col /\ b[1] = s.h - 1 - col
      BY <2>1, <3>1
    <3>3. clockwise => cell(b)[2] = col
      <4>1. s.h - 1 - (s.h - 1 - col) = col
        BY <2>1, <3>1
      <4> QED
        BY <1>7, <3>2, <4>1
    <3>4. ~clockwise => cell(a)[2] = col
      BY <1>7, <3>2
    <3> QED
      BY <1>7, <3>3, <3>4
  <2> QED
    BY <1>4, <2>1, <2>2, <2>3 DEF Tight, Inside
<1> QED
  BY <1>6, <1>8

\* A tight piece that fits lies on the board, its upper left corner included.
LEMMA FittingPlace ==
    ASSUME NEW g, NEW t \in Pieces, Tight(t.shape), NEW dx \in Int, NEW dy \in Int,
           CanMoveOrPlace(g, t, dx, dy)
    PROVE  t.x + dx \in Nat /\ t.y + dy \in Nat
<1>1. t.x \in Nat /\ t.y \in Nat /\ \A c \in t.shape.cells : c \in Nat \X Nat
  BY DEF Pieces, PieceType
<1>2. PICK a \in t.shape.cells, b \in t.shape.cells : a[1] = 0 /\ b[2] = 0
  BY DEF Tight
<1>3. ASSUME NEW c \in t.shape.cells
      PROVE  t.x + c[1] + dx \in Row /\ t.y + c[2] + dy \in Col
  <2> DEFINE place == <<t.x + c[1] + dx, t.y + c[2] + dy>>
  <2>1. place \in Cells(t, dx, dy)
    BY DEF Cells
  <2>2. place[1] \in Row /\ place[2] \in Col
    BY <2>1 DEF CanMoveOrPlace
  <2> QED
    BY <2>2
<1> QED
  BY <1>1, <1>2, <1>3, HeightPositive, WidthPositive DEF Row, Col

LEMMA MovedType ==
    ASSUME NEW t \in Pieces, NEW dx \in Int, NEW dy \in Int,
           t.x + dx \in Nat, t.y + dy \in Nat
    PROVE  Moved(t, dx, dy) \in Pieces /\ Moved(t, dx, dy).shape = t.shape
BY DEF Moved, Pieces, PieceType

LEMMA EmptyGridType == EmptyGrid \in Grid
BY DEF EmptyGrid, Grid

LEMMA StampType == ASSUME NEW g \in Grid, NEW t PROVE Stamp(g, t) \in Grid
BY DEF Stamp, Grid

LEMMA EraseRowType == ASSUME NEW g \in Grid, NEW i \in Row PROVE EraseRow(g, i) \in Grid
BY HeightPositive DEF EraseRow, Grid, Row

LEMMA AddMalusRowType ==
    ASSUME NEW g \in Grid, NEW n \in Nat, NEW hole PROVE AddMalusRow(g, n, hole) \in Grid
BY HeightPositive DEF AddMalusRow, Grid, Row, Col

\* NoGrid is no grid.
LEMMA NoGridDiffers == NoGrid \notin Grid
<1>1. DOMAIN NoGrid = {}
  BY DEF NoGrid
<1>2. ASSUME NEW g \in Grid PROVE DOMAIN g # {}
  BY HeightPositive DEF Grid, Row
<1> QED
  BY <1>1, <1>2
-----------------------------------------------------------------------------
(* Erasing rows one after the other, as the client does. *)

\* The boards on the way.
LEMMA ErasedRows ==
    ASSUME NEW g \in Grid, NEW rows \in Seq(Row)
    PROVE  \E f \in [0..Len(rows) -> Grid] :
             /\ f[0] = g /\ ClearFullRows(g, rows) = f[Len(rows)]
             /\ \A n \in 1..Len(rows) : f[n] = EraseRow(f[n - 1], rows[n])
<1> DEFINE N == Len(rows)
           pass == [x \in (1..N) \X Grid |-> EraseRow(x[2], rows[x[1]])]
           Erased(f) == f = [n \in 0..N |-> IF n = 0 THEN g ELSE EraseRow(f[n - 1], rows[n])]
<1>1. N \in Nat /\ \A n \in 1..N : rows[n] \in Row
  OBVIOUS
<1>2. pass \in [(1..N) \X Grid -> Grid]
  <2>1. ASSUME NEW x \in (1..N) \X Grid PROVE EraseRow(x[2], rows[x[1]]) \in Grid
    BY <1>1, EraseRowType
  <2> QED
    BY <2>1
<1>3. \E f \in [0..N -> Grid] : IsTrace(f, N, g, pass)
  <2>1. IsLoop(N, Grid, g, pass)
    BY <1>1, <1>2 DEF IsLoop
  <2> HIDE DEF N, pass
  <2> QED
    BY <2>1, Iteration
<1>4. \E f \in [0..N -> Grid] : Erased(f)
  <2>1. PICK f \in [0..N -> Grid] :
          f = [n \in 0..N |-> IF n = 0 THEN g ELSE pass[<<n, f[n - 1]>>]]
    BY <1>3 DEF IsTrace
  <2>2. ASSUME NEW n \in 0..N, n # 0 PROVE pass[<<n, f[n - 1]>>] = EraseRow(f[n - 1], rows[n])
    <3>1. n \in 1..N /\ f[n - 1] \in Grid
      BY <1>1, <2>2
    <3> QED
      BY <3>1
  <2>3. \A n \in 0..N : f[n] = IF n = 0 THEN g ELSE EraseRow(f[n - 1], rows[n])
    <3> HIDE DEF pass
    <3> QED
      BY <2>1, <2>2
  <2> QED
    BY <2>3
<1>5. ClearFullRows(g, rows) = (CHOOSE f : Erased(f))[N]
  BY DEF ClearFullRows
<1>6. PICK f : Erased(f) /\ ClearFullRows(g, rows) = f[N]
  <2> HIDE DEF Erased
  <2> QED
    BY <1>4, <1>5
<1>7. f[0] = g /\ \A n \in 1..N : f[n] = EraseRow(f[n - 1], rows[n])
  BY <1>1, <1>6
<1>8. 0..N \subseteq {n \in 0..N : f[n] \in Grid}
  <2> DEFINE T == {n \in 0..N : f[n] \in Grid}
  <2>1. 0 \in T
    BY <1>1, <1>7
  <2>2. ASSUME NEW n \in 0..N - 1, n \in T PROVE n + 1 \in T
    <3>1. n + 1 \in 1..N /\ (n + 1) - 1 = n
      BY <1>1
    <3>2. f[n + 1] = EraseRow(f[n], rows[n + 1])
      BY <1>7, <3>1
    <3> QED
      BY <1>1, <2>2, <3>1, <3>2, EraseRowType
  <2> HIDE DEF T
  <2> QED
    BY <1>1, <2>1, <2>2, InductionUpTo DEF T
<1> QED
  BY <1>6, <1>7, <1>8

LEMMA ClearFullRowsType ==
    ASSUME NEW g \in Grid, NEW rows \in Seq(Row)
    PROVE  ClearFullRows(g, rows) \in Grid
BY ErasedRows, LenProperties

LEMMA ClearNoRows == ASSUME NEW g \in Grid PROVE ClearFullRows(g, <<>>) = g
<1> DEFINE rows == <<>>
<1>1. rows \in Seq(Row) /\ Len(rows) = 0
  OBVIOUS
<1> HIDE DEF rows
<1>2. PICK f \in [0..Len(rows) -> Grid] : f[0] = g /\ ClearFullRows(g, rows) = f[Len(rows)]
  BY <1>1, ErasedRows
<1>3. ClearFullRows(g, rows) = g
  BY <1>1, <1>2
<1> QED
  BY <1>3 DEF rows

\* One row more.
LEMMA ClearOneMore ==
    ASSUME NEW g \in Grid, NEW rows \in Seq(Row), NEW i \in Row
    PROVE  ClearFullRows(g, Append(rows, i)) = EraseRow(ClearFullRows(g, rows), i)
<1> DEFINE N == Len(rows)
           more == Append(rows, i)
<1>1. /\ N \in Nat /\ more \in Seq(Row) /\ Len(more) = N + 1 /\ more[N + 1] = i
      /\ \A n \in 1..N : more[n] = rows[n]
  OBVIOUS
<1>2. PICK f \in [0..N -> Grid] :
        /\ f[0] = g /\ ClearFullRows(g, rows) = f[N]
        /\ \A n \in 1..N : f[n] = EraseRow(f[n - 1], rows[n])
  BY ErasedRows
<1>3. PICK h \in [0..N + 1 -> Grid] :
        /\ h[0] = g /\ ClearFullRows(g, more) = h[N + 1]
        /\ \A n \in 1..N + 1 : h[n] = EraseRow(h[n - 1], more[n])
  <2> HIDE DEF more
  <2> QED
    BY <1>1, ErasedRows
<1> HIDE DEF N, more
<1>4. 0..N \subseteq {n \in 0..N : h[n] = f[n]}
  <2> DEFINE T == {n \in 0..N : h[n] = f[n]}
  <2>1. 0 \in T
    BY <1>1, <1>2, <1>3
  <2>2. ASSUME NEW n \in 0..N - 1, n \in T PROVE n + 1 \in T
    <3>1. n + 1 \in 1..N /\ n + 1 \in 1..N + 1 /\ n + 1 \in 0..N /\ (n + 1) - 1 = n
      BY <1>1
    <3>2. /\ f[n + 1] = EraseRow(f[n], rows[n + 1])
          /\ h[n + 1] = EraseRow(h[n], more[n + 1]) /\ more[n + 1] = rows[n + 1]
      BY <1>1, <1>2, <1>3, <3>1
    <3> QED
      BY <2>2, <3>1, <3>2
  <2> HIDE DEF T
  <2> QED
    BY <1>1, <2>1, <2>2, InductionUpTo DEF T
<1>5. h[N + 1] = EraseRow(h[N], i) /\ h[N] = f[N]
  <2>1. N + 1 \in 1..N + 1 /\ (N + 1) - 1 = N /\ N \in 0..N
    BY <1>1
  <2> QED
    BY <1>1, <1>3, <1>4, <2>1
<1> QED
  BY <1>2, <1>3, <1>5 DEF more

-----------------------------------------------------------------------------
(* The loop of the server's clearFullRow. *)

LoopStates == [i : -1..Height - 1, grid : Grid, rows : Seq(Row)]
NextPass(s) == IF s.i < 0 THEN s ELSE ClearPass(s)

LEMMA NextPassType == ASSUME NEW s \in LoopStates PROVE NextPass(s) \in LoopStates
<1>1. CASE s.i < 0
  BY <1>1 DEF NextPass
<1>2. CASE s.i >= 0
  <2>1. s.i \in Row /\ s.i - 1 \in -1..Height - 1
    BY <1>2, HeightPositive DEF LoopStates, Row
  <2>2. EraseRow(s.grid, s.i) \in Grid
    BY <2>1, EraseRowType DEF LoopStates
  <2>3. Append(s.rows, s.i) \in Seq(Row)
    BY <2>1 DEF LoopStates
  <2>4. NextPass(s) = ClearPass(s)
    BY <1>2 DEF NextPass, LoopStates
  <2> QED
    BY <2>1, <2>2, <2>3, <2>4 DEF ClearPass, LoopStates
<1> QED
  BY <1>1, <1>2 DEF LoopStates

\* Its states, one for each pass, of which it returns the last.
LEMMA ClearPasses ==
    ASSUME NEW g \in Grid
    PROVE  \E f \in [0..2 * Height -> LoopStates] :
             /\ f[0] = [i |-> Height - 1, grid |-> g, rows |-> <<>>]
             /\ ClearFullRow(g) = f[2 * Height]
             /\ \A n \in 1..2 * Height : f[n] = NextPass(f[n - 1])
<1> DEFINE N == 2 * Height
           first == [i |-> Height - 1, grid |-> g, rows |-> <<>>]
           pass == [x \in (1..N) \X LoopStates |-> NextPass(x[2])]
           passes == [x \in (1..N) \X SUBSET LoopStates |-> {NextPass(s) : s \in x[2]}]
           After(h) == h = [n \in 0..N |-> IF n = 0 THEN {first}
                                           ELSE {NextPass(s) : s \in h[n - 1]}]
<1>1. N \in Nat /\ first \in LoopStates
  <2>1. Height - 1 \in -1..Height - 1 /\ <<>> \in Seq(Row)
    BY HeightPositive
  <2> QED
    BY <2>1, HeightPositive DEF LoopStates
<1>2. pass \in [(1..N) \X LoopStates -> LoopStates]
  <2>1. ASSUME NEW x \in (1..N) \X LoopStates PROVE NextPass(x[2]) \in LoopStates
    BY NextPassType
  <2> QED
    BY <2>1
<1>3. passes \in [(1..N) \X SUBSET LoopStates -> SUBSET LoopStates]
  BY NextPassType
<1>4. \E f \in [0..N -> LoopStates] : IsTrace(f, N, first, pass)
  <2>1. IsLoop(N, LoopStates, first, pass)
    BY <1>1, <1>2 DEF IsLoop
  <2> HIDE DEF N, first, pass
  <2> QED
    BY <2>1, Iteration
<1>5. \E h \in [0..N -> SUBSET LoopStates] : IsTrace(h, N, {first}, passes)
  <2>1. IsLoop(N, SUBSET LoopStates, {first}, passes)
    BY <1>1, <1>3 DEF IsLoop
  <2> HIDE DEF N, first, passes
  <2> QED
    BY <2>1, Iteration
<1>6. \E h : After(h)
  <2>1. PICK h \in [0..N -> SUBSET LoopStates] : IsTrace(h, N, {first}, passes)
    BY <1>5
  <2>2. ASSUME NEW n \in 0..N, n # 0
        PROVE  passes[<<n, h[n - 1]>>] = {NextPass(s) : s \in h[n - 1]}
    <3>1. n \in 1..N /\ h[n - 1] \in SUBSET LoopStates
      BY <1>1, <2>2
    <3> QED
      BY <3>1
  <2>3. h = [n \in 0..N |-> IF n = 0 THEN {first} ELSE passes[<<n, h[n - 1]>>]]
    BY <2>1 DEF IsTrace
  <2>4. \A n \in 0..N : h[n] = IF n = 0 THEN {first} ELSE {NextPass(s) : s \in h[n - 1]}
    <3> HIDE DEF passes, first
    <3> QED
      BY <2>2, <2>3
  <2> QED
    BY <2>4
<1>7. ClearFullRow(g) = CHOOSE s \in (CHOOSE h : After(h))[N] : TRUE
  BY DEF ClearFullRow, NextPass
<1>8. PICK h : After(h) /\ ClearFullRow(g) = CHOOSE s \in h[N] : TRUE
  <2> HIDE DEF After
  <2> QED
    BY <1>6, <1>7
<1>9. /\ h[0] = {first}
      /\ \A n \in 1..N : h[n] = {NextPass(s) : s \in h[n - 1]}
  <2> HIDE DEF first
  <2> QED
    BY <1>1, <1>8
<1>10. PICK f \in [0..N -> LoopStates] : IsTrace(f, N, first, pass)
  BY <1>4
<1>11. f[0] = first /\ \A n \in 1..N : f[n] = NextPass(f[n - 1])
  <2>1. f = [n \in 0..N |-> IF n = 0 THEN first ELSE pass[<<n, f[n - 1]>>]]
    BY <1>10 DEF IsTrace
  <2>2. ASSUME NEW n \in 1..N PROVE pass[<<n, f[n - 1]>>] = NextPass(f[n - 1])
    <3>1. f[n - 1] \in LoopStates
      BY <1>1, <1>10
    <3> QED
      BY <3>1
  <2> HIDE DEF pass, first
  <2> QED
    BY <1>1, <2>1, <2>2
<1> HIDE DEF N, first
<1>12. 0..N \subseteq {n \in 0..N : h[n] = {f[n]}}
  <2> DEFINE T == {n \in 0..N : h[n] = {f[n]}}
  <2>1. 0 \in T
    BY <1>1, <1>9, <1>11
  <2>2. ASSUME NEW n \in 0..N - 1, n \in T PROVE n + 1 \in T
    <3>1. n + 1 \in 1..N /\ n + 1 \in 0..N /\ (n + 1) - 1 = n
      BY <1>1
    <3>2. h[n + 1] = {NextPass(s) : s \in h[n]} /\ f[n + 1] = NextPass(f[n])
      BY <1>9, <1>11, <3>1
    <3> QED
      BY <2>2, <3>1, <3>2
  <2> HIDE DEF T
  <2> QED
    BY <1>1, <2>1, <2>2, InductionUpTo DEF T
<1>13. h[N] = {f[N]}
  BY <1>1, <1>12
<1>14. ClearFullRow(g) = f[N]
  BY <1>8, <1>13
<1> QED
  BY <1>11, <1>14 DEF N, first

\* Sets that can be paired off have as many members.
LEMMA SameCount ==
    ASSUME NEW S, NEW T, IsFiniteSet(S), NEW f \in [S -> T],
           \A x, y \in S : f[x] = f[y] => x = y, \A z \in T : \E x \in S : f[x] = z
    PROVE  IsFiniteSet(T) /\ Cardinality(T) = Cardinality(S)
<1>1. f \in Bijection(S, T)
  BY DEF Bijection, Injection, Surjection, IsInjective
<1>2. ExistsBijection(S, T)
  BY <1>1 DEF ExistsBijection
<1> QED
  BY <1>2, FS_Bijection

\* The empty row that comes in at the top is not full.
LEMMA ErasedBoard ==
    ASSUME NEW g \in Grid, NEW i \in Row
    PROVE  /\ EraseRow(g, i)[0] = {} /\ 0 \in Row /\ ~IsFull(EraseRow(g, i), 0)
           /\ \A r \in Row : r > 0 /\ r <= i => r - 1 \in Row /\ EraseRow(g, i)[r] = g[r - 1]
           /\ \A r \in Row : r > i => EraseRow(g, i)[r] = g[r]
<1>1. 0 \in Col
  BY WidthPositive DEF Col
<1> QED
  BY <1>1, HeightPositive DEF EraseRow, Row, IsFull

FullRows(g, i) == {r \in 0..i : IsFull(g, r)}

LEMMA FullRowsFinite ==
    ASSUME NEW g, NEW i \in -1..Height - 1
    PROVE  IsFiniteSet(FullRows(g, i)) /\ Cardinality(FullRows(g, i)) \in 0..i + 1
<1>1. i \in Int /\ i >= -1
  BY HeightPositive
<1>2. IsFiniteSet(0..i) /\ Cardinality(0..i) = IF 0 > i THEN 0 ELSE i - 0 + 1
  BY <1>1, FS_Interval
<1>3. IsFiniteSet(FullRows(g, i)) /\ Cardinality(FullRows(g, i)) <= Cardinality(0..i)
  BY <1>2, FS_Subset DEF FullRows
<1>4. Cardinality(FullRows(g, i)) \in Nat
  BY <1>3, FS_CardinalityType
<1> QED
  BY <1>1, <1>2, <1>3, <1>4

\* Erasing the row leaves one full row less up to there.
LEMMA OneFullRowLess ==
    ASSUME NEW g \in Grid, NEW i \in Row, IsFull(g, i)
    PROVE  Cardinality(FullRows(EraseRow(g, i), i)) = Cardinality(FullRows(g, i)) - 1
<1> DEFINE S == FullRows(g, i) \ {i}
           T == FullRows(EraseRow(g, i), i)
           f == [r \in S |-> r + 1]
<1>1. i \in Int /\ i >= 0 /\ i <= Height - 1 /\ i \in -1..Height - 1 /\ Height \in Nat
  BY HeightPositive DEF Row
<1>2. IsFiniteSet(S) /\ Cardinality(S) = Cardinality(FullRows(g, i)) - 1
  <2>1. IsFiniteSet(FullRows(g, i)) /\ i \in FullRows(g, i)
    BY <1>1, FullRowsFinite DEF FullRows
  <2> QED
    BY <2>1, FS_RemoveElement
<1>3. ASSUME NEW r \in S PROVE r + 1 \in T
  <2>1. r \in 0..i - 1 /\ IsFull(g, r)
    BY <1>1 DEF FullRows
  <2>2. r + 1 \in Row /\ r + 1 > 0 /\ r + 1 <= i /\ (r + 1) - 1 = r
    BY <1>1, <2>1 DEF Row
  <2>3. EraseRow(g, i)[r + 1] = g[r]
    BY <2>2, ErasedBoard
  <2> QED
    BY <1>1, <2>1, <2>2, <2>3 DEF FullRows, IsFull
<1>4. ASSUME NEW z \in T PROVE z - 1 \in S
  <2>1. z \in 0..i /\ z \in Row /\ IsFull(EraseRow(g, i), z)
    BY <1>1 DEF FullRows, Row
  <2>2. z # 0
    BY <2>1, ErasedBoard
  <2>3. z > 0 /\ z <= i
    BY <1>1, <2>1, <2>2
  <2>4. EraseRow(g, i)[z] = g[z - 1]
    BY <2>1, <2>3, ErasedBoard
  <2>5. z - 1 \in 0..i /\ z - 1 # i /\ IsFull(g, z - 1)
    BY <1>1, <2>1, <2>3, <2>4 DEF IsFull
  <2> QED
    BY <2>5 DEF FullRows
<1>5. f \in [S -> T] /\ \A x \in S : f[x] = x + 1
  BY <1>3
<1>6. S \subseteq Int /\ T \subseteq Int
  BY <1>1 DEF FullRows
<1>7. /\ \A x, y \in S : f[x] = f[y] => x = y
      /\ \A z \in T : \E x \in S : f[x] = z
  <2> HIDE DEF S, T, f
  <2>1. \A x, y \in S : f[x] = f[y] => x = y
    BY <1>5, <1>6
  <2>2. ASSUME NEW z \in T PROVE \E x \in S : f[x] = z
    <3>1. z - 1 \in S /\ (z - 1) + 1 = z
      BY <1>4, <1>6
    <3> QED
      BY <1>5, <3>1
  <2> QED
    BY <2>1, <2>2
<1>8. Cardinality(T) = Cardinality(S)
  <2> HIDE DEF S, T, f
  <2> QED
    BY <1>2, <1>5, <1>7, SameCount
<1> QED
  BY <1>2, <1>8

\* The rows still to be looked at, and the full ones among them once more.
Todo(s) == s.i + 1 + Cardinality(FullRows(s.grid, s.i))

LEMMA PassProgress ==
    ASSUME NEW s \in LoopStates
    PROVE  /\ Todo(s) \in Nat
           /\ s.i >= 0 => Todo(NextPass(s)) < Todo(s)
<1>1. s.i \in -1..Height - 1 /\ s.grid \in Grid /\ Height \in Nat /\ s.i \in Int
  BY HeightPositive DEF LoopStates
<1>2. /\ IsFiniteSet(FullRows(s.grid, s.i))
      /\ Cardinality(FullRows(s.grid, s.i)) \in 0..s.i + 1
  BY <1>1, FullRowsFinite
<1>3. Todo(s) \in Nat
  BY <1>1, <1>2 DEF Todo
<1>4. ASSUME s.i >= 0 PROVE Todo(NextPass(s)) < Todo(s)
  <2>1. s.i \in Row /\ NextPass(s) = ClearPass(s)
    BY <1>1, <1>4 DEF Row, NextPass
  <2>2. CASE IsFull(s.grid, s.i)
    <3>1. NextPass(s).i = s.i /\ NextPass(s).grid = EraseRow(s.grid, s.i)
      BY <2>1, <2>2 DEF ClearPass, LoopStates
    <3>2. Cardinality(FullRows(EraseRow(s.grid, s.i), s.i))
            = Cardinality(FullRows(s.grid, s.i)) - 1
      BY <1>1, <2>1, <2>2, OneFullRowLess
    <3> QED
      BY <1>1, <1>2, <3>1, <3>2 DEF Todo
  <2>3. CASE ~IsFull(s.grid, s.i)
    <3>1. NextPass(s).i = s.i - 1 /\ NextPass(s).grid = s.grid
      BY <2>1, <2>3 DEF ClearPass, LoopStates
    <3>2. FullRows(s.grid, s.i - 1) \subseteq FullRows(s.grid, s.i)
      BY <1>1 DEF FullRows
    <3>3. Cardinality(FullRows(s.grid, s.i - 1)) <= Cardinality(FullRows(s.grid, s.i))
      BY <1>2, <3>2, FS_Subset
    <3>4. s.i - 1 \in -1..Height - 1
      BY <1>1, <1>4
    <3>5. Cardinality(FullRows(s.grid, s.i - 1)) \in 0..(s.i - 1) + 1
      BY <3>4, FullRowsFinite
    <3> QED
      BY <1>1, <1>2, <3>1, <3>3, <3>5 DEF Todo
  <2> QED
    BY <2>2, <2>3
<1> QED
  BY <1>3, <1>4

\* What Collapsed is made of.
KeptRows(g) == {k \in Row : ~IsFull(g, k)}
Under(g, k) == {j \in KeptRows(g) : j > k}
Below(g, k) == Cardinality(Under(g, k))

LEMMA CollapsedRow ==
    ASSUME NEW g \in Grid
    PROVE  /\ Collapsed(g) = [r \in Row |-> UNION {g[k] : k \in {k \in KeptRows(g) :
                                                   Below(g, k) = Height - 1 - r}}]
           /\ \A k \in Row : IsFiniteSet(Under(g, k))
<1>1. IsFiniteSet(Row)
  BY HeightPositive, FS_Interval DEF Row
<1>2. \A k \in Row : IsFiniteSet(Under(g, k))
  BY <1>1, FS_Subset DEF Under, KeptRows
<1> QED
  BY <1>2 DEF Collapsed, KeptRows, Below, Under

\* The rows that stay, before a full row i is erased and after.
LEMMA KeptAfterErase ==
    ASSUME NEW g \in Grid, NEW i \in Row, IsFull(g, i)
    PROVE  LET new == EraseRow(g, i) IN
           /\ \A k \in KeptRows(g) :
                /\ k \in Row /\ k # i
                /\ k < i => k + 1 \in KeptRows(new) /\ new[k + 1] = g[k]
                /\ k > i => k \in KeptRows(new) /\ new[k] = g[k]
           /\ \A k \in KeptRows(new) :
                /\ k \in Row /\ new[0] = {}
                /\ k > 0 /\ k <= i => k - 1 \in KeptRows(g) /\ new[k] = g[k - 1]
                /\ k > i => k \in KeptRows(g)
<1> DEFINE new == EraseRow(g, i)
<1>1. i \in Nat /\ Height \in Nat /\ i < Height /\ \A k \in Row : k \in Nat /\ k < Height
  BY HeightPositive DEF Row
<1>2. /\ new[0] = {}
      /\ \A r \in Row : r > 0 /\ r <= i => r - 1 \in Row /\ new[r] = g[r - 1]
      /\ \A r \in Row : r > i => new[r] = g[r]
  BY ErasedBoard
<1>3. ASSUME NEW k \in KeptRows(g)
      PROVE  /\ k \in Row /\ k # i
             /\ k < i => k + 1 \in KeptRows(new) /\ new[k + 1] = g[k]
             /\ k > i => k \in KeptRows(new) /\ new[k] = g[k]
  <2> HIDE DEF new
  <2>1. k \in Row /\ k # i /\ ~IsFull(g, k)
    BY DEF KeptRows
  <2>2. CASE k < i
    <3>1. k + 1 \in Row /\ k + 1 > 0 /\ k + 1 <= i /\ (k + 1) - 1 = k
      BY <1>1, <2>1, <2>2 DEF Row
    <3> QED
      BY <1>1, <1>2, <2>1, <2>2, <3>1 DEF KeptRows, IsFull
  <2>3. CASE k > i
    BY <1>1, <1>2, <2>1, <2>3 DEF KeptRows, IsFull
  <2> QED
    BY <1>1, <2>1, <2>2, <2>3
<1>4. ASSUME NEW k \in KeptRows(new)
      PROVE  /\ k \in Row /\ new[0] = {}
             /\ k > 0 /\ k <= i => k - 1 \in KeptRows(g) /\ new[k] = g[k - 1]
             /\ k > i => k \in KeptRows(g)
  <2> HIDE DEF new
  <2> QED
    BY <1>2 DEF KeptRows, IsFull
<1> QED
  BY <1>3, <1>4

LEMMA BelowAfterErase ==
    ASSUME NEW g \in Grid, NEW i \in Row, IsFull(g, i), NEW k \in KeptRows(g)
    PROVE  /\ k < i => Below(EraseRow(g, i), k + 1) = Below(g, k)
           /\ k > i => Below(EraseRow(g, i), k) = Below(g, k)
<1> DEFINE new == EraseRow(g, i)
<1>1. new \in Grid /\ i \in Nat /\ k \in Nat /\ Row \subseteq Nat /\ k \in Row
  BY EraseRowType, HeightPositive DEF Row, KeptRows
<1>2. /\ \A j \in KeptRows(g) :
           /\ j \in Nat /\ j # i
           /\ j < i => j + 1 \in KeptRows(new)
           /\ j > i => j \in KeptRows(new)
      /\ \A j \in KeptRows(new) :
           /\ j \in Nat
           /\ j > 0 /\ j <= i => j - 1 \in KeptRows(g)
           /\ j > i => j \in KeptRows(g)
  BY <1>1, KeptAfterErase
<1>3. IsFiniteSet(Under(g, k))
  BY <1>1, CollapsedRow
<1> HIDE DEF new
<1>4. ASSUME k < i PROVE Below(new, k + 1) = Below(g, k)
  <2> DEFINE S == Under(g, k)
             T == Under(new, k + 1)
             f == [j \in S |-> IF j < i THEN j + 1 ELSE j]
  <2>1. f \in [S -> T]
    <3>1. ASSUME NEW j \in S PROVE (IF j < i THEN j + 1 ELSE j) \in T
      BY <1>1, <1>2, <1>4 DEF Under
    <3> QED
      BY <3>1
  <2>2. S \subseteq Nat /\ i \notin S /\ T \subseteq Nat
    BY <1>2 DEF Under
  <2>3. \A x, y \in S : f[x] = f[y] => x = y
    <3>1. \A x \in S : f[x] = IF x < i THEN x + 1 ELSE x
      OBVIOUS
    <3> HIDE DEF S, f
    <3> QED
      BY <1>1, <2>2, <3>1
  <2>4. ASSUME NEW z \in T PROVE \E x \in S : f[x] = z
    <3>1. z \in KeptRows(new) /\ z \in Nat /\ z > k + 1
      BY <1>2 DEF Under
    <3>2. CASE z <= i
      <4>1. z - 1 \in S /\ z - 1 < i /\ (z - 1) + 1 = z
        BY <1>1, <1>2, <3>1, <3>2 DEF Under
      <4> QED
        BY <4>1
    <3>3. CASE z > i
      <4>1. z \in S /\ ~(z < i)
        BY <1>1, <1>2, <1>4, <3>1, <3>3 DEF Under
      <4> QED
        BY <4>1
    <3> QED
      BY <1>1, <3>1, <3>2, <3>3
  <2>5. Cardinality(T) = Cardinality(S)
    <3> HIDE DEF S, T, f
    <3>1. IsFiniteSet(S)
      BY <1>3 DEF S
    <3> QED
      BY <2>1, <2>3, <2>4, <3>1, SameCount
  <2> QED
    BY <2>5 DEF Below
<1>5. ASSUME k > i PROVE Below(new, k) = Below(g, k)
  <2>1. ASSUME NEW j, j > k, j \in KeptRows(g) \/ j \in KeptRows(new)
        PROVE  j \in KeptRows(g) /\ j \in KeptRows(new)
    <3>1. j \in Nat
      BY <1>2, <2>1
    <3>2. j > i
      BY <1>1, <1>5, <2>1, <3>1
    <3> QED
      BY <1>2, <2>1, <3>2
  <2>2. Under(new, k) = Under(g, k)
    BY <2>1 DEF Under
  <2> QED
    BY <2>2 DEF Below
<1> QED
  BY <1>4, <1>5 DEF new

\* Erasing a full row changes nothing about what is left when all are gone.
LEMMA CollapsedAfterErase ==
    ASSUME NEW g \in Grid, NEW i \in Row, IsFull(g, i)
    PROVE  Collapsed(EraseRow(g, i)) = Collapsed(g)
<1> DEFINE new == EraseRow(g, i)
           Old(r) == {k \in KeptRows(g) : Below(g, k) = Height - 1 - r}
           New(r) == {k \in KeptRows(new) : Below(new, k) = Height - 1 - r}
<1>1. new \in Grid /\ i \in Nat /\ Row \subseteq Nat
  BY EraseRowType, HeightPositive DEF Row
<1>2. /\ Collapsed(g) = [r \in Row |-> UNION {g[k] : k \in Old(r)}]
      /\ Collapsed(new) = [r \in Row |-> UNION {new[k] : k \in New(r)}]
  BY <1>1, CollapsedRow
<1>3. ASSUME NEW r \in Row, NEW k \in Old(r) PROVE \E j \in New(r) : new[j] = g[k]
  <2>1. k \in KeptRows(g) /\ k \in Nat /\ k # i
    <3>1. k \in KeptRows(g)
      OBVIOUS
    <3> QED
      BY <1>1, <3>1 DEF KeptRows
  <2>2. CASE k < i
    <3>1. k + 1 \in New(r) /\ new[k + 1] = g[k]
      BY <2>1, <2>2, KeptAfterErase, BelowAfterErase
    <3> QED
      BY <3>1
  <2>3. CASE k > i
    <3>1. k \in New(r) /\ new[k] = g[k]
      BY <2>1, <2>3, KeptAfterErase, BelowAfterErase
    <3> QED
      BY <3>1
  <2> QED
    BY <1>1, <2>1, <2>2, <2>3
<1>4. ASSUME NEW r \in Row, NEW k \in New(r), new[k] # {} PROVE \E j \in Old(r) : g[j] = new[k]
  <2>1. k \in KeptRows(new) /\ k \in Nat /\ k > 0
    <3>1. k \in KeptRows(new) /\ k \in Nat /\ new[0] = {}
      BY <1>1, KeptAfterErase
    <3> QED
      BY <1>4, <3>1
  <2>2. CASE k <= i
    <3>1. k - 1 \in KeptRows(g) /\ k - 1 < i /\ (k - 1) + 1 = k /\ new[k] = g[k - 1]
      BY <1>1, <2>1, <2>2, KeptAfterErase
    <3>2. k - 1 \in Old(r)
      BY <3>1, BelowAfterErase
    <3> QED
      BY <3>1, <3>2
  <2>3. CASE k > i
    <3>1. k \in KeptRows(g) /\ new[k] = g[k]
      BY <2>1, <2>3, KeptAfterErase
    <3>2. k \in Old(r)
      BY <2>3, <3>1, BelowAfterErase
    <3> QED
      BY <3>1, <3>2
  <2> QED
    BY <1>1, <2>1, <2>2, <2>3
<1>5. ASSUME NEW r \in Row PROVE UNION {new[k] : k \in New(r)} = UNION {g[k] : k \in Old(r)}
  <2> HIDE DEF Old, New, new
  <2>1. ASSUME NEW c, NEW k \in Old(r), c \in g[k] PROVE \E j \in New(r) : c \in new[j]
    BY <1>3, <2>1
  <2>2. ASSUME NEW c, NEW k \in New(r), c \in new[k] PROVE \E j \in Old(r) : c \in g[j]
    BY <1>4, <2>2
  <2> QED
    BY <2>1, <2>2
<1> HIDE DEF Old, New, new
<1>6. Collapsed(new) = Collapsed(g)
  BY <1>2, <1>5
<1> QED
  BY <1>6 DEF new

\* A board without full rows is left as it is.
LEMMA NothingToCollapse ==
    ASSUME NEW g \in Grid, \A r \in Row : ~IsFull(g, r)
    PROVE  Collapsed(g) = g
<1>1. Height \in Nat /\ Row = 0..Height - 1
  BY HeightPositive DEF Row
<1>2. KeptRows(g) = Row
  BY DEF KeptRows
<1>3. ASSUME NEW k \in Row PROVE Below(g, k) = Height - 1 - k
  <2>1. Under(g, k) = k + 1..Height - 1
    BY <1>1, <1>2 DEF Under
  <2>2. k + 1 \in Int /\ Height - 1 \in Int
    BY <1>1
  <2>3. Cardinality(k + 1..Height - 1)
          = IF k + 1 > Height - 1 THEN 0 ELSE Height - 1 - (k + 1) + 1
    BY <2>2, FS_Interval
  <2> QED
    BY <1>1, <2>1, <2>3 DEF Below
<1>4. ASSUME NEW r \in Row
      PROVE  {k \in KeptRows(g) : Below(g, k) = Height - 1 - r} = {r}
  BY <1>1, <1>2, <1>3
<1>5. ASSUME NEW r \in Row
      PROVE  UNION {g[k] : k \in {k \in KeptRows(g) : Below(g, k) = Height - 1 - r}} = g[r]
  BY <1>4
<1>6. Collapsed(g) = [r \in Row |-> g[r]]
  BY <1>5, CollapsedRow
<1> QED
  BY <1>6 DEF Grid

\* What holds between two passes over board g.
Clearing(s, g) ==
    /\ s \in LoopStates
    /\ s.grid = ClearFullRows(g, s.rows)
    /\ \A r \in Row : r > s.i => ~IsFull(s.grid, r)
    /\ Collapsed(s.grid) = Collapsed(g)

LEMMA PassClearing ==
    ASSUME NEW g \in Grid, NEW s, Clearing(s, g)
    PROVE  Clearing(NextPass(s), g)
<1>1. s \in LoopStates /\ NextPass(s) \in LoopStates
  BY NextPassType DEF Clearing
<1>2. CASE s.i < 0
  BY <1>2 DEF NextPass
<1>3. CASE s.i >= 0
  <2>1. s.i \in Row /\ s.grid \in Grid /\ s.rows \in Seq(Row) /\ s.i \in Nat /\ Row \subseteq Nat
    BY <1>1, <1>3, HeightPositive DEF LoopStates, Row
  <2>2. NextPass(s) = ClearPass(s)
    BY <2>1 DEF NextPass
  <2>3. CASE IsFull(s.grid, s.i)
    <3>1. /\ NextPass(s).i = s.i /\ NextPass(s).grid = EraseRow(s.grid, s.i)
          /\ NextPass(s).rows = Append(s.rows, s.i)
      BY <1>1, <2>2, <2>3 DEF ClearPass, LoopStates
    <3>2. EraseRow(s.grid, s.i) = ClearFullRows(g, Append(s.rows, s.i))
      BY <2>1, ClearOneMore DEF Clearing
    <3>3. Collapsed(EraseRow(s.grid, s.i)) = Collapsed(g)
      BY <2>1, <2>3, CollapsedAfterErase DEF Clearing
    <3>4. \A r \in Row : r > s.i => ~IsFull(EraseRow(s.grid, s.i), r)
      BY <2>1, ErasedBoard DEF Clearing, IsFull
    <3> QED
      BY <1>1, <3>1, <3>2, <3>3, <3>4 DEF Clearing
  <2>4. CASE ~IsFull(s.grid, s.i)
    <3>1. /\ NextPass(s).i = s.i - 1 /\ NextPass(s).grid = s.grid
          /\ NextPass(s).rows = s.rows
      BY <1>1, <2>2, <2>4 DEF ClearPass, LoopStates
    <3>2. \A r \in Row : r > s.i - 1 => r > s.i \/ r = s.i
      BY <2>1
    <3> QED
      BY <1>1, <2>4, <3>1, <3>2 DEF Clearing
  <2> QED
    BY <2>3, <2>4
<1> QED
  BY <1>1, <1>2, <1>3 DEF LoopStates

\* The loop of clearFullRow sees every row, ends within its bound, and leaves
\* the rows that are not full, in their order and at the bottom; whoever erases the
\* rows it reports, one after the other, gets the same board.
LEMMA ClearFullRowClears ==
    ASSUME NEW g \in Grid
    PROVE  /\ ClearFullRow(g) \in LoopStates
           /\ ClearFullRow(g).grid = ClearFullRows(g, ClearFullRow(g).rows)
           /\ ClearFullRow(g).grid = Collapsed(g)
<1> DEFINE N == 2 * Height
           first == [i |-> Height - 1, grid |-> g, rows |-> <<>>]
<1>1. PICK f \in [0..N -> LoopStates] :
        /\ f[0] = first /\ ClearFullRow(g) = f[N]
        /\ \A n \in 1..N : f[n] = NextPass(f[n - 1])
  BY ClearPasses
<1>2. Height \in Nat /\ N \in Nat
  BY HeightPositive
<1>3. first.i = Height - 1 /\ first.grid = g /\ first.rows = <<>>
  OBVIOUS
<1> HIDE DEF first
<1>4. Clearing(first, g)
  <2>1. first \in LoopStates
    BY <1>1, <1>2
  <2>2. ClearFullRows(g, <<>>) = g
    BY ClearNoRows
  <2>3. \A r \in Row : ~(r > Height - 1)
    BY <1>2 DEF Row
  <2> QED
    BY <1>3, <2>1, <2>2, <2>3 DEF Clearing
<1>5. Todo(first) <= N
  <2>1. Height - 1 \in -1..Height - 1
    BY <1>2
  <2>2. Cardinality(FullRows(g, Height - 1)) \in 0..(Height - 1) + 1
    BY <2>1, FullRowsFinite
  <2> QED
    BY <1>2, <1>3, <2>2 DEF Todo
<1> DEFINE T == {n \in 0..N : Clearing(f[n], g) /\ (f[n].i < 0 \/ Todo(f[n]) <= N - n)}
<1>6. 0..N \subseteq T
  <2>1. 0 \in T
    BY <1>1, <1>2, <1>4, <1>5
  <2>2. ASSUME NEW n \in 0..N - 1, n \in T PROVE n + 1 \in T
    <3>1. n + 1 \in 1..N /\ n + 1 \in 0..N /\ n \in 0..N /\ (n + 1) - 1 = n
      BY <1>2
    <3>2. f[n + 1] = NextPass(f[n]) /\ f[n] \in LoopStates /\ f[n + 1] \in LoopStates
      BY <1>1, <3>1
    <3>3. Clearing(f[n], g) /\ (f[n].i < 0 \/ Todo(f[n]) <= N - n)
      BY <2>2
    <3>4. Clearing(f[n + 1], g)
      BY <3>2, <3>3, PassClearing
    <3>5. CASE f[n].i < 0
      <4>1. f[n + 1] = f[n]
        BY <3>2, <3>5 DEF NextPass
      <4> QED
        BY <3>1, <3>4, <3>5, <4>1
    <3>6. CASE ~(f[n].i < 0)
      <4>1. f[n].i >= 0
        BY <3>2, <3>6, <1>2 DEF LoopStates
      <4>2. Todo(f[n]) \in Nat /\ Todo(f[n + 1]) \in Nat /\ Todo(f[n + 1]) < Todo(f[n])
        BY <3>2, <4>1, PassProgress
      <4>3. Todo(f[n + 1]) <= N - (n + 1)
        <5> HIDE DEF N
        <5> QED
          BY <1>2, <3>1, <3>3, <3>6, <4>2
      <4> QED
        BY <3>1, <3>4, <4>3
    <3> QED
      BY <3>5, <3>6
  <2> HIDE DEF T, N
  <2> QED
    BY <1>2, <2>1, <2>2, InductionUpTo
<1>7. f[N] \in LoopStates /\ Clearing(f[N], g) /\ (f[N].i < 0 \/ Todo(f[N]) <= N - N)
  <2>1. N \in 0..N
    BY <1>2
  <2> QED
    BY <1>1, <1>6, <2>1
<1>8. f[N].i < 0
  <2> HIDE DEF N
  <2>1. SUFFICES ASSUME f[N].i >= 0 PROVE FALSE
    BY <1>2, <1>7 DEF LoopStates
  <2>2. Todo(f[N]) <= 0
    BY <1>2, <1>7, <2>1 DEF LoopStates
  <2>3. f[N].i \in Int /\ Cardinality(FullRows(f[N].grid, f[N].i)) \in Nat
    <3>1. f[N].i \in -1..Height - 1
      BY <1>7 DEF LoopStates
    <3>2. Cardinality(FullRows(f[N].grid, f[N].i)) \in 0..f[N].i + 1
      BY <3>1, FullRowsFinite
    <3> QED
      BY <1>2, <3>1, <3>2
  <2> QED
    BY <2>1, <2>2, <2>3 DEF Todo
<1>9. f[N].grid \in Grid /\ \A r \in Row : ~IsFull(f[N].grid, r)
  <2>1. \A r \in Row : r > f[N].i
    BY <1>2, <1>7, <1>8 DEF LoopStates, Row
  <2> QED
    BY <1>7, <2>1 DEF Clearing, LoopStates
<1>10. Collapsed(f[N].grid) = f[N].grid
  BY <1>9, NothingToCollapse
<1> QED
  BY <1>1, <1>7, <1>10 DEF Clearing

-----------------------------------------------------------------------------
(* Replaying answers. *)

Boards == [stage : {"waiting", "playing", "over"}, grid : Grid, piece : Pieces]
Msgs == {m \in ToClientType : m.op = "piece" => Inside(m.piece.shape)}

LEMMA ReplayType ==
    ASSUME NEW b \in Boards, NEW m \in Msgs
    PROVE  Replay(b, m) \in Boards /\ Replay(b, m).stage = b.stage
<1>1. b.grid \in Grid /\ b.piece \in Pieces /\ m \in ToClientType
  BY DEF Boards, Msgs
<1>2. CASE m.op = "piece"
  <2>1. m \in [op : {"piece"}, piece : PieceType]
    BY <1>1, <1>2 DEF ToClientType, Verdicts
  <2>2. m.piece \in Pieces
    BY <1>2, <2>1 DEF Msgs, Pieces
  <2> QED
    BY <1>2, <2>2 DEF Replay, TakePiece, Boards
<1>3. CASE m.op = "move"
  <2>1. m \in [op : {"move"}, x : Nat, y : Nat]
    BY <1>1, <1>3 DEF ToClientType, Verdicts
  <2>2. [b.piece EXCEPT !.x = m.x, !.y = m.y] \in Pieces
    BY <1>1, <2>1 DEF Pieces, PieceType
  <2>3. Replay(b, m) = [b EXCEPT !.piece = [@ EXCEPT !.x = m.x, !.y = m.y]]
    BY <1>3 DEF Replay, TakeMove, Boards
  <2> QED
    BY <2>2, <2>3 DEF Boards
<1>4. CASE m.op = "rotate"
  <2> DEFINE t == [b.piece EXCEPT !.x = m.x, !.y = m.y]
  <2>1. m \in [op : {"rotate"}, clockwise : BOOLEAN, x : Nat, y : Nat]
    BY <1>1, <1>4 DEF ToClientType, Verdicts
  <2>2. t \in Pieces
    BY <1>1, <2>1 DEF Pieces, PieceType
  <2>3. Turned(t, m.clockwise) \in Pieces
    BY <2>1, <2>2, RotateType
  <2>4. Replay(b, m) = [b EXCEPT !.piece = Turned(t, m.clockwise)]
    BY <1>4 DEF Replay, TakeRotation, TakeMove, Boards
  <2> HIDE DEF t
  <2> QED
    BY <2>3, <2>4 DEF Boards
<1>5. CASE m.op = "lock"
  <2>1. m \in [op : {"lock"}, rows : Seq(Row)]
    BY <1>1, <1>5 DEF ToClientType, Verdicts
  <2>2. ClearFullRows(NewBoard(b), m.rows) \in Grid
    BY <1>1, <2>1, StampType, ClearFullRowsType DEF NewBoard
  <2> QED
    BY <1>5, <2>2 DEF Replay, TakeLock, Boards
<1>6. CASE m.op = "malus"
  <2>1. m \in [op : {"malus"}, lines : Nat, hole : Col]
    BY <1>1, <1>6 DEF ToClientType, Verdicts
  <2>2. AddMalusRow(b.grid, m.lines, m.hole) \in Grid
    BY <1>1, <2>1, AddMalusRowType
  <2> QED
    BY <1>6, <2>2 DEF Replay, TakeMalus, Boards
<1>7. CASE m.op \notin {"piece", "move", "rotate", "lock", "malus"}
  BY <1>7 DEF Replay
<1> QED
  BY <1>2, <1>3, <1>4, <1>5, <1>6, <1>7

\* The boards on the way.
LEMMA ReplayedBoards ==
    ASSUME NEW b \in Boards, NEW answers \in Seq(Msgs)
    PROVE  \E f \in [0..Len(answers) -> Boards] :
             /\ f[0] = b /\ Replayed(b, answers) = f[Len(answers)]
             /\ \A n \in 1..Len(answers) : f[n] = Replay(f[n - 1], answers[n])
<1> DEFINE N == Len(answers)
           pass == [x \in (1..N) \X Boards |-> Replay(x[2], answers[x[1]])]
           After(f) == f = [n \in 0..N |-> IF n = 0 THEN b ELSE Replay(f[n - 1], answers[n])]
<1>1. N \in Nat /\ \A n \in 1..N : answers[n] \in Msgs
  OBVIOUS
<1>2. pass \in [(1..N) \X Boards -> Boards]
  <2>1. ASSUME NEW x \in (1..N) \X Boards PROVE Replay(x[2], answers[x[1]]) \in Boards
    BY <1>1, ReplayType
  <2> QED
    BY <2>1
<1>3. \E f \in [0..N -> Boards] : IsTrace(f, N, b, pass)
  <2>1. IsLoop(N, Boards, b, pass)
    BY <1>1, <1>2 DEF IsLoop
  <2> HIDE DEF N, pass
  <2> QED
    BY <2>1, Iteration
<1>4. \E f \in [0..N -> Boards] : After(f)
  <2>1. PICK f \in [0..N -> Boards] :
          f = [n \in 0..N |-> IF n = 0 THEN b ELSE pass[<<n, f[n - 1]>>]]
    BY <1>3 DEF IsTrace
  <2>2. ASSUME NEW n \in 0..N, n # 0 PROVE pass[<<n, f[n - 1]>>] = Replay(f[n - 1], answers[n])
    <3>1. n \in 1..N /\ f[n - 1] \in Boards
      BY <1>1, <2>2
    <3> QED
      BY <3>1
  <2>3. \A n \in 0..N : f[n] = IF n = 0 THEN b ELSE Replay(f[n - 1], answers[n])
    <3> HIDE DEF pass
    <3> QED
      BY <2>1, <2>2
  <2> QED
    BY <2>3
<1>5. Replayed(b, answers) = (CHOOSE f : After(f))[N]
  BY DEF Replayed
<1>6. PICK f : After(f) /\ Replayed(b, answers) = f[N]
  <2> HIDE DEF After
  <2> QED
    BY <1>4, <1>5
<1>7. f[0] = b /\ \A n \in 1..N : f[n] = Replay(f[n - 1], answers[n])
  BY <1>1, <1>6
<1>8. 0..N \subseteq {n \in 0..N : f[n] \in Boards}
  <2> DEFINE T == {n \in 0..N : f[n] \in Boards}
  <2>1. 0 \in T
    BY <1>1, <1>7
  <2>2. ASSUME NEW n \in 0..N - 1, n \in T PROVE n + 1 \in T
    <3>1. n + 1 \in 1..N /\ (n + 1) - 1 = n
      BY <1>1
    <3>2. f[n + 1] = Replay(f[n], answers[n + 1])
      BY <1>7, <3>1
    <3> QED
      BY <1>1, <2>2, <3>1, <3>2, ReplayType
  <2> HIDE DEF T
  <2> QED
    BY <1>1, <2>1, <2>2, InductionUpTo DEF T
<1> QED
  BY <1>6, <1>7, <1>8

LEMMA ReplayedType ==
    ASSUME NEW b \in Boards, NEW answers \in Seq(Msgs)
    PROVE  Replayed(b, answers) \in Boards
BY ReplayedBoards, LenProperties

LEMMA ReplayedNothing == ASSUME NEW b \in Boards PROVE Replayed(b, <<>>) = b
<1> DEFINE answers == <<>>
<1>1. answers \in Seq(Msgs) /\ Len(answers) = 0
  OBVIOUS
<1> HIDE DEF answers
<1>2. PICK f \in [0..Len(answers) -> Boards] :
        f[0] = b /\ Replayed(b, answers) = f[Len(answers)]
  BY <1>1, ReplayedBoards
<1>3. Replayed(b, answers) = b
  BY <1>1, <1>2
<1> QED
  BY <1>3 DEF answers

\* What is sent last is replayed last.
LEMMA ReplayedAppend ==
    ASSUME NEW b \in Boards, NEW answers \in Seq(Msgs), NEW m \in Msgs
    PROVE  Replayed(b, Append(answers, m)) = Replay(Replayed(b, answers), m)
<1> DEFINE N == Len(answers)
           more == Append(answers, m)
<1>1. /\ N \in Nat /\ more \in Seq(Msgs) /\ Len(more) = N + 1 /\ more[N + 1] = m
      /\ \A n \in 1..N : more[n] = answers[n]
  OBVIOUS
<1>2. PICK f \in [0..N -> Boards] :
        /\ f[0] = b /\ Replayed(b, answers) = f[N]
        /\ \A n \in 1..N : f[n] = Replay(f[n - 1], answers[n])
  BY ReplayedBoards
<1>3. PICK h \in [0..N + 1 -> Boards] :
        /\ h[0] = b /\ Replayed(b, more) = h[N + 1]
        /\ \A n \in 1..N + 1 : h[n] = Replay(h[n - 1], more[n])
  <2> HIDE DEF more
  <2>1. \E h \in [0..Len(more) -> Boards] :
          /\ h[0] = b /\ Replayed(b, more) = h[Len(more)]
          /\ \A n \in 1..Len(more) : h[n] = Replay(h[n - 1], more[n])
    BY <1>1, ReplayedBoards
  <2> QED
    BY <1>1, <2>1
<1> HIDE DEF N, more
<1>4. 0..N \subseteq {n \in 0..N : h[n] = f[n]}
  <2> DEFINE T == {n \in 0..N : h[n] = f[n]}
  <2>1. 0 \in T
    BY <1>1, <1>2, <1>3
  <2>2. ASSUME NEW n \in 0..N - 1, n \in T PROVE n + 1 \in T
    <3>1. n + 1 \in 1..N /\ n + 1 \in 1..N + 1 /\ n + 1 \in 0..N /\ (n + 1) - 1 = n
      BY <1>1
    <3>2. /\ f[n + 1] = Replay(f[n], answers[n + 1])
          /\ h[n + 1] = Replay(h[n], more[n + 1]) /\ more[n + 1] = answers[n + 1]
      BY <1>1, <1>2, <1>3, <3>1
    <3> QED
      BY <2>2, <3>1, <3>2
  <2> HIDE DEF T
  <2> QED
    BY <1>1, <2>1, <2>2, InductionUpTo DEF T
<1>5. h[N + 1] = Replay(h[N], m) /\ h[N] = f[N]
  <2>1. N + 1 \in 1..N + 1 /\ (N + 1) - 1 = N /\ N \in 0..N
    BY <1>1
  <2> QED
    BY <1>1, <1>3, <1>4, <2>1
<1> QED
  BY <1>2, <1>3, <1>5 DEF more

\* What was sent first is replayed first.
LEMMA ReplayedFirst ==
    ASSUME NEW b \in Boards, NEW answers \in Seq(Msgs), answers # <<>>
    PROVE  Replayed(b, answers) = Replayed(Replay(b, Head(answers)), Tail(answers))
<1> DEFINE N == Len(answers)
           rest == Tail(answers)
           c == Replay(b, Head(answers))
<1>1. /\ N \in Nat \ {0} /\ rest \in Seq(Msgs) /\ Len(rest) = N - 1
      /\ Head(answers) = answers[1] /\ Head(answers) \in Msgs
      /\ \A n \in 1..N - 1 : rest[n] = answers[n + 1]
  OBVIOUS
<1>2. c \in Boards
  BY <1>1, ReplayType
<1>3. PICK f \in [0..N -> Boards] :
        /\ f[0] = b /\ Replayed(b, answers) = f[N]
        /\ \A n \in 1..N : f[n] = Replay(f[n - 1], answers[n])
  BY ReplayedBoards
<1>4. PICK h \in [0..N - 1 -> Boards] :
        /\ h[0] = c /\ Replayed(c, rest) = h[N - 1]
        /\ \A n \in 1..N - 1 : h[n] = Replay(h[n - 1], rest[n])
  <2> HIDE DEF c, rest
  <2> QED
    BY <1>1, <1>2, ReplayedBoards
<1>5. f[1] = c
  <2>1. 1 \in 1..N /\ 1 - 1 = 0
    BY <1>1
  <2> QED
    BY <1>1, <1>3, <2>1
<1> HIDE DEF N, rest, c
<1>6. 0..N - 1 \subseteq {n \in 0..N - 1 : h[n] = f[n + 1]}
  <2> DEFINE T == {n \in 0..N - 1 : h[n] = f[n + 1]}
  <2>1. 0 \in T
    BY <1>1, <1>4, <1>5
  <2>2. ASSUME NEW n \in 0..(N - 1) - 1, n \in T PROVE n + 1 \in T
    <3>1. /\ n + 1 \in 1..N - 1 /\ n + 2 \in 1..N /\ n + 1 \in 0..N - 1
          /\ (n + 1) - 1 = n /\ (n + 2) - 1 = n + 1 /\ (n + 1) + 1 = n + 2
      BY <1>1
    <3>2. /\ f[n + 2] = Replay(f[n + 1], answers[n + 2])
          /\ h[n + 1] = Replay(h[n], rest[n + 1]) /\ rest[n + 1] = answers[n + 2]
      BY <1>1, <1>3, <1>4, <3>1
    <3> QED
      BY <2>2, <3>1, <3>2
  <2>3. N - 1 \in Nat
    BY <1>1
  <2> HIDE DEF T
  <2> QED
    BY <2>1, <2>2, <2>3, InductionUpTo DEF T
<1>7. h[N - 1] = f[N]
  <2>1. N - 1 \in 0..N - 1 /\ (N - 1) + 1 = N
    BY <1>1
  <2> QED
    BY <1>6, <2>1
<1> QED
  BY <1>3, <1>4, <1>7 DEF rest, c

-----------------------------------------------------------------------------
(* Types, and the order in which a client sends. *)

\* TypeOK, with pieces that lie in their matrix, and no game out of the room.
Servers ==
    {s \in [member : BOOLEAN, playing : BOOLEAN, grid : Grid \cup {NoGrid}, piece : Pieces] :
       s.playing => s.member}
Typed ==
    /\ running \in BOOLEAN /\ crashed \in BOOLEAN
    /\ server \in [Players -> Servers]
    /\ client \in [Players -> Boards]
    /\ toServer \in [Players -> Seq(ToServerType)]
    /\ toClient \in [Players -> Seq(Msgs)]
    /\ falling \subseteq Players

At(stream, k, op) == k <= Len(stream) /\ stream[k].op = op

\* START comes first and the request for a piece second.  Until they are read the
\* player has no board (s.grid), or no piece (s.piece), and its keys come later.
Ordered(s, stream, stage) ==
    /\ stage = "waiting" => stream = <<>> /\ (s.member => s.grid = NoGrid)
    /\ \A i \in 1..Len(stream) :
         stream[i].op = "start" => i = 1 /\ (s.member => s.grid = NoGrid)
    /\ s.member /\ s.grid = NoGrid
         => /\ s.playing /\ s.piece = NoPiece
            /\ stage = "waiting" \/ At(stream, 1, "start")
    /\ s.member /\ s.playing /\ ~Tight(s.piece.shape)
         => \/ stage = "waiting"
            \/ At(stream, 1, "request")
            \/ At(stream, 1, "start") /\ At(stream, 2, "request")

Orderly == \A p \in Players : Ordered(server[p], toServer[p], client[p].stage)

\* What the client sends after its start.
LEMMA OrderedSends ==
    ASSUME NEW s \in Servers, NEW stream \in Seq(ToServerType), NEW stage, NEW stage2,
           Ordered(s, stream, stage), stage # "waiting", stage2 # "waiting",
           NEW msgs \in Seq(ToServerType), \A i \in 1..Len(msgs) : msgs[i].op # "start"
    PROVE  Ordered(s, stream \o msgs, stage2)
<1> DEFINE more == stream \o msgs
<1>1. /\ Len(stream) \in Nat /\ Len(msgs) \in Nat /\ Len(more) = Len(stream) + Len(msgs)
      /\ \A i \in 1..Len(stream) : more[i] = stream[i]
      /\ \A i \in 1..Len(more) : i > Len(stream) =>
           i - Len(stream) \in 1..Len(msgs) /\ more[i] = msgs[i - Len(stream)]
  OBVIOUS
<1> HIDE DEF more
<1>2. ASSUME NEW i \in 1..Len(more), more[i].op = "start" PROVE i \in 1..Len(stream)
  BY <1>1, <1>2
<1>3. ASSUME NEW k \in {1, 2}, NEW op, At(stream, k, op) PROVE At(more, k, op)
  BY <1>1, <1>3 DEF At
<1>4. \A i \in 1..Len(more) :
        more[i].op = "start" => i = 1 /\ (s.member => s.grid = NoGrid)
  BY <1>1, <1>2 DEF Ordered
<1> QED
  BY <1>3, <1>4 DEF Ordered, more

\* A message is read that is not the first of all.
LEMMA OrderedReads ==
    ASSUME NEW s \in Servers, NEW new \in Servers,
           NEW stream \in Seq(ToServerType), NEW stage,
           Ordered(s, stream, stage), stream # <<>>, Head(stream).op # "start",
           new.member => s.member /\ (new.grid = NoGrid => s.grid = NoGrid),
           new.member /\ new.playing => Tight(new.piece.shape)
    PROVE  Ordered(new, Tail(stream), stage)
<1> DEFINE rest == Tail(stream)
<1>1. /\ Len(stream) \in Nat \ {0} /\ Len(rest) = Len(stream) - 1
      /\ Head(stream) = stream[1]
      /\ \A i \in 1..Len(rest) : i + 1 \in 1..Len(stream) /\ rest[i] = stream[i + 1]
  OBVIOUS
<1> HIDE DEF rest
<1>2. stage # "waiting" /\ ~At(stream, 1, "start")
  BY <1>1 DEF Ordered, At
<1>3. \A i \in 1..Len(rest) : rest[i].op # "start"
  BY <1>1 DEF Ordered
<1>4. ~(new.member /\ new.grid = NoGrid)
  BY <1>2 DEF Ordered
<1> QED
  BY <1>2, <1>3, <1>4 DEF Ordered, rest

\* A player out of the room, whatever it still sends.
LEMMA OrderedOutside ==
    ASSUME NEW s \in Servers, NEW new \in Servers, ~new.member,
           NEW stream \in Seq(ToServerType), NEW stage, Ordered(s, stream, stage)
    PROVE  /\ Ordered(new, stream, stage)
           /\ stream # <<>> => Ordered(new, Tail(stream), stage)
<1>1. Ordered(new, stream, stage)
  BY DEF Ordered
<1>2. ASSUME stream # <<>> PROVE Ordered(new, Tail(stream), stage)
  <2> DEFINE rest == Tail(stream)
  <2>1. /\ Len(stream) \in Nat \ {0} /\ Len(rest) = Len(stream) - 1
        /\ \A i \in 1..Len(rest) : i + 1 \in 1..Len(stream) /\ rest[i] = stream[i + 1]
    BY <1>2
  <2> HIDE DEF rest
  <2>2. \A i \in 1..Len(rest) : rest[i].op # "start"
    BY <2>1 DEF Ordered
  <2> QED
    BY <1>2, <2>2 DEF Ordered, rest
<1> QED
  BY <1>1, <1>2

\* The streams.
LEMMA SentType ==
    ASSUME Typed, NEW p \in Players, NEW msgs \in Seq(ToServerType)
    PROVE  /\ Sent(p, msgs) \in [Players -> Seq(ToServerType)]
           /\ \A x \in Players : Sent(p, msgs)[x] =
                IF x = p THEN toServer[x] \o msgs ELSE toServer[x]
BY DEF Typed, Sent

LEMMA ReadsType ==
    ASSUME Typed, NEW p \in Players, NEW op, Reads(p, op)
    PROVE  /\ ~crashed /\ server[p].member /\ toServer[p] # <<>>
           /\ toServer[p][1].op = op /\ Head(toServer[p]).op = op
           /\ Head(toServer[p]) \in ToServerType
           /\ toServer' \in [Players -> Seq(ToServerType)]
           /\ \A x \in Players : toServer'[x] = IF x = p THEN Tail(toServer[x]) ELSE toServer[x]
           /\ UNCHANGED client
BY DEF Reads, Typed, Member

LEMMA AnsweredType ==
    ASSUME Typed, NEW msgs, \A q \in Players : msgs[q] \in Seq(Msgs)
    PROVE  /\ Answered(msgs) \in [Players -> Seq(Msgs)]
           /\ \A q \in Players : Answered(msgs)[q] = toClient[q] \o msgs[q]
BY DEF Typed, Answered

\* What the client may send.
LEMMA MessageType ==
    /\ Started \in ToServerType /\ Request \in ToServerType /\ End \in ToServerType
    /\ \A dx, dy \in Int : Move(dx, dy) \in ToServerType
    /\ \A clockwise \in BOOLEAN : Rotation(clockwise) \in ToServerType
    /\ Started.op = "start" /\ Request.op = "request" /\ End.op = "end"
    /\ \A dx, dy : Move(dx, dy).op = "move"
    /\ \A clockwise : Rotation(clockwise).op = "rotate"
BY DEF Started, Request, End, Move, Rotation, ToServerType

LEMMA KeyType ==
    ASSUME NEW k \in Keys
    PROVE  KeyMessage[k] \in ToServerType /\ KeyMessage[k].op # "start"
<1>1. k \in {"q", "d", "s", "z", "e"}
  BY KeysKnown
<1>2. /\ KeyMessage["q"] = Move(0, -1) /\ KeyMessage["d"] = Move(0, 1)
      /\ KeyMessage["s"] = Move(1, 0) /\ KeyMessage["z"] = Rotation(TRUE)
      /\ KeyMessage["e"] = Rotation(FALSE)
  BY DEF KeyMessage
<1>3. 0 \in Int /\ 1 \in Int /\ -1 \in Int /\ TRUE \in BOOLEAN /\ FALSE \in BOOLEAN
  OBVIOUS
<1> QED
  BY <1>1, <1>2, <1>3, MessageType

\* A step of client p that is not its start.
LEMMA SendsSound ==
    ASSUME Typed, Orderly, NEW p \in Players, NEW msgs \in Seq(ToServerType),
           \A i \in 1..Len(msgs) : msgs[i].op # "start",
           client[p].stage # "waiting", toServer' = Sent(p, msgs),
           client' \in [Players -> Boards], client'[p].stage # "waiting",
           \A x \in Players : x # p => client'[x] = client[x],
           toClient' \in [Players -> Seq(Msgs)],
           UNCHANGED <<running, server, falling, crashed>>
    PROVE  Typed' /\ Orderly'
<1>1. Typed'
  BY SentType DEF Typed
<1>2. ASSUME NEW x \in Players PROVE Ordered(server[x], toServer'[x], client'[x].stage)
  <2>1. Ordered(server[x], toServer[x], client[x].stage)
    BY DEF Orderly
  <2>2. server[x] \in Servers /\ toServer[x] \in Seq(ToServerType)
    BY DEF Typed
  <2>3. toServer'[x] = IF x = p THEN toServer[x] \o msgs ELSE toServer[x]
    BY SentType
  <2>4. CASE x = p
    BY <2>1, <2>2, <2>3, <2>4, OrderedSends
  <2>5. CASE x # p
    BY <2>1, <2>3, <2>5
  <2> QED
    BY <2>4, <2>5
<1> QED
  BY <1>1, <1>2 DEF Orderly

LEMMA OneMessage ==
    ASSUME NEW m \in ToServerType, m.op # "start"
    PROVE  /\ <<m>> \in Seq(ToServerType) /\ \A i \in 1..Len(<<m>>) : <<m>>[i].op # "start"
           /\ <<>> \in Seq(ToServerType) /\ \A i \in 1..Len(<<>>) : <<>>[i].op # "start"
OBVIOUS

LEMMA KeysSound ==
    ASSUME Typed, Orderly, NEW p \in Players,
           Gravity(p) \/ Quit(p) \/ \E k \in Keys : Press(p, k)
    PROVE  Typed' /\ Orderly'
<1>1. client[p].stage = "playing" /\ client \in [Players -> Boards]
  BY DEF Gravity, Quit, Press, Typed
<1>2. UNCHANGED <<running, server, toClient, falling, crashed>>
  BY DEF Gravity, Quit, Press
<1>3. /\ client' \in [Players -> Boards] /\ client'[p].stage # "waiting"
      /\ \A x \in Players : x # p => client'[x] = client[x]
  BY <1>1 DEF Gravity, Quit, Press, Boards
<1>4. PICK m \in ToServerType : m.op # "start" /\ toServer' = Sent(p, <<m>>)
  <2>1. CASE Gravity(p)
    <3>1. 1 \in Int /\ 0 \in Int
      OBVIOUS
    <3>2. Move(1, 0) \in ToServerType /\ Move(1, 0).op = "move"
      BY <3>1, MessageType
    <3> QED
      BY <2>1, <3>2 DEF Gravity
  <2>2. CASE Quit(p)
    BY <2>2, MessageType DEF Quit
  <2>3. ASSUME NEW k \in Keys, Press(p, k)
        PROVE  \E m \in ToServerType : m.op # "start" /\ toServer' = Sent(p, <<m>>)
    BY <2>3, KeyType DEF Press
  <2> QED
    BY <2>1, <2>2, <2>3
<1> DEFINE msgs == <<m>>
<1>5. msgs \in Seq(ToServerType) /\ \A i \in 1..Len(msgs) : msgs[i].op # "start"
  BY <1>4, OneMessage
<1>6. toServer' = Sent(p, msgs)
  BY <1>4
<1>7. toClient' \in [Players -> Seq(Msgs)] /\ client[p].stage # "waiting"
  BY <1>1, <1>2 DEF Typed
<1> HIDE DEF msgs
<1> QED
  BY <1>2, <1>3, <1>5, <1>6, <1>7, SendsSound

LEMMA StartSound ==
    ASSUME Typed, Orderly, NEW p \in Players, Start(p)
    PROVE  Typed' /\ Orderly'
<1> DEFINE msgs == <<Started, Request>>
<1>1. /\ msgs \in Seq(ToServerType) /\ Len(msgs) = 2
      /\ msgs[1].op = "start" /\ msgs[2].op = "request"
  BY MessageType
<1>2. /\ client[p].stage = "waiting" /\ toServer' = Sent(p, msgs)
      /\ client' = [client EXCEPT ![p].stage = "playing"]
      /\ UNCHANGED <<running, server, toClient, falling, crashed>>
  BY DEF Start
<1> HIDE DEF msgs
<1>3. Typed'
  <2>1. toServer' \in [Players -> Seq(ToServerType)]
    BY <1>1, <1>2, SentType
  <2>2. client' \in [Players -> Boards]
    BY <1>2 DEF Typed, Boards
  <2> QED
    BY <1>2, <2>1, <2>2 DEF Typed
<1>4. ASSUME NEW x \in Players PROVE Ordered(server[x], toServer'[x], client'[x].stage)
  <2>1. Ordered(server[x], toServer[x], client[x].stage)
    BY DEF Orderly
  <2>2. toServer'[x] = IF x = p THEN toServer[x] \o msgs ELSE toServer[x]
    BY <1>1, SentType, <1>2
  <2>3. CASE x = p
    <3>1. toServer[x] = <<>> /\ (server[x].member => server[x].grid = NoGrid)
      BY <1>2, <2>1, <2>3 DEF Ordered
    <3>2. toServer'[x] = msgs
      BY <1>1, <2>2, <2>3, <3>1
    <3>3. \A i \in 1..Len(msgs) : msgs[i].op = "start" => i = 1
      BY <1>1
    <3>4. At(msgs, 1, "start") /\ At(msgs, 2, "request")
      BY <1>1 DEF At
    <3> HIDE DEF At
    <3>5. client'[x].stage = "playing"
      BY <1>2, <2>3 DEF Typed, Boards
    <3> QED
      BY <2>1, <3>1, <3>2, <3>3, <3>4, <3>5 DEF Ordered
  <2>4. CASE x # p
    BY <1>2, <2>1, <2>2, <2>4
  <2> QED
    BY <2>3, <2>4
<1> QED
  BY <1>2, <1>3, <1>4 DEF Orderly

LEMMA ReceiveSound ==
    ASSUME Typed, Orderly, NEW p \in Players, Receive(p)
    PROVE  Typed' /\ Orderly'
<1> DEFINE m == Head(toClient[p])
           b == Replay(client[p], m)
           new == [b EXCEPT !.stage = IF m.op \in Verdicts THEN "over" ELSE @]
           answer == CASE m.op = "lock" -> <<Request>>
                       [] m.op \in Verdicts -> <<End>>
                       [] OTHER -> <<>>
<1>1. /\ client[p].stage # "waiting" /\ toClient[p] # <<>>
      /\ toClient' = [toClient EXCEPT ![p] = Tail(@)]
      /\ UNCHANGED <<running, server, falling, crashed>>
      /\ \/ UNCHANGED <<client, toServer>>
         \/ client' = [client EXCEPT ![p] = new] /\ toServer' = Sent(p, answer)
  <2>1. CASE client[p].stage = "over"
    BY <2>1 DEF Receive
  <2>2. CASE client[p].stage # "over"
    <3>1. client' = [client EXCEPT ![p] = new]
      BY <2>2 DEF Receive
    <3>2. toServer' = Sent(p, answer)
      BY <2>2 DEF Receive
    <3> HIDE DEF new, answer
    <3> QED
      BY <3>1, <3>2 DEF Receive
  <2> QED
    BY <2>1, <2>2
<1>2. m \in Msgs /\ toClient' \in [Players -> Seq(Msgs)] /\ client \in [Players -> Boards]
  BY <1>1 DEF Typed
<1>3. new \in Boards /\ new.stage # "waiting"
  <2>1. Replay(client[p], m) \in Boards /\ Replay(client[p], m).stage = client[p].stage
    BY <1>2, ReplayType
  <2> HIDE DEF m
  <2> QED
    BY <1>1, <2>1 DEF Boards
<1>4. answer \in Seq(ToServerType) /\ \A i \in 1..Len(answer) : answer[i].op # "start"
  <2>1. answer \in {<<Request>>, <<End>>, <<>>}
    OBVIOUS
  <2> HIDE DEF answer
  <2> QED
    BY <2>1, MessageType, OneMessage
<1> HIDE DEF m, new, answer
<1>5. CASE UNCHANGED <<client, toServer>>
  BY <1>1, <1>2, <1>5 DEF Typed, Orderly
<1>6. CASE client' = [client EXCEPT ![p] = new] /\ toServer' = Sent(p, answer)
  <2>1. /\ client' \in [Players -> Boards] /\ client'[p].stage # "waiting"
        /\ \A x \in Players : x # p => client'[x] = client[x]
    BY <1>2, <1>3, <1>6
  <2> QED
    BY <1>1, <1>2, <1>4, <1>6, <2>1, SendsSound
<1> QED
  BY <1>1, <1>5, <1>6

-----------------------------------------------------------------------------
(* What the server's handlers keep. *)

Kept(s, new) ==
    /\ new.member = s.member /\ new.playing = s.playing /\ new.piece = s.piece
    /\ new.grid = NoGrid <=> s.grid = NoGrid

\* A message that is not the first of all is read.
LEMMA ServedOrderly ==
    ASSUME Typed, Orderly, NEW p \in Players, NEW op, op # "start", Reads(p, op),
           server' \in [Players -> Servers],
           \A x \in Players : x # p => Kept(server[x], server'[x]),
           server'[p].member /\ server'[p].grid = NoGrid => server[p].grid = NoGrid,
           server'[p].member /\ server'[p].playing => Tight(server'[p].piece.shape)
    PROVE  Orderly'
<1>1. /\ server[p].member /\ toServer[p] # <<>> /\ Head(toServer[p]).op = op
      /\ \A x \in Players : toServer'[x] = IF x = p THEN Tail(toServer[x]) ELSE toServer[x]
      /\ UNCHANGED client
  BY ReadsType
<1>2. ASSUME NEW x \in Players PROVE Ordered(server'[x], toServer'[x], client[x].stage)
  <2>1. /\ Ordered(server[x], toServer[x], client[x].stage)
        /\ server[x] \in Servers /\ server'[x] \in Servers
        /\ toServer[x] \in Seq(ToServerType)
    BY DEF Orderly, Typed
  <2>2. CASE x = p
    BY <1>1, <2>1, <2>2, OrderedReads
  <2>3. CASE x # p
    BY <1>1, <2>1, <2>3 DEF Kept, Ordered
  <2> QED
    BY <2>2, <2>3
<1> QED
  BY <1>1, <1>2 DEF Orderly

\* A handler that finds a piece in play, or a player out of the game.
LEMMA TightWhenRead ==
    ASSUME Typed, Orderly, NEW p \in Players, NEW op, op \notin {"start", "request"},
           Reads(p, op)
    PROVE  /\ server[p].grid \in Grid
           /\ server[p].playing => Tight(server[p].piece.shape)
<1>1. /\ server[p].member /\ toServer[p] # <<>> /\ toServer[p][1].op = op
      /\ Ordered(server[p], toServer[p], client[p].stage) /\ server[p] \in Servers
  BY ReadsType DEF Orderly, Typed
<1>2. client[p].stage # "waiting" /\ ~At(toServer[p], 1, "start") /\ ~At(toServer[p], 1, "request")
  BY <1>1 DEF Ordered, At
<1> QED
  BY <1>1, <1>2 DEF Ordered, Servers

\* The request finds a board.
LEMMA BoardWhenAsked ==
    ASSUME Typed, Orderly, NEW p \in Players, Reads(p, "request")
    PROVE  server[p].grid \in Grid
<1>1. /\ server[p].member /\ toServer[p] # <<>> /\ toServer[p][1].op = "request"
      /\ Ordered(server[p], toServer[p], client[p].stage) /\ server[p] \in Servers
  BY ReadsType DEF Orderly, Typed
<1>2. client[p].stage # "waiting" /\ ~At(toServer[p], 1, "start")
  BY <1>1 DEF Ordered, At
<1> QED
  BY <1>1, <1>2 DEF Ordered, Servers

\* START finds the board as it was at first.
LEMMA FreshWhenStarted ==
    ASSUME Typed, Orderly, NEW p \in Players, Reads(p, "start")
    PROVE  /\ server[p].member /\ server[p].playing /\ server[p].grid = NoGrid
           /\ server[p].piece = NoPiece /\ client[p].stage # "waiting"
<1>1. /\ server[p].member /\ toServer[p] # <<>> /\ toServer[p][1].op = "start"
      /\ Ordered(server[p], toServer[p], client[p].stage)
      /\ 1 \in 1..Len(toServer[p])
  <2>1. toServer[p] \in Seq(ToServerType)
    BY DEF Typed
  <2> QED
    BY <2>1, ReadsType DEF Orderly
<1> QED
  BY <1>1 DEF Ordered

LEMMA StartedSound ==
    ASSUME Typed, Orderly, NEW p \in Players, HandleStart(p)
    PROVE  Typed' /\ Orderly'
<1> DEFINE new == [server[p] EXCEPT !.playing = TRUE, !.grid = EmptyGrid, !.piece = NoPiece]
<1>1. /\ Reads(p, "start") /\ server' = [server EXCEPT ![p] = new]
      /\ UNCHANGED <<running, toClient, falling, crashed>>
  BY DEF HandleStart
<1>2. new \in Servers /\ new.grid = EmptyGrid /\ new.piece = NoPiece /\ new.member = server[p].member
  <2>1. server[p] \in Servers /\ server[p].member
    BY <1>1, ReadsType DEF Typed
  <2> QED
    BY <2>1, EmptyGridType, NoPieceType DEF Servers
<1> HIDE DEF new
<1>3. server' \in [Players -> Servers]
  BY <1>1, <1>2 DEF Typed
<1>4. /\ toServer' \in [Players -> Seq(ToServerType)] /\ toServer[p] # <<>>
      /\ \A x \in Players : toServer'[x] = IF x = p THEN Tail(toServer[x]) ELSE toServer[x]
      /\ UNCHANGED client
  BY <1>1, ReadsType
<1>5. Typed'
  BY <1>1, <1>3, <1>4 DEF Typed
<1>6. Ordered(new, Tail(toServer[p]), client[p].stage)
  <2> DEFINE stream == toServer[p]
             rest == Tail(stream)
  <2>1. /\ stream \in Seq(ToServerType) /\ stream # <<>>
        /\ Ordered(server[p], stream, client[p].stage)
    BY <1>4 DEF Typed, Orderly
  <2>2. /\ Len(stream) \in Nat \ {0} /\ Len(rest) = Len(stream) - 1
        /\ \A i \in 1..Len(rest) : i + 1 \in 1..Len(stream) /\ rest[i] = stream[i + 1]
    BY <2>1
  <2> HIDE DEF rest, stream
  <2>3. /\ server[p].member /\ server[p].playing /\ client[p].stage # "waiting"
        /\ ~Tight(server[p].piece.shape) /\ At(stream, 1, "start")
    <3>1. /\ server[p].member /\ server[p].playing /\ client[p].stage # "waiting"
          /\ server[p].grid = NoGrid /\ server[p].piece = NoPiece
      BY <1>1, FreshWhenStarted
    <3>2. NoPiece.shape.cells = {}
      BY DEF NoPiece, ShapeOf
    <3> QED
      BY <2>1, <3>1, <3>2 DEF Tight, Ordered
  <2>4. \A i \in 1..Len(rest) : rest[i].op # "start"
    BY <2>1, <2>2 DEF Ordered
  <2>5. At(rest, 1, "request")
    <3>1. At(stream, 2, "request")
      BY <2>1, <2>3 DEF Ordered, At
    <3>2. 1 <= Len(rest) /\ rest[1] = stream[2]
      <4>1. 1 \in 1..Len(rest) /\ 1 + 1 = 2
        BY <2>2, <3>1 DEF At
      <4> QED
        BY <2>2, <4>1
    <3> QED
      BY <3>1, <3>2 DEF At
  <2>6. new.grid # NoGrid
    BY <1>2, EmptyGridType, NoGridDiffers
  <2> QED
    BY <2>3, <2>4, <2>5, <2>6 DEF Ordered, rest, stream
<1>7. ASSUME NEW x \in Players PROVE Ordered(server'[x], toServer'[x], client[x].stage)
  BY <1>1, <1>4, <1>6 DEF Orderly, Typed
<1> QED
  BY <1>4, <1>5, <1>7 DEF Orderly

\* A handler that answers what is well typed, and keeps the order.
LEMMA ServedSound ==
    ASSUME Typed, Orderly, NEW p \in Players, NEW op, op # "start", Reads(p, op),
           server' \in [Players -> Servers],
           \A x \in Players : x # p => Kept(server[x], server'[x]),
           server'[p].member /\ server'[p].grid = NoGrid => server[p].grid = NoGrid,
           server'[p].member /\ server'[p].playing => Tight(server'[p].piece.shape),
           toClient' \in [Players -> Seq(Msgs)],
           running' \in BOOLEAN, crashed' \in BOOLEAN, falling' \subseteq Players
    PROVE  Typed' /\ Orderly'
<1>1. toServer' \in [Players -> Seq(ToServerType)] /\ UNCHANGED client
  BY ReadsType
<1>2. Typed'
  BY <1>1 DEF Typed
<1> QED
  BY <1>2, ServedOrderly

LEMMA KeptSame == ASSUME NEW s PROVE Kept(s, s)
BY DEF Kept

LEMMA IgnoreSound ==
    ASSUME Typed, Orderly, NEW p \in Players, NEW op, op # "start", ~server[p].playing,
           Ignore(p, op)
    PROVE  Typed' /\ Orderly'
<1>1. Reads(p, op) /\ UNCHANGED <<running, server, toClient, falling, crashed>>
  BY DEF Ignore
<1>2. /\ server' \in [Players -> Servers] /\ toClient' \in [Players -> Seq(Msgs)]
      /\ running' \in BOOLEAN /\ crashed' \in BOOLEAN /\ falling' \subseteq Players
      /\ ~server'[p].playing
  BY <1>1 DEF Typed
<1>3. \A x \in Players : Kept(server[x], server'[x])
  BY <1>1, KeptSame
<1> QED
  BY <1>1, <1>2, <1>3, ServedSound

\* The sequences a step sends.
LEMMA MsgsType ==
    /\ <<>> \in Seq(Msgs)
    /\ \A m \in Msgs : <<m>> \in Seq(Msgs)
    /\ \A s, t \in Seq(Msgs) : s \o t \in Seq(Msgs)
OBVIOUS

LEMMA AnswerType ==
    /\ [op |-> "lost"] \in Msgs /\ [op |-> "win"] \in Msgs /\ End \in Msgs
    /\ \A t \in Pieces : [op |-> "piece", piece |-> t] \in Msgs
    /\ \A x, y \in Nat : [op |-> "move", x |-> x, y |-> y] \in Msgs
    /\ \A cw \in BOOLEAN, x, y \in Nat :
         [op |-> "rotate", clockwise |-> cw, x |-> x, y |-> y] \in Msgs
    /\ \A rows \in Seq(Row) : [op |-> "lock", rows |-> rows] \in Msgs
    /\ \A n \in Nat, hole \in Col : RowMalus(n, hole) \in Msgs
    /\ \A p \in Players, g \in Grid : \A t : Picture(p, g, t) \in Msgs
<1>1. [op |-> "lost"] \in Msgs /\ [op |-> "win"] \in Msgs /\ End \in Msgs
  BY DEF Msgs, ToClientType, Verdicts, End
<1>2. ASSUME NEW t \in Pieces PROVE [op |-> "piece", piece |-> t] \in Msgs
  BY DEF Msgs, ToClientType, Pieces
<1>3. ASSUME NEW x \in Nat, NEW y \in Nat PROVE [op |-> "move", x |-> x, y |-> y] \in Msgs
  BY DEF Msgs, ToClientType
<1>4. ASSUME NEW cw \in BOOLEAN, NEW x \in Nat, NEW y \in Nat
      PROVE  [op |-> "rotate", clockwise |-> cw, x |-> x, y |-> y] \in Msgs
  BY DEF Msgs, ToClientType
<1>5. ASSUME NEW rows \in Seq(Row) PROVE [op |-> "lock", rows |-> rows] \in Msgs
  BY DEF Msgs, ToClientType
<1>6. ASSUME NEW n \in Nat, NEW hole \in Col PROVE RowMalus(n, hole) \in Msgs
  BY DEF Msgs, ToClientType, RowMalus
<1>7. ASSUME NEW p \in Players, NEW g \in Grid, NEW t PROVE Picture(p, g, t) \in Msgs
  BY StampType DEF Msgs, ToClientType, Picture
<1> QED
  BY <1>1, <1>2, <1>3, <1>4, <1>5, <1>6, <1>7

LEMMA SendTetraminoType ==
    ASSUME Typed, NEW p \in Players, NEW m \in Msgs
    PROVE  /\ Answered(OnlyTo(p, <<m>>)) \in [Players -> Seq(Msgs)]
           /\ \A q \in Players : Answered(OnlyTo(p, <<m>>))[q] =
                IF q = p THEN Append(toClient[q], m) ELSE toClient[q]
<1> DEFINE msgs == OnlyTo(p, <<m>>)
<1>1. /\ \A q \in Players : msgs[q] \in Seq(Msgs)
      /\ \A q \in Players : msgs[q] = IF q = p THEN <<m>> ELSE <<>>
  BY DEF OnlyTo
<1> HIDE DEF msgs
<1>2. /\ Answered(msgs) \in [Players -> Seq(Msgs)]
      /\ \A q \in Players : Answered(msgs)[q] = toClient[q] \o msgs[q]
  BY <1>1, AnsweredType
<1>3. ASSUME NEW q \in Players
      PROVE  Answered(msgs)[q] = IF q = p THEN Append(toClient[q], m) ELSE toClient[q]
  <2>1. toClient[q] \in Seq(Msgs)
    BY DEF Typed
  <2>2. toClient[q] \o <<m>> = Append(toClient[q], m) /\ toClient[q] \o <<>> = toClient[q]
    BY <2>1
  <2> QED
    BY <1>1, <1>2, <2>2
<1> QED
  BY <1>2, <1>3 DEF msgs

\* The messages of a loss.
LoseMsgs(p, q) ==
    (IF q = p THEN <<[op |-> "lost"]>> ELSE <<>>)
 \o (IF Rivals(p) = {q} THEN <<[op |-> "win"]>> ELSE <<>>)
 \o (IF Cardinality(Rivals(p)) <= 1 /\ Member(q) THEN <<End>> ELSE <<>>)

LEMMA SendLoseType ==
    ASSUME Typed, NEW p \in Players
    PROVE  /\ SendLose(p) \in [Players -> Seq(Msgs)]
           /\ \A q \in Players : SendLose(p)[q] = toClient[q] \o LoseMsgs(p, q)
<1> DEFINE msgs == [q \in Players |-> LoseMsgs(p, q)]
<1>1. ASSUME NEW q \in Players PROVE LoseMsgs(p, q) \in Seq(Msgs)
  BY MsgsType, AnswerType DEF LoseMsgs
<1>2. SendLose(p) = Answered(msgs)
  BY DEF SendLose, LoseMsgs
<1>3. \A q \in Players : msgs[q] \in Seq(Msgs) /\ msgs[q] = LoseMsgs(p, q)
  BY <1>1
<1> HIDE DEF msgs
<1> QED
  BY <1>2, <1>3, AnsweredType

LEMMA TetraminoSound ==
    ASSUME Typed, Orderly, NEW p \in Players, HandleTetramino(p)
    PROVE  Typed' /\ Orderly'
<1>1. Reads(p, "request") /\ crashed' = crashed
  BY DEF HandleTetramino
<1>2. server[p].grid \in Grid /\ server[p].grid # NoGrid
  BY <1>1, BoardWhenAsked, NoGridDiffers
<1>3. PICK s \in Shapes :
        \/ /\ server' = [server EXCEPT ![p].piece = Spawned(s)]
           /\ toClient' = SendTetramino(p, Spawned(s))
           /\ falling' = falling \cup {p}
           /\ UNCHANGED running
        \/ /\ server' = [server EXCEPT ![p].piece = Spawned(s), ![p].playing = FALSE]
           /\ toClient' = SendLose(p)
           /\ falling' = falling \ {p}
           /\ running' = (running /\ Cardinality(Rivals(p)) > 1)
  BY DEF HandleTetramino
<1> DEFINE t == Spawned(s)
<1>4. t \in Pieces /\ Tight(t.shape)
  BY SpawnedType
<1> HIDE DEF t
<1>5. toClient' \in [Players -> Seq(Msgs)]
  <2>1. [op |-> "piece", piece |-> t] \in Msgs
    BY <1>4, AnswerType
  <2>2. SendTetramino(p, t) \in [Players -> Seq(Msgs)]
    BY <2>1, SendTetraminoType DEF SendTetramino
  <2> QED
    BY <1>3, <2>2, SendLoseType DEF t
<1>6. /\ server' \in [Players -> Servers]
      /\ \A x \in Players : x # p => server'[x] = server[x]
      /\ server'[p].grid = server[p].grid /\ server'[p].piece = t
  <2> DEFINE fits == [server[p] EXCEPT !.piece = t]
             lost == [server[p] EXCEPT !.piece = t, !.playing = FALSE]
  <2>1. server[p] \in Servers /\ server \in [Players -> Servers]
    BY DEF Typed
  <2>2. /\ fits \in Servers /\ fits.grid = server[p].grid /\ fits.piece = t
        /\ lost \in Servers /\ lost.grid = server[p].grid /\ lost.piece = t
    BY <1>4, <2>1 DEF Servers
  <2>3. server' = [server EXCEPT ![p] = fits] \/ server' = [server EXCEPT ![p] = lost]
    BY <1>3, <2>1 DEF t
  <2> HIDE DEF fits, lost
  <2> QED
    BY <2>1, <2>2, <2>3
<1>7. \A x \in Players : x # p => Kept(server[x], server'[x])
  BY <1>6, KeptSame
<1>8. running' \in BOOLEAN /\ crashed' \in BOOLEAN /\ falling' \subseteq Players
  BY <1>1, <1>3 DEF Typed
<1> QED
  BY <1>1, <1>2, <1>4, <1>5, <1>6, <1>7, <1>8, ServedSound

LEMMA RotateSound ==
    ASSUME Typed, Orderly, NEW p \in Players, HandleRotate(p)
    PROVE  Typed' /\ Orderly'
<1> DEFINE m == Head(toServer[p])
           t == Turned(server[p].piece, m.clockwise)
           new == [server[p] EXCEPT !.piece = t]
           answer == [op |-> "rotate", clockwise |-> m.clockwise, x |-> t.x, y |-> t.y]
<1>1. /\ Reads(p, "rotate") /\ UNCHANGED <<running, falling, crashed>>
      /\ \/ server' = [server EXCEPT ![p].piece = t] /\ toClient' = Answered(OnlyTo(p, <<answer>>))
         \/ UNCHANGED <<server, toClient>>
  BY DEF HandleRotate
<1>2. m.clockwise \in BOOLEAN
  <2>1. m \in ToServerType /\ m.op = "rotate"
    BY <1>1, ReadsType
  <2> HIDE DEF m
  <2> QED
    BY <2>1 DEF ToServerType
<1> HIDE DEF m
<1>3. server[p] \in Servers /\ server \in [Players -> Servers] /\ server[p].piece \in Pieces
  BY DEF Typed, Servers
<1>4. t \in Pieces /\ (Tight(server[p].piece.shape) => Tight(t.shape))
  BY <1>2, <1>3, RotateType
<1> HIDE DEF t
<1>5. /\ new \in Servers /\ new.piece = t /\ new.member = server[p].member
      /\ new.playing = server[p].playing /\ new.grid = server[p].grid
  BY <1>3, <1>4 DEF Servers
<1> HIDE DEF new
<1>6. toClient' \in [Players -> Seq(Msgs)]
  <2>1. t.x \in Nat /\ t.y \in Nat
    BY <1>4 DEF Pieces, PieceType
  <2>2. answer \in Msgs
    BY <1>2, <2>1, AnswerType
  <2> HIDE DEF answer
  <2> QED
    BY <1>1, <2>2, SendTetraminoType DEF Typed
<1>7. server' \in {[server EXCEPT ![p] = new], server}
  BY <1>1, <1>3 DEF new
<1>8. /\ server' \in [Players -> Servers]
      /\ \A x \in Players : x # p => server'[x] = server[x]
      /\ server'[p] \in {new, server[p]}
  BY <1>3, <1>5, <1>7
<1>9. server[p].playing => Tight(server[p].piece.shape)
  BY <1>1, TightWhenRead
<1>10. \A x \in Players : x # p => Kept(server[x], server'[x])
  BY <1>8, KeptSame
<1>11. /\ server'[p].grid = server[p].grid
       /\ server'[p].playing => Tight(server'[p].piece.shape)
  BY <1>4, <1>5, <1>8, <1>9
<1>12. running' \in BOOLEAN /\ crashed' \in BOOLEAN /\ falling' \subseteq Players
  BY <1>1 DEF Typed
<1> QED
  BY <1>1, <1>6, <1>8, <1>10, <1>11, <1>12, ServedSound

\* A player that is out of the room.
Gone == [member |-> FALSE, playing |-> FALSE, grid |-> NoGrid, piece |-> NoPiece]

LEMMA GoneType == Gone \in Servers /\ ~Gone.member /\ ~Gone.playing
BY NoPieceType DEF Gone, Servers

LEMMA EndSound ==
    ASSUME Typed, Orderly, NEW p \in Players, HandleEnd(p)
    PROVE  Typed' /\ Orderly'
<1>1. /\ Reads(p, "end") /\ server' = [server EXCEPT ![p] = Gone]
      /\ running' = (running /\ Members # {p}) /\ falling' = falling \ {p}
      /\ UNCHANGED <<toClient, crashed>>
  BY DEF HandleEnd, Gone
<1>2. /\ server' \in [Players -> Servers] /\ server'[p] = Gone
      /\ \A x \in Players : x # p => server'[x] = server[x]
  BY <1>1, GoneType DEF Typed
<1>3. \A x \in Players : x # p => Kept(server[x], server'[x])
  BY <1>2, KeptSame
<1>4. /\ toClient' \in [Players -> Seq(Msgs)]
      /\ running' \in BOOLEAN /\ crashed' \in BOOLEAN /\ falling' \subseteq Players
  BY <1>1 DEF Typed
<1> QED
  BY <1>1, <1>2, <1>3, <1>4, GoneType, ServedSound

LEMMA ExitSound == ASSUME Typed, Orderly, RoomExit PROVE Typed' /\ Orderly'
<1>1. /\ server' = [p \in Players |-> Gone] /\ falling' = {}
      /\ UNCHANGED <<running, client, toServer, toClient, crashed>>
  BY DEF RoomExit, Gone
<1>2. Typed'
  BY <1>1, GoneType DEF Typed
<1>3. ASSUME NEW x \in Players PROVE Ordered(Gone, toServer[x], client[x].stage)
  <2>1. /\ server[x] \in Servers /\ toServer[x] \in Seq(ToServerType)
        /\ Ordered(server[x], toServer[x], client[x].stage)
    BY DEF Typed, Orderly
  <2> QED
    BY <2>1, GoneType, OrderedOutside
<1>4. \A x \in Players : server'[x] = Gone
  BY <1>1
<1> QED
  BY <1>1, <1>2, <1>3, <1>4 DEF Orderly

\* What the main thread answers who is out of a room.
LEMMA LateAnswers ==
    ASSUME Typed, NEW p \in Players, Late(p)
    PROVE  \E m \in Msgs : /\ m.op = "rotate"
                           /\ toClient' = Answered(OnlyTo(p, <<m>>)) \/ UNCHANGED toClient
<1> DEFINE m == Head(toServer[p])
           answer == [op |-> "rotate", clockwise |-> m.clockwise, x |-> 0, y |-> 0]
<1>1. /\ toServer[p] # <<>>
      /\ toClient' = IF m.op = "rotate" THEN Answered(OnlyTo(p, <<answer>>)) ELSE toClient
  BY DEF Late
<1>2. m \in ToServerType
  BY <1>1 DEF Typed
<1> HIDE DEF m
<1>3. CASE m.op = "rotate"
  <2>1. m.clockwise \in BOOLEAN
    BY <1>2, <1>3 DEF ToServerType
  <2>2. answer \in Msgs /\ answer.op = "rotate"
    BY <2>1, AnswerType
  <2> HIDE DEF answer
  <2> QED
    BY <1>1, <1>3, <2>2
<1>4. CASE m.op # "rotate"
  <2> DEFINE any == [op |-> "rotate", clockwise |-> TRUE, x |-> 0, y |-> 0]
  <2>1. any \in Msgs /\ any.op = "rotate"
    BY AnswerType
  <2> HIDE DEF any, answer
  <2> QED
    BY <1>1, <1>4, <2>1
<1> QED
  BY <1>3, <1>4

LEMMA LateSound ==
    ASSUME Typed, Orderly, NEW p \in Players, Late(p)
    PROVE  Typed' /\ Orderly'
<1>1. /\ ~server[p].member /\ toServer[p] # <<>>
      /\ toServer' = [toServer EXCEPT ![p] = Tail(@)]
      /\ UNCHANGED <<running, server, client, falling, crashed>>
  BY DEF Late, Member
<1>2. Typed'
  <2>1. toClient' \in [Players -> Seq(Msgs)]
    <3>1. PICK m \in Msgs : toClient' = Answered(OnlyTo(p, <<m>>)) \/ UNCHANGED toClient
      BY LateAnswers
    <3> DEFINE sent == Answered(OnlyTo(p, <<m>>))
    <3>2. sent \in [Players -> Seq(Msgs)] /\ toClient' \in {sent, toClient}
      BY <3>1, SendTetraminoType
    <3> HIDE DEF sent
    <3> QED
      BY <3>2 DEF Typed
  <2>2. toServer' \in [Players -> Seq(ToServerType)]
    BY <1>1 DEF Typed
  <2> QED
    BY <1>1, <2>1, <2>2 DEF Typed
<1>3. ASSUME NEW x \in Players PROVE Ordered(server[x], toServer'[x], client[x].stage)
  <2>1. /\ server[x] \in Servers /\ toServer[x] \in Seq(ToServerType)
        /\ Ordered(server[x], toServer[x], client[x].stage)
        /\ toServer'[x] = IF x = p THEN Tail(toServer[x]) ELSE toServer[x]
    BY <1>1 DEF Typed, Orderly
  <2> QED
    BY <1>1, <2>1, OrderedOutside
<1> QED
  BY <1>1, <1>2, <1>3 DEF Orderly

\* The stream of each player after a picture for the others.
LEMMA ShownType ==
    ASSUME Typed, NEW p \in Players, NEW view \in Msgs, NEW m \in Msgs
    PROVE  LET sent == Answered([ToOthers(p, view) EXCEPT ![p] = <<m>>])
           IN  /\ sent \in [Players -> Seq(Msgs)]
               /\ sent[p] = Append(toClient[p], m)
               /\ \A q \in Players : q # p =>
                    sent[q] \in {toClient[q], Append(toClient[q], view)}
<1> DEFINE msgs == [ToOthers(p, view) EXCEPT ![p] = <<m>>]
<1>1. /\ msgs[p] = <<m>>
      /\ \A q \in Players : q # p => msgs[q] \in {<<>>, <<view>>}
  BY DEF ToOthers
<1>2. \A q \in Players : msgs[q] \in Seq(Msgs)
  BY <1>1, MsgsType
<1> HIDE DEF msgs
<1>3. /\ Answered(msgs) \in [Players -> Seq(Msgs)]
      /\ \A q \in Players : Answered(msgs)[q] = toClient[q] \o msgs[q]
  BY <1>2, AnsweredType
<1>4. ASSUME NEW q \in Players, NEW n \in Msgs
      PROVE  toClient[q] \o <<n>> = Append(toClient[q], n) /\ toClient[q] \o <<>> = toClient[q]
  <2>1. toClient[q] \in Seq(Msgs)
    BY DEF Typed
  <2> QED
    BY <2>1
<1>5. Answered(msgs)[p] = Append(toClient[p], m)
  BY <1>1, <1>3, <1>4
<1>6. ASSUME NEW q \in Players, q # p
      PROVE  Answered(msgs)[q] \in {toClient[q], Append(toClient[q], view)}
  BY <1>1, <1>3, <1>4, <1>6
<1> QED
  BY <1>3, <1>5, <1>6 DEF msgs

LEMMA MoveSound ==
    ASSUME Typed, Orderly, NEW p \in Players, server[p].playing, Reads(p, "move"),
           HandleMove(p, Head(toServer[p]))
    PROVE  Typed' /\ Orderly'
<1> DEFINE m == Head(toServer[p])
           g == server[p].grid
           fits == CanMoveOrPlace(g, server[p].piece, m.dx, m.dy)
           t == IF fits THEN Moved(server[p].piece, m.dx, m.dy) ELSE server[p].piece
           view == Picture(p, g, t)
           answer == [op |-> "move", x |-> t.x, y |-> t.y]
           new == [server[p] EXCEPT !.piece = t]
<1>1. /\ server' = [server EXCEPT ![p].piece = t]
      /\ toClient' = Answered([ToOthers(p, view) EXCEPT ![p] = <<answer>>])
      /\ UNCHANGED <<running, falling, crashed>>
  BY DEF HandleMove
<1>2. m.dx \in Int /\ m.dy \in Int
  <2>1. m \in ToServerType /\ m.op = "move"
    BY ReadsType
  <2> HIDE DEF m
  <2> QED
    BY <2>1 DEF ToServerType
<1> HIDE DEF m
<1>3. server[p] \in Servers /\ server \in [Players -> Servers] /\ server[p].piece \in Pieces
  BY DEF Typed, Servers
<1>4. server[p].grid \in Grid /\ Tight(server[p].piece.shape)
  BY TightWhenRead
<1>5. t \in Pieces /\ Tight(t.shape)
  <2>1. CASE fits
    <3>1. server[p].piece.x + m.dx \in Nat /\ server[p].piece.y + m.dy \in Nat
      BY <1>2, <1>3, <1>4, <2>1, FittingPlace
    <3> QED
      BY <1>2, <1>3, <1>4, <2>1, <3>1, MovedType
  <2>2. CASE ~fits
    BY <1>3, <1>4, <2>2
  <2> QED
    BY <2>1, <2>2
<1> HIDE DEF t, fits
<1>6. toClient' \in [Players -> Seq(Msgs)]
  <2>1. answer \in Msgs
    <3>1. t.x \in Nat /\ t.y \in Nat
      BY <1>5 DEF Pieces, PieceType
    <3> QED
      BY <3>1, AnswerType
  <2>2. view \in Msgs
    BY <1>4, AnswerType
  <2> HIDE DEF answer, view
  <2> QED
    BY <1>1, <2>1, <2>2, ShownType
<1>7. new \in Servers /\ new.piece = t /\ new.grid = server[p].grid
  BY <1>3, <1>5 DEF Servers
<1> HIDE DEF new
<1>8. /\ server' \in [Players -> Servers] /\ server'[p] = new
      /\ \A x \in Players : x # p => server'[x] = server[x]
  <2>1. server' = [server EXCEPT ![p] = new]
    BY <1>1, <1>3 DEF new
  <2> QED
    BY <1>3, <1>7, <2>1
<1>9. \A x \in Players : x # p => Kept(server[x], server'[x])
  BY <1>8, KeptSame
<1>10. running' \in BOOLEAN /\ crashed' \in BOOLEAN /\ falling' \subseteq Players
  BY <1>1 DEF Typed
<1> QED
  BY <1>5, <1>6, <1>7, <1>8, <1>9, <1>10, ServedSound

\* What a lock does: to its player, and to the others, of which one may be
\* given malus rows.
LockedBoard(p) == ClearFullRow(Stamp(server[p].grid, server[p].piece))
LockOf(p) == [op |-> "lock", rows |-> LockedBoard(p).rows]
Locked(p) == [server[p] EXCEPT !.grid = LockedBoard(p).grid]
Inert(m) == m.op \notin {"piece", "move", "rotate", "lock", "malus"}
Aside(s, new, msgs) ==
    \/ new = s /\ (msgs = <<>> \/ \E view \in Msgs : Inert(view) /\ msgs = <<view>>)
    \/ /\ s.grid \in Grid
       /\ \E n \in Nat, hole \in Col :
            /\ new = [s EXCEPT !.grid = AddMalusRow(s.grid, n, hole)]
            /\ \/ msgs = <<RowMalus(n, hole)>>
               \/ \E view \in Msgs : Inert(view) /\ msgs = <<RowMalus(n, hole), view>>

LEMMA LockedType ==
    ASSUME Typed, NEW p \in Players, server[p].grid \in Grid
    PROVE  /\ LockedBoard(p).grid \in Grid /\ LockedBoard(p).rows \in Seq(Row)
           /\ LockOf(p) \in Msgs /\ Locked(p) \in Servers
           /\ Locked(p).grid = LockedBoard(p).grid /\ Locked(p).piece = server[p].piece
           /\ Locked(p).playing = server[p].playing
<1> DEFINE g == Stamp(server[p].grid, server[p].piece)
<1>1. g \in Grid
  BY StampType
<1>2. LockedBoard(p) \in LoopStates
  BY <1>1, ClearFullRowClears DEF LockedBoard
<1>3. LockedBoard(p).grid \in Grid /\ LockedBoard(p).rows \in Seq(Row)
  BY <1>2 DEF LoopStates
<1>4. LockOf(p) \in Msgs
  BY <1>3, AnswerType DEF LockOf
<1> QED
  BY <1>3, <1>4 DEF Typed, Servers, Locked

LEMMA OneThenMore ==
    ASSUME NEW a \in Msgs, NEW b \in Msgs
    PROVE  <<a>> \o <<>> = <<a>> /\ <<a>> \o <<b>> = <<a, b>>
<1>1. <<a>> \in Seq(Msgs) /\ <<b>> \in Seq(Msgs) /\ <<>> \in Seq(Msgs) /\ <<a, b>> \in Seq(Msgs)
  OBVIOUS
<1>2. <<a>> \o <<b>> \in Seq(Msgs) /\ Len(<<a>> \o <<b>>) = 2
  BY <1>1
<1>3. (<<a>> \o <<b>>)[1] = a /\ (<<a>> \o <<b>>)[2] = b
  BY <1>1
<1>4. <<a>> \o <<b>> = <<a, b>>
  <2> DEFINE s == <<a>> \o <<b>>
             t == <<a, b>>
  <2>1. /\ s \in Seq(Msgs) /\ t \in Seq(Msgs) /\ Len(s) = 2 /\ Len(t) = 2
        /\ s[1] = t[1] /\ s[2] = t[2]
    BY <1>1, <1>2, <1>3
  <2> HIDE DEF s, t
  <2>2. \A i \in 1..Len(s) : s[i] = t[i]
    BY <2>1
  <2>3. s = t
    BY <2>1, <2>2, SeqEqual
  <2> QED
    BY <2>3 DEF s, t
<1> QED
  BY <1>1, <1>4

LEMMA LockCases ==
    ASSUME Typed, NEW p \in Players, NEW m, server[p].grid \in Grid, Lock(p, m)
    PROVE  /\ falling' = falling \ {p} /\ UNCHANGED running
           /\ \/ crashed' = TRUE /\ UNCHANGED <<server, toClient>>
              \/ /\ UNCHANGED crashed
                 /\ \E sent \in [Players -> Seq(Msgs)] :
                      /\ toClient' = Answered(sent)
                      /\ server' \in [Players -> Servers]
                      /\ server'[p] = Locked(p) /\ sent[p] = <<LockOf(p)>>
                      /\ \A q \in Players : q # p => Aside(server[q], server'[q], sent[q])
<1> DEFINE view == Picture(p, LockedBoard(p).grid, server[p].piece)
           n == MalusCount(Len(LockedBoard(p).rows))
           cleared == [server EXCEPT ![p].grid = LockedBoard(p).grid]
           shown == [ToOthers(p, view) EXCEPT ![p] = <<LockOf(p)>>]
           Given(q, hole) ==
             /\ server' = [cleared EXCEPT ![q].grid = AddMalusRow(@, n, hole)]
             /\ toClient' = Answered([ToOthers(p, view) EXCEPT
                                        ![p] = <<LockOf(p)>>, ![q] = <<RowMalus(n, hole)>> \o @])
             /\ UNCHANGED crashed
<1>1. falling' = falling \ {p} /\ UNCHANGED running
  BY DEF Lock
<1>2. \/ server' = cleared /\ toClient' = Answered(shown) /\ UNCHANGED crashed
      \/ crashed' = TRUE /\ UNCHANGED <<server, toClient>>
      \/ \E q \in Members \ {p}, hole \in Col : server[q].grid # NoGrid /\ Given(q, hole)
  <2>1. \A k : Targets(p, k) \subseteq Members \ {p}
    BY DEF Targets
  <2> HIDE DEF cleared, shown, n, view
  <2> QED
    BY <2>1 DEF Lock, LockedBoard, LockOf, cleared, shown, n, view
<1>3. /\ LockedBoard(p).grid \in Grid /\ LockOf(p) \in Msgs /\ Locked(p) \in Servers
      /\ LockedBoard(p).rows \in Seq(Row)
  BY LockedType
<1>4. view \in Msgs /\ Inert(view)
  BY <1>3, AnswerType DEF Inert, Picture
<1>5. n \in Nat
  BY DEF MalusCount
<1> HIDE DEF view, n
<1>6. /\ shown \in [Players -> Seq(Msgs)] /\ shown[p] = <<LockOf(p)>>
      /\ \A q \in Players : q # p => shown[q] = <<>> \/ shown[q] = <<view>>
  <2>1. shown = [q \in Players |-> IF q = p THEN <<LockOf(p)>> ELSE ToOthers(p, view)[q]]
    BY DEF ToOthers
  <2>2. \A q \in Players : ToOthers(p, view)[q] \in {<<>>, <<view>>}
    BY DEF ToOthers
  <2> HIDE DEF shown
  <2> QED
    BY <1>3, <1>4, <2>1, <2>2, MsgsType
<1>7. /\ cleared = [server EXCEPT ![p] = Locked(p)] /\ cleared \in [Players -> Servers]
      /\ cleared[p] = Locked(p) /\ \A q \in Players : q # p => cleared[q] = server[q]
  BY <1>3 DEF Locked, Typed
<1>8. CASE server' = cleared /\ toClient' = Answered(shown) /\ UNCHANGED crashed
  <2> HIDE DEF shown, cleared
  <2>1. \A q \in Players : q # p => Aside(server[q], server'[q], shown[q])
    BY <1>4, <1>6, <1>7, <1>8 DEF Aside
  <2> QED
    BY <1>1, <1>6, <1>7, <1>8, <2>1
<1>9. ASSUME NEW q \in Members \ {p}, NEW hole \in Col, server[q].grid # NoGrid, Given(q, hole)
      PROVE  \E sent \in [Players -> Seq(Msgs)] :
               /\ toClient' = Answered(sent)
               /\ server' \in [Players -> Servers]
               /\ server'[p] = Locked(p) /\ sent[p] = <<LockOf(p)>>
               /\ \A x \in Players : x # p => Aside(server[x], server'[x], sent[x])
  <2> DEFINE malus == RowMalus(n, hole)
             sent == [shown EXCEPT ![q] = <<malus>> \o @]
             new == [server[q] EXCEPT !.grid = AddMalusRow(server[q].grid, n, hole)]
  <2>1. q \in Players /\ q # p /\ server[q].grid \in Grid /\ server[q] \in Servers
    BY <1>9 DEF Members, Typed, Servers
  <2>2. malus \in Msgs /\ new \in Servers
    <3>1. AddMalusRow(server[q].grid, n, hole) \in Grid
      BY <1>5, <2>1, AddMalusRowType
    <3> QED
      BY <1>5, <2>1, <3>1, AnswerType DEF Servers
  <2>3. toClient' = Answered(sent)
    BY <1>9, <2>1 DEF ToOthers
  <2>4. server' = [cleared EXCEPT ![q] = new]
    <3> HIDE DEF cleared
    <3>1. server' = [cleared EXCEPT ![q].grid = AddMalusRow(@, n, hole)]
      BY <1>9
    <3> QED
      BY <1>7, <2>1, <3>1
  <2> HIDE DEF malus, shown, cleared
  <2>5. /\ sent[q] = <<malus>> \o shown[q] /\ \A x \in Players : x # q => sent[x] = shown[x]
        /\ sent = [x \in Players |-> IF x = q THEN <<malus>> \o shown[q] ELSE shown[x]]
    BY <1>6, <2>1
  <2>6. sent[q] = <<malus>> \/ sent[q] = <<malus, view>>
    <3> HIDE DEF sent
    <3>1. <<malus>> \o <<>> = <<malus>> /\ <<malus>> \o <<view>> = <<malus, view>>
      BY <1>4, <2>2, OneThenMore
    <3> QED
      BY <1>6, <2>1, <2>5, <3>1
  <2>7. sent \in [Players -> Seq(Msgs)]
    <3>1. <<malus>> \o shown[q] \in Seq(Msgs)
      BY <1>6, <2>1, <2>2, MsgsType
    <3> HIDE DEF sent
    <3> QED
      BY <1>6, <2>5, <3>1
  <2>8. Aside(server[q], new, sent[q])
    BY <1>4, <1>5, <2>1, <2>6 DEF Aside, malus
  <2> HIDE DEF sent, new
  <2>9. /\ server' \in [Players -> Servers] /\ server'[p] = Locked(p) /\ server'[q] = new
        /\ \A x \in Players : x \notin {p, q} => server'[x] = server[x]
    BY <1>7, <2>1, <2>2, <2>4
  <2>10. \A x \in Players : x # p => Aside(server[x], server'[x], sent[x])
    <3>1. ASSUME NEW x \in Players, x # p, x # q PROVE Aside(server[x], server'[x], sent[x])
      BY <1>4, <1>6, <2>5, <2>9, <3>1 DEF Aside
    <3> QED
      BY <2>8, <2>9, <3>1
  <2> QED
    BY <1>6, <2>1, <2>3, <2>5, <2>7, <2>9, <2>10
<1> HIDE DEF shown, cleared, Given
<1>10. CASE \E q \in Members \ {p}, hole \in Col : server[q].grid # NoGrid /\ Given(q, hole)
  <2>1. UNCHANGED crashed
    BY <1>10 DEF Given
  <2> QED
    BY <1>1, <1>9, <1>10, <2>1
<1> QED
  BY <1>1, <1>2, <1>8, <1>10

LEMMA LockSound ==
    ASSUME Typed, Orderly, NEW p \in Players, server[p].playing, Reads(p, "move"),
           Lock(p, Head(toServer[p]))
    PROVE  Typed' /\ Orderly'
<1>1. server[p].grid \in Grid /\ Tight(server[p].piece.shape)
  BY TightWhenRead
<1>2. /\ falling' = falling \ {p} /\ UNCHANGED running
      /\ \/ crashed' = TRUE /\ UNCHANGED <<server, toClient>>
         \/ /\ UNCHANGED crashed
            /\ \E sent \in [Players -> Seq(Msgs)] :
                 /\ toClient' = Answered(sent)
                 /\ server' \in [Players -> Servers]
                 /\ server'[p] = Locked(p) /\ sent[p] = <<LockOf(p)>>
                 /\ \A q \in Players : q # p => Aside(server[q], server'[q], sent[q])
  BY <1>1, LockCases
<1>3. /\ Locked(p).grid \in Grid /\ Locked(p).piece = server[p].piece
      /\ Locked(p).playing = server[p].playing
  BY <1>1, LockedType
<1>4. ASSUME NEW s \in Servers, NEW new, NEW msgs, Aside(s, new, msgs) PROVE Kept(s, new)
  <2>1. CASE new = s
    BY <2>1, KeptSame
  <2>2. ASSUME s.grid \in Grid, NEW n \in Nat, NEW hole \in Col,
               new = [s EXCEPT !.grid = AddMalusRow(s.grid, n, hole)]
        PROVE  Kept(s, new)
    <3>1. AddMalusRow(s.grid, n, hole) \in Grid
      BY <2>2, AddMalusRowType
    <3> QED
      BY <2>2, <3>1, NoGridDiffers DEF Kept, Servers
  <2> QED
    BY <1>4, <2>1, <2>2 DEF Aside
<1>5. /\ server' \in [Players -> Servers] /\ toClient' \in [Players -> Seq(Msgs)]
      /\ \A q \in Players : q # p => Kept(server[q], server'[q])
      /\ server'[p] \in {server[p], Locked(p)}
  <2>1. CASE crashed' = TRUE /\ UNCHANGED <<server, toClient>>
    BY <2>1, KeptSame DEF Typed
  <2>2. ASSUME NEW sent \in [Players -> Seq(Msgs)], toClient' = Answered(sent),
               server' \in [Players -> Servers], server'[p] = Locked(p),
               \A q \in Players : q # p => Aside(server[q], server'[q], sent[q])
        PROVE  /\ server' \in [Players -> Servers] /\ toClient' \in [Players -> Seq(Msgs)]
               /\ \A q \in Players : q # p => Kept(server[q], server'[q])
               /\ server'[p] \in {server[p], Locked(p)}
    <3>1. \A q \in Players : sent[q] \in Seq(Msgs)
      BY <2>2
    <3>2. Answered(sent) \in [Players -> Seq(Msgs)]
      BY <3>1, AnsweredType
    <3>3. \A q \in Players : server[q] \in Servers
      BY DEF Typed
    <3> QED
      BY <1>4, <2>2, <3>2, <3>3
  <2> QED
    BY <1>2, <2>1, <2>2
<1>6. /\ server'[p].grid = NoGrid => server[p].grid = NoGrid
      /\ server'[p].playing => Tight(server'[p].piece.shape)
  BY <1>1, <1>3, <1>5, NoGridDiffers
<1>7. running' \in BOOLEAN /\ crashed' \in BOOLEAN /\ falling' \subseteq Players
  BY <1>2 DEF Typed
<1> QED
  BY <1>5, <1>6, <1>7, ServedSound

-----------------------------------------------------------------------------
(* Types. *)

LEMMA InitSound == Init => Typed /\ Orderly
<1> SUFFICES ASSUME Init PROVE Typed /\ Orderly
  OBVIOUS
<1>1. Typed
  <2> DEFINE s == [member |-> TRUE, playing |-> TRUE, grid |-> NoGrid, piece |-> NoPiece]
             b == [stage |-> "waiting", grid |-> EmptyGrid, piece |-> NoPiece]
  <2>1. s \in Servers /\ b \in Boards
    BY EmptyGridType, NoPieceType DEF Servers, Boards
  <2>2. server = [p \in Players |-> s] /\ client = [p \in Players |-> b]
    BY DEF Init
  <2> HIDE DEF s, b
  <2>3. server \in [Players -> Servers] /\ client \in [Players -> Boards]
    BY <2>1, <2>2
  <2>4. <<>> \in Seq(ToServerType) /\ <<>> \in Seq(Msgs)
    OBVIOUS
  <2>5. toServer \in [Players -> Seq(ToServerType)] /\ toClient \in [Players -> Seq(Msgs)]
    BY <2>4 DEF Init
  <2> QED
    BY <2>3, <2>5 DEF Init, Typed
<1>2. Orderly
  BY DEF Init, Orderly, Ordered
<1> QED
  BY <1>1, <1>2

LEMMA StepSound == Typed /\ Orderly /\ [Next]_vars => Typed' /\ Orderly'
<1> SUFFICES ASSUME Typed, Orderly, [Next]_vars PROVE Typed' /\ Orderly'
  OBVIOUS
<1>1. CASE RoomExit
  BY <1>1, ExitSound
<1>2. ASSUME NEW p \in Players, Client(p) PROVE Typed' /\ Orderly'
  BY <1>2, StartSound, KeysSound, ReceiveSound DEF Client
<1>3. ASSUME NEW p \in Players, Serve(p) PROVE Typed' /\ Orderly'
  <2>1. CASE HandleMoveMsg(p)
    BY <2>1, MoveSound, LockSound DEF HandleMoveMsg
  <2>2. CASE ~server[p].playing /\ (Ignore(p, "request") \/ Ignore(p, "move"))
    BY <2>2, IgnoreSound
  <2> QED
    BY <1>3, <2>1, <2>2, StartedSound, TetraminoSound, RotateSound, EndSound, LateSound
       DEF Serve
<1>4. CASE UNCHANGED vars
  BY <1>4 DEF vars, Typed, Orderly, Ordered, At
<1> QED
  BY <1>1, <1>2, <1>3, <1>4 DEF Next

LEMMA TypedMeans == Typed => TypeOK
<1> SUFFICES ASSUME Typed PROVE TypeOK
  OBVIOUS
<1>1. Pieces \subseteq PieceType /\ Msgs \subseteq ToClientType
  BY DEF Pieces, Msgs
<1>2. Seq(Msgs) \subseteq Seq(ToClientType)
  BY <1>1
<1>3. /\ server \in [Players -> [member : BOOLEAN, playing : BOOLEAN,
                                 grid : Grid \cup {NoGrid}, piece : PieceType]]
      /\ client \in [Players -> [stage : {"waiting", "playing", "over"},
                                 grid : Grid, piece : PieceType]]
  BY <1>1 DEF Typed, Servers, Boards
<1>4. toClient \in [Players -> Seq(ToClientType)]
  BY <1>2 DEF Typed
<1> QED
  BY <1>3, <1>4 DEF TypeOK, Typed

\* Every variable keeps its type.  The place of a piece stays a natural number,
\* which the wire needs, because a tight piece that fits lies on the board and a
\* key is read only once there is such a piece (canMoveOrPlace, handleMove).
THEOREM Types == Spec => []TypeOK
<1>1. Init => Typed /\ Orderly
  BY InitSound
<1>2. Typed /\ Orderly /\ [Next]_vars => (Typed /\ Orderly)'
  BY StepSound
<1> QED
  BY <1>1, <1>2, TypedMeans, PTL DEF Spec

-----------------------------------------------------------------------------
(* The client's board is the server's once it has replayed what is under way. *)

\* The board b shows what the server keeps for its player.
Same(b, s) ==
    b.grid = (IF s.grid = NoGrid THEN EmptyGrid ELSE s.grid) /\ b.piece = s.piece

Faithful(p) ==
    server[p].playing /\ client[p].stage # "over"
      => Same(Replayed(client[p], toClient[p]), server[p])

\* The answers msgs say what makes s new, and a LOCK that rows have sunk.
Echoes(s, new, msgs) ==
    /\ new.playing =>
         s.playing /\ \A b \in Boards : Same(b, s) => Same(Replayed(b, msgs), new)
    /\ \A i \in 1..Len(msgs) :
         msgs[i].op = "lock" => new.grid = Collapsed(Stamp(s.grid, s.piece))

\* What RowsCollapse says of a step.
Collapses ==
    \A p \in Players : Answers(p, "lock")
      => server'[p].grid = Collapsed(Stamp(server[p].grid, server[p].piece))

\* What a stream holds is replayed before what is added to it.
LEMMA ReplayedBoth ==
    ASSUME NEW b \in Boards, NEW answers \in Seq(Msgs), NEW more \in Seq(Msgs)
    PROVE  Replayed(b, answers \o more) = Replayed(Replayed(b, answers), more)
<1> DEFINE N == Len(answers)
           M == Len(more)
           all == answers \o more
           c == Replayed(b, answers)
<1>1. /\ N \in Nat /\ M \in Nat /\ all \in Seq(Msgs) /\ Len(all) = N + M
      /\ \A n \in 1..N : all[n] = answers[n]
      /\ \A n \in 1..M : all[N + n] = more[n]
  OBVIOUS
<1>2. c \in Boards
  BY ReplayedType
<1>3. PICK f \in [0..N -> Boards] :
        /\ f[0] = b /\ c = f[N]
        /\ \A n \in 1..N : f[n] = Replay(f[n - 1], answers[n])
  BY ReplayedBoards
<1>4. PICK h \in [0..N + M -> Boards] :
        /\ h[0] = b /\ Replayed(b, all) = h[N + M]
        /\ \A n \in 1..N + M : h[n] = Replay(h[n - 1], all[n])
  <2>1. \E h \in [0..Len(all) -> Boards] :
          /\ h[0] = b /\ Replayed(b, all) = h[Len(all)]
          /\ \A n \in 1..Len(all) : h[n] = Replay(h[n - 1], all[n])
    <3> HIDE DEF all
    <3> QED
      BY <1>1, ReplayedBoards
  <2> HIDE DEF all, N, M
  <2> QED
    BY <1>1, <2>1
<1>5. PICK k \in [0..M -> Boards] :
        /\ k[0] = c /\ Replayed(c, more) = k[M]
        /\ \A n \in 1..M : k[n] = Replay(k[n - 1], more[n])
  <2> HIDE DEF c
  <2> QED
    BY <1>2, ReplayedBoards
<1> HIDE DEF N, M, all, c
<1>6. 0..N \subseteq {n \in 0..N : h[n] = f[n]}
  <2> DEFINE T == {n \in 0..N : h[n] = f[n]}
  <2>1. 0 \in T
    BY <1>1, <1>3, <1>4
  <2>2. ASSUME NEW n \in 0..N - 1, n \in T PROVE n + 1 \in T
    <3>1. n + 1 \in 1..N /\ n + 1 \in 1..N + M /\ n + 1 \in 0..N /\ (n + 1) - 1 = n
      BY <1>1
    <3>2. /\ f[n + 1] = Replay(f[n], answers[n + 1])
          /\ h[n + 1] = Replay(h[n], all[n + 1]) /\ all[n + 1] = answers[n + 1]
      BY <1>1, <1>3, <1>4, <3>1
    <3> QED
      BY <2>2, <3>1, <3>2
  <2> HIDE DEF T
  <2> QED
    BY <1>1, <2>1, <2>2, InductionUpTo DEF T
<1>7. h[N] = c
  <2>1. N \in 0..N
    BY <1>1
  <2> QED
    BY <1>3, <1>6, <2>1
<1>8. 0..M \subseteq {n \in 0..M : h[N + n] = k[n]}
  <2> DEFINE T == {n \in 0..M : h[N + n] = k[n]}
  <2>1. 0 \in T
    BY <1>1, <1>5, <1>7
  <2>2. ASSUME NEW n \in 0..M - 1, n \in T PROVE n + 1 \in T
    <3>1. /\ n + 1 \in 1..M /\ n + 1 \in 0..M /\ N + (n + 1) \in 1..N + M
          /\ (n + 1) - 1 = n /\ (N + (n + 1)) - 1 = N + n
      BY <1>1
    <3>2. /\ k[n + 1] = Replay(k[n], more[n + 1])
          /\ h[N + (n + 1)] = Replay(h[N + n], all[N + (n + 1)])
          /\ all[N + (n + 1)] = more[n + 1]
      BY <1>1, <1>4, <1>5, <3>1
    <3> QED
      BY <2>2, <3>1, <3>2
  <2> HIDE DEF T
  <2> QED
    BY <1>1, <2>1, <2>2, InductionUpTo DEF T
<1>9. h[N + M] = k[M]
  <2>1. M \in 0..M
    BY <1>1
  <2> QED
    BY <1>8, <2>1
<1> QED
  BY <1>4, <1>5, <1>9 DEF all, c

LEMMA ReplayedOne ==
    ASSUME NEW b \in Boards, NEW m \in Msgs PROVE Replayed(b, <<m>>) = Replay(b, m)
<1> DEFINE none == <<>>
<1>1. none \in Seq(Msgs) /\ Append(none, m) = <<m>>
  OBVIOUS
<1>2. Replayed(b, none) = b
  BY ReplayedNothing
<1> HIDE DEF none
<1> QED
  BY <1>1, <1>2, ReplayedAppend

LEMMA ReplayedTwo ==
    ASSUME NEW b \in Boards, NEW m \in Msgs, NEW n \in Msgs
    PROVE  Replayed(b, <<m, n>>) = Replay(Replay(b, m), n)
<1> DEFINE one == <<m>>
<1>1. one \in Seq(Msgs) /\ Append(one, n) = <<m, n>>
  <2>1. one \in Seq(Msgs) /\ one \o <<n>> = <<m, n>>
    BY OneThenMore
  <2> HIDE DEF one
  <2>2. Append(one, n) = one \o <<n>>
    BY <2>1, AppendIsConcat
  <2> QED
    BY <2>1, <2>2
<1>2. Replayed(b, one) = Replay(b, m)
  BY ReplayedOne
<1> HIDE DEF one
<1> QED
  BY <1>1, <1>2, ReplayedAppend

LEMMA ReplayInert == ASSUME NEW b, NEW m, Inert(m) PROVE Replay(b, m) = b
BY DEF Replay, Inert

\* Pictures and verdicts change no board.
LEMMA ReplayedInert ==
    ASSUME NEW b \in Boards, NEW msgs \in Seq(Msgs), \A i \in 1..Len(msgs) : Inert(msgs[i])
    PROVE  Replayed(b, msgs) = b
<1> DEFINE N == Len(msgs)
<1>1. PICK f \in [0..N -> Boards] :
        /\ f[0] = b /\ Replayed(b, msgs) = f[N]
        /\ \A n \in 1..N : f[n] = Replay(f[n - 1], msgs[n])
  BY ReplayedBoards
<1>2. N \in Nat
  OBVIOUS
<1>3. \A n \in 1..N : f[n] = f[n - 1]
  BY <1>1, ReplayInert
<1> HIDE DEF N
<1> DEFINE T == {n \in 0..N : f[n] = b}
<1>4. 0 \in T
  BY <1>1, <1>2
<1>5. ASSUME NEW n \in 0..N - 1, n \in T PROVE n + 1 \in T
  <2>1. n + 1 \in 1..N /\ n + 1 \in 0..N /\ (n + 1) - 1 = n
    BY <1>2
  <2> QED
    BY <1>3, <1>5, <2>1
<1>6. N \in T
  <2> HIDE DEF T
  <2>1. 0..N \subseteq T
    BY <1>2, <1>4, <1>5, InductionUpTo
  <2> QED
    BY <1>2, <2>1
<1> QED
  BY <1>1, <1>6

\* The server changes the player and sends the answers.
LEMMA FaithfulAnswer ==
    ASSUME Typed, NEW p \in Players, Faithful(p), NEW msgs \in Seq(Msgs),
           Echoes(server[p], server'[p], msgs),
           toClient'[p] = toClient[p] \o msgs, client'[p] = client[p]
    PROVE  Faithful(p)'
<1> SUFFICES ASSUME server'[p].playing, client'[p].stage # "over"
             PROVE  Same(Replayed(client'[p], toClient'[p]), server'[p])
  BY DEF Faithful, Same
<1> DEFINE b == Replayed(client[p], toClient[p])
<1>1. client[p] \in Boards /\ toClient[p] \in Seq(Msgs)
  BY DEF Typed
<1>2. b \in Boards /\ Replayed(client[p], toClient[p] \o msgs) = Replayed(b, msgs)
  BY <1>1, ReplayedType, ReplayedBoth
<1>3. Same(b, server[p])
  BY DEF Echoes, Faithful
<1> QED
  BY <1>2, <1>3 DEF Echoes

LEMMA EchoesNothing ==
    ASSUME NEW s, NEW msgs \in Seq(Msgs), \A i \in 1..Len(msgs) : Inert(msgs[i])
    PROVE  Echoes(s, s, msgs)
BY ReplayedInert DEF Echoes, Inert

LEMMA NoMsgs == <<>> \in Seq(Msgs) /\ \A i \in 1..Len(<<>>) : Inert(<<>>[i])
OBVIOUS

LEMMA OneInert ==
    ASSUME NEW m \in Msgs, Inert(m)
    PROVE  <<m>> \in Seq(Msgs) /\ \A i \in 1..Len(<<m>>) : Inert(<<m>>[i])
BY DEF Inert

LEMMA BothInert ==
    ASSUME NEW s \in Seq(Msgs), NEW t \in Seq(Msgs),
           \A i \in 1..Len(s) : Inert(s[i]), \A i \in 1..Len(t) : Inert(t[i])
    PROVE  s \o t \in Seq(Msgs) /\ \A i \in 1..Len(s \o t) : Inert((s \o t)[i])
<1> DEFINE all == s \o t
<1>1. /\ all \in Seq(Msgs) /\ Len(s) \in Nat /\ Len(t) \in Nat /\ Len(all) = Len(s) + Len(t)
      /\ \A i \in 1..Len(s) : all[i] = s[i]
      /\ \A i \in 1..Len(all) : i > Len(s) => i - Len(s) \in 1..Len(t) /\ all[i] = t[i - Len(s)]
  OBVIOUS
<1> HIDE DEF all
<1>2. ASSUME NEW i \in 1..Len(all) PROVE Inert(all[i])
  <2>1. CASE i > Len(s)
    BY <1>1, <2>1
  <2>2. CASE ~(i > Len(s))
    BY <1>1, <2>2
  <2> QED
    BY <2>1, <2>2
<1> QED
  BY <1>1, <1>2 DEF all

\* The stage of a client has no part in what it replays.
LEMMA ReplayedStage ==
    ASSUME NEW b \in Boards, NEW c \in Boards, b.grid = c.grid, b.piece = c.piece,
           NEW msgs \in Seq(Msgs)
    PROVE  /\ Replayed(b, msgs).grid = Replayed(c, msgs).grid
           /\ Replayed(b, msgs).piece = Replayed(c, msgs).piece
<1> DEFINE N == Len(msgs)
<1>1. PICK f \in [0..N -> Boards] :
        /\ f[0] = b /\ Replayed(b, msgs) = f[N]
        /\ \A n \in 1..N : f[n] = Replay(f[n - 1], msgs[n])
  BY ReplayedBoards
<1>2. PICK h \in [0..N -> Boards] :
        /\ h[0] = c /\ Replayed(c, msgs) = h[N]
        /\ \A n \in 1..N : h[n] = Replay(h[n - 1], msgs[n])
  BY ReplayedBoards
<1>3. N \in Nat /\ \A n \in 1..N : msgs[n] \in Msgs
  OBVIOUS
<1>4. ASSUME NEW x \in Boards, NEW y \in Boards, x.grid = y.grid, x.piece = y.piece, NEW m
      PROVE  Replay(x, m).grid = Replay(y, m).grid /\ Replay(x, m).piece = Replay(y, m).piece
  BY <1>4 DEF Replay, TakePiece, TakeMove, TakeRotation, TakeLock, TakeMalus, NewBoard, Boards
<1> HIDE DEF N
<1> DEFINE T == {n \in 0..N : f[n].grid = h[n].grid /\ f[n].piece = h[n].piece}
<1>5. 0 \in T
  BY <1>1, <1>2, <1>3
<1>6. ASSUME NEW n \in 0..N - 1, n \in T PROVE n + 1 \in T
  <2>1. n + 1 \in 1..N /\ n \in 0..N /\ n + 1 \in 0..N /\ (n + 1) - 1 = n
    BY <1>3
  <2>2. f[n + 1] = Replay(f[n], msgs[n + 1]) /\ h[n + 1] = Replay(h[n], msgs[n + 1])
    BY <1>1, <1>2, <2>1
  <2>3. f[n] \in Boards /\ h[n] \in Boards /\ f[n].grid = h[n].grid /\ f[n].piece = h[n].piece
    BY <1>1, <1>2, <1>6, <2>1
  <2>4. f[n + 1].grid = h[n + 1].grid /\ f[n + 1].piece = h[n + 1].piece
    BY <1>4, <2>2, <2>3
  <2> QED
    BY <2>1, <2>4
<1>7. 0..N \subseteq T
  <2> HIDE DEF T
  <2> QED
    BY <1>3, <1>5, <1>6, InductionUpTo
<1>8. N \in T
  BY <1>3, <1>7
<1> QED
  BY <1>1, <1>2, <1>8

AllFaithful == \A p \in Players : Faithful(p)

\* A step in which the client reads nothing and the server sends nothing.
LEMMA FaithfulQuiet ==
    ASSUME Typed, NEW p \in Players, Faithful(p), UNCHANGED toClient, server'[p] = server[p],
           client'[p] \in Boards,
           client'[p].stage # "over" =>
             /\ client[p].stage # "over"
             /\ client'[p].grid = client[p].grid /\ client'[p].piece = client[p].piece
    PROVE  Faithful(p)'
<1> SUFFICES ASSUME server'[p].playing, client'[p].stage # "over"
             PROVE  Same(Replayed(client'[p], toClient'[p]), server'[p])
  BY DEF Faithful, Same
<1> DEFINE b == Replayed(client[p], toClient[p])
           c == Replayed(client'[p], toClient[p])
<1>1. client[p] \in Boards /\ toClient[p] \in Seq(Msgs)
  BY DEF Typed
<1>2. c.grid = b.grid /\ c.piece = b.piece
  BY <1>1, ReplayedStage
<1>3. Same(b, server[p])
  BY DEF Faithful
<1> HIDE DEF b, c
<1>4. Same(c, server[p])
  BY <1>2, <1>3 DEF Same
<1> QED
  BY <1>4 DEF c

LEMMA ClientFaithful ==
    ASSUME Typed, AllFaithful, NEW p \in Players, Client(p)
    PROVE  AllFaithful' /\ Collapses
<1>1. client \in [Players -> Boards]
  BY DEF Typed
<1>2. CASE ~Receive(p)
  <2>1. /\ UNCHANGED <<toClient, server>>
        /\ \/ client' = client
           \/ client' = [client EXCEPT ![p].stage = "over"]
           \/ client[p].stage = "waiting" /\ client' = [client EXCEPT ![p].stage = "playing"]
    BY <1>2 DEF Client, Start, Gravity, Quit, Press
  <2>2. ASSUME NEW x \in Players
        PROVE  /\ client'[x] \in Boards
               /\ client'[x].stage # "over" =>
                    /\ client[x].stage # "over"
                    /\ client'[x].grid = client[x].grid /\ client'[x].piece = client[x].piece
    BY <1>1, <2>1 DEF Boards
  <2>3. Collapses
    <3>1. \A x \in Players : Len(toClient[x]) \in Nat
      BY DEF Typed
    <3> QED
      BY <2>1, <3>1 DEF Collapses, Answers
  <2> QED
    BY <2>1, <2>2, <2>3, FaithfulQuiet DEF AllFaithful
<1>3. CASE Receive(p)
  <2> DEFINE m == Head(toClient[p])
             b == Replay(client[p], m)
             new == [b EXCEPT !.stage = IF m.op \in Verdicts THEN "over" ELSE @]
  <2>1. /\ toClient[p] # <<>> /\ toClient' = [toClient EXCEPT ![p] = Tail(@)]
        /\ UNCHANGED server
        /\ \/ client[p].stage = "over" /\ UNCHANGED client
           \/ client[p].stage # "over" /\ client' = [client EXCEPT ![p] = new]
    BY <1>3 DEF Receive
  <2>2. ASSUME NEW x \in Players, x # p PROVE Faithful(x)'
    <3>1. client'[x] = client[x] /\ toClient'[x] = toClient[x] /\ server'[x] = server[x]
      BY <1>1, <2>1, <2>2 DEF Typed
    <3> QED
      BY <3>1 DEF AllFaithful, Faithful, Same
  <2>3. Faithful(p)'
    <3> SUFFICES ASSUME server'[p].playing, client'[p].stage # "over"
                 PROVE  Same(Replayed(client'[p], toClient'[p]), server'[p])
      BY DEF Faithful, Same
    <3>1. toClient[p] \in Seq(Msgs) /\ client[p] \in Boards /\ m \in Msgs
      BY <2>1 DEF Typed
    <3>2. b \in Boards
      BY <3>1, ReplayType
    <3> HIDE DEF m, b
    <3>3. client[p].stage # "over" /\ client'[p] = new
      BY <1>1, <2>1
    <3>4. new = b
      BY <3>2, <3>3 DEF Boards
    <3>5. toClient'[p] = Tail(toClient[p])
      BY <2>1 DEF Typed
    <3>6. Replayed(client[p], toClient[p]) = Replayed(b, Tail(toClient[p]))
      BY <2>1, <3>1, ReplayedFirst DEF b, m
    <3>7. Same(Replayed(client[p], toClient[p]), server[p])
      BY <2>1, <3>3 DEF AllFaithful, Faithful
    <3> QED
      BY <2>1, <3>3, <3>4, <3>5, <3>6, <3>7
  <2>4. ASSUME NEW x \in Players PROVE ~Answers(x, "lock")
    <3>1. /\ toClient[x] \in Seq(Msgs)
          /\ toClient'[x] \in {toClient[x], Tail(toClient[x])} /\ toClient[p] # <<>>
          /\ toClient'[x] # toClient[x] => x = p /\ toClient'[x] = Tail(toClient[x])
      BY <2>1 DEF Typed
    <3>2. Len(toClient'[x]) <= Len(toClient[x]) /\ Len(toClient[x]) \in Nat /\ Len(toClient'[x]) \in Nat
      BY <3>1
    <3> QED
      BY <3>2 DEF Answers
  <2> QED
    BY <2>2, <2>3, <2>4 DEF AllFaithful, Collapses
<1> QED
  BY <1>2, <1>3

\* What each answer says.
LEMMA EchoesOne ==
    ASSUME NEW s, NEW new, NEW m \in Msgs, new.playing => s.playing,
           \A b \in Boards : Same(b, s) => Same(Replay(b, m), new),
           m.op = "lock" => new.grid = Collapsed(Stamp(s.grid, s.piece))
    PROVE  Echoes(s, new, <<m>>)
<1>1. \A b \in Boards : Replayed(b, <<m>>) = Replay(b, m)
  BY ReplayedOne
<1>2. \A i \in 1..Len(<<m>>) : <<m>>[i] = m
  OBVIOUS
<1> QED
  BY <1>1, <1>2 DEF Echoes

LEMMA EchoesPiece ==
    ASSUME NEW s \in Servers, NEW t \in Pieces
    PROVE  Echoes(s, [s EXCEPT !.piece = t], <<[op |-> "piece", piece |-> t]>>)
<1> DEFINE m == [op |-> "piece", piece |-> t]
           new == [s EXCEPT !.piece = t]
<1>1. m \in Msgs
  BY AnswerType
<1>2. new.playing = s.playing /\ new.grid = s.grid /\ new.piece = t
  BY DEF Servers
<1>3. ASSUME NEW b \in Boards, Same(b, s) PROVE Same(Replay(b, m), new)
  BY <1>2, <1>3 DEF Replay, TakePiece, Same, Boards
<1>4. m.op # "lock"
  OBVIOUS
<1> HIDE DEF m, new
<1>5. Echoes(s, new, <<m>>)
  BY <1>1, <1>2, <1>3, <1>4, EchoesOne
<1> QED
  BY <1>5 DEF m, new

LEMMA EchoesMove ==
    ASSUME NEW s \in Servers, NEW t \in Pieces, t.shape = s.piece.shape
    PROVE  Echoes(s, [s EXCEPT !.piece = t], <<[op |-> "move", x |-> t.x, y |-> t.y]>>)
<1> DEFINE m == [op |-> "move", x |-> t.x, y |-> t.y]
           new == [s EXCEPT !.piece = t]
<1>1. m \in Msgs
  BY AnswerType DEF Pieces, PieceType
<1>2. new.playing = s.playing /\ new.grid = s.grid /\ new.piece = t
  BY DEF Servers
<1>3. ASSUME NEW b \in Boards, Same(b, s) PROVE Same(Replay(b, m), new)
  <2>1. [b.piece EXCEPT !.x = t.x, !.y = t.y] = t
    BY <1>3 DEF Same, Servers, Pieces, PieceType
  <2>2. Replay(b, m).piece = [b.piece EXCEPT !.x = t.x, !.y = t.y] /\ Replay(b, m).grid = b.grid
    BY DEF Replay, TakeMove, Boards
  <2> QED
    BY <1>2, <1>3, <2>1, <2>2 DEF Same
<1>4. m.op # "lock"
  OBVIOUS
<1> HIDE DEF m, new
<1>5. Echoes(s, new, <<m>>)
  BY <1>1, <1>2, <1>3, <1>4, EchoesOne
<1> QED
  BY <1>5 DEF m, new

LEMMA EchoesTurn ==
    ASSUME NEW s \in Servers, NEW cw \in BOOLEAN
    PROVE  LET t == Turned(s.piece, cw)
           IN  Echoes(s, [s EXCEPT !.piece = t],
                      <<[op |-> "rotate", clockwise |-> cw, x |-> t.x, y |-> t.y]>>)
<1> DEFINE t == Turned(s.piece, cw)
           m == [op |-> "rotate", clockwise |-> cw, x |-> t.x, y |-> t.y]
           new == [s EXCEPT !.piece = t]
<1>1. s.piece \in Pieces /\ t \in Pieces
  BY RotateType DEF Servers
<1>2. t.x = s.piece.x /\ t.y = s.piece.y
  BY <1>1 DEF Turned, Pieces, PieceType
<1>3. m \in Msgs
  BY <1>1, AnswerType DEF Pieces, PieceType
<1>4. new.playing = s.playing /\ new.grid = s.grid /\ new.piece = t
  BY DEF Servers
<1>5. ASSUME NEW b \in Boards, Same(b, s) PROVE Same(Replay(b, m), new)
  <2>1. [b.piece EXCEPT !.x = m.x, !.y = m.y] = s.piece
    BY <1>1, <1>2, <1>5 DEF Same, Pieces, PieceType
  <2>2. /\ Replay(b, m).piece = Turned([b.piece EXCEPT !.x = m.x, !.y = m.y], cw)
        /\ Replay(b, m).grid = b.grid
    <3> HIDE DEF t
    <3> QED
      BY DEF Replay, TakeRotation, TakeMove, Boards
  <2> QED
    BY <1>4, <1>5, <2>1, <2>2 DEF Same
<1>6. m.op # "lock"
  OBVIOUS
<1> HIDE DEF m, new
<1>7. Echoes(s, new, <<m>>)
  BY <1>3, <1>4, <1>5, <1>6, EchoesOne
<1> QED
  BY <1>7 DEF m, new, t

\* The rows of a LOCK are those the server's loop erased, in the places they had
\* by then, so that the client's erasing them gives the same board.
LEMMA EchoesLock ==
    ASSUME Typed, NEW p \in Players, server[p].grid \in Grid
    PROVE  Echoes(server[p], Locked(p), <<LockOf(p)>>)
<1> DEFINE s == server[p]
           m == LockOf(p)
           new == Locked(p)
<1>1. /\ m \in Msgs /\ m.op = "lock" /\ m.rows = LockedBoard(p).rows
      /\ new.grid = LockedBoard(p).grid /\ new.piece = s.piece /\ new.playing = s.playing
      /\ LockedBoard(p).grid # NoGrid
  BY LockedType, NoGridDiffers DEF LockOf
<1>2. s.grid # NoGrid /\ Stamp(s.grid, s.piece) \in Grid
  BY NoGridDiffers, StampType
<1>3. /\ LockedBoard(p).grid = ClearFullRows(Stamp(s.grid, s.piece), LockedBoard(p).rows)
      /\ LockedBoard(p).grid = Collapsed(Stamp(s.grid, s.piece))
  BY <1>2, ClearFullRowClears DEF LockedBoard
<1> HIDE DEF s, m, new
<1>4. ASSUME NEW b \in Boards, Same(b, s) PROVE Same(Replay(b, m), new)
  <2>1. b.grid = s.grid /\ b.piece = s.piece
    BY <1>2, <1>4 DEF Same
  <2>2. /\ Replay(b, m).grid = ClearFullRows(Stamp(b.grid, b.piece), m.rows)
        /\ Replay(b, m).piece = b.piece
    BY <1>1 DEF Replay, TakeLock, NewBoard, Boards
  <2> QED
    BY <1>1, <1>3, <2>1, <2>2 DEF Same
<1>5. new.grid = Collapsed(Stamp(s.grid, s.piece))
  BY <1>1, <1>3
<1>6. Echoes(s, new, <<m>>)
  BY <1>1, <1>4, <1>5, EchoesOne
<1> QED
  BY <1>6 DEF s, m, new

LEMMA EchoesAside ==
    ASSUME NEW s \in Servers, NEW new, NEW msgs \in Seq(Msgs), Aside(s, new, msgs)
    PROVE  Echoes(s, new, msgs)
<1>1. CASE new = s /\ msgs = <<>>
  BY <1>1, NoMsgs, EchoesNothing
<1>2. ASSUME NEW view \in Msgs, Inert(view), new = s, msgs = <<view>> PROVE Echoes(s, new, msgs)
  BY <1>2, OneInert, EchoesNothing
<1>3. ASSUME s.grid \in Grid, NEW n \in Nat, NEW hole \in Col,
             new = [s EXCEPT !.grid = AddMalusRow(s.grid, n, hole)],
             \/ msgs = <<RowMalus(n, hole)>>
             \/ \E view \in Msgs : Inert(view) /\ msgs = <<RowMalus(n, hole), view>>
      PROVE  Echoes(s, new, msgs)
  <2> DEFINE m == RowMalus(n, hole)
  <2>1. m \in Msgs /\ m.op = "malus" /\ m.lines = n /\ m.hole = hole
    BY AnswerType DEF RowMalus
  <2>2. AddMalusRow(s.grid, n, hole) \in Grid
    BY <1>3, AddMalusRowType
  <2>3. /\ new.grid = AddMalusRow(s.grid, n, hole) /\ new.piece = s.piece
        /\ new.playing = s.playing /\ new.grid # NoGrid /\ s.grid # NoGrid
    BY <1>3, <2>2, NoGridDiffers DEF Servers
  <2>4. msgs = <<m>> \/ \E view \in Msgs : Inert(view) /\ msgs = <<m, view>>
    BY <1>3
  <2> HIDE DEF m
  <2>5. ASSUME NEW b \in Boards, Same(b, s) PROVE Same(Replay(b, m), new)
    <3>1. b.grid = s.grid /\ b.piece = s.piece
      BY <2>3, <2>5 DEF Same
    <3>2. Replay(b, m).grid = AddMalusRow(b.grid, n, hole) /\ Replay(b, m).piece = b.piece
      BY <2>1 DEF Replay, TakeMalus, Boards
    <3> QED
      BY <2>3, <3>1, <3>2 DEF Same
  <2>6. ASSUME NEW b \in Boards PROVE Replayed(b, msgs) = Replay(b, m)
    <3>1. CASE msgs = <<m>>
      BY <2>1, <3>1, ReplayedOne
    <3>2. ASSUME NEW view \in Msgs, Inert(view), msgs = <<m, view>>
          PROVE  Replayed(b, msgs) = Replay(b, m)
      <4>1. Replayed(b, <<m, view>>) = Replay(Replay(b, m), view)
        BY <2>1, ReplayedTwo
      <4>2. Replay(Replay(b, m), view) = Replay(b, m)
        BY <3>2, ReplayInert
      <4> QED
        BY <3>2, <4>1, <4>2
    <3> QED
      BY <2>4, <3>1, <3>2
  <2>7. \A i \in 1..Len(msgs) : msgs[i].op # "lock"
    BY <2>1, <2>4 DEF Inert
  <2> QED
    BY <2>3, <2>5, <2>6, <2>7 DEF Echoes
<1> QED
  BY <1>1, <1>2, <1>3 DEF Aside

\* A stream that no LOCK was added to.
LEMMA LastSent ==
    ASSUME NEW stream \in Seq(Msgs), NEW sent \in Seq(Msgs),
           Len(stream \o sent) > Len(stream)
    PROVE  \E i \in 1..Len(sent) : Last(stream \o sent) = sent[i]
<1> DEFINE all == stream \o sent
           n == Len(sent)
<1>1. /\ Len(stream) \in Nat /\ n \in Nat /\ Len(all) = Len(stream) + n
      /\ \A i \in 1..n : all[Len(stream) + i] = sent[i]
  OBVIOUS
<1>2. n \in 1..n /\ Last(all) = all[Len(stream) + n]
  BY <1>1 DEF Last
<1> HIDE DEF all, n
<1>3. Last(all) = sent[n]
  BY <1>1, <1>2
<1> QED
  BY <1>2, <1>3 DEF all, n

\* Every handler answers what it does.
LEMMA ServerFaithful ==
    ASSUME Typed, AllFaithful, UNCHANGED client, NEW sent,
           \A q \in Players : /\ sent[q] \in Seq(Msgs) /\ toClient'[q] = toClient[q] \o sent[q]
                              /\ Echoes(server[q], server'[q], sent[q])
    PROVE  AllFaithful' /\ Collapses
<1>1. ASSUME NEW q \in Players PROVE Faithful(q)'
  <2> DEFINE msgs == sent[q]
  <2>1. /\ msgs \in Seq(Msgs) /\ toClient'[q] = toClient[q] \o msgs
        /\ Echoes(server[q], server'[q], msgs)
    OBVIOUS
  <2> HIDE DEF msgs
  <2>2. Faithful(q) /\ client'[q] = client[q]
    BY DEF AllFaithful
  <2> QED
    BY <2>1, <2>2, FaithfulAnswer
<1>2. ASSUME NEW q \in Players, Answers(q, "lock")
      PROVE  server'[q].grid = Collapsed(Stamp(server[q].grid, server[q].piece))
  <2> DEFINE msgs == sent[q]
             stream == toClient[q]
  <2>1. /\ stream \in Seq(Msgs) /\ msgs \in Seq(Msgs)
        /\ Len(stream \o msgs) > Len(stream) /\ Last(stream \o msgs).op = "lock"
        /\ Echoes(server[q], server'[q], msgs)
    BY <1>2 DEF Answers, Typed
  <2> HIDE DEF msgs, stream
  <2>2. PICK i \in 1..Len(msgs) : Last(stream \o msgs) = msgs[i]
    BY <2>1, LastSent
  <2> QED
    BY <2>1, <2>2 DEF Echoes
<1> QED
  BY <1>1, <1>2 DEF AllFaithful, Collapses

\* Nothing is sent.
LEMMA SilentFaithful ==
    ASSUME Typed, AllFaithful, UNCHANGED <<client, toClient>>,
           \A q \in Players : Echoes(server[q], server'[q], <<>>)
    PROVE  AllFaithful' /\ Collapses
<1> DEFINE sent == [q \in Players |-> <<>>]
<1>1. ASSUME NEW q \in Players PROVE <<>> \in Seq(Msgs) /\ toClient[q] = toClient[q] \o <<>>
  <2>1. toClient[q] \in Seq(Msgs)
    BY DEF Typed
  <2> QED
    BY <2>1
<1>2. \A q \in Players : /\ sent[q] \in Seq(Msgs) /\ toClient'[q] = toClient[q] \o sent[q]
                         /\ Echoes(server[q], server'[q], sent[q])
  BY <1>1
<1> HIDE DEF sent
<1> QED
  BY <1>2, ServerFaithful

\* Only player p is answered, and changes.
LEMMA OneFaithful ==
    ASSUME Typed, AllFaithful, UNCHANGED client, NEW p \in Players, NEW m \in Msgs,
           toClient' = Answered(OnlyTo(p, <<m>>)), Echoes(server[p], server'[p], <<m>>),
           \A q \in Players : q # p => server'[q] = server[q]
    PROVE  AllFaithful' /\ Collapses
<1> DEFINE sent == OnlyTo(p, <<m>>)
<1>1. \A q \in Players : sent[q] = IF q = p THEN <<m>> ELSE <<>>
  BY DEF OnlyTo
<1> HIDE DEF sent
<1>2. \A q \in Players : sent[q] \in Seq(Msgs)
  BY <1>1, MsgsType
<1>3. \A q \in Players : toClient'[q] = toClient[q] \o sent[q]
  BY <1>2, AnsweredType DEF sent
<1>4. \A q \in Players : Echoes(server[q], server'[q], sent[q])
  BY <1>1, NoMsgs, EchoesNothing
<1> QED
  BY <1>2, <1>3, <1>4, ServerFaithful

LEMMA StartFaithful ==
    ASSUME Typed, Orderly, AllFaithful, NEW p \in Players, HandleStart(p)
    PROVE  AllFaithful' /\ Collapses
<1>1. Reads(p, "start") /\ UNCHANGED <<client, toClient>>
  BY ReadsType DEF HandleStart
<1> DEFINE new == [server[p] EXCEPT !.playing = TRUE, !.grid = EmptyGrid, !.piece = NoPiece]
<1>2. server' = [server EXCEPT ![p] = new]
  BY DEF HandleStart
<1>3. server[p].playing /\ server[p].grid = NoGrid /\ server[p].piece = NoPiece
  BY <1>1, FreshWhenStarted
<1>4. new.grid = EmptyGrid /\ new.piece = NoPiece /\ EmptyGrid # NoGrid
  BY EmptyGridType, NoGridDiffers DEF Typed, Servers
<1> HIDE DEF new
<1>5. \A b : Same(b, server[p]) => Same(b, new)
  BY <1>3, <1>4 DEF Same
<1>6. Echoes(server[p], new, <<>>)
  BY <1>3, <1>5, ReplayedNothing DEF Echoes
<1>7. ASSUME NEW q \in Players PROVE Echoes(server[q], server'[q], <<>>)
  <2>1. CASE q = p
    BY <1>2, <1>6, <2>1 DEF Typed
  <2>2. CASE q # p
    <3>1. server'[q] = server[q]
      BY <1>2, <2>2 DEF Typed
    <3> QED
      BY <3>1, NoMsgs, EchoesNothing
  <2> QED
    BY <2>1, <2>2
<1> QED
  BY <1>1, <1>7, SilentFaithful

LEMMA LoseInert ==
    ASSUME NEW p \in Players, NEW q \in Players
    PROVE  LoseMsgs(p, q) \in Seq(Msgs) /\ \A i \in 1..Len(LoseMsgs(p, q)) : Inert(LoseMsgs(p, q)[i])
<1> DEFINE none == IF q = p THEN <<[op |-> "lost"]>> ELSE <<>>
           won == IF Rivals(p) = {q} THEN <<[op |-> "win"]>> ELSE <<>>
           ended == IF Cardinality(Rivals(p)) <= 1 /\ Member(q) THEN <<End>> ELSE <<>>
<1>1. Inert([op |-> "lost"]) /\ Inert([op |-> "win"]) /\ Inert(End)
  BY DEF Inert, End
<1>2. none \in Seq(Msgs) /\ \A i \in 1..Len(none) : Inert(none[i])
  BY <1>1, NoMsgs, OneInert, AnswerType
<1>3. won \in Seq(Msgs) /\ \A i \in 1..Len(won) : Inert(won[i])
  BY <1>1, NoMsgs, OneInert, AnswerType
<1>4. ended \in Seq(Msgs) /\ \A i \in 1..Len(ended) : Inert(ended[i])
  BY <1>1, NoMsgs, OneInert, AnswerType
<1>5. LoseMsgs(p, q) = (none \o won) \o ended
  BY DEF LoseMsgs
<1> HIDE DEF none, won, ended
<1>6. none \o won \in Seq(Msgs) /\ \A i \in 1..Len(none \o won) : Inert((none \o won)[i])
  BY <1>2, <1>3, BothInert
<1> DEFINE both == none \o won
<1>7. both \in Seq(Msgs) /\ \A i \in 1..Len(both) : Inert(both[i])
  BY <1>6
<1> HIDE DEF both
<1>8. both \o ended \in Seq(Msgs) /\ \A i \in 1..Len(both \o ended) : Inert((both \o ended)[i])
  BY <1>4, <1>7, BothInert
<1> QED
  BY <1>5, <1>8 DEF both

LEMMA TetraminoFaithful ==
    ASSUME Typed, Orderly, AllFaithful, NEW p \in Players, HandleTetramino(p)
    PROVE  AllFaithful' /\ Collapses
<1>1. Reads(p, "request") /\ UNCHANGED client
  BY ReadsType DEF HandleTetramino
<1>2. PICK s \in Shapes :
        \/ server' = [server EXCEPT ![p].piece = Spawned(s)] /\ toClient' = SendTetramino(p, Spawned(s))
        \/ /\ server' = [server EXCEPT ![p].piece = Spawned(s), ![p].playing = FALSE]
           /\ toClient' = SendLose(p)
  BY DEF HandleTetramino
<1> DEFINE t == Spawned(s)
           m == [op |-> "piece", piece |-> t]
           new == [server[p] EXCEPT !.piece = t]
           lost == [server[p] EXCEPT !.piece = t, !.playing = FALSE]
<1>3. t \in Pieces
  BY SpawnedType
<1>4. server[p] \in Servers /\ server \in [Players -> Servers]
  BY DEF Typed
<1> HIDE DEF t
<1>5. CASE server' = [server EXCEPT ![p].piece = t] /\ toClient' = SendTetramino(p, t)
  <2>1. server' = [server EXCEPT ![p] = new]
    BY <1>4, <1>5
  <2>2. Echoes(server[p], new, <<m>>) /\ m \in Msgs
    BY <1>3, <1>4, EchoesPiece, AnswerType
  <2>3. toClient' = Answered(OnlyTo(p, <<m>>))
    BY <1>5 DEF SendTetramino
  <2> HIDE DEF m, new
  <2>4. server'[p] = new /\ \A q \in Players : q # p => server'[q] = server[q]
    BY <1>4, <2>1
  <2> QED
    BY <1>1, <2>2, <2>3, <2>4, OneFaithful
<1>6. CASE /\ server' = [server EXCEPT ![p].piece = t, ![p].playing = FALSE]
           /\ toClient' = SendLose(p)
  <2> DEFINE sent == [q \in Players |-> LoseMsgs(p, q)]
  <2>1. server' = [server EXCEPT ![p] = lost]
    BY <1>4, <1>6
  <2>2. ~lost.playing
    BY <1>4 DEF Servers
  <2> HIDE DEF lost
  <2>3. server'[p] = lost /\ \A q \in Players : q # p => server'[q] = server[q]
    BY <1>4, <2>1
  <2>4. ASSUME NEW q \in Players
        PROVE  /\ LoseMsgs(p, q) \in Seq(Msgs) /\ toClient'[q] = toClient[q] \o LoseMsgs(p, q)
               /\ Echoes(server[q], server'[q], LoseMsgs(p, q))
    <3>1. toClient'[q] = toClient[q] \o LoseMsgs(p, q)
      BY <1>6, SendLoseType
    <3>2. LoseMsgs(p, q) \in Seq(Msgs)
      BY MsgsType, AnswerType DEF LoseMsgs
    <3>3. CASE q = p
      BY <2>2, <2>3, <3>1, <3>2, <3>3, LoseInert DEF Echoes, Inert
    <3>4. CASE q # p
      BY <2>3, <3>1, <3>2, <3>4, LoseInert, EchoesNothing
    <3> QED
      BY <3>3, <3>4
  <2>5. \A q \in Players : /\ sent[q] \in Seq(Msgs) /\ toClient'[q] = toClient[q] \o sent[q]
                           /\ Echoes(server[q], server'[q], sent[q])
    BY <2>4
  <2> HIDE DEF sent
  <2> QED
    BY <1>1, <2>5, ServerFaithful
<1> QED
  BY <1>2, <1>5, <1>6 DEF t

LEMMA MoveFaithful ==
    ASSUME Typed, Orderly, AllFaithful, NEW p \in Players, server[p].playing,
           Reads(p, "move"), HandleMove(p, Head(toServer[p]))
    PROVE  AllFaithful' /\ Collapses
<1> DEFINE m == Head(toServer[p])
           g == server[p].grid
           fits == CanMoveOrPlace(g, server[p].piece, m.dx, m.dy)
           t == IF fits THEN Moved(server[p].piece, m.dx, m.dy) ELSE server[p].piece
           view == Picture(p, g, t)
           answer == [op |-> "move", x |-> t.x, y |-> t.y]
           new == [server[p] EXCEPT !.piece = t]
           sent == [ToOthers(p, view) EXCEPT ![p] = <<answer>>]
<1>1. /\ server' = [server EXCEPT ![p].piece = t] /\ toClient' = Answered(sent)
      /\ UNCHANGED client
  BY ReadsType DEF HandleMove
<1>2. m.dx \in Int /\ m.dy \in Int
  <2>1. m \in ToServerType /\ m.op = "move"
    BY ReadsType
  <2> HIDE DEF m
  <2> QED
    BY <2>1 DEF ToServerType
<1> HIDE DEF m
<1>3. server[p] \in Servers /\ server \in [Players -> Servers] /\ server[p].piece \in Pieces
  BY DEF Typed, Servers
<1>4. server[p].grid \in Grid /\ Tight(server[p].piece.shape)
  BY TightWhenRead
<1>5. t \in Pieces /\ t.shape = server[p].piece.shape
  <2>1. CASE fits
    <3>1. server[p].piece.x + m.dx \in Nat /\ server[p].piece.y + m.dy \in Nat
      BY <1>2, <1>3, <1>4, <2>1, FittingPlace
    <3> QED
      BY <1>2, <1>3, <2>1, <3>1, MovedType
  <2>2. CASE ~fits
    BY <1>3, <2>2
  <2> QED
    BY <2>1, <2>2
<1> HIDE DEF t, fits
<1>6. answer \in Msgs /\ view \in Msgs /\ Inert(view)
  <2>1. t.x \in Nat /\ t.y \in Nat
    BY <1>5 DEF Pieces, PieceType
  <2>2. Inert(view)
    BY DEF Inert, Picture
  <2> QED
    BY <1>4, <2>1, <2>2, AnswerType
<1>7. Echoes(server[p], new, <<answer>>)
  BY <1>3, <1>5, EchoesMove
<1>8. server' = [server EXCEPT ![p] = new]
  BY <1>1, <1>3
<1> HIDE DEF answer, view, new
<1>9. server'[p] = new /\ \A q \in Players : q # p => server'[q] = server[q]
  BY <1>3, <1>8
<1>10. sent[p] = <<answer>> /\ \A q \in Players : q # p => sent[q] = <<>> \/ sent[q] = <<view>>
  BY DEF ToOthers
<1> HIDE DEF sent
<1>11. \A q \in Players : sent[q] \in Seq(Msgs)
  BY <1>6, <1>10, MsgsType
<1>12. \A q \in Players : toClient'[q] = toClient[q] \o sent[q]
  BY <1>1, <1>11, AnsweredType
<1>13. ASSUME NEW q \in Players PROVE Echoes(server[q], server'[q], sent[q])
  <2>1. CASE q = p
    BY <1>7, <1>9, <1>10, <2>1
  <2>2. CASE q # p
    BY <1>6, <1>9, <1>10, <2>2, NoMsgs, OneInert, EchoesNothing
  <2> QED
    BY <2>1, <2>2
<1> QED
  BY <1>1, <1>11, <1>12, <1>13, ServerFaithful

LEMMA LockFaithful ==
    ASSUME Typed, Orderly, AllFaithful, NEW p \in Players, server[p].playing,
           Reads(p, "move"), Lock(p, Head(toServer[p]))
    PROVE  AllFaithful' /\ Collapses
<1>1. server[p].grid \in Grid /\ UNCHANGED client
  BY TightWhenRead, ReadsType
<1>2. \/ UNCHANGED <<server, toClient>>
      \/ \E sent \in [Players -> Seq(Msgs)] :
           /\ toClient' = Answered(sent)
           /\ server'[p] = Locked(p) /\ sent[p] = <<LockOf(p)>>
           /\ \A q \in Players : q # p => Aside(server[q], server'[q], sent[q])
  BY <1>1, LockCases
<1>3. CASE UNCHANGED <<server, toClient>>
  BY <1>1, <1>3, NoMsgs, EchoesNothing, SilentFaithful
<1>4. ASSUME NEW sent \in [Players -> Seq(Msgs)], toClient' = Answered(sent),
             server'[p] = Locked(p), sent[p] = <<LockOf(p)>>,
             \A q \in Players : q # p => Aside(server[q], server'[q], sent[q])
      PROVE  AllFaithful' /\ Collapses
  <2>1. \A q \in Players : sent[q] \in Seq(Msgs)
    BY <1>4
  <2>2. \A q \in Players : toClient'[q] = toClient[q] \o sent[q]
    BY <1>4, <2>1, AnsweredType
  <2>3. ASSUME NEW q \in Players PROVE Echoes(server[q], server'[q], sent[q])
    <3>1. CASE q = p
      BY <1>1, <1>4, <3>1, EchoesLock
    <3>2. CASE q # p
      <4>1. server[q] \in Servers
        BY DEF Typed
      <4> QED
        BY <1>4, <2>1, <3>2, <4>1, EchoesAside
    <3> QED
      BY <3>1, <3>2
  <2> QED
    BY <1>1, <2>1, <2>2, <2>3, ServerFaithful
<1> QED
  BY <1>2, <1>3, <1>4

LEMMA RotateFaithful ==
    ASSUME Typed, AllFaithful, NEW p \in Players, HandleRotate(p)
    PROVE  AllFaithful' /\ Collapses
<1> DEFINE m == Head(toServer[p])
           t == Turned(server[p].piece, m.clockwise)
           new == [server[p] EXCEPT !.piece = t]
           answer == [op |-> "rotate", clockwise |-> m.clockwise, x |-> t.x, y |-> t.y]
<1>1. /\ Reads(p, "rotate") /\ UNCHANGED client
      /\ \/ server' = [server EXCEPT ![p].piece = t] /\ toClient' = Answered(OnlyTo(p, <<answer>>))
         \/ UNCHANGED <<server, toClient>>
  BY ReadsType DEF HandleRotate
<1>2. m.clockwise \in BOOLEAN
  <2>1. m \in ToServerType /\ m.op = "rotate"
    BY <1>1, ReadsType
  <2> HIDE DEF m
  <2> QED
    BY <2>1 DEF ToServerType
<1> HIDE DEF m
<1>3. server[p] \in Servers /\ server \in [Players -> Servers] /\ server[p].piece \in Pieces
  BY DEF Typed, Servers
<1>4. t \in Pieces
  BY <1>2, <1>3, RotateType
<1>5. Echoes(server[p], new, <<answer>>)
  BY <1>2, <1>3, EchoesTurn
<1> HIDE DEF t
<1>6. answer \in Msgs
  BY <1>2, <1>4, AnswerType DEF Pieces, PieceType
<1>7. CASE server' = [server EXCEPT ![p].piece = t] /\ toClient' = Answered(OnlyTo(p, <<answer>>))
  <2>1. server' = [server EXCEPT ![p] = new]
    BY <1>3, <1>7
  <2> HIDE DEF new, answer
  <2>2. server'[p] = new /\ \A q \in Players : q # p => server'[q] = server[q]
    BY <1>3, <2>1
  <2> QED
    BY <1>1, <1>5, <1>6, <1>7, <2>2, OneFaithful
<1>8. CASE UNCHANGED <<server, toClient>>
  BY <1>1, <1>8, NoMsgs, EchoesNothing, SilentFaithful
<1> QED
  BY <1>1, <1>7, <1>8

\* A player that is out of the room is not looked at.
LEMMA LeaveFaithful ==
    ASSUME Typed, AllFaithful, UNCHANGED <<client, toClient>>,
           \A q \in Players : server'[q] = server[q] \/ ~server'[q].playing
    PROVE  AllFaithful' /\ Collapses
<1>1. ASSUME NEW q \in Players PROVE Echoes(server[q], server'[q], <<>>)
  <2>1. CASE server'[q] = server[q]
    BY <2>1, NoMsgs, EchoesNothing
  <2>2. CASE ~server'[q].playing
    BY <2>2 DEF Echoes
  <2> QED
    BY <2>1, <2>2
<1> QED
  BY <1>1, SilentFaithful

LEMMA InitFaithful == Init => AllFaithful
<1> SUFFICES ASSUME Init, NEW p \in Players PROVE Faithful(p)
  BY DEF AllFaithful
<1>1. client[p] \in Boards
  BY InitSound DEF Typed
<1>2. toClient[p] = <<>> /\ server[p].grid = NoGrid
  BY DEF Init
<1>3. Same(client[p], server[p])
  BY <1>2 DEF Init, Same
<1> QED
  BY <1>1, <1>2, <1>3, ReplayedNothing DEF Faithful

LEMMA StepFaithful == Typed /\ Orderly /\ AllFaithful /\ [Next]_vars => AllFaithful' /\ Collapses
<1> SUFFICES ASSUME Typed, Orderly, AllFaithful, [Next]_vars PROVE AllFaithful' /\ Collapses
  OBVIOUS
<1>1. CASE RoomExit
  <2>1. UNCHANGED <<client, toClient>> /\ \A q \in Players : ~server'[q].playing
    BY <1>1 DEF RoomExit
  <2> QED
    BY <2>1, LeaveFaithful
<1>2. ASSUME NEW p \in Players, Client(p) PROVE AllFaithful' /\ Collapses
  BY <1>2, ClientFaithful
<1>3. ASSUME NEW p \in Players, Serve(p) PROVE AllFaithful' /\ Collapses
  <2>1. CASE HandleMoveMsg(p)
    BY <2>1, MoveFaithful, LockFaithful DEF HandleMoveMsg
  <2>2. CASE ~server[p].playing /\ (Ignore(p, "request") \/ Ignore(p, "move"))
    <3>1. UNCHANGED <<client, toClient, server>>
      BY <2>2, ReadsType DEF Ignore
    <3> QED
      BY <3>1, LeaveFaithful
  <2>3. CASE HandleEnd(p)
    <3>1. UNCHANGED <<client, toClient>>
      BY <2>3, ReadsType DEF HandleEnd
    <3>2. server' = [server EXCEPT ![p] = Gone] /\ ~Gone.playing
      BY <2>3 DEF HandleEnd, Gone
    <3>3. \A q \in Players : server'[q] = server[q] \/ ~server'[q].playing
      BY <3>2 DEF Typed
    <3> QED
      BY <3>1, <3>3, LeaveFaithful
  <2>4. CASE Late(p)
    <3>1. UNCHANGED <<client, server>> /\ ~server[p].playing
      BY <2>4 DEF Late, Member, Typed, Servers
    <3>2. PICK m \in Msgs : /\ m.op = "rotate"
                            /\ toClient' = Answered(OnlyTo(p, <<m>>)) \/ UNCHANGED toClient
      BY <2>4, LateAnswers
    <3>3. Echoes(server[p], server'[p], <<m>>)
      BY <3>1, <3>2 DEF Echoes
    <3> QED
      BY <3>1, <3>2, <3>3, OneFaithful, LeaveFaithful
  <2> QED
    BY <1>3, <2>1, <2>2, <2>3, <2>4, StartFaithful, TetraminoFaithful, RotateFaithful
       DEF Serve
<1>4. CASE UNCHANGED vars
  BY <1>4, LeaveFaithful DEF vars
<1> QED
  BY <1>1, <1>2, <1>3, <1>4 DEF Next

\* Whatever the keys, the turns, the locks and the malus rows, and however late
\* the answers, a playing client that has replayed what is under way to it has
\* the board and the piece the server has: each answer says all of what the
\* server did, and the rows of a LOCK are those of the server's loop, in order
\* (processServerResponse against GameServer, clearFullRow).
THEOREM ClientsShowTheBoard == Spec => []Mirror
<1>1. Init => Typed /\ Orderly /\ AllFaithful
  BY InitSound, InitFaithful
<1>2. Typed /\ Orderly /\ AllFaithful /\ [Next]_vars => (Typed /\ Orderly /\ AllFaithful)'
  BY StepSound, StepFaithful
<1>3. AllFaithful => Mirror
  BY DEF AllFaithful, Faithful, Same, Mirror
<1> QED
  BY <1>1, <1>2, <1>3, PTL DEF Spec

\* Locking a piece clears every full row and only them, and the rows that stay
\* keep their order, on a board of any size (the loop of clearFullRow).
THEOREM FullRowsGo == Spec => RowsCollapse
<1>1. Init => Typed /\ Orderly /\ AllFaithful
  BY InitSound, InitFaithful
<1>2. Typed /\ Orderly /\ AllFaithful /\ [Next]_vars
        => (Typed /\ Orderly /\ AllFaithful)' /\ Collapses
  BY StepSound, StepFaithful
<1>3. Collapses => [\A p \in Players : Answers(p, "lock")
        => server'[p].grid = Collapsed(Stamp(server[p].grid, server[p].piece))]_vars
  BY DEF Collapses
<1> QED
  BY <1>1, <1>2, <1>3, PTL DEF Spec, RowsCollapse

-----------------------------------------------------------------------------
(* The falling piece fits. *)

FitsFor(p) == p \in falling => CanMoveOrPlace(server[p].grid, server[p].piece, 0, 0)

\* Where it may go it fits.
LEMMA FitsMoved ==
    ASSUME NEW g, NEW t \in Pieces, NEW dx \in Int, NEW dy \in Int,
           CanMoveOrPlace(g, t, dx, dy)
    PROVE  CanMoveOrPlace(g, Moved(t, dx, dy), 0, 0)
<1> DEFINE u == Moved(t, dx, dy)
<1>1. t.x \in Nat /\ t.y \in Nat /\ \A c \in t.shape.cells : c \in Nat \X Nat
  BY DEF Pieces, PieceType
<1>2. u.x = t.x + dx /\ u.y = t.y + dy /\ u.shape = t.shape
  BY DEF Moved, Pieces, PieceType
<1> HIDE DEF u
<1>3. ASSUME NEW c \in t.shape.cells
      PROVE  <<u.x + c[1] + 0, u.y + c[2] + 0>> = <<t.x + c[1] + dx, t.y + c[2] + dy>>
  BY <1>1, <1>2
<1>4. Cells(u, 0, 0) \subseteq Cells(t, dx, dy)
  BY <1>2, <1>3 DEF Cells
<1> QED
  BY <1>4 DEF CanMoveOrPlace, u

\* A step that leaves what is falling alone.
LEMMA StillFits ==
    ASSUME FallingFits, falling' \subseteq falling,
           \A q \in falling' : server'[q].grid = server[q].grid /\ server'[q].piece = server[q].piece
    PROVE  FallingFits'
BY DEF FallingFits

\* A step of the server in which one piece moves, turns or comes.
LEMMA OneFits ==
    ASSUME Typed, FallingFits, NEW p \in Players, NEW t,
           server' = [server EXCEPT ![p] = [@ EXCEPT !.piece = t]],
           falling' \subseteq falling \cup {p},
           CanMoveOrPlace(server[p].grid, t, 0, 0)
    PROVE  FallingFits'
<1> SUFFICES ASSUME NEW q \in falling'
             PROVE  CanMoveOrPlace(server'[q].grid, server'[q].piece, 0, 0)
  BY DEF FallingFits
<1>1. CASE q = p
  BY <1>1 DEF Typed, Servers
<1>2. CASE q # p
  <2>1. q \in falling /\ server'[q] = server[q]
    BY <1>2 DEF Typed
  <2> QED
    BY <2>1 DEF FallingFits
<1> QED
  BY <1>1, <1>2

LEMMA StepFits ==
    ASSUME Mode = "Endless"
    PROVE  Typed /\ Orderly /\ FallingFits /\ [Next]_vars => FallingFits'
<1> SUFFICES ASSUME Typed, Orderly, FallingFits, [Next]_vars PROVE FallingFits'
  OBVIOUS
<1>0. server \in [Players -> Servers] /\ falling \subseteq Players
  BY DEF Typed
<1>1. CASE RoomExit
  BY <1>1 DEF RoomExit, FallingFits
<1>2. ASSUME NEW p \in Players, Client(p) PROVE FallingFits'
  BY <1>2, StillFits DEF Client, Start, Gravity, Receive, Quit, Press
<1>3. ASSUME NEW p \in Players, HandleStart(p) PROVE FallingFits'
  <2>1. server[p].grid = NoGrid /\ server[p].piece = NoPiece
    BY <1>3, FreshWhenStarted DEF HandleStart
  <2>2. /\ falling' = falling
        /\ server'[p].piece = NoPiece /\ \A q \in Players : q # p => server'[q] = server[q]
    BY <1>0, <1>3 DEF HandleStart, Servers
  <2>3. \A g : CanMoveOrPlace(g, NoPiece, 0, 0)
    BY DEF NoPiece, ShapeOf, CanMoveOrPlace, Cells
  <2> QED
    BY <1>0, <2>2, <2>3 DEF FallingFits
<1>4. ASSUME NEW p \in Players, HandleTetramino(p) PROVE FallingFits'
  <2>1. PICK s \in Shapes :
          \/ /\ CanMoveOrPlace(server[p].grid, Spawned(s), 0, 0)
             /\ server' = [server EXCEPT ![p].piece = Spawned(s)]
             /\ falling' = falling \cup {p}
          \/ /\ server' = [server EXCEPT ![p].piece = Spawned(s), ![p].playing = FALSE]
             /\ falling' = falling \ {p}
    BY <1>4 DEF HandleTetramino
  <2> DEFINE t == Spawned(s)
  <2> HIDE DEF t
  <2>2. CASE /\ CanMoveOrPlace(server[p].grid, t, 0, 0)
             /\ server' = [server EXCEPT ![p].piece = t] /\ falling' = falling \cup {p}
    <3>1. server' = [server EXCEPT ![p] = [@ EXCEPT !.piece = t]]
      BY <2>2
    <3> QED
      BY <2>2, <3>1, OneFits
  <2>3. CASE /\ server' = [server EXCEPT ![p].piece = t, ![p].playing = FALSE]
             /\ falling' = falling \ {p}
    <3>1. \A q \in falling' : server'[q] = server[q]
      BY <1>0, <2>3
    <3> QED
      BY <2>3, <3>1, StillFits
  <2> QED
    BY <2>1, <2>2, <2>3 DEF t
<1>5. ASSUME NEW p \in Players, Reads(p, "move"), HandleMove(p, Head(toServer[p]))
      PROVE  FallingFits'
  <2> DEFINE m == Head(toServer[p])
             fits == CanMoveOrPlace(server[p].grid, server[p].piece, m.dx, m.dy)
  <2>1. m.dx \in Int /\ m.dy \in Int
    <3>1. m \in ToServerType /\ m.op = "move"
      BY <1>5, ReadsType
    <3> HIDE DEF m
    <3> QED
      BY <3>1 DEF ToServerType
  <2>2. /\ falling' = falling
        /\ fits => server' = [server EXCEPT ![p].piece = Moved(server[p].piece, m.dx, m.dy)]
        /\ ~fits => server' = [server EXCEPT ![p].piece = server[p].piece]
    BY <1>5 DEF HandleMove
  <2> HIDE DEF m
  <2>3. CASE fits
    <3> DEFINE t == Moved(server[p].piece, m.dx, m.dy)
    <3>1. CanMoveOrPlace(server[p].grid, t, 0, 0)
      BY <1>0, <2>1, <2>3, FitsMoved DEF Servers
    <3> HIDE DEF t
    <3>2. server' = [server EXCEPT ![p] = [@ EXCEPT !.piece = t]] /\ falling' \subseteq falling \cup {p}
      BY <2>2, <2>3 DEF t
    <3> QED
      BY <3>1, <3>2, OneFits
  <2>4. CASE ~fits
    <3>1. \A q \in Players : server'[q].grid = server[q].grid /\ server'[q].piece = server[q].piece
      BY <1>0, <2>2, <2>4 DEF Servers
    <3> QED
      BY <1>0, <2>2, <3>1, StillFits
  <2> QED
    BY <2>3, <2>4
<1>6. ASSUME NEW p \in Players, NEW m, Lock(p, m) PROVE FallingFits'
  <2>1. \A k : Targets(p, k) = {}
    BY DEF Targets
  <2> DEFINE g == ClearFullRow(Stamp(server[p].grid, server[p].piece)).grid
  <2>2. falling' = falling \ {p} /\ server' = [server EXCEPT ![p].grid = g]
    BY <1>6, <2>1 DEF Lock
  <2> HIDE DEF g
  <2>3. \A q \in falling' : server'[q] = server[q]
    BY <1>0, <2>2
  <2> QED
    BY <2>2, <2>3, StillFits
<1>7. ASSUME NEW p \in Players, HandleRotate(p) PROVE FallingFits'
  <2> DEFINE t == Turned(server[p].piece, Head(toServer[p]).clockwise)
  <2>1. /\ falling' = falling
        /\ \/ CheckRotation(server[p].grid, t) /\ server' = [server EXCEPT ![p].piece = t]
           \/ UNCHANGED server
    BY <1>7 DEF HandleRotate
  <2> HIDE DEF t
  <2>2. CASE CheckRotation(server[p].grid, t) /\ server' = [server EXCEPT ![p].piece = t]
    <3>1. /\ server' = [server EXCEPT ![p] = [@ EXCEPT !.piece = t]]
          /\ CanMoveOrPlace(server[p].grid, t, 0, 0)
      BY <2>2 DEF CheckRotation
    <3> QED
      BY <2>1, <3>1, OneFits
  <2> QED
    BY <2>1, <2>2, StillFits
<1>8. ASSUME NEW p \in Players, HandleEnd(p) PROVE FallingFits'
  <2>1. falling' = falling \ {p} /\ server' = [server EXCEPT ![p] = Gone]
    BY <1>8 DEF HandleEnd, Gone
  <2>2. \A q \in falling' : server'[q] = server[q]
    BY <1>0, <2>1
  <2> QED
    BY <2>1, <2>2, StillFits
<1>9. ASSUME NEW p \in Players, Serve(p) PROVE FallingFits'
  <2>1. CASE HandleMoveMsg(p)
    BY <1>5, <1>6, <2>1 DEF HandleMoveMsg
  <2>2. CASE Late(p) \/ (~server[p].playing /\ (Ignore(p, "request") \/ Ignore(p, "move")))
    BY <2>2, StillFits DEF Late, Ignore
  <2> QED
    BY <1>3, <1>4, <1>7, <1>8, <1>9, <2>1, <2>2 DEF Serve
<1>10. CASE UNCHANGED vars
  BY <1>10, StillFits DEF vars
<1> QED
  BY <1>1, <1>2, <1>9, <1>10 DEF Next

\* In the endless mode the falling piece never lies over a settled cell nor
\* outside the board: every piece that appears, moves or turns was tried against
\* the grid it is on (canMoveOrPlace, checkRotation).  In the other modes malus
\* rows push the settled cells up into the piece.
THEOREM TheFallingPieceFits ==
    ASSUME Mode = "Endless"
    PROVE  Spec => []FallingFits
<1>1. Init => Typed /\ Orderly /\ FallingFits
  BY InitSound DEF Init, FallingFits
<1>2. Typed /\ Orderly /\ FallingFits /\ [Next]_vars => (Typed /\ Orderly /\ FallingFits)'
  BY StepSound, StepFits
<1> QED
  BY <1>1, <1>2, PTL DEF Spec

=============================================================================
