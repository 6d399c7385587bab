----------------------------- MODULE Induction ------------------------------
(***************************************************************************)
(* Induction on the natural numbers, and what it says of functions defined *)
(* by recursion, without operators as parameters: properties are sets, and *)
(* the right-hand side of a recursive definition is a function as well.    *)
(***************************************************************************)
EXTENDS Integers, FiniteSets, FiniteSetTheorems, TLAPS

\* A set with 0 that adding one does not leave has every number.  Else, below
\* a gap, adding one would map its finitely many members one to one to those
\* among them that are not 0.
LEMMA Induction ==
    ASSUME NEW T, 0 \in T, \A n \in T \cap Nat : n + 1 \in T
    PROVE  Nat \subseteq T
<1> SUFFICES ASSUME NEW gap \in Nat, gap \notin T PROVE FALSE
  OBVIOUS
<1> DEFINE below == T \cap (0..gap)
           next == [n \in below |-> n + 1]
<1>1. IsFiniteSet(below) /\ 0 \in below
  <2>1. IsFiniteSet(0..gap)
    BY FS_Interval
  <2> QED
    BY <2>1, FS_Subset
<1>2. IsFiniteSet(below \ {0}) /\ Cardinality(below \ {0}) < Cardinality(below)
  <2>1. Cardinality(below \ {0}) = Cardinality(below) - 1 /\ IsFiniteSet(below \ {0})
    BY <1>1, FS_RemoveElement
  <2>2. Cardinality(below) \in Nat
    BY <1>1, FS_CardinalityType
  <2> QED
    BY <2>1, <2>2
<1>3. next \in [below -> below \ {0}] /\ \A x, y \in below : next[x] = next[y] => x = y
  OBVIOUS
<1>4. ASSUME NEW S, NEW U, NEW f \in [S -> U], IsFiniteSet(S), IsFiniteSet(U),
             Cardinality(U) < Cardinality(S)
      PROVE  \E x, y \in S : x # y /\ f[x] = f[y]
  BY <1>4, FS_PigeonHole, Zenon
<1>5. \E x, y \in below : x # y /\ next[x] = next[y]
  <2> HIDE DEF below, next
  <2> QED
    BY <1>1, <1>2, <1>3, <1>4
<1> QED
  BY <1>3, <1>5

\* F is the right-hand side of a recursive definition f = F[f] of a function
\* from D to V: at x it looks at f only where the rank, which is bounded, is
\* smaller than at x.
Recurses(D, V, F, rank, bound) ==
    /\ F \in [[D -> V] -> [D -> V]] /\ [D -> V] # {}
    /\ rank \in [D -> Nat] /\ bound \in Nat /\ \A x \in D : rank[x] < bound
    /\ \A f, g \in [D -> V] : \A x \in D :
         (\A y \in D : rank[y] < rank[x] => f[y] = g[y]) => F[f][x] = F[g][x]

\* Such a definition has a solution.
LEMMA Recursion ==
    ASSUME NEW D, NEW V, NEW F, NEW rank, NEW bound, Recurses(D, V, F, rank, bound)
    PROVE  \E f \in [D -> V] : f = F[f]
<1> USE DEF Recurses
<1> DEFINE Solves(f, n) == \A x \in D : rank[x] < n => F[f][x] = f[x]
           T == {n \in Nat : \E f \in [D -> V] : Solves(f, n)}
<1>1. 0 \in T
  OBVIOUS
<1>2. ASSUME NEW n \in T \cap Nat PROVE n + 1 \in T
  <2>1. PICK f \in [D -> V] : Solves(f, n)
    OBVIOUS
  <2>2. F[f] \in [D -> V]
    OBVIOUS
  <2>3. ASSUME NEW x \in D, rank[x] < n + 1 PROVE F[F[f]][x] = F[f][x]
    <3>1. \A y \in D : rank[y] < rank[x] => F[f][y] = f[y]
      BY <2>1, <2>3
    <3> QED
      BY <2>2, <3>1
  <2> QED
    BY <2>2, <2>3
<1>3. bound \in T
  <2> HIDE DEF T
  <2> QED
    BY <1>1, <1>2, Induction
<1>4. PICK f \in [D -> V] : Solves(f, bound)
  BY <1>3
<1>5. F[f] \in [D -> V] /\ \A x \in D : F[f][x] = f[x]
  BY <1>4
<1> QED
  BY <1>5

\* Induction up to a bound.
LEMMA InductionUpTo ==
    ASSUME NEW N \in Nat, NEW T, 0 \in T, \A n \in 0..N - 1 : n \in T => n + 1 \in T
    PROVE  0..N \subseteq T
<1> DEFINE S == {n \in Nat : n <= N => n \in T}
<1>1. 0 \in S /\ \A n \in S \cap Nat : n + 1 \in S
  OBVIOUS
<1>2. Nat \subseteq S
  <2> HIDE DEF S
  <2> QED
    BY <1>1, Induction
<1> QED
  BY <1>2

\* A loop of N passes over values in V, each pass being told its number, and
\* the values on its way.
IsLoop(N, V, first, pass) ==
    N \in Nat /\ first \in V /\ pass \in [(1..N) \X V -> V]
IsTrace(f, N, first, pass) ==
    f = [n \in 0..N |-> IF n = 0 THEN first ELSE pass[<<n, f[n - 1]>>]]

LEMMA Iteration ==
    ASSUME NEW N, NEW V, NEW first, NEW pass, IsLoop(N, V, first, pass)
    PROVE  \E f \in [0..N -> V] : IsTrace(f, N, first, pass)
<1> USE DEF IsLoop, IsTrace
<1> DEFINE D == 0..N
           F == [f \in [D -> V] |->
                   [n \in D |-> IF n = 0 THEN first ELSE pass[<<n, f[n - 1]>>]]]
           rank == [n \in D |-> n]
<1>1. F \in [[D -> V] -> [D -> V]]
  <2>1. ASSUME NEW f \in [D -> V], NEW n \in D, n # 0 PROVE pass[<<n, f[n - 1]>>] \in V
    BY <2>1
  <2> QED
    BY <2>1
<1>2. [n \in D |-> first] \in [D -> V]
  OBVIOUS
<1>3. rank \in [D -> Nat] /\ N + 1 \in Nat /\ \A n \in D : rank[n] < N + 1
  OBVIOUS
<1>4. ASSUME NEW f \in [D -> V], NEW g \in [D -> V], NEW n \in D,
             \A m \in D : rank[m] < rank[n] => f[m] = g[m]
      PROVE  F[f][n] = F[g][n]
  <2>1. CASE n = 0
    BY <2>1
  <2>2. CASE n # 0
    <3>1. n - 1 \in D /\ rank[n - 1] < rank[n]
      BY <2>2
    <3> QED
      BY <1>4, <2>2, <3>1
  <2> QED
    BY <2>1, <2>2
<1>5. \A f, g \in [D -> V] : \A n \in D :
        (\A m \in D : rank[m] < rank[n] => f[m] = g[m]) => F[f][n] = F[g][n]
  BY <1>4
<1>6. Recurses(D, V, F, rank, N + 1)
  <2> HIDE DEF D, F, rank
  <2> QED
    BY <1>1, <1>2, <1>3, <1>5 DEF Recurses
<1>7. \E f \in [D -> V] : f = F[f]
  <2> HIDE DEF D, F, rank
  <2> QED
    BY <1>6, Recursion
<1> QED
  BY <1>7
=============================================================================
