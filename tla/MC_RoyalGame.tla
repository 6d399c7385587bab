--------------------------- MODULE MC_RoyalGame ---------------------------
(* Instances of RoyalGame for TLC. *)
EXTENDS RoyalGame, TLC
CONSTANTS p1, p2

\* One player steers, asks for a bonus, with energy or without, and clears two
\* lines; the other clears one and attacks.
Uneven ==
    p1 :> [lines |-> 2, asks |-> {"bonus"}, maluses |-> {}, steers |-> TRUE, rash |-> TRUE]
 @@ p2 :> [lines |-> 1, asks |-> {"malus"}, maluses |-> Maluses, steers |-> FALSE, rash |-> FALSE]
===========================================================================
