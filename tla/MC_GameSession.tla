--------------------------- MODULE MC_GameSession ---------------------------
(* Instances of GameSession for TLC: small boards and pieces to match.      *)
EXTENDS GameSession

Cell == ShapeOf(1, 1, {<<0, 0>>})
Domino == ShapeOf(1, 2, {<<0, 0>>, <<0, 1>>})
Corner == ShapeOf(2, 2, {<<0, 0>>, <<1, 0>>, <<1, 1>>})
Square == ShapeOf(2, 2, {<<0, 0>>, <<0, 1>>, <<1, 0>>, <<1, 1>>})

SoloShapes == {Domino, Corner}
DuelShapes == {Domino, Square}

AllKeys == {"q", "d", "s", "z", "e"}
=============================================================================
