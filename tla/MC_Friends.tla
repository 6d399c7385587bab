---------------------------- MODULE MC_Friends ----------------------------
(* An instance of Friends for TLC: the handlers touch the rows of two people. *)
EXTENDS Friends, TLC
=============================================================================
