------------------------------ MODULE MC_Chat ------------------------------
(* Instances of Chat for TLC. *)
EXTENDS Chat, TLC
CONSTANTS p1, p2

Couple == {<<p1, p2>>, <<p2, p1>>}
OneMessage == <<[from |-> p1, to |-> p2, n |-> 1, text |-> "hello"]>>
=============================================================================
