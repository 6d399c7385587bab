-------------------------- MODULE MC_WaitingRoom --------------------------
(* Instances of WaitingRoom for TLC. *)
EXTENDS WaitingRoom, TLC
CONSTANTS lea, ann, bob

Offer(g, s) == "gamer" :> g @@ "spectator" :> s
Has(k, o) == [keys |-> k, offers |-> o]

\* Everybody has some keys; a guest goes in and out often; the leader comes back.
AllPlay == lea :> Has(2, Offer(0, 0)) @@ ann :> Has(3, Offer(1, 0)) @@ bob :> Has(2, Offer(0, 1))
InAndOut == lea :> Has(1, Offer(0, 0)) @@ ann :> Has(8, Offer(3, 0)) @@ bob :> Has(0, Offer(0, 0))
Returns == lea :> Has(4, Offer(0, 0)) @@ ann :> Has(2, Offer(1, 0)) @@ bob :> Has(0, Offer(0, 0))
ThreeBudgets == {AllPlay, InAndOut, Returns}
Restless ==
    {lea :> Has(1, Offer(0, 0)) @@ ann :> Has(6, Offer(1, 0)) @@ bob :> Has(0, Offer(0, 1))}
===========================================================================
