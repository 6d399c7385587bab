---------------------------- MODULE Friendship ----------------------------
(* What the friends system promises, whatever its messages and tables do: two *)
(* people become friends both at once, in one step, and only while a request  *)
(* of one of them is open; nobody is asked by a friend; and a friendship ends *)
(* for both at once.  A request stays open until everybody forgot it, the      *)
(* table, the menus that show it and the answers under way.                    *)
CONSTANT People

VARIABLES
    asked,   \* open requests: <<who asks, who is asked>>
    friends  \* unordered pairs of friends

vars == <<asked, friends>>

Init == asked = {} /\ friends = {}

\* a asks b, once and not as a friend.
Ask(a, b) ==
    /\ a # b /\ {a, b} \notin friends
    /\ asked' = asked \cup {<<a, b>>}
    /\ UNCHANGED friends

\* b agrees to a request of a; any open request may be forgotten by that.
Agree(a, b) ==
    /\ <<a, b>> \in asked /\ {a, b} \notin friends
    /\ friends' = friends \cup {{a, b}}
    /\ asked' \subseteq asked

Part(a, b) == friends' = friends \ {{a, b}} /\ asked' \subseteq asked

Forget == asked' \subseteq asked /\ UNCHANGED friends

Next ==
    \/ \E a, b \in People : Ask(a, b) \/ Agree(a, b) \/ Part(a, b)
    \/ Forget

Spec == Init /\ [][Next]_vars
=============================================================================
