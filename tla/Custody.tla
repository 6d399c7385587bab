------------------------------ MODULE Custody ------------------------------
(* What the server promises about a client's socket, whatever its threads,    *)
(* select sets and room records do: one thread has it at a time, the main     *)
(* thread or a room's.  It passes to a room when its client opens or enters   *)
(* one that is open, and back when its client leaves, the lobby is dissolved, *)
(* or the room closes; a room is gone only after it gave back everybody.  No  *)
(* thread has it after a refused JOIN.  A client astray ends the promise.     *)
CONSTANTS Sockets, Rooms

VARIABLES
    atMain,    \* the sockets the main thread has
    held,      \* [Rooms -> SUBSET Sockets]: those a room has
    forgotten, \* those refused by a full room, which nobody reads any more
    stage,     \* [Rooms -> {"none", "open", "closing", "gone"}]
    broken     \* a client went astray: it may have two places by now

vars == <<atMain, held, forgotten, stage, broken>>

Init ==
    /\ atMain = {} /\ forgotten = {} /\ ~broken
    /\ held = [r \in Rooms |-> {}]
    /\ stage = [r \in Rooms |-> "none"]

Accept(s) ==
    /\ s \notin atMain \cup forgotten /\ \A r \in Rooms : s \notin held[r]
    /\ atMain' = atMain \cup {s}
    /\ UNCHANGED <<held, forgotten, stage>>

Close(s) ==
    /\ s \in atMain
    /\ atMain' = atMain \ {s}
    /\ UNCHANGED <<held, forgotten, stage>>

Refuse(s) ==
    /\ s \in atMain
    /\ atMain' = atMain \ {s}
    /\ forgotten' = forgotten \cup {s}
    /\ UNCHANGED <<held, stage>>

\* Nobody else can be in a room that a client opens.
Open(s, r) ==
    /\ s \in atMain /\ stage[r] = "none"
    /\ atMain' = atMain \ {s}
    /\ held' = [held EXCEPT ![r] = {s}]
    /\ stage' = [stage EXCEPT ![r] = "open"]
    /\ UNCHANGED forgotten

Enter(s, r) ==
    /\ s \in atMain /\ stage[r] = "open"
    /\ atMain' = atMain \ {s}
    /\ held' = [held EXCEPT ![r] = @ \cup {s}]
    /\ UNCHANGED <<forgotten, stage>>

\* Room r, open or closing, gives back the sockets S, and the one of client s
\* is closed if its peer hung up; the room may close after that.
GiveBack(r, S, s) ==
    /\ stage[r] \in {"open", "closing"}
    /\ held' = [held EXCEPT ![r] = @ \ S]
    /\ atMain' \in {atMain \cup S, (atMain \cup S) \ {s}}
    /\ stage' \in {stage, [stage EXCEPT ![r] = "closing"]}
    /\ UNCHANGED forgotten

Leave(s, r) == s \in held[r] /\ GiveBack(r, {s}, s)

\* The client that dissolves a lobby need not be in it any more.
Dissolve(s, r) == s \in held[r] \cup atMain /\ GiveBack(r, held[r], s)

Stop(r) ==
    /\ stage[r] = "open"
    /\ stage' = [stage EXCEPT ![r] = "closing"]
    /\ UNCHANGED <<atMain, held, forgotten>>

Finish(r) ==
    /\ stage[r] = "closing" /\ held[r] = {}
    /\ stage' = [stage EXCEPT ![r] = "gone"]
    /\ UNCHANGED <<atMain, held, forgotten>>

Move ==
    \/ \E s \in Sockets : Accept(s) \/ Close(s) \/ Refuse(s)
    \/ \E s \in Sockets, r \in Rooms : Open(s, r) \/ Enter(s, r) \/ Leave(s, r) \/ Dissolve(s, r)
    \/ \E r \in Rooms : Stop(r) \/ Finish(r)

Next == (~broken /\ ~broken' /\ Move) \/ broken'

Spec == Init /\ [][Next]_vars
=============================================================================
