-------------------------- MODULE RoyalGame_proofs --------------------------
(***************************************************************************)
(* The two counts of energy of a Tetris Royal game, for any number of      *)
(* players, any choice of maluses and any number of lines: they differ by   *)
(* what is under way and by nothing else, and who waits for what it paid    *)
(* for will be answered.                                                    *)
(***************************************************************************)
EXTENDS RoyalGame, TLAPS, FiniteSetTheorems, FunctionTheorems

-----------------------------------------------------------------------------
(* Counting the messages of a stream.                                        *)

Places(s, S) == {i \in DOMAIN s : s[i] \in S}
Count(s, S) == Cardinality(Places(s, S))

LEMMA CountType ==
    ASSUME NEW M, NEW s \in Seq(M), NEW S
    PROVE  /\ IsFiniteSet(Places(s, S)) /\ Count(s, S) \in Nat
           /\ Count(s, S) > 0 <=> \E i \in DOMAIN s : s[i] \in S
           /\ Count(<<>>, S) = 0
<1>1. Len(s) \in Nat /\ DOMAIN s = 1..Len(s)
  OBVIOUS
<1>2. IsFiniteSet(1..Len(s))
  BY <1>1, FS_Interval
<1>3. IsFiniteSet(Places(s, S))
  BY <1>1, <1>2, FS_Subset DEF Places
<1>4. Count(s, S) \in Nat /\ (Count(s, S) = 0 <=> Places(s, S) = {})
  BY <1>3, FS_CardinalityType, FS_EmptySet DEF Count
<1>5. Places(<<>>, S) = {} /\ Count(<<>>, S) = 0
  BY FS_EmptySet DEF Places, Count
<1>6. Places(s, S) = {} <=> ~\E i \in DOMAIN s : s[i] \in S
  BY DEF Places
<1> QED
  BY <1>3, <1>4, <1>5, <1>6

LEMMA CountAppend ==
    ASSUME NEW M, NEW s \in Seq(M), NEW m \in M, NEW S
    PROVE  Count(Append(s, m), S) = Count(s, S) + (IF m \in S THEN 1 ELSE 0)
<1> DEFINE t == Append(s, m)
<1>1. /\ Len(s) \in Nat /\ DOMAIN s = 1..Len(s)
      /\ DOMAIN t = 1..Len(s) + 1 /\ t[Len(s) + 1] = m
      /\ \A i \in 1..Len(s) : t[i] = s[i]
  OBVIOUS
<1>2. IsFiniteSet(Places(s, S)) /\ Count(s, S) \in Nat
  BY CountType
<1>3. Len(s) + 1 \notin Places(s, S)
  BY <1>1 DEF Places
<1> HIDE DEF t
<1>4. CASE m \in S
  <2>1. Places(t, S) = Places(s, S) \cup {Len(s) + 1}
    BY <1>1, <1>4 DEF Places
  <2>2. Cardinality(Places(t, S)) = Cardinality(Places(s, S)) + 1
    BY <2>1, <1>2, <1>3, FS_AddElement
  <2> QED
    BY <2>2, <1>4 DEF Count, t
<1>5. CASE m \notin S
  <2>1. Places(t, S) = Places(s, S)
    BY <1>1, <1>5 DEF Places
  <2> QED
    BY <2>1, <1>2, <1>5 DEF Count, t
<1> QED
  BY <1>4, <1>5

LEMMA CountHead ==
    ASSUME NEW M, NEW s \in Seq(M), s # <<>>, NEW S
    PROVE  Count(s, S) = Count(Tail(s), S) + (IF Head(s) \in S THEN 1 ELSE 0)
<1> DEFINE t == Tail(s)
           After == {i \in Places(s, S) : i # 1}
           Back == [i \in After |-> i - 1]
<1>1. /\ Len(s) \in Nat /\ Len(s) >= 1 /\ DOMAIN s = 1..Len(s)
      /\ t \in Seq(M) /\ DOMAIN t = 1..Len(s) - 1
      /\ \A i \in 1..Len(s) - 1 : t[i] = s[i + 1]
      /\ Head(s) = s[1]
  OBVIOUS
<1> HIDE DEF t
<1>2. IsFiniteSet(Places(s, S)) /\ IsFiniteSet(Places(t, S)) /\ Count(t, S) \in Nat
  BY <1>1, CountType
<1>3. IsFiniteSet(After)
  BY <1>2, FS_Subset
<1>4. \A i \in After : i \in 2..Len(s) /\ s[i] \in S /\ t[i - 1] = s[i] /\ i - 1 \in 1..Len(s) - 1
  BY <1>1 DEF Places
<1>5. Back \in [After -> Places(t, S)]
  BY <1>1, <1>4 DEF Places
<1>6. \A i, j \in After : Back[i] = Back[j] => i = j
  BY <1>4
<1>7. ASSUME NEW k \in Places(t, S) PROVE \E i \in After : Back[i] = k
  <2>1. k \in 1..Len(s) - 1 /\ t[k] \in S /\ k + 1 \in 2..Len(s) /\ s[k + 1] \in S
    BY <1>1 DEF Places
  <2>2. k + 1 \in After
    BY <2>1, <1>1 DEF Places
  <2>3. Back[k + 1] = k
    BY <2>1, <2>2
  <2> QED
    BY <2>2, <2>3
<1>8. Back \in Bijection(After, Places(t, S))
  BY <1>5, <1>6, <1>7, Fun_IsBij
<1>9. Cardinality(After) = Count(t, S)
  BY <1>2, <1>3, <1>8, FS_Bijection DEF ExistsBijection, Count
<1>10. CASE Head(s) \in S
  <2>1. Places(s, S) = After \cup {1} /\ 1 \notin After
    BY <1>1, <1>10 DEF Places
  <2> HIDE DEF After
  <2>2. Cardinality(After \cup {1}) = Cardinality(After) + 1
    BY <2>1, <1>3, FS_AddElement
  <2> QED
    BY <2>1, <2>2, <1>9, <1>10 DEF Count, t
<1>11. CASE Head(s) \notin S
  <2>1. Places(s, S) = After
    BY <1>1, <1>11 DEF Places
  <2> HIDE DEF After
  <2> QED
    BY <2>1, <1>9, <1>2, <1>11 DEF Count, t
<1> QED
  BY <1>10, <1>11

-----------------------------------------------------------------------------
(* What travels on a connection.                                             *)

ServerMessages ==
         [type : {"rotate", "request", "end", "bonus"}]
    \cup [type : {"move"}, dx : {-1, 0, 1}]
    \cup [type : {"ask"}, kind : {"malus", "bonus"}, charged : BOOLEAN]
    \cup [type : {"malus"}, malus : Maluses, target : Players \cup {-1}]

ClientMessages ==
         [type : {"lock"}, lines : 0..4]
    \cup [type : {"malus"}, malus : Maluses]
    \cup [type : {"authorisation"}, kind : {"malus", "bonus"}]
    \cup [type : {"verdict"}]

Streams ==
    /\ toServer \in [Players -> Seq(ServerMessages)]
    /\ toClient \in [Players -> Seq(ClientMessages)]

Typed == TypeOK /\ Streams

\* Appending to the streams of some players.
LEMMA TellsType ==
    ASSUME Typed, NEW to, NEW m \in ClientMessages, Tells(to, m)
    PROVE  /\ toClient' \in [Players -> Seq(ClientMessages)]
           /\ \A q \in Players : toClient'[q] = IF q \in to /\ client[q].stage # "over"
                                                THEN Append(toClient[q], m) ELSE toClient[q]
BY DEF Typed, Streams, Tells

LEMMA SentType ==
    ASSUME Typed, NEW p \in Players, NEW m \in ServerMessages, Sent(p, m)
    PROVE  /\ toServer' \in [Players -> Seq(ServerMessages)]
           /\ \A q \in Players : toServer'[q] = IF q = p THEN Append(toServer[q], m) ELSE toServer[q]
BY DEF Typed, Streams, Sent

LEMMA TakesType ==
    ASSUME Typed, NEW p \in Players, NEW type, Takes(p, type)
    PROVE  /\ toServer' \in [Players -> Seq(ServerMessages)]
           /\ toServer[p] # <<>> /\ Head(toServer[p]) \in ServerMessages
           /\ Head(toServer[p]).type = type
           /\ \A q \in Players : toServer'[q] = IF q = p THEN Tail(toServer[q]) ELSE toServer[q]
BY DEF Typed, Streams, Takes

\* What one client reads.
LEMMA ReceiveType ==
    ASSUME Typed, NEW p \in Players, Receive(p)
    PROVE  /\ Streams'
           /\ Head(toClient[p]) \in ClientMessages /\ toClient[p] # <<>>
           /\ \A q \in Players \ {p} : toClient'[q] = toClient[q] /\ toServer'[q] = toServer[q]
           /\ toClient'[p] = IF Head(toClient[p]).type = "verdict" THEN <<>> ELSE Tail(toClient[p])
           /\ \/ toServer'[p] = toServer[p]
              \/ toServer'[p] = Append(toServer[p], Says("request"))
              \/ toServer'[p] = Append(toServer[p], Says("end"))
<1> DEFINE m == Head(toClient[p])
<1>1. toClient[p] \in Seq(ClientMessages) /\ toServer[p] \in Seq(ServerMessages)
  BY DEF Typed, Streams
<1>2. toClient[p] # <<>> /\ m \in ClientMessages
  BY <1>1 DEF Receive
<1>3. \A q \in Players \ {p} : toClient'[q] = toClient[q] /\ toServer'[q] = toServer[q]
  BY DEF Receive, Typed, Streams
<1>4. toClient'[p] = IF m.type = "verdict" THEN <<>> ELSE Tail(toClient[p])
  BY DEF Receive, Typed, Streams
<1>5. toServer'[p] = toServer[p] \o (CASE m.type = "lock" -> <<Says("request")>>
                                      [] m.type = "verdict" -> <<Says("end")>>
                                      [] OTHER -> <<>>)
  BY DEF Receive, Typed, Streams
<1>6. Says("request") \in ServerMessages /\ Says("end") \in ServerMessages
  BY DEF Says, ServerMessages
<1>7. /\ toServer[p] \o <<Says("request")>> = Append(toServer[p], Says("request"))
      /\ toServer[p] \o <<Says("end")>> = Append(toServer[p], Says("end"))
      /\ toServer[p] \o <<>> = toServer[p]
  BY <1>1, <1>6
<1>8. \/ toServer'[p] = toServer[p]
      \/ toServer'[p] = Append(toServer[p], Says("request"))
      \/ toServer'[p] = Append(toServer[p], Says("end"))
  BY <1>5, <1>7
<1>9. toServer'[p] \in Seq(ServerMessages)
  <2>1. /\ Append(toServer[p], Says("request")) \in Seq(ServerMessages)
        /\ Append(toServer[p], Says("end")) \in Seq(ServerMessages)
    BY <1>1, <1>6
  <2> QED
    BY <1>1, <1>8, <2>1
<1>10. toClient'[p] \in Seq(ClientMessages)
  BY <1>1, <1>2, <1>4
<1>11. DOMAIN toServer' = Players /\ toServer' = [q \in Players |-> toServer'[q]]
  BY DEF Receive, Typed, Streams
<1>12. DOMAIN toClient' = Players /\ toClient' = [q \in Players |-> toClient'[q]]
  BY DEF Receive, Typed, Streams
<1>13. \A q \in Players : toServer'[q] \in Seq(ServerMessages) /\ toClient'[q] \in Seq(ClientMessages)
  BY <1>3, <1>9, <1>10 DEF Typed, Streams
<1>14. Streams'
  BY <1>11, <1>12, <1>13 DEF Streams
<1> QED
  BY <1>2, <1>3, <1>4, <1>8, <1>14

-----------------------------------------------------------------------------
(* Types.                                                                    *)

LEMMA MessagesSent ==
    /\ \A kind \in {"malus", "bonus"}, b \in BOOLEAN :
         [type |-> "ask", kind |-> kind, charged |-> b] \in ServerMessages
    /\ \A type \in {"rotate", "request", "end", "bonus"} : Says(type) \in ServerMessages
    /\ \A dx \in {-1, 0, 1} : [type |-> "move", dx |-> dx] \in ServerMessages
    /\ \A malus \in Maluses, target \in Players \cup {-1} :
         [type |-> "malus", malus |-> malus, target |-> target] \in ServerMessages
    /\ \A lines \in 0..4 : [type |-> "lock", lines |-> lines] \in ClientMessages
    /\ \A malus \in Maluses : [type |-> "malus", malus |-> malus] \in ClientMessages
    /\ \A kind \in {"malus", "bonus"} : [type |-> "authorisation", kind |-> kind] \in ClientMessages
    /\ Says("verdict") \in ClientMessages
BY DEF ServerMessages, ClientMessages, Says

\* What is known of a message from its type.
LEMMA MessagesRead ==
    /\ \A m \in ServerMessages :
         /\ m.type \in {"move", "rotate", "request", "end", "ask", "malus", "bonus"}
         /\ m.type = "move" => m.dx \in {-1, 0, 1}
         /\ m.type = "ask" => m.kind \in {"malus", "bonus"} /\ m.charged \in BOOLEAN
         /\ m.type = "malus" => m.malus \in Maluses
    /\ \A m \in ClientMessages :
         /\ m.type \in {"lock", "malus", "authorisation", "verdict"}
         /\ m.type = "lock" => m.lines \in 0..4
         /\ m.type = "malus" => m.malus \in Maluses
         /\ m.type = "authorisation" => m.kind \in {"malus", "bonus"}
BY DEF ServerMessages, ClientMessages

Clients == [stage : {"playing", "malus", "bonus", "over"}, blocking : BOOLEAN,
            standing : BOOLEAN, energy : Nat, wait : BOOLEAN, blocked : BOOLEAN, invCMDCount : 0..3, speedUp : BOOLEAN,
            blackScreen : BOOLEAN, activeMalus : SUBSET Maluses]

LEMMA Rests == Nobody \in Clients /\ Over \in Clients
<1>1. Nobody \in Clients
  <2>1. {} \in SUBSET Maluses /\ 0 \in Nat /\ 0 \in 0..3
    OBVIOUS
  <2> QED
    BY <2>1 DEF Nobody, Clients
<1>2. Over \in Clients
  BY <1>1 DEF Over, Clients
<1> QED
  BY <1>1, <1>2

LEMMA LockedType ==
    ASSUME NEW c \in Clients, NEW lines \in 0..4
    PROVE  Locked(c, lines) \in Clients
<1> DEFINE count == IF c.invCMDCount > 0 THEN c.invCMDCount - 1 ELSE 0
           names == c.activeMalus \ ((IF c.blocked THEN {"blocked"} ELSE {})
                                    \cup (IF c.invCMDCount = 1 THEN {"inverted"} ELSE {}))
           sum == c.energy + lines
<1>1. count \in 0..3
  BY DEF Clients
<1>2. names \in SUBSET Maluses
  BY DEF Clients
<1>3. sum \in Nat
  BY DEF Clients
<1>4. Locked(c, lines) = [c EXCEPT !.blocked = FALSE, !.invCMDCount = count,
                                   !.activeMalus = names, !.energy = sum]
  BY DEF Locked
<1> HIDE DEF count, names, sum
<1> QED
  BY <1>1, <1>2, <1>3, <1>4 DEF Clients

LEMMA AppliedType ==
    ASSUME NEW c \in Clients, NEW malus \in Maluses
    PROVE  Applied(c, malus) \in Clients
<1> DEFINE blocks == c.blocked \/ malus = "blocked"
           count == IF malus = "inverted" THEN 3 ELSE c.invCMDCount
           speeds == c.speedUp \/ malus = "fast"
           darkens == c.blackScreen \/ malus = "dark"
           names == c.activeMalus \cup {malus}
<1>1. blocks \in BOOLEAN /\ speeds \in BOOLEAN /\ darkens \in BOOLEAN
  OBVIOUS
<1>2. count \in 0..3 /\ names \in SUBSET Maluses
  BY DEF Clients
<1>3. Applied(c, malus) = [c EXCEPT !.blocked = blocks, !.invCMDCount = count,
                                    !.speedUp = speeds, !.blackScreen = darkens,
                                    !.activeMalus = names]
  BY DEF Applied
<1> HIDE DEF blocks, count, speeds, darkens, names
<1> QED
  BY <1>1, <1>2, <1>3 DEF Clients

\* What one client does, typed.
LEMMA PlaysType ==
    ASSUME Typed, NEW p \in Players, Plays(p)
    PROVE  Typed'
<1> USE DEF serverVars
<1>1. ASSUME NEW ticks \in BOOLEAN, NEW lights \in BOOLEAN, EndPass(p, ticks, lights)
      PROVE  Typed'
  <2>1. PICK darkens \in BOOLEAN : darkens <=> client[p].blackScreen /\ ~lights
    OBVIOUS
  <2>2. PICK names \in SUBSET Maluses :
              names = IF lights THEN client[p].activeMalus \ {"dark"} ELSE client[p].activeMalus
    BY DEF Typed, TypeOK
  <2> DEFINE d == [client[p] EXCEPT !.standing = client[p].blocking,
                                    !.blackScreen = client[p].blackScreen /\ ~lights,
                                    !.activeMalus = names]
  <2>3. client' = [client EXCEPT ![p] = d]
    BY <1>1, <2>2 DEF EndPass
  <2>4. d \in Clients
    BY DEF Typed, TypeOK, Clients
  <2> HIDE DEF d
  <2>5. client' \in [Players -> Clients]
    BY <2>3, <2>4 DEF Typed, TypeOK, Clients
  <2>6. toServer' \in [Players -> Seq(ServerMessages)]
    <3>1. CASE ticks
      BY <1>1, <3>1, SentType, MessagesSent DEF EndPass
    <3>2. CASE ~ticks
      BY <1>1, <3>2 DEF EndPass, Typed, Streams
    <3> QED
      BY <3>1, <3>2
  <2>7. UNCHANGED <<serverVars, toClient, bold>>
    BY <1>1 DEF EndPass
  <2> QED
    BY <2>5, <2>6, <2>7 DEF Typed, TypeOK, Streams, Clients
<1>2. CASE Quit(p)
  <2>1. toClient' = [toClient EXCEPT ![p] = <<>>]
    BY <1>2 DEF Quit
  <2>2. toClient' \in [Players -> Seq(ClientMessages)]
    BY <2>1 DEF Typed, Streams
  <2>3. toServer' \in [Players -> Seq(ServerMessages)]
    BY <1>2, SentType, MessagesSent DEF Quit
  <2>4. client' \in [Players -> Clients]
    BY <1>2, Rests DEF Quit, Typed, TypeOK, Clients
  <2> QED
    BY <1>2, <2>2, <2>3, <2>4 DEF Quit, Typed, TypeOK, Streams, Clients
<1>3. CASE Receive(p)
  <2> DEFINE m == Head(toClient[p])
             c == client[p]
             d == CASE m.type = "lock" -> Locked(c, m.lines)
                    [] m.type = "malus" -> Applied(c, m.malus)
                    [] m.type = "authorisation" -> [c EXCEPT !.stage = m.kind, !.blocking = TRUE]
                    [] m.type = "verdict" -> Over
  <2>1. c \in Clients /\ m \in ClientMessages /\ Streams' /\ UNCHANGED <<serverVars, bold>>
    BY <1>3, ReceiveType DEF Typed, TypeOK, Clients, Receive
  <2>2. client' = [client EXCEPT ![p] = d]
    BY <1>3 DEF Receive
  <2>3. d \in Clients
    <3>1. CASE m.type = "lock"
      BY <2>1, <3>1, LockedType, MessagesRead
    <3>2. CASE m.type = "malus"
      BY <2>1, <3>2, AppliedType, MessagesRead
    <3>3. CASE m.type = "authorisation"
      <4>1. m.kind \in {"malus", "bonus"}
        BY <2>1, <3>3, MessagesRead
      <4> QED
        BY <2>1, <3>3, <4>1 DEF Clients
    <3>4. CASE m.type = "verdict"
      BY <3>4, Rests
    <3> QED
      BY <2>1, <3>1, <3>2, <3>3, <3>4, MessagesRead
  <2> HIDE DEF d
  <2>4. client' \in [Players -> Clients]
    BY <2>2, <2>3 DEF Typed, TypeOK, Clients
  <2> QED
    BY <2>1, <2>4 DEF Typed, TypeOK, Clients
<1>5. ASSUME NEW kind \in {"malus", "bonus"}, Ask(p, kind) PROVE Typed'
  <2> DEFINE e == Charge(client[p])
             d == [client[p] EXCEPT !.wait = TRUE, !.energy = e, !.standing = FALSE]
             b == client[p].energy > 0
  <2>1. e \in Nat /\ b \in BOOLEAN /\ client[p] \in Clients
    BY DEF Charge, Typed, TypeOK, Clients
  <2>2. client' = [client EXCEPT ![p] = d] /\ Sent(p, [type |-> "ask", kind |-> kind, charged |-> b])
    BY <1>5 DEF Ask
  <2> HIDE DEF e, b
  <2>3. [type |-> "ask", kind |-> kind, charged |-> b] \in ServerMessages
    BY <2>1, MessagesSent
  <2>4. d \in Clients
    BY <2>1 DEF Clients
  <2> HIDE DEF d
  <2>5. toServer' \in [Players -> Seq(ServerMessages)]
    BY <2>2, <2>3, SentType
  <2>6. bold' \subseteq Players
    BY <1>5 DEF Ask, Typed, TypeOK
  <2>7. UNCHANGED <<serverVars, toClient>>
    BY <1>5 DEF Ask
  <2> QED
    BY <2>2, <2>4, <2>5, <2>6, <2>7 DEF Typed, TypeOK, Streams, Clients
<1>6. ASSUME NEW malus \in Maluses, NEW target \in (Players \ {p}) \cup {-1},
             ChooseMalus(p, malus, target)
      PROVE  Typed'
  <2> DEFINE d == [client[p] EXCEPT !.stage = "playing", !.wait = FALSE]
  <2>1. [type |-> "malus", malus |-> malus, target |-> target] \in ServerMessages
    BY MessagesSent
  <2>2. client' = [client EXCEPT ![p] = d]
    BY <1>6 DEF ChooseMalus
  <2>3. d \in Clients
    BY DEF Typed, TypeOK, Clients
  <2>4. toServer' \in [Players -> Seq(ServerMessages)]
    BY <1>6, <2>1, SentType DEF ChooseMalus
  <2>5. UNCHANGED <<serverVars, toClient, bold>>
    BY <1>6 DEF ChooseMalus
  <2> HIDE DEF d
  <2> QED
    BY <2>2, <2>3, <2>4, <2>5 DEF Typed, TypeOK, Streams, Clients
<1>7. ASSUME NEW slow \in BOOLEAN, ChooseBonus(p, slow) PROVE Typed'
  <2> DEFINE speeds == client[p].speedUp /\ ~slow
             names == IF slow THEN client[p].activeMalus \ {"fast"} ELSE client[p].activeMalus
             d == [client[p] EXCEPT !.stage = "playing", !.wait = FALSE,
                                    !.speedUp = speeds, !.activeMalus = names]
  <2>1. Says("bonus") \in ServerMessages
    BY MessagesSent
  <2>2. client' = [client EXCEPT ![p] = d]
    BY <1>7 DEF ChooseBonus
  <2>3. speeds \in BOOLEAN /\ names \in SUBSET Maluses /\ client[p] \in Clients
    BY DEF Typed, TypeOK, Clients
  <2> HIDE DEF speeds, names
  <2>4. d \in Clients
    BY <2>3 DEF Clients
  <2> HIDE DEF d
  <2>5. toServer' \in [Players -> Seq(ServerMessages)]
    BY <1>7, <2>1, SentType DEF ChooseBonus
  <2>6. UNCHANGED <<serverVars, toClient, bold>>
    BY <1>7 DEF ChooseBonus
  <2> QED
    BY <2>2, <2>4, <2>5, <2>6 DEF Typed, TypeOK, Streams, Clients
<1>8. ASSUME client' = [client EXCEPT ![p].standing = FALSE] PROVE client' \in [Players -> Clients]
  <2> DEFINE d == [client[p] EXCEPT !.standing = FALSE]
  <2>1. client' = [client EXCEPT ![p] = d] /\ client[p] \in Clients
    BY <1>8 DEF Typed, TypeOK, Clients
  <2>2. d \in Clients
    BY <2>1 DEF Clients
  <2> HIDE DEF d
  <2> QED
    BY <2>1, <2>2 DEF Typed, TypeOK, Clients
<1>9. CASE IdleKey(p)
  BY <1>8, <1>9 DEF IdleKey, Typed, TypeOK, Streams, Clients
<1>10. ASSUME NEW m \in Steered(p), Steer(p, m) PROVE Typed'
  <2>1. m \in ServerMessages
    BY MessagesSent DEF Steered
  <2>2. toServer' \in [Players -> Seq(ServerMessages)]
    BY <1>10, <2>1, SentType DEF Steer
  <2> QED
    BY <1>8, <1>10, <2>2 DEF Steer, Typed, TypeOK, Streams, Clients
<1> QED
  <2>1. \A q \in Players : Habits[q].asks \subseteq {"malus", "bonus"} /\ Habits[q].maluses \subseteq Maluses
    BY RoyalAssumption
  <2> QED
    BY <1>1, <1>2, <1>3, <1>5, <1>6, <1>7, <1>9, <1>10, <2>1 DEF Plays, Gravity, Show

Servers == [inRoom : BOOLEAN, isPlaying : BOOLEAN, energy : Nat, above : 0..Rows]

\* What the server does, typed.
LEMMA ServeType ==
    ASSUME Typed, NEW p \in Players, Serve(p)
    PROVE  Typed'
<1> USE RoyalAssumption
<1>1. server \in [Players -> Servers] /\ server[p] \in Servers
  BY DEF Typed, TypeOK, Servers
<1>2. CASE HandleMove(p)
  <2>1. toServer' \in [Players -> Seq(ServerMessages)]
    BY <1>2, TakesType DEF HandleMove
  <2>2. UNCHANGED <<up, room, client, bold>>
    BY <1>2 DEF HandleMove
  <2>3. ASSUME NEW above \in Onward(server[p].above, Head(toServer[p]).dx),
               server' = [server EXCEPT ![p].above = above], UNCHANGED <<cleared, toClient>>
        PROVE  Typed'
    <3>1. above \in 0..Rows
      BY <1>1 DEF Onward, Servers
    <3>2. server' \in [Players -> Servers]
      BY <1>1, <2>3, <3>1 DEF Servers
    <3> QED
      BY <2>1, <2>2, <2>3, <3>2 DEF Typed, TypeOK, Streams, Servers
  <2>4. ASSUME NEW lines \in 0..4,
               cleared' = [cleared EXCEPT ![p] = @ + lines],
               server' = [server EXCEPT ![p].energy = @ + Earned(lines)],
               Tells({p}, [type |-> "lock", lines |-> lines])
        PROVE  Typed'
    <3>1. server' \in [Players -> Servers]
      BY <1>1, <2>4 DEF Servers, Earned
    <3>2. cleared' \in [Players -> Nat]
      BY <2>4 DEF Typed, TypeOK
    <3>3. toClient' \in [Players -> Seq(ClientMessages)]
      BY <2>4, TellsType, MessagesSent
    <3> QED
      BY <2>1, <2>2, <3>1, <3>2, <3>3 DEF Typed, TypeOK, Streams, Servers
  <2>5. CASE UNCHANGED <<server, cleared, toClient>>
    BY <2>1, <2>2, <2>5 DEF Typed, TypeOK, Streams
  <2> QED
    BY <1>2, <2>3, <2>4, <2>5 DEF HandleMove
<1>3. CASE HandleRequest(p)
  <2>1. toServer' \in [Players -> Seq(ServerMessages)]
    BY <1>3, TakesType DEF HandleRequest
  <2>2. UNCHANGED <<up, cleared, client, bold>>
    BY <1>3 DEF HandleRequest
  <2>3. server' \in [Players -> Servers]
    <3>1. CASE server' = [server EXCEPT ![p].above = Rows]
      BY <1>1, <3>1 DEF Servers
    <3>2. CASE server' = [server EXCEPT ![p].isPlaying = FALSE]
      BY <1>1, <3>2 DEF Servers
    <3>3. CASE server' = server
      BY <1>1, <3>3
    <3> QED
      BY <1>3, <3>1, <3>2, <3>3 DEF HandleRequest
  <2>4. toClient' \in [Players -> Seq(ClientMessages)]
    <3>1. ASSUME NEW to, Tells(to, Says("verdict")) PROVE toClient' \in [Players -> Seq(ClientMessages)]
      BY <3>1, TellsType, MessagesSent
    <3>2. CASE UNCHANGED toClient
      BY <3>2 DEF Typed, Streams
    <3> QED
      BY <1>3, <3>1, <3>2 DEF HandleRequest
  <2>5. room' \in {"running", "stopping", "closed"}
    BY <1>3 DEF HandleRequest, Typed, TypeOK
  <2> QED
    BY <2>1, <2>2, <2>3, <2>4, <2>5 DEF Typed, TypeOK, Streams, Servers
<1>4. CASE HandleAsk(p)
  <2>1. /\ toServer' \in [Players -> Seq(ServerMessages)]
        /\ Head(toServer[p]).kind \in {"malus", "bonus"}
    BY <1>4, TakesType, MessagesRead DEF HandleAsk
  <2>2. UNCHANGED <<room, cleared, client, bold>> /\ up' = server[p].inRoom
    BY <1>4 DEF HandleAsk
  <2>3. up' \in BOOLEAN
    BY <1>1, <2>2 DEF Servers
  <2>4. server' \in [Players -> Servers]
    <3>1. CASE server[p].energy > 0 /\ server' = [server EXCEPT ![p].energy = @ - 1]
      BY <1>1, <3>1 DEF Servers
    <3>2. CASE server' = server
      BY <1>1, <3>2
    <3> QED
      BY <1>4, <3>1, <3>2 DEF HandleAsk
  <2>5. toClient' \in [Players -> Seq(ClientMessages)]
    <3>1. CASE Tells({p}, [type |-> "authorisation", kind |-> Head(toServer[p]).kind])
      BY <2>1, <3>1, TellsType, MessagesSent
    <3>2. CASE UNCHANGED toClient
      BY <3>2 DEF Typed, Streams
    <3> QED
      BY <1>4, <3>1, <3>2 DEF HandleAsk
  <2> QED
    BY <2>1, <2>2, <2>3, <2>4, <2>5 DEF Typed, TypeOK, Streams, Servers
<1>5. CASE HandleMalus(p)
  <2>1. toServer' \in [Players -> Seq(ServerMessages)] /\ Head(toServer[p]).malus \in Maluses
    BY <1>5, TakesType, MessagesRead DEF HandleMalus
  <2>2. UNCHANGED <<room, server, cleared, client, bold>> /\ up' = server[p].inRoom
    BY <1>5 DEF HandleMalus
  <2>3. up' \in BOOLEAN
    BY <1>1, <2>2 DEF Servers
  <2>4. toClient' \in [Players -> Seq(ClientMessages)]
    <3>1. ASSUME NEW to, Tells(to, [type |-> "malus", malus |-> Head(toServer[p]).malus])
          PROVE  toClient' \in [Players -> Seq(ClientMessages)]
      BY <2>1, <3>1, TellsType, MessagesSent
    <3>2. CASE UNCHANGED toClient
      BY <3>2 DEF Typed, Streams
    <3> QED
      BY <1>5, <3>1, <3>2 DEF HandleMalus
  <2> QED
    BY <2>1, <2>2, <2>3, <2>4 DEF Typed, TypeOK, Streams
<1>6. CASE HandleBonus(p)
  <2>1. toServer' \in [Players -> Seq(ServerMessages)]
    BY <1>6, TakesType DEF HandleBonus
  <2>2. UNCHANGED <<up, room, server, cleared, client, toClient, bold>>
    BY <1>6 DEF HandleBonus, serverVars
  <2> QED
    BY <2>1, <2>2 DEF Typed, TypeOK, Streams
<1>8. CASE HandleRotate(p)
  <2>1. toServer' \in [Players -> Seq(ServerMessages)]
    BY <1>8, TakesType DEF HandleRotate
  <2>2. UNCHANGED <<up, room, cleared, client, toClient, bold>>
    BY <1>8 DEF HandleRotate
  <2>3. ASSUME NEW above \in 0..Rows, server' = [server EXCEPT ![p].above = above]
        PROVE  server' \in [Players -> Servers]
    BY <1>1, <2>3 DEF Servers
  <2>4. server' \in [Players -> Servers]
    BY <1>1, <1>8, <2>3 DEF HandleRotate
  <2> QED
    BY <2>1, <2>2, <2>4 DEF Typed, TypeOK, Streams, Servers
<1>7. CASE HandleEnd(p)
  <2>1. toServer' \in [Players -> Seq(ServerMessages)]
    BY <1>7, TakesType DEF HandleEnd
  <2>2. /\ UNCHANGED <<up, cleared, client, toClient, bold>>
        /\ server' = [server EXCEPT ![p] = Gone]
        /\ room' \in {"running", "stopping", "closed"}
    BY <1>7 DEF HandleEnd, Typed, TypeOK
  <2>3. Gone \in Servers
    BY DEF Gone, Servers
  <2>4. server' \in [Players -> Servers]
    BY <1>1, <2>2, <2>3
  <2> QED
    BY <2>1, <2>2, <2>4 DEF Typed, TypeOK, Streams, Servers
<1> QED
  BY <1>2, <1>3, <1>4, <1>5, <1>6, <1>7, <1>8 DEF Serve

LEMMA CloseType ==
    ASSUME Typed, CloseRoom
    PROVE  Typed'
BY RoyalAssumption DEF CloseRoom, Gone, Typed, TypeOK, Streams

LEMMA InitType == Init => Typed
<1> SUFFICES ASSUME Init PROVE Typed
  OBVIOUS
<1>1. /\ toServer \in [Players -> Seq(ServerMessages)]
      /\ toClient \in [Players -> Seq(ClientMessages)]
  BY DEF Init
<1>2. Nobody \in Clients
  BY DEF Nobody, Clients
<1>3. client \in [Players -> Clients]
  BY <1>2 DEF Init
<1>4. server \in [Players -> Servers]
  BY RoyalAssumption DEF Init, Servers
<1> QED
  BY <1>1, <1>3, <1>4 DEF Init, Typed, TypeOK, Streams, Clients, Servers

LEMMA TypedNext == Typed /\ [Next]_vars => Typed'
<1> SUFFICES ASSUME Typed, [Next]_vars PROVE Typed'
  OBVIOUS
<1>1. CASE UNCHANGED vars
  BY <1>1 DEF vars, Typed, TypeOK, Streams
<1>2. CASE Next
  BY <1>2, CloseType, PlaysType, ServeType DEF Next
<1> QED
  BY <1>1, <1>2

\* Everything has its type, whatever travels on the connections (gameServer.h,
\* Game.h).
THEOREM Types == Spec => []TypeOK
<1>1. Typed => TypeOK
  BY DEF Typed
<1> QED
  BY InitType, TypedNext, <1>1, PTL DEF Spec

-----------------------------------------------------------------------------
(* What the screen names.                                                    *)

Shown(c) == c.activeMalus = Effects(c)

LEMMA EffectsAre ==
    ASSUME NEW c, NEW x
    PROVE  x \in Effects(c) <=> \/ x = "blocked" /\ c.blocked
                                \/ x = "inverted" /\ c.invCMDCount > 0
                                \/ x = "fast" /\ c.speedUp
                                \/ x = "dark" /\ c.blackScreen
BY DEF Effects

LEMMA ShownIs ==
    ASSUME NEW c
    PROVE  Shown(c) <=> \A x : x \in c.activeMalus <=> x \in Effects(c)
BY DEF Shown

LEMMA LockedShown ==
    ASSUME NEW c \in Clients, NEW lines \in 0..4, Shown(c)
    PROVE  Shown(Locked(c, lines))
<1> DEFINE d == Locked(c, lines)
<1>1. /\ d.blocked = FALSE /\ d.speedUp = c.speedUp /\ d.blackScreen = c.blackScreen
      /\ d.invCMDCount = IF c.invCMDCount > 0 THEN c.invCMDCount - 1 ELSE 0
      /\ d.activeMalus = c.activeMalus \ ((IF c.blocked THEN {"blocked"} ELSE {})
                           \cup (IF c.invCMDCount = 1 THEN {"inverted"} ELSE {}))
  BY DEF Locked, Clients
<1> HIDE DEF d
<1>2. c.invCMDCount \in 0..3
  BY DEF Clients
<1>3. ASSUME NEW x PROVE x \in d.activeMalus <=> x \in Effects(d)
  <2>1. x \in c.activeMalus <=> x \in Effects(c)
    BY ShownIs
  <2>2. x \in d.activeMalus <=> /\ x \in c.activeMalus
                                /\ ~(x = "blocked" /\ c.blocked)
                                /\ ~(x = "inverted" /\ c.invCMDCount = 1)
    BY <1>1
  <2>3. d.invCMDCount > 0 <=> c.invCMDCount > 0 /\ c.invCMDCount # 1
    BY <1>1, <1>2
  <2> QED
    BY <1>1, <2>1, <2>2, <2>3, EffectsAre
<1>4. Shown(d)
  BY <1>3, ShownIs
<1> QED
  BY <1>4 DEF d

LEMMA AppliedShown ==
    ASSUME NEW c \in Clients, NEW malus \in Maluses, Shown(c)
    PROVE  Shown(Applied(c, malus))
<1> DEFINE d == Applied(c, malus)
<1>1. /\ d.blocked = (c.blocked \/ malus = "blocked") /\ d.speedUp = (c.speedUp \/ malus = "fast")
      /\ d.blackScreen = (c.blackScreen \/ malus = "dark")
      /\ d.invCMDCount = IF malus = "inverted" THEN 3 ELSE c.invCMDCount
      /\ d.activeMalus = c.activeMalus \cup {malus}
  BY DEF Applied, Clients
<1> HIDE DEF d
<1>2. malus \in {"blocked", "inverted", "fast", "dark"}
  BY RoyalAssumption
<1>3. d.invCMDCount > 0 <=> c.invCMDCount > 0 \/ malus = "inverted"
  BY <1>1
<1>4. /\ d.blocked <=> c.blocked \/ malus = "blocked"
      /\ d.speedUp <=> c.speedUp \/ malus = "fast"
      /\ d.blackScreen <=> c.blackScreen \/ malus = "dark"
  BY <1>1
<1>5. ASSUME NEW x PROVE x \in d.activeMalus <=> x \in Effects(d)
  <2>1. x \in c.activeMalus <=> x \in Effects(c)
    BY ShownIs
  <2>2. x \in d.activeMalus <=> x \in c.activeMalus \/ x = malus
    BY <1>1
  <2>3. x \in Effects(c) <=> \/ x = "blocked" /\ c.blocked
                             \/ x = "inverted" /\ c.invCMDCount > 0
                             \/ x = "fast" /\ c.speedUp
                             \/ x = "dark" /\ c.blackScreen
    BY EffectsAre
  <2>4. x \in Effects(d) <=> \/ x = "blocked" /\ d.blocked
                             \/ x = "inverted" /\ d.invCMDCount > 0
                             \/ x = "fast" /\ d.speedUp
                             \/ x = "dark" /\ d.blackScreen
    BY EffectsAre
  <2> QED
    BY <1>2, <1>3, <1>4, <2>1, <2>2, <2>3, <2>4
<1>6. Shown(d)
  BY <1>5, ShownIs
<1> QED
  BY <1>6 DEF d

\* Any other change that takes the same names from the screen and the effects.
LEMMA UndoneShown ==
    ASSUME NEW c, NEW d, Shown(c), d.blocked = c.blocked, d.invCMDCount = c.invCMDCount,
           \/ /\ d.speedUp = c.speedUp /\ d.blackScreen = c.blackScreen
              /\ d.activeMalus = c.activeMalus
           \/ /\ d.speedUp = FALSE /\ d.blackScreen = c.blackScreen
              /\ d.activeMalus = c.activeMalus \ {"fast"}
           \/ /\ d.speedUp = c.speedUp /\ d.blackScreen = FALSE
              /\ d.activeMalus = c.activeMalus \ {"dark"}
    PROVE  Shown(d)
<1>1. ASSUME NEW x PROVE x \in d.activeMalus <=> x \in Effects(d)
  <2>1. x \in c.activeMalus <=> x \in Effects(c)
    BY ShownIs
  <2>2. x \in Effects(c) <=> \/ x = "blocked" /\ c.blocked
                             \/ x = "inverted" /\ c.invCMDCount > 0
                             \/ x = "fast" /\ c.speedUp
                             \/ x = "dark" /\ c.blackScreen
    BY EffectsAre
  <2>3. x \in Effects(d) <=> \/ x = "blocked" /\ c.blocked
                             \/ x = "inverted" /\ c.invCMDCount > 0
                             \/ x = "fast" /\ d.speedUp
                             \/ x = "dark" /\ d.blackScreen
    BY EffectsAre
  <2>4. CASE d.speedUp = c.speedUp /\ d.blackScreen = c.blackScreen /\ d.activeMalus = c.activeMalus
    BY <2>1, <2>2, <2>3, <2>4
  <2>5. CASE d.speedUp = FALSE /\ d.blackScreen = c.blackScreen /\ d.activeMalus = c.activeMalus \ {"fast"}
    BY <2>1, <2>2, <2>3, <2>5
  <2>6. CASE d.speedUp = c.speedUp /\ d.blackScreen = FALSE /\ d.activeMalus = c.activeMalus \ {"dark"}
    BY <2>1, <2>2, <2>3, <2>6
  <2> QED
    BY <2>4, <2>5, <2>6
<1> QED
  BY <1>1, ShownIs

LEMMA RestsShown == Shown(Nobody) /\ Shown(Over)
<1>1. ASSUME NEW c, c.blocked = FALSE, c.invCMDCount = 0, c.speedUp = FALSE,
             c.blackScreen = FALSE, c.activeMalus = {}
      PROVE  Shown(c)
  <2>1. \A x : x \notin Effects(c)
    BY <1>1, EffectsAre
  <2> QED
    BY <1>1, <2>1, ShownIs
<1>2. /\ Over.blocked = FALSE /\ Over.invCMDCount = 0 /\ Over.speedUp = FALSE
      /\ Over.blackScreen = FALSE /\ Over.activeMalus = {}
  BY DEF Over, Nobody
<1> QED
  BY <1>1, <1>2 DEF Nobody

LEMMA ShownNext == Typed /\ ShownWhileItLasts /\ [Next]_vars => ShownWhileItLasts'
<1> SUFFICES ASSUME Typed, ShownWhileItLasts, [Next]_vars, NEW q \in Players
             PROVE  Shown(client'[q])
  BY DEF ShownWhileItLasts, Shown, Effects
<1>1. Shown(client[q]) /\ client[q] \in Clients /\ client \in [Players -> Clients]
  BY DEF ShownWhileItLasts, Shown, Typed, TypeOK, Clients
<1>2. CASE UNCHANGED client
  BY <1>1, <1>2
<1>3. ASSUME NEW p \in Players, Plays(p) PROVE Shown(client'[q])
  <2>1. CASE q # p
    <3>1. client'[q] = client[q]
      BY <1>1, <1>3, <2>1
      DEF Plays, Gravity, Show, EndPass, Quit, Receive, IdleKey, Steer, Ask, ChooseMalus, ChooseBonus
    <3> QED
      BY <1>1, <3>1
  <2>2. ASSUME q = p, NEW ticks, NEW lights \in BOOLEAN, EndPass(p, ticks, lights)
        PROVE  Shown(client'[q])
    <3>1. CASE lights
      BY <1>1, <2>2, <3>1, UndoneShown DEF EndPass, Clients
    <3>2. CASE ~lights
      BY <1>1, <2>2, <3>2, UndoneShown DEF EndPass, Clients
    <3> QED
      BY <3>1, <3>2
  <2>3. CASE q = p /\ Quit(p)
    BY <1>1, <2>3, RestsShown DEF Quit
  <2>4. CASE q = p /\ Receive(p)
    <3> DEFINE m == Head(toClient[p])
    <3>1. m \in ClientMessages
      BY <2>4, ReceiveType
    <3>2. client'[p] = CASE m.type = "lock" -> Locked(client[p], m.lines)
                         [] m.type = "malus" -> Applied(client[p], m.malus)
                         [] m.type = "authorisation" -> [client[p] EXCEPT !.stage = m.kind, !.blocking = TRUE]
                         [] m.type = "verdict" -> Over
      BY <1>1, <2>4 DEF Receive
    <3> HIDE DEF m
    <3>3. CASE m.type = "lock"
      BY <1>1, <2>4, <3>1, <3>2, <3>3, MessagesRead, LockedShown
    <3>4. CASE m.type = "malus"
      BY <1>1, <2>4, <3>1, <3>2, <3>4, MessagesRead, AppliedShown
    <3>5. CASE m.type = "authorisation"
      <4>1. client'[p] = [client[p] EXCEPT !.stage = m.kind, !.blocking = TRUE]
        BY <3>2, <3>5
      <4> QED
        BY <1>1, <2>4, <4>1, UndoneShown DEF Clients
    <3>6. CASE m.type = "verdict"
      BY <2>4, <3>2, <3>6, RestsShown
    <3> QED
      BY <3>1, <3>3, <3>4, <3>5, <3>6, MessagesRead
  <2>5. ASSUME q = p, client' = [client EXCEPT ![p].standing = FALSE] PROVE Shown(client'[q])
    BY <1>1, <2>5, UndoneShown DEF Clients
  <2>9. ASSUME q = p, NEW m, Steer(p, m) PROVE Shown(client'[q])
    BY <2>5, <2>9 DEF Steer
  <2>10. CASE q = p /\ IdleKey(p)
    BY <2>5, <2>10 DEF IdleKey
  <2>6. ASSUME q = p, NEW kind \in {"malus", "bonus"}, Ask(p, kind) PROVE Shown(client'[q])
    BY <1>1, <2>6, UndoneShown DEF Ask, Clients
  <2>7. ASSUME q = p, NEW malus, NEW target, ChooseMalus(p, malus, target)
        PROVE  Shown(client'[q])
    BY <1>1, <2>7, UndoneShown DEF ChooseMalus, Clients
  <2>8. ASSUME q = p, NEW slow \in BOOLEAN, ChooseBonus(p, slow) PROVE Shown(client'[q])
    <3>1. CASE slow
      BY <1>1, <2>8, <3>1, UndoneShown DEF ChooseBonus, Clients
    <3>2. CASE ~slow
      BY <1>1, <2>8, <3>2, UndoneShown DEF ChooseBonus, Clients
    <3> QED
      BY <3>1, <3>2
  <2> QED
    <3>1. CASE q = p
      <4>1. Habits[p].asks \subseteq {"malus", "bonus"} /\ TRUE \in BOOLEAN /\ FALSE \in BOOLEAN
        BY RoyalAssumption
      <4> QED
        BY <1>3, <2>2, <2>3, <2>4, <2>6, <2>7, <2>8, <2>9, <2>10, <3>1, <4>1 DEF Plays, Gravity, Show
    <3> QED
      BY <2>1, <3>1
<1>4. ASSUME NEW p \in Players, Serve(p) PROVE UNCHANGED client
  BY <1>4 DEF Serve, HandleMove, HandleRotate, HandleRequest, HandleAsk, HandleMalus, HandleBonus, HandleEnd
<1> QED
  BY <1>2, <1>3, <1>4 DEF Next, CloseRoom, vars

\* The screen names a malus exactly while it lasts (applyMalus, handleLock,
\* isBlackScreen, applyBonus).
THEOREM ScreensAreTrue == Spec => []ShownWhileItLasts
<1>1. Init => ShownWhileItLasts
  BY DEF Init, Nobody, ShownWhileItLasts, Effects
<1> QED
  BY <1>1, InitType, TypedNext, ShownNext, PTL DEF Spec

-----------------------------------------------------------------------------
(* The accounts.                                                             *)

Paid == {m \in ServerMessages : m.type = "ask" /\ m.charged}
Free == {m \in ServerMessages : m.type = "ask" /\ ~m.charged}
Lines(n) == {m \in ClientMessages : m.type = "lock" /\ m.lines >= n}
Grants == {m \in ClientMessages : m.type = "authorisation"}

\* A lock of n lines is in n of the sets.
LineCount(s) == Count(s, Lines(1)) + Count(s, Lines(2)) + Count(s, Lines(3)) + Count(s, Lines(4))
Weight(m) == IF m.type = "lock" THEN m.lines ELSE 0

Account(p) == client[p].energy + LineCount(toClient[p]) + Count(toServer[p], Paid)

\* What is known of one player: it asks for nothing it has not paid for, its
\* account is what the server has, and what it waits for is under way.
Honest(p) == p \notin bold => Count(toServer[p], Free) = 0

Balanced(p) ==
    server[p].inRoom /\ client[p].stage # "over" =>
        /\ server[p].energy <= Account(p)
        /\ p \notin bold => server[p].energy = Account(p)

Waits(p) ==
    client[p].wait /\ client[p].stage = "playing" /\ server[p].inRoom /\ p \notin bold =>
        Count(toServer[p], Paid) > 0 \/ Count(toClient[p], Grants) > 0

Sound(p) == Honest(p) /\ Balanced(p) /\ Waits(p)
AllSound == \A p \in Players : Sound(p)

LEMMA CountSame ==
    ASSUME NEW M, NEW s \in Seq(M), NEW t, NEW S,
           \/ t = s
           \/ \E m \in M \ S : t = Append(s, m)
           \/ s # <<>> /\ Head(s) \notin S /\ t = Tail(s)
    PROVE  Count(t, S) = Count(s, S)
<1>1. CASE t = s
  BY <1>1
<1>2. ASSUME NEW m \in M \ S, t = Append(s, m) PROVE Count(t, S) = Count(s, S)
  BY <1>2, CountAppend, CountType
<1>3. CASE s # <<>> /\ Head(s) \notin S /\ t = Tail(s)
  <2>1. Count(Tail(s), S) \in Nat
    <3>1. Tail(s) \in Seq(M)
      BY <1>3
    <3> QED
      BY <3>1, CountType
  <2>2. Count(s, S) = Count(Tail(s), S) + (IF Head(s) \in S THEN 1 ELSE 0)
    BY <1>3, CountHead
  <2>3. Count(s, S) = Count(Tail(s), S)
    BY <1>3, <2>1, <2>2
  <2> QED
    BY <1>3, <2>3
<1> QED
  BY <1>1, <1>2, <1>3

LEMMA WeightIs ==
    ASSUME NEW m \in ClientMessages
    PROVE  /\ Weight(m) \in 0..4
           /\ \A n \in 1..4 : m \in Lines(n) <=> Weight(m) >= n
BY MessagesRead DEF Weight, Lines

LEMMA LinesType ==
    ASSUME NEW s \in Seq(ClientMessages)
    PROVE  LineCount(s) \in Nat /\ LineCount(<<>>) = 0
<1>1. ASSUME NEW S PROVE Count(s, S) \in Nat /\ Count(<<>>, S) = 0
  BY CountType
<1> QED
  BY <1>1 DEF LineCount

\* What four thresholds count.
LEMMA FourSteps ==
    ASSUME NEW f \in [1..4 -> Nat], NEW g, NEW w \in 0..4,
           \A n \in 1..4 : g[n] = f[n] + (IF w >= n THEN 1 ELSE 0)
    PROVE  g[1] + g[2] + g[3] + g[4] = f[1] + f[2] + f[3] + f[4] + w
<1>1. PICK f1 \in Nat, f2 \in Nat, f3 \in Nat, f4 \in Nat :
        f1 = f[1] /\ f2 = f[2] /\ f3 = f[3] /\ f4 = f[4]
  OBVIOUS
<1>2. PICK g1, g2, g3, g4 : g1 = g[1] /\ g2 = g[2] /\ g3 = g[3] /\ g4 = g[4]
  OBVIOUS
<1>3. /\ g1 = f1 + (IF w >= 1 THEN 1 ELSE 0) /\ g2 = f2 + (IF w >= 2 THEN 1 ELSE 0)
      /\ g3 = f3 + (IF w >= 3 THEN 1 ELSE 0) /\ g4 = f4 + (IF w >= 4 THEN 1 ELSE 0)
  BY <1>1, <1>2
<1>4. w = 0 \/ w = 1 \/ w = 2 \/ w = 3 \/ w = 4
  OBVIOUS
<1> SUFFICES g1 + g2 + g3 + g4 = f1 + f2 + f3 + f4 + w
  BY <1>1, <1>2
<1>5. CASE w = 0
  <2>1. g1 = f1 /\ g2 = f2 /\ g3 = f3 /\ g4 = f4
    BY <1>3, <1>5
  <2> QED
    BY <1>5, <2>1
<1>6. CASE w = 1
  <2>1. g1 = f1 + 1 /\ g2 = f2 /\ g3 = f3 /\ g4 = f4
    BY <1>3, <1>6
  <2> QED
    BY <1>6, <2>1
<1>7. CASE w = 2
  <2>1. g1 = f1 + 1 /\ g2 = f2 + 1 /\ g3 = f3 /\ g4 = f4
    BY <1>3, <1>7
  <2> QED
    BY <1>7, <2>1
<1>8. CASE w = 3
  <2>1. g1 = f1 + 1 /\ g2 = f2 + 1 /\ g3 = f3 + 1 /\ g4 = f4
    BY <1>3, <1>8
  <2> QED
    BY <1>8, <2>1
<1>9. CASE w = 4
  <2>1. g1 = f1 + 1 /\ g2 = f2 + 1 /\ g3 = f3 + 1 /\ g4 = f4 + 1
    BY <1>3, <1>9
  <2> QED
    BY <1>9, <2>1
<1> QED
  BY <1>4, <1>5, <1>6, <1>7, <1>8, <1>9

LEMMA LinesAppend ==
    ASSUME NEW s \in Seq(ClientMessages), NEW m \in ClientMessages
    PROVE  LineCount(Append(s, m)) = LineCount(s) + Weight(m)
<1>1. ASSUME NEW n \in 1..4
      PROVE  /\ Count(s, Lines(n)) \in Nat
             /\ Count(Append(s, m), Lines(n)) = Count(s, Lines(n)) + (IF Weight(m) >= n THEN 1 ELSE 0)
  <2>1. Count(Append(s, m), Lines(n)) = Count(s, Lines(n)) + (IF m \in Lines(n) THEN 1 ELSE 0)
    BY CountAppend
  <2>2. m \in Lines(n) <=> Weight(m) >= n
    BY WeightIs
  <2>3. Count(s, Lines(n)) \in Nat
    BY CountType
  <2> QED
    BY <2>1, <2>2, <2>3
<1>2. Weight(m) \in 0..4
  BY WeightIs
<1>4. PICK f : f = [n \in 1..4 |-> Count(s, Lines(n))]
  OBVIOUS
<1>5. PICK g : g = [n \in 1..4 |-> Count(Append(s, m), Lines(n))]
  OBVIOUS
<1>6. PICK w \in 0..4 : w = Weight(m)
  BY <1>2
<1>7. \A n \in 1..4 : f[n] \in Nat /\ g[n] = f[n] + (IF w >= n THEN 1 ELSE 0)
  BY <1>1, <1>4, <1>5, <1>6
<1>8. g[1] + g[2] + g[3] + g[4] = f[1] + f[2] + f[3] + f[4] + w
  <2>1. f \in [1..4 -> Nat]
    BY <1>4, <1>7
  <2> QED
    BY <1>6, <1>7, <2>1, FourSteps
<1>9. /\ f[1] + f[2] + f[3] + f[4] = LineCount(s)
      /\ g[1] + g[2] + g[3] + g[4] = LineCount(Append(s, m))
  BY <1>4, <1>5 DEF LineCount
<1> QED
  BY <1>6, <1>8, <1>9

LEMMA LinesHead ==
    ASSUME NEW s \in Seq(ClientMessages), s # <<>>
    PROVE  LineCount(s) = LineCount(Tail(s)) + Weight(Head(s))
<1>1. Tail(s) \in Seq(ClientMessages) /\ Head(s) \in ClientMessages
  OBVIOUS
<1>2. ASSUME NEW n \in 1..4
      PROVE  /\ Count(Tail(s), Lines(n)) \in Nat
             /\ Count(s, Lines(n)) = Count(Tail(s), Lines(n)) + (IF Weight(Head(s)) >= n THEN 1 ELSE 0)
  <2>1. Count(s, Lines(n)) = Count(Tail(s), Lines(n)) + (IF Head(s) \in Lines(n) THEN 1 ELSE 0)
    BY CountHead
  <2>2. Head(s) \in Lines(n) <=> Weight(Head(s)) >= n
    BY <1>1, WeightIs
  <2>3. Count(Tail(s), Lines(n)) \in Nat
    BY <1>1, CountType
  <2> QED
    BY <2>1, <2>2, <2>3
<1>3. Weight(Head(s)) \in 0..4
  BY <1>1, WeightIs
<1>4. PICK f : f = [n \in 1..4 |-> Count(Tail(s), Lines(n))]
  OBVIOUS
<1>5. PICK g : g = [n \in 1..4 |-> Count(s, Lines(n))]
  OBVIOUS
<1>6. PICK w \in 0..4 : w = Weight(Head(s))
  BY <1>3
<1>7. \A n \in 1..4 : f[n] \in Nat /\ g[n] = f[n] + (IF w >= n THEN 1 ELSE 0)
  BY <1>2, <1>4, <1>5, <1>6
<1>8. g[1] + g[2] + g[3] + g[4] = f[1] + f[2] + f[3] + f[4] + w
  <2>1. f \in [1..4 -> Nat]
    BY <1>4, <1>7
  <2> QED
    BY <1>6, <1>7, <2>1, FourSteps
<1>9. /\ f[1] + f[2] + f[3] + f[4] = LineCount(Tail(s))
      /\ g[1] + g[2] + g[3] + g[4] = LineCount(s)
  BY <1>4, <1>5 DEF LineCount
<1> QED
  BY <1>6, <1>8, <1>9

LEMMA LinesSame ==
    ASSUME NEW s \in Seq(ClientMessages), NEW t,
           \/ t = s
           \/ \E m \in ClientMessages : m.type # "lock" /\ t = Append(s, m)
           \/ s # <<>> /\ Head(s).type # "lock" /\ t = Tail(s)
    PROVE  LineCount(t) = LineCount(s)
<1>1. LineCount(s) \in Nat
  BY LinesType
<1>2. ASSUME NEW m \in ClientMessages, m.type # "lock", t = Append(s, m)
      PROVE  LineCount(t) = LineCount(s)
  BY <1>1, <1>2, LinesAppend DEF Weight
<1>3. CASE s # <<>> /\ Head(s).type # "lock" /\ t = Tail(s)
  <2>1. LineCount(Tail(s)) \in Nat
    <3>1. Tail(s) \in Seq(ClientMessages)
      BY <1>3
    <3> QED
      BY <3>1, LinesType
  <2>2. LineCount(s) = LineCount(Tail(s)) + Weight(Head(s)) /\ Weight(Head(s)) = 0
    BY <1>3, LinesHead DEF Weight
  <2> QED
    BY <1>3, <2>1, <2>2
<1> QED
  BY <1>2, <1>3

LEMMA Counts ==
    ASSUME Typed, NEW p \in Players
    PROVE  /\ Count(toServer[p], Paid) \in Nat /\ Count(toServer[p], Free) \in Nat
           /\ LineCount(toClient[p]) \in Nat /\ Count(toClient[p], Grants) \in Nat
           /\ Account(p) \in Nat
           /\ client[p].energy \in Nat /\ server[p].energy \in Nat
<1>1. toServer[p] \in Seq(ServerMessages) /\ toClient[p] \in Seq(ClientMessages)
  BY DEF Typed, Streams
<1>2. client[p].energy \in Nat /\ server[p].energy \in Nat
  BY DEF Typed, TypeOK
<1>3. /\ Count(toServer[p], Paid) \in Nat /\ Count(toServer[p], Free) \in Nat
      /\ LineCount(toClient[p]) \in Nat /\ Count(toClient[p], Grants) \in Nat
  BY <1>1, CountType, LinesType
<1> QED
  BY <1>2, <1>3 DEF Account

\* A step that moves none of a player's units.
Quiet(p) ==
    /\ bold' = bold
    /\ Count(toServer'[p], Paid) = Count(toServer[p], Paid)
    /\ Count(toServer'[p], Free) = Count(toServer[p], Free)
    /\ server'[p].inRoom => server[p].inRoom /\ server'[p].energy = server[p].energy
    /\ client'[p].stage # "over" =>
         /\ client[p].stage # "over" /\ client'[p].energy = client[p].energy
         /\ client'[p].wait /\ client'[p].stage = "playing" =>
              client[p].wait /\ client[p].stage = "playing"
         /\ LineCount(toClient'[p]) = LineCount(toClient[p])
         /\ Count(toClient'[p], Grants) >= Count(toClient[p], Grants)

LEMMA QuietSound ==
    ASSUME Typed, Typed', NEW p \in Players, Sound(p), Quiet(p)
    PROVE  Sound(p)'
<1>1. /\ Count(toClient[p], Grants) \in Nat /\ Count(toServer[p], Paid) \in Nat
      /\ Count(toClient'[p], Grants) \in Nat /\ Count(toServer'[p], Paid) \in Nat
  <2>1. toClient'[p] \in Seq(ClientMessages) /\ toServer'[p] \in Seq(ServerMessages)
    BY DEF Typed, Streams
  <2> QED
    BY <2>1, Counts, CountType
<1>2. /\ Count(toServer[p], Paid)' = Count(toServer'[p], Paid)
      /\ Count(toServer[p], Free)' = Count(toServer'[p], Free)
      /\ LineCount(toClient[p])' = LineCount(toClient'[p])
      /\ Count(toClient[p], Grants)' = Count(toClient'[p], Grants)
  BY DEF LineCount, Count, Places, Paid, Free, Lines, Grants
<1>3. Honest(p)'
  BY <1>2 DEF Quiet, Sound, Honest
<1>4. Balanced(p)'
  <2>1. CASE server'[p].inRoom /\ client'[p].stage # "over"
    <3>1. Account(p)' = Account(p) /\ server'[p].energy = server[p].energy
      BY <1>2, <2>1 DEF Quiet, Account
    <3> QED
      BY <2>1, <3>1 DEF Quiet, Sound, Balanced
  <2> QED
    BY <2>1 DEF Balanced
<1>5. Waits(p)'
  BY <1>1, <1>2 DEF Quiet, Sound, Waits
<1> QED
  BY <1>3, <1>4, <1>5 DEF Sound

\* A stream that gets or gives up a message that is no question, keeps its
\* questions; the same for lines and authorisations on the other.
LEMMA QuietUp ==
    ASSUME NEW s \in Seq(ServerMessages), NEW t,
           \/ t = s
           \/ \E m \in ServerMessages : m.type # "ask" /\ t = Append(s, m)
           \/ s # <<>> /\ Head(s).type # "ask" /\ t = Tail(s)
    PROVE  Count(t, Paid) = Count(s, Paid) /\ Count(t, Free) = Count(s, Free)
<1>1. \A m : m.type # "ask" => m \notin Paid /\ m \notin Free
  BY DEF Paid, Free
<1> QED
  BY <1>1, CountSame

LEMMA QuietDown ==
    ASSUME NEW s \in Seq(ClientMessages), NEW t,
           \/ t = s
           \/ \E m \in ClientMessages :
                m.type \notin {"lock", "authorisation"} /\ t = Append(s, m)
           \/ s # <<>> /\ Head(s).type \notin {"lock", "authorisation"} /\ t = Tail(s)
    PROVE  LineCount(t) = LineCount(s) /\ Count(t, Grants) = Count(s, Grants)
<1>1. \A m : m.type \notin {"lock", "authorisation"} => m \notin Grants
  BY DEF Grants
<1>2. Count(t, Grants) = Count(s, Grants)
  BY <1>1, CountSame
<1>3. LineCount(t) = LineCount(s)
  BY LinesSame
<1> QED
  BY <1>2, <1>3

LEMMA AccountNext ==
    ASSUME NEW p
    PROVE  Account(p)' = client'[p].energy + LineCount(toClient'[p]) + Count(toServer'[p], Paid)
BY DEF Account, LineCount, Count, Places, Paid, Lines

\* What a player does, to itself.
LEMMA PlaysSound ==
    ASSUME Typed, Typed', NEW p \in Players, Sound(p), Plays(p)
    PROVE  Sound(p)'
<1> USE DEF serverVars
<1>1. /\ toServer[p] \in Seq(ServerMessages) /\ toClient[p] \in Seq(ClientMessages)
      /\ toServer'[p] \in Seq(ServerMessages) /\ toClient'[p] \in Seq(ClientMessages)
      /\ client[p] \in Clients /\ client \in [Players -> Clients]
  BY DEF Typed, Streams, TypeOK, Clients
<1>2. Count(toClient[p], Grants) \in Nat
  BY Counts
<1>3. ASSUME NEW m \in ServerMessages, m.type # "ask", Sent(p, m) \/ UNCHANGED toServer,
             UNCHANGED <<serverVars, toClient, bold>>,
             client'[p].energy = client[p].energy, client'[p].stage = client[p].stage,
             client'[p].wait = client[p].wait
      PROVE  Sound(p)'
  <2>1. toServer'[p] = Append(toServer[p], m) \/ toServer'[p] = toServer[p]
    BY <1>3, SentType
  <2>2. Count(toServer'[p], Paid) = Count(toServer[p], Paid) /\ Count(toServer'[p], Free) = Count(toServer[p], Free)
    BY <1>1, <1>3, <2>1, QuietUp
  <2>3. Quiet(p)
    BY <1>2, <1>3, <2>2 DEF Quiet
  <2> QED
    BY <2>3, QuietSound
<1>4. CASE Quit(p)
  <2>1. /\ Says("end") \in ServerMessages /\ Says("end").type # "ask"
        /\ toServer'[p] = Append(toServer[p], Says("end"))
    BY <1>4, MessagesSent, SentType DEF Quit, Says
  <2>2. Count(toServer'[p], Paid) = Count(toServer[p], Paid) /\ Count(toServer'[p], Free) = Count(toServer[p], Free)
    BY <1>1, <2>1, QuietUp
  <2>3. client'[p].stage = "over"
    BY <1>1, <1>4 DEF Quit, Over
  <2>4. Quiet(p)
    BY <1>4, <2>2, <2>3 DEF Quit, Quiet
  <2> QED
    BY <2>4, QuietSound
<1>5. ASSUME NEW ticks \in BOOLEAN, NEW lights \in BOOLEAN, EndPass(p, ticks, lights)
      PROVE  Sound(p)'
  <2> DEFINE m == [type |-> "move", dx |-> 1]
  <2>1. m \in ServerMessages /\ m.type # "ask"
    BY MessagesSent
  <2>2. Sent(p, m) \/ UNCHANGED toServer
    BY <1>5 DEF EndPass
  <2> HIDE DEF m
  <2>3. UNCHANGED <<serverVars, toClient, bold>>
    BY <1>5 DEF EndPass
  <2>4. /\ client'[p].energy = client[p].energy /\ client'[p].stage = client[p].stage
        /\ client'[p].wait = client[p].wait
    BY <1>1, <1>5 DEF EndPass, Clients
  <2> QED
    BY <1>3, <2>1, <2>2, <2>3, <2>4
<1>10. ASSUME client' = [client EXCEPT ![p].standing = FALSE]
       PROVE  /\ client'[p].energy = client[p].energy /\ client'[p].stage = client[p].stage
              /\ client'[p].wait = client[p].wait
  BY <1>1, <1>10 DEF Clients
<1>11. CASE IdleKey(p)
  <2>1. Says("end") \in ServerMessages /\ Says("end").type # "ask"
    BY MessagesSent DEF Says
  <2>2. UNCHANGED <<serverVars, toServer, toClient, bold>> /\ client' = [client EXCEPT ![p].standing = FALSE]
    BY <1>11 DEF IdleKey
  <2> QED
    BY <1>3, <1>10, <2>1, <2>2
<1>12. ASSUME NEW m \in Steered(p), Steer(p, m) PROVE Sound(p)'
  <2>1. m \in ServerMessages
    BY MessagesSent DEF Steered
  <2>2. m.type # "ask"
    BY DEF Steered, Says
  <2>3. /\ Sent(p, m) /\ UNCHANGED <<serverVars, toClient, bold>>
        /\ client' = [client EXCEPT ![p].standing = FALSE]
    BY <1>12 DEF Steer
  <2> QED
    BY <1>3, <1>10, <2>1, <2>2, <2>3
<1>6. ASSUME NEW malus \in Maluses, NEW target \in (Players \ {p}) \cup {-1},
             ChooseMalus(p, malus, target)
      PROVE  Sound(p)'
  <2> DEFINE m == [type |-> "malus", malus |-> malus, target |-> target]
  <2>1. m \in ServerMessages /\ m.type # "ask"
    BY MessagesSent
  <2>2. Sent(p, m)
    BY <1>6 DEF ChooseMalus
  <2> HIDE DEF m
  <2>3. toServer'[p] = Append(toServer[p], m)
    BY <2>1, <2>2, SentType
  <2>4. Count(toServer'[p], Paid) = Count(toServer[p], Paid) /\ Count(toServer'[p], Free) = Count(toServer[p], Free)
    BY <1>1, <2>1, <2>3, QuietUp
  <2>5. client'[p].energy = client[p].energy /\ client[p].stage # "over" /\ client'[p].wait = FALSE
    BY <1>1, <1>6 DEF ChooseMalus, Clients
  <2>6. Quiet(p)
    BY <1>2, <1>6, <2>4, <2>5 DEF ChooseMalus, Quiet
  <2> QED
    BY <2>6, QuietSound
<1>7. ASSUME NEW slow \in BOOLEAN, ChooseBonus(p, slow) PROVE Sound(p)'
  <2> DEFINE m == Says("bonus")
  <2>1. m \in ServerMessages /\ m.type # "ask"
    BY MessagesSent DEF Says
  <2>2. Sent(p, m)
    BY <1>7 DEF ChooseBonus
  <2> HIDE DEF m
  <2>3. toServer'[p] = Append(toServer[p], m)
    BY <2>1, <2>2, SentType
  <2>4. Count(toServer'[p], Paid) = Count(toServer[p], Paid) /\ Count(toServer'[p], Free) = Count(toServer[p], Free)
    BY <1>1, <2>1, <2>3, QuietUp
  <2>5. client'[p].energy = client[p].energy /\ client[p].stage # "over" /\ client'[p].wait = FALSE
    BY <1>1, <1>7 DEF ChooseBonus, Clients
  <2>6. Quiet(p)
    BY <1>2, <1>7, <2>4, <2>5 DEF ChooseBonus, Quiet
  <2> QED
    BY <2>6, QuietSound
<1>8. ASSUME NEW kind \in {"malus", "bonus"}, Ask(p, kind) PROVE Sound(p)'
  <2> DEFINE b == client[p].energy > 0
             m == [type |-> "ask", kind |-> kind, charged |-> b]
  <2>1. b \in BOOLEAN /\ (b <=> client[p].energy > 0)
    OBVIOUS
  <2>3. Sent(p, m)
    BY <1>8 DEF Ask
  <2> HIDE DEF b
  <2>2. m \in ServerMessages /\ m.type = "ask" /\ m.charged = b
    BY <2>1, MessagesSent
  <2> HIDE DEF m
  <2>4. toServer'[p] = Append(toServer[p], m)
    BY <2>2, <2>3, SentType
  <2>5. /\ Count(toServer'[p], Paid) = Count(toServer[p], Paid) + (IF m \in Paid THEN 1 ELSE 0)
        /\ Count(toServer'[p], Free) = Count(toServer[p], Free) + (IF m \in Free THEN 1 ELSE 0)
    BY <1>1, <2>2, <2>4, CountAppend
  <2>6. (m \in Paid <=> b) /\ (m \in Free <=> ~b)
    BY <2>2 DEF Paid, Free
  <2>7. /\ client'[p].energy = Charge(client[p]) /\ client[p].stage = "playing"
        /\ client'[p].stage = "playing"
    BY <1>1, <1>8 DEF Ask, Listens, AtKey, Clients
  <2>8. /\ bold' = IF client[p].energy = 0 THEN bold \cup {p} ELSE bold
        /\ UNCHANGED <<serverVars, toClient>>
    BY <1>8 DEF Ask
  <2>9. CASE b
    <3>0. client[p].energy \in Nat /\ client[p].energy > 0
      BY <2>1, <2>9, Counts
    <3>1. /\ client'[p].energy = client[p].energy - 1 /\ bold' = bold
          /\ Count(toServer'[p], Paid) = Count(toServer[p], Paid) + 1
          /\ Count(toServer'[p], Free) = Count(toServer[p], Free)
      <4>1. m \in Paid /\ m \notin Free
        BY <2>6, <2>9
      <4>2. client'[p].energy = client[p].energy - 1 /\ bold' = bold
        BY <3>0, <2>7, <2>8 DEF Charge
      <4> QED
        BY <4>1, <4>2, <2>5, Counts
    <3>2. Account(p)' = Account(p)
      BY <3>0, <3>1, <2>8, Counts, AccountNext DEF Account
    <3>3. Honest(p)' /\ Balanced(p)'
      BY <3>1, <3>2, <2>7, <2>8 DEF Sound, Honest, Balanced, Count, Places, Free
    <3>4. Count(toServer'[p], Paid) > 0
      BY <3>1, Counts
    <3>5. Waits(p)'
      BY <3>4 DEF Waits, Count, Places, Paid
    <3> QED
      BY <3>3, <3>5 DEF Sound
  <2>10. CASE ~b
    <3>0. client[p].energy = 0
      BY <2>1, <2>10, Counts
    <3>1. /\ client'[p].energy = client[p].energy /\ p \in bold'
          /\ Count(toServer'[p], Paid) = Count(toServer[p], Paid)
      <4>1. m \notin Paid
        BY <2>6, <2>10
      <4>2. client'[p].energy = client[p].energy /\ p \in bold'
        BY <3>0, <2>7, <2>8 DEF Charge
      <4> QED
        BY <4>1, <4>2, <2>5, Counts
    <3>2. Account(p)' = Account(p)
      BY <3>1, <2>8, AccountNext DEF Account
    <3> QED
      BY <3>1, <3>2, <2>7, <2>8 DEF Sound, Honest, Balanced, Waits
  <2> QED
    BY <2>9, <2>10
<1>9. CASE Receive(p)
  <2> DEFINE m == Head(toClient[p])
  <2>1. /\ m \in ClientMessages /\ toClient[p] # <<>>
        /\ UNCHANGED <<serverVars, bold>> /\ client[p].stage = "playing"
    BY <1>9, ReceiveType DEF Receive, Runs
  <2>2. Count(toServer'[p], Paid) = Count(toServer[p], Paid) /\ Count(toServer'[p], Free) = Count(toServer[p], Free)
    <3>1. /\ Says("request") \in ServerMessages /\ Says("request").type # "ask"
          /\ Says("end") \in ServerMessages /\ Says("end").type # "ask"
      BY MessagesSent DEF Says
    <3> QED
      BY <1>1, <1>9, <3>1, ReceiveType, QuietUp
  <2>3. CASE m.type = "lock"
    <3>1. client'[p] = Locked(client[p], m.lines) /\ m.lines \in 0..4
      BY <1>1, <1>9, <2>1, <2>3, MessagesRead DEF Receive
    <3>2. /\ client'[p].energy = client[p].energy + m.lines /\ client'[p].stage = "playing"
          /\ client'[p].wait = client[p].wait
      BY <1>1, <2>1, <3>1 DEF Locked, Clients
    <3>3. toClient'[p] = Tail(toClient[p])
      BY <1>9, <2>3, ReceiveType
    <3>4. /\ LineCount(toClient[p]) = LineCount(toClient'[p]) + Weight(m)
          /\ Count(toClient[p], Grants) = Count(toClient'[p], Grants) + (IF m \in Grants THEN 1 ELSE 0)
      BY <1>1, <2>1, <3>3, CountHead, LinesHead
    <3>5. Weight(m) = m.lines /\ m \notin Grants
      BY <2>1, <2>3 DEF Weight, Grants
    <3> HIDE DEF m
    <3>6. LineCount(toClient'[p]) \in Nat /\ Count(toClient'[p], Grants) \in Nat
      BY <1>1, CountType, LinesType
    <3>7. /\ LineCount(toClient[p]) = LineCount(toClient'[p]) + m.lines
          /\ Count(toClient[p], Grants) = Count(toClient'[p], Grants)
      BY <3>1, <3>4, <3>5, <3>6
    <3>8. Account(p)' = Account(p)
      BY <2>2, <3>1, <3>2, <3>6, <3>7, Counts, AccountNext DEF Account
    <3>9. Honest(p)' /\ Balanced(p)'
      BY <2>1, <2>2, <3>2, <3>8 DEF Sound, Honest, Balanced, Count, Places, Free
    <3>10. Waits(p)'
      BY <2>1, <2>2, <3>2, <3>7 DEF Sound, Waits, Count, Places, Paid, Grants
    <3> QED
      BY <3>9, <3>10 DEF Sound
  <2>4. CASE m.type = "malus"
    <3>1. client'[p] = Applied(client[p], m.malus)
      BY <1>1, <1>9, <2>4 DEF Receive
    <3>2. /\ client'[p].energy = client[p].energy /\ client'[p].stage = client[p].stage
          /\ client'[p].wait = client[p].wait
      BY <1>1, <3>1 DEF Applied, Clients
    <3>3. toClient'[p] = Tail(toClient[p])
      BY <1>9, <2>4, ReceiveType
    <3>4. LineCount(toClient'[p]) = LineCount(toClient[p]) /\ Count(toClient'[p], Grants) = Count(toClient[p], Grants)
      BY <1>1, <2>1, <2>4, <3>3, QuietDown
    <3>5. Quiet(p)
      BY <1>2, <2>1, <2>2, <3>2, <3>4 DEF Quiet
    <3> QED
      BY <3>5, QuietSound
  <2>5. CASE m.type = "authorisation"
    <3>1. client'[p] = [client[p] EXCEPT !.stage = m.kind, !.blocking = TRUE] /\ m.kind \in {"malus", "bonus"}
      BY <1>1, <1>9, <2>1, <2>5, MessagesRead DEF Receive
    <3>2. client'[p].energy = client[p].energy /\ client'[p].stage \in {"malus", "bonus"}
      BY <1>1, <3>1 DEF Clients
    <3>3. toClient'[p] = Tail(toClient[p])
      BY <1>9, <2>5, ReceiveType
    <3>5. LineCount(toClient'[p]) = LineCount(toClient[p])
      BY <1>1, <2>1, <2>5, <3>3, LinesSame
    <3>6. Account(p)' = Account(p)
      BY <2>2, <3>2, <3>5, AccountNext DEF Account
    <3>7. Honest(p)' /\ Balanced(p)'
      BY <2>1, <2>2, <3>2, <3>6 DEF Sound, Honest, Balanced, Count, Places, Free
    <3>8. Waits(p)'
      BY <3>2 DEF Waits
    <3> QED
      BY <3>7, <3>8 DEF Sound
  <2>6. CASE m.type = "verdict"
    <3>1. client'[p].stage = "over"
      BY <1>1, <1>9, <2>6 DEF Receive, Over
    <3>2. Quiet(p)
      BY <2>1, <2>2, <3>1 DEF Quiet
    <3> QED
      BY <3>2, QuietSound
  <2> QED
    BY <2>1, <2>3, <2>4, <2>5, <2>6, MessagesRead
<1> QED
  <2>1. Habits[p].asks \subseteq {"malus", "bonus"} /\ Habits[p].maluses \subseteq Maluses
        /\ TRUE \in BOOLEAN /\ FALSE \in BOOLEAN
    BY RoyalAssumption
  <2> QED
    BY <1>4, <1>5, <1>6, <1>7, <1>8, <1>9, <1>11, <1>12, <2>1 DEF Plays, Gravity, Show

\* What a player does leaves the others as they are.
LEMMA PlaysOthers ==
    ASSUME Typed, NEW p \in Players, Plays(p), NEW q \in Players \ {p}
    PROVE  /\ client'[q] = client[q] /\ server' = server
           /\ toServer'[q] = toServer[q] /\ toClient'[q] = toClient[q]
           /\ q \in bold' <=> q \in bold
<1> USE DEF serverVars
<1>1. client \in [Players -> Clients]
  BY DEF Typed, TypeOK, Clients
<1>2. ASSUME NEW m, Sent(p, m) PROVE toServer'[q] = toServer[q]
  BY <1>2 DEF Sent, Typed, Streams
<1>3. ASSUME NEW ticks, NEW lights, EndPass(p, ticks, lights)
      PROVE  /\ client'[q] = client[q] /\ server' = server
             /\ toServer'[q] = toServer[q] /\ toClient'[q] = toClient[q]
             /\ q \in bold' <=> q \in bold
  BY <1>1, <1>2, <1>3 DEF EndPass
<1>4. CASE Quit(p)
  BY <1>1, <1>2, <1>4 DEF Quit, Typed, Streams
<1>5. CASE Receive(p)
  BY <1>1, <1>5, ReceiveType DEF Receive
<1>6. CASE IdleKey(p)
  BY <1>1, <1>6 DEF IdleKey
<1>10. ASSUME NEW m, Steer(p, m)
       PROVE  /\ client'[q] = client[q] /\ server' = server
              /\ toServer'[q] = toServer[q] /\ toClient'[q] = toClient[q]
              /\ q \in bold' <=> q \in bold
  BY <1>1, <1>2, <1>10 DEF Steer
<1>7. ASSUME NEW kind, Ask(p, kind)
      PROVE  /\ client'[q] = client[q] /\ server' = server
             /\ toServer'[q] = toServer[q] /\ toClient'[q] = toClient[q]
             /\ q \in bold' <=> q \in bold
  BY <1>1, <1>2, <1>7 DEF Ask
<1>8. ASSUME NEW malus, NEW target, ChooseMalus(p, malus, target)
      PROVE  /\ client'[q] = client[q] /\ server' = server
             /\ toServer'[q] = toServer[q] /\ toClient'[q] = toClient[q]
             /\ q \in bold' <=> q \in bold
  BY <1>1, <1>2, <1>8 DEF ChooseMalus
<1>9. ASSUME NEW slow, ChooseBonus(p, slow)
      PROVE  /\ client'[q] = client[q] /\ server' = server
             /\ toServer'[q] = toServer[q] /\ toClient'[q] = toClient[q]
             /\ q \in bold' <=> q \in bold
  BY <1>1, <1>2, <1>9 DEF ChooseBonus
<1> QED
  BY <1>3, <1>4, <1>5, <1>6, <1>7, <1>8, <1>9, <1>10 DEF Plays, Gravity, Show

LEMMA SameSound ==
    ASSUME NEW q, Sound(q), client'[q] = client[q], server'[q] = server[q],
           toServer'[q] = toServer[q], toClient'[q] = toClient[q], q \in bold' <=> q \in bold
    PROVE  Sound(q)'
BY DEF Sound, Honest, Balanced, Waits, Account, LineCount, Count, Places, Paid, Free, Lines, Grants

\* A message that tells of neither a line nor an authorisation.
LEMMA QuietTold ==
    ASSUME Typed, NEW q \in Players, NEW to, NEW m \in ClientMessages,
           m.type \notin {"lock", "authorisation"}, Tells(to, m)
    PROVE  /\ LineCount(toClient'[q]) = LineCount(toClient[q])
           /\ Count(toClient'[q], Grants) = Count(toClient[q], Grants)
<1>1. toClient[q] \in Seq(ClientMessages)
  BY DEF Typed, Streams
<1>2. toClient'[q] = Append(toClient[q], m) \/ toClient'[q] = toClient[q]
  BY TellsType
<1> QED
  BY <1>1, <1>2, QuietDown

\* The server reads something else than a question.
LEMMA QuietTaken ==
    ASSUME Typed, NEW p \in Players, NEW q \in Players, NEW type, type # "ask", Takes(p, type)
    PROVE  /\ Count(toServer'[q], Paid) = Count(toServer[q], Paid)
           /\ Count(toServer'[q], Free) = Count(toServer[q], Free)
<1>1. toServer[q] \in Seq(ServerMessages)
  BY DEF Typed, Streams
<1>2. \/ toServer'[q] = toServer[q]
      \/ toServer[q] # <<>> /\ Head(toServer[q]).type # "ask" /\ toServer'[q] = Tail(toServer[q])
  BY TakesType
<1> QED
  BY <1>1, <1>2, QuietUp

\* What the server does, to anybody.
LEMMA ServeSound ==
    ASSUME Typed, Typed', NEW p \in Players, NEW q \in Players, Sound(q), Serve(p)
    PROVE  Sound(q)'
<1>1. /\ toServer[q] \in Seq(ServerMessages) /\ toClient[q] \in Seq(ClientMessages)
      /\ toServer'[q] \in Seq(ServerMessages) /\ toClient'[q] \in Seq(ClientMessages)
      /\ server[q] \in Servers /\ server \in [Players -> Servers]
  BY DEF Typed, Streams, TypeOK, Servers
<1>2. Count(toClient[q], Grants) \in Nat
  BY Counts
<1>3. CASE HandleMove(p)
  <2>1. /\ Count(toServer'[q], Paid) = Count(toServer[q], Paid)
        /\ Count(toServer'[q], Free) = Count(toServer[q], Free)
        /\ UNCHANGED <<client, bold>>
    BY <1>3, QuietTaken DEF HandleMove
  <2>2. ASSUME UNCHANGED toClient,
               server' = server \/ \E above : server' = [server EXCEPT ![p].above = above]
        PROVE  Sound(q)'
    <3>1. server'[q].inRoom = server[q].inRoom /\ server'[q].energy = server[q].energy
      BY <1>1, <2>2 DEF Servers
    <3>2. Quiet(q)
      BY <1>2, <2>1, <2>2, <3>1 DEF Quiet
    <3> QED
      BY <3>2, QuietSound
  <2>3. ASSUME NEW lines \in 0..4,
               server' = [server EXCEPT ![p].energy = @ + Earned(lines)],
               Tells({p}, [type |-> "lock", lines |-> lines])
        PROVE  Sound(q)'
    <3>1. CASE q # p
      <4>1. server'[q] = server[q]
        BY <1>1, <2>3, <3>1
      <4>2. toClient'[q] = toClient[q]
        BY <2>3, <3>1, TellsType, MessagesSent
      <4>3. Quiet(q)
        BY <1>2, <2>1, <4>1, <4>2 DEF Quiet
      <4> QED
        BY <4>3, QuietSound
    <3>2. CASE q = p
      <4> DEFINE m == [type |-> "lock", lines |-> lines]
      <4>1. m \in ClientMessages /\ m.type = "lock" /\ m.lines = lines
        BY MessagesSent
      <4>2. /\ server'[q].inRoom = server[q].inRoom
            /\ server'[q].energy = server[q].energy + lines
        BY <1>1, <2>3, <3>2 DEF Servers, Earned
      <4>3. client[q].stage # "over" => toClient'[q] = Append(toClient[q], m)
        BY <2>3, <3>2, <4>1, TellsType
      <4>4. Weight(m) = lines /\ m \notin Grants
        BY <4>1 DEF Weight, Grants
      <4> HIDE DEF m
      <4>5. CASE client[q].stage # "over"
        <5>1. /\ LineCount(toClient'[q]) = LineCount(toClient[q]) + Weight(m)
              /\ Count(toClient'[q], Grants) = Count(toClient[q], Grants) + (IF m \in Grants THEN 1 ELSE 0)
          <6>1. toClient'[q] = Append(toClient[q], m) /\ m \in ClientMessages
            BY <4>1, <4>3, <4>5
          <6> QED
            BY <1>1, <6>1, CountAppend, LinesAppend
        <5>2. /\ LineCount(toClient'[q]) = LineCount(toClient[q]) + lines
              /\ Count(toClient'[q], Grants) = Count(toClient[q], Grants)
          BY <4>4, <5>1, Counts
        <5>3. Account(q)' = Account(q) + lines
          BY <2>1, <5>2, Counts, AccountNext DEF Account
        <5>4. Balanced(q)'
          BY <2>1, <4>2, <5>3, Counts DEF Sound, Balanced
        <5>5. Honest(q)' /\ Waits(q)'
          BY <2>1, <4>2, <5>2 DEF Sound, Honest, Waits, Count, Places, Paid, Free, Grants
        <5> QED
          BY <5>4, <5>5 DEF Sound
      <4>6. CASE client[q].stage = "over"
        <5>1. Honest(q)' /\ Balanced(q)' /\ Waits(q)'
          BY <2>1, <4>6 DEF Sound, Honest, Balanced, Waits, Count, Places, Free
        <5> QED
          BY <5>1 DEF Sound
      <4> QED
        BY <4>5, <4>6
    <3> QED
      BY <3>1, <3>2
  <2> QED
    BY <1>3, <2>2, <2>3 DEF HandleMove
<1>4. CASE HandleRequest(p)
  <2>1. /\ Count(toServer'[q], Paid) = Count(toServer[q], Paid)
        /\ Count(toServer'[q], Free) = Count(toServer[q], Free)
        /\ UNCHANGED <<client, bold>>
    BY <1>4, QuietTaken DEF HandleRequest
  <2>2. server'[q].inRoom = server[q].inRoom /\ server'[q].energy = server[q].energy
    <3>1. \/ server' = [server EXCEPT ![p].above = Rows]
          \/ server' = [server EXCEPT ![p].isPlaying = FALSE]
          \/ server' = server
      BY <1>4 DEF HandleRequest
    <3>2. CASE server' = [server EXCEPT ![p].above = Rows]
      BY <1>1, <3>2 DEF Servers
    <3>3. CASE server' = [server EXCEPT ![p].isPlaying = FALSE]
      BY <1>1, <3>3 DEF Servers
    <3> QED
      BY <3>1, <3>2, <3>3
  <2>3. /\ LineCount(toClient'[q]) = LineCount(toClient[q])
        /\ Count(toClient'[q], Grants) = Count(toClient[q], Grants)
    <3>1. ASSUME NEW to, Tells(to, Says("verdict"))
          PROVE  /\ LineCount(toClient'[q]) = LineCount(toClient[q])
                 /\ Count(toClient'[q], Grants) = Count(toClient[q], Grants)
      <4>1. Says("verdict") \in ClientMessages /\ Says("verdict").type \notin {"lock", "authorisation"}
        BY MessagesSent DEF Says
      <4> QED
        BY <3>1, <4>1, QuietTold
    <3> QED
      BY <1>4, <3>1 DEF HandleRequest
  <2>4. Quiet(q)
    BY <1>2, <2>1, <2>2, <2>3 DEF Quiet
  <2> QED
    BY <2>4, QuietSound
<1>5. CASE HandleAsk(p)
  <2>1. UNCHANGED <<client, bold>> /\ Takes(p, "ask")
    BY <1>5 DEF HandleAsk
  <2>2. CASE q # p
    <3>1. toServer'[q] = toServer[q] /\ server'[q] = server[q]
      BY <1>1, <1>5, <2>1, <2>2, TakesType DEF HandleAsk
    <3>2. toClient'[q] = toClient[q]
      <4>1. CASE Tells({p}, [type |-> "authorisation", kind |-> Head(toServer[p]).kind])
        BY <4>1, <2>2 DEF Tells, Typed, Streams
      <4> QED
        BY <1>5, <4>1 DEF HandleAsk
    <3> QED
      BY <2>1, <3>1, <3>2, SameSound
  <2>3. CASE q = p
    <3> DEFINE a == Head(toServer[p])
               m == [type |-> "authorisation", kind |-> a.kind]
               granted == server[p].inRoom /\ server[p].energy > 0
    <3>1. /\ a \in ServerMessages /\ a.type = "ask" /\ a.kind \in {"malus", "bonus"}
          /\ a.charged \in BOOLEAN /\ toServer[p] # <<>>
          /\ toServer'[p] = Tail(toServer[p])
      BY <2>1, TakesType, MessagesRead
    <3>2. /\ Count(toServer[p], Paid) = Count(toServer'[p], Paid) + (IF a \in Paid THEN 1 ELSE 0)
          /\ Count(toServer[p], Free) = Count(toServer'[p], Free) + (IF a \in Free THEN 1 ELSE 0)
      BY <1>1, <2>3, <3>1, CountHead
    <3>3. (a \in Paid <=> a.charged) /\ (a \in Free <=> ~a.charged)
      BY <3>1 DEF Paid, Free
    <3>4. m \in ClientMessages /\ Weight(m) = 0 /\ m \in Grants
      <4>1. m \in ClientMessages
        BY <3>1, MessagesSent
      <4> QED
        BY <4>1 DEF Weight, Grants
    <3>5. /\ server' = IF granted THEN [server EXCEPT ![p].energy = @ - 1] ELSE server
          /\ granted => Tells({p}, m)
          /\ ~granted => toClient' = toClient
      BY <1>5 DEF HandleAsk
    <3> HIDE DEF a, m
    <3>6. /\ Count(toServer'[p], Paid) \in Nat /\ Count(toServer'[p], Free) \in Nat
          /\ Count(toServer[p], Paid) \in Nat /\ Count(toServer[p], Free) \in Nat
      BY <1>1, <2>3, CountType
    <3>7. p \notin bold => /\ Count(toServer[p], Paid) = Count(toServer'[p], Paid) + 1
                           /\ Count(toServer'[p], Free) = 0
      BY <2>3, <3>1, <3>2, <3>3, <3>6 DEF Sound, Honest
    <3>8. Honest(p)'
      BY <2>1, <3>7 DEF Honest, Count, Places, Free
    <3>9. CASE ~server[p].inRoom \/ client[p].stage = "over"
      <4>1. server'[p].inRoom = server[p].inRoom
        BY <1>1, <2>3, <3>5 DEF Servers
      <4>2. Balanced(p)' /\ Waits(p)'
        BY <2>1, <3>9, <4>1 DEF Balanced, Waits
      <4> QED
        BY <2>3, <3>8, <4>2 DEF Sound
    <3>10. CASE server[p].inRoom /\ client[p].stage # "over" /\ granted
      <4>1. server'[p].inRoom /\ server'[p].energy = server[p].energy - 1
        BY <1>1, <2>3, <3>5, <3>10 DEF Servers
      <4>2. toClient'[p] = Append(toClient[p], m)
        BY <3>4, <3>5, <3>10, TellsType
      <4>3. /\ LineCount(toClient'[p]) = LineCount(toClient[p]) + Weight(m)
            /\ Count(toClient'[p], Grants) = Count(toClient[p], Grants) + (IF m \in Grants THEN 1 ELSE 0)
        BY <1>1, <2>3, <3>4, <4>2, CountAppend, LinesAppend
      <4>4. /\ LineCount(toClient'[p]) = LineCount(toClient[p])
            /\ Count(toClient'[p], Grants) > 0
        BY <1>2, <2>3, <3>4, <4>3, Counts
      <4>5. /\ Account(p)' >= Account(p) - 1
            /\ p \notin bold => Account(p)' = Account(p) - 1
        BY <2>1, <3>2, <3>6, <3>7, <4>4, Counts, AccountNext DEF Account
      <4>6. Balanced(p)'
        <5>1. /\ server[p].energy \in Nat /\ Account(p) \in Nat
              /\ server[p].energy <= Account(p)
              /\ p \notin bold => server[p].energy = Account(p)
          BY <2>3, <3>10, Counts DEF Sound, Balanced
        <5>2. Account(p)' \in Nat
          <6>1. /\ client'[p].energy \in Nat /\ LineCount(toClient'[p]) \in Nat
            BY <1>1, <2>1, <2>3, Counts, LinesType
          <6> QED
            BY <6>1, <3>6, AccountNext
        <5> QED
          BY <2>1, <4>1, <4>5, <5>1, <5>2 DEF Balanced
      <4>7. Waits(p)'
        BY <4>4 DEF Waits, Count, Places, Grants
      <4> QED
        BY <2>3, <3>8, <4>6, <4>7 DEF Sound
    <3>11. CASE server[p].inRoom /\ client[p].stage # "over" /\ ~granted
      <4>1. server[p].energy = 0 /\ server' = server
        BY <3>5, <3>11, Counts
      <4>2. p \in bold
        <5>1. p \notin bold => server[p].energy = Account(p)
          BY <2>3, <3>11 DEF Sound, Balanced
        <5>2. p \notin bold => Account(p) > 0
          BY <3>6, <3>7, Counts DEF Account
        <5> QED
          BY <4>1, <5>1, <5>2
      <4>3. Account(p)' \in Nat
        <5>1. /\ client'[p].energy \in Nat
              /\ LineCount(toClient'[p]) \in Nat
          BY <1>1, <2>1, <2>3, Counts, LinesType
        <5> QED
          BY <5>1, <3>6, AccountNext
      <4>4. Balanced(p)' /\ Waits(p)'
        BY <2>1, <4>1, <4>2, <4>3 DEF Balanced, Waits
      <4> QED
        BY <2>3, <3>8, <4>4 DEF Sound
    <3> QED
      BY <3>9, <3>10, <3>11
  <2> QED
    BY <2>2, <2>3
<1>6. CASE HandleMalus(p)
  <2>1. /\ Count(toServer'[q], Paid) = Count(toServer[q], Paid)
        /\ Count(toServer'[q], Free) = Count(toServer[q], Free)
        /\ UNCHANGED <<server, client, bold>>
    BY <1>6, QuietTaken DEF HandleMalus
  <2>2. Head(toServer[p]).malus \in Maluses
    BY <1>6, TakesType, MessagesRead DEF HandleMalus
  <2>3. PICK malus \in Maluses : malus = Head(toServer[p]).malus
    BY <2>2
  <2>4. /\ LineCount(toClient'[q]) = LineCount(toClient[q])
        /\ Count(toClient'[q], Grants) = Count(toClient[q], Grants)
    <3>1. ASSUME NEW to, Tells(to, [type |-> "malus", malus |-> malus])
          PROVE  /\ LineCount(toClient'[q]) = LineCount(toClient[q])
                 /\ Count(toClient'[q], Grants) = Count(toClient[q], Grants)
      <4>1. /\ [type |-> "malus", malus |-> malus] \in ClientMessages
            /\ [type |-> "malus", malus |-> malus].type \notin {"lock", "authorisation"}
        BY MessagesSent
      <4> QED
        BY <3>1, <4>1, QuietTold
    <3> QED
      BY <1>6, <2>3, <3>1 DEF HandleMalus
  <2>5. Quiet(q)
    BY <1>2, <2>1, <2>4 DEF Quiet
  <2> QED
    BY <2>5, QuietSound
<1>7. CASE HandleBonus(p)
  <2>1. /\ Count(toServer'[q], Paid) = Count(toServer[q], Paid)
        /\ Count(toServer'[q], Free) = Count(toServer[q], Free)
        /\ UNCHANGED <<server, client, toClient, bold>>
    BY <1>7, QuietTaken DEF HandleBonus, serverVars
  <2>2. Quiet(q)
    BY <1>2, <2>1 DEF Quiet
  <2> QED
    BY <2>2, QuietSound
<1>9. CASE HandleRotate(p)
  <2>1. /\ Count(toServer'[q], Paid) = Count(toServer[q], Paid)
        /\ Count(toServer'[q], Free) = Count(toServer[q], Free)
        /\ UNCHANGED <<client, toClient, bold>>
    BY <1>9, QuietTaken DEF HandleRotate
  <2>2. server' = server \/ \E above : server' = [server EXCEPT ![p].above = above]
    BY <1>9 DEF HandleRotate
  <2>3. server'[q].inRoom = server[q].inRoom /\ server'[q].energy = server[q].energy
    BY <1>1, <2>2 DEF Servers
  <2>4. Quiet(q)
    BY <1>2, <2>1, <2>3 DEF Quiet
  <2> QED
    BY <2>4, QuietSound
<1>8. CASE HandleEnd(p)
  <2>1. /\ Count(toServer'[q], Paid) = Count(toServer[q], Paid)
        /\ Count(toServer'[q], Free) = Count(toServer[q], Free)
        /\ UNCHANGED <<client, toClient, bold>>
    BY <1>8, QuietTaken DEF HandleEnd
  <2>2. server'[q] = IF q = p THEN Gone ELSE server[q]
    BY <1>1, <1>8 DEF HandleEnd
  <2>3. Quiet(q)
    BY <1>2, <2>1, <2>2 DEF Quiet, Gone
  <2> QED
    BY <2>3, QuietSound
<1> QED
  BY <1>3, <1>4, <1>5, <1>6, <1>7, <1>8, <1>9 DEF Serve

LEMMA CloseSound ==
    ASSUME Typed, Typed', NEW q \in Players, Sound(q), CloseRoom
    PROVE  Sound(q)'
<1>1. Quiet(q)
  BY Counts DEF CloseRoom, Gone, Quiet
<1> QED
  BY <1>1, QuietSound

LEMMA SoundNext == Typed /\ AllSound /\ [Next]_vars => AllSound'
<1> SUFFICES ASSUME Typed, AllSound, [Next]_vars, NEW q \in Players PROVE Sound(q)'
  BY DEF AllSound
<1>1. Typed' /\ Sound(q)
  BY TypedNext DEF AllSound
<1>2. CASE UNCHANGED vars
  BY <1>1, <1>2, SameSound DEF vars
<1>3. CASE CloseRoom
  BY <1>1, <1>3, CloseSound
<1>4. ASSUME NEW p \in Players, Plays(p) PROVE Sound(q)'
  <2>1. CASE q = p
    BY <1>1, <1>4, <2>1, PlaysSound
  <2>2. CASE q # p
    BY <1>1, <1>4, <2>2, PlaysOthers, SameSound
  <2> QED
    BY <2>1, <2>2
<1>5. ASSUME NEW p \in Players, Serve(p) PROVE Sound(q)'
  BY <1>1, <1>5, ServeSound
<1> QED
  BY <1>2, <1>3, <1>4, <1>5 DEF Next

LEMMA InitSound == Init => AllSound
<1> SUFFICES ASSUME Init, NEW p \in Players PROVE Sound(p)
  BY DEF AllSound
<1>1. /\ client[p].energy = 0 /\ client[p].wait = FALSE /\ server[p].energy = 0
      /\ toServer[p] = <<>> /\ toClient[p] = <<>>
  BY DEF Init, Nobody
<1>2. Count(<<>>, Paid) = 0 /\ Count(<<>>, Free) = 0 /\ LineCount(<<>>) = 0
  <2>1. <<>> \in Seq(ClientMessages)
    OBVIOUS
  <2>2. Count(<<>>, Paid) = 0 /\ Count(<<>>, Free) = 0
    BY <2>1, CountType
  <2>3. LineCount(<<>>) = 0
    BY <2>1, LinesType
  <2> QED
    BY <2>2, <2>3
<1> QED
  BY <1>1, <1>2 DEF Sound, Honest, Balanced, Waits, Account

LEMMA SpecSound == Spec => [](Typed /\ AllSound)
BY InitType, InitSound, TypedNext, SoundNext, PTL DEF Spec

\* The counts of the model are those of the accounts.
LEMMA UnderWay ==
    ASSUME Typed, NEW p \in Players
    PROVE  /\ LinesUnderWay(p) = LineCount(toClient[p])
           /\ ChargesUnderWay(p) = Count(toServer[p], Paid)
<1>1. toServer[p] \in Seq(ServerMessages) /\ toClient[p] \in Seq(ClientMessages)
  BY DEF Typed, Streams
<1>2. ASSUME NEW n
      PROVE  Places(toClient[p], Lines(n)) =
               {i \in DOMAIN toClient[p] : toClient[p][i].type = "lock" /\ toClient[p][i].lines >= n}
  BY <1>1 DEF Places, Lines
<1>3. Places(toServer[p], Paid) = {i \in DOMAIN toServer[p] : toServer[p][i].type = "ask" /\ toServer[p][i].charged}
  BY <1>1 DEF Places, Paid
<1> QED
  BY <1>2, <1>3 DEF LinesUnderWay, LocksOf, LineCount, ChargesUnderWay, Count

\* The server's count of energy is the client's, up to the lines and the charges
\* under way, for every player that asks only with energy on display, and never
\* more for anybody (clearFullRow, askRoyalPermission, handleMalusAuthorisationMsg).
THEOREM TheLedgerBalances == Spec => []Ledger
<1>1. Typed /\ AllSound => Ledger
  <2> SUFFICES ASSUME Typed, AllSound, NEW p \in Players,
                      server[p].inRoom, client[p].stage # "over"
               PROVE  LET shown == client[p].energy + LinesUnderWay(p) + ChargesUnderWay(p)
                      IN  /\ server[p].energy <= shown
                          /\ p \notin bold => server[p].energy = shown
    BY DEF Ledger
  <2>1. client[p].energy + LinesUnderWay(p) + ChargesUnderWay(p) = Account(p)
    BY UnderWay DEF Account
  <2> QED
    BY <2>1 DEF AllSound, Sound, Balanced
<1> QED
  BY <1>1, SpecSound, PTL

\* A client that waits for what it paid for has its question unread and the unit
\* for it on the server, or has its answer unread (askRoyalPermission,
\* handleMalusAuthorisationMsg).
THEOREM PaidQuestionsAreAnswered == Spec => []PaidIsGranted
<1>1. Typed /\ AllSound => PaidIsGranted
  <2> SUFFICES ASSUME Typed, AllSound, NEW p \in Players, p \notin bold,
                      client[p].wait, client[p].stage = "playing", server[p].inRoom
               PROVE  \/ server[p].energy > 0 /\ \E i \in DOMAIN toServer[p] : toServer[p][i].type = "ask"
                      \/ \E i \in DOMAIN toClient[p] : toClient[p][i].type = "authorisation"
    BY DEF PaidIsGranted
  <2>1. toServer[p] \in Seq(ServerMessages) /\ toClient[p] \in Seq(ClientMessages)
    BY DEF Typed, Streams
  <2>2. CASE Count(toServer[p], Paid) > 0
    <3>1. \E i \in DOMAIN toServer[p] : toServer[p][i] \in Paid
      BY <2>1, <2>2, CountType
    <3>2. server[p].energy = Account(p)
      BY DEF AllSound, Sound, Balanced
    <3>3. server[p].energy > 0
      BY <2>2, <3>2, Counts DEF Account
    <3> QED
      BY <3>1, <3>3 DEF Paid
  <2>3. CASE Count(toClient[p], Grants) > 0
    <3>1. \E i \in DOMAIN toClient[p] : toClient[p][i] \in Grants
      BY <2>1, <2>3, CountType
    <3> QED
      BY <3>1 DEF Grants
  <2> QED
    BY <2>2, <2>3 DEF AllSound, Sound, Waits
<1> QED
  BY <1>1, SpecSound, PTL

=============================================================================
