-------------------------- MODULE RoomServer_proofs --------------------------
(* Proofs about RoomServer, for every set of sockets, accounts and rooms: its  *)
(* types, what a step does to the rooms, the order of the room directory, and  *)
(* the binary search in it.                                                    *)
EXTENDS RoomServer, FiniteSetTheorems, SequenceTheorems, Induction, TLAPS

-----------------------------------------------------------------------------
(* What the helpers on a room's record return.                               *)

\* Cap, the limit setNbrPlayers puts on a size, returns a natural number.
LEMMA CapType == ASSUME NEW n \in Nat PROVE Cap(n) \in Nat
  BY BoundsAreNat DEF Cap

\* Erasing an id from gamers_, found or not, leaves a bag of ids.
LEMMA EraseGamerType ==
  ASSUME NEW g \in [Ids -> Nat], NEW a \in Ids
  PROVE  EraseGamer(g, a) \in [Ids -> Nat]
  BY DEF EraseGamer

\* removePlayer keeps the fields of the room in their types.
LEMMA RemovePlayerType ==
  ASSUME NEW rec \in RoomType, NEW s \in Sockets, account[s] \in Ids
  PROVE  RemovePlayer(rec, s) \in RoomType
  <1>1. rec.gamers \in [Ids -> Nat]
    BY DEF RoomType
  <1>2. EraseGamer(rec.gamers, account[s]) \in [Ids -> Nat]
    BY <1>1, EraseGamerType
  <1>. QED
    BY <1>2 DEF RemovePlayer, RoomType

\* So does emptying it of its last players.
LEMMA RemoveAllType ==
  ASSUME NEW rec \in RoomType
  PROVE  RemoveAll(rec) \in RoomType
  <1>. DEFINE n(a) == Cardinality({p \in rec.players : account[p] = a})
              g == [a \in Ids |-> IF rec.gamers[a] > n(a) THEN rec.gamers[a] - n(a) ELSE 0]
  <1>1. rec.gamers \in [Ids -> Nat] /\ rec.players \subseteq Sockets
    BY DEF RoomType
  <1>2. \A a \in Ids : n(a) \in Nat
    <2>. SUFFICES ASSUME NEW a \in Ids PROVE n(a) \in Nat
      OBVIOUS
    <2>1. IsFiniteSet({p \in rec.players : account[p] = a})
      BY <1>1, SocketsFinite, FS_Subset
    <2>. QED
      BY <2>1, FS_CardinalityType
  <1>3. RemoveAll(rec) = [rec EXCEPT !.gamers = g, !.players = {}, !.ready = {}]
    BY <1>1 DEF RemoveAll, RoomType
  <1>. HIDE DEF n
  <1>4. g \in [Ids -> Nat]
    BY <1>1, <1>2
  <1>. QED
    BY <1>3, <1>4 DEF RoomType

\* And so does what a leaving player does to the room.
LEMMA AfterLeaveType ==
  ASSUME NEW rec \in RoomType, NEW s \in Sockets, account[s] \in Ids
  PROVE  AfterLeave(rec, s) \in RoomType
  <1>1. RemovePlayer(rec, s) \in RoomType
    BY RemovePlayerType
  <1>2. RemoveAll(RemovePlayer(rec, s)) \in RoomType
    BY <1>1, RemoveAllType
  <1>3. [RemoveAll(RemovePlayer(rec, s)) EXCEPT !.running = FALSE] \in RoomType
    BY <1>2 DEF RoomType
  <1>. QED
    BY <1>1, <1>3 DEF AfterLeave

\* Ready, what is left of the pass over the sockets, is a set of sockets.
LEMMA ReadyType ==
  ASSUME NEW rec \in RoomType, NEW next
  PROVE  Ready(rec, next) \in RoomType
  BY DEF Ready, RoomType

\* Replacing one room by a well-typed one keeps the rooms well typed.
LEMMA BecomesType ==
  ASSUME room \in [Rooms -> RoomType], NEW r, NEW rec \in RoomType
  PROVE  Becomes(r, rec) \in [Rooms -> RoomType]
  BY DEF Becomes

\* So does ending the handling of a message.
LEMMA PassedType ==
  ASSUME NEW rooms \in [Rooms -> RoomType], NEW r \in Rooms, NEW next
  PROVE  Passed(rooms, r, next) \in [Rooms -> RoomType]
  BY ReadyType DEF Passed

\* Each assignment of the handlers to a room's fields keeps the room well typed.
LEMMA UpdateType ==
  ASSUME NEW rec \in RoomType
  PROVE  /\ \A p \in Phases :
              /\ [rec EXCEPT !.phase = p] \in RoomType
              /\ \A b \in BOOLEAN : [rec EXCEPT !.phase = p, !.running = b] \in RoomType
              /\ \A S \in SUBSET Sockets : [rec EXCEPT !.phase = p, !.todo = S] \in RoomType
              /\ [rec EXCEPT !.phase = p, !.players = {}, !.ready = {},
                             !.gamers = NoGamers] \in RoomType
         /\ \A b \in BOOLEAN : /\ [rec EXCEPT !.running = b] \in RoomType
                                /\ [rec EXCEPT !.playing = b] \in RoomType
         /\ \A n \in Nat : [rec EXCEPT !.size = n] \in RoomType
         /\ \A S \in SUBSET Sockets : /\ [rec EXCEPT !.ready = S] \in RoomType
                                       /\ [rec EXCEPT !.todo = S] \in RoomType
  <1>1. NoGamers \in [Ids -> Nat]
    BY DEF NoGamers
  <1>. QED
    BY <1>1 DEF RoomType

\* playerLeaves keeps the server's tables in their types.
LEMMA PlayerLeavesType ==
  ASSUME TypeOK, NEW rec \in RoomType, NEW s \in Sockets, NEW d \in BOOLEAN,
         PlayerLeaves(rec, s, d)
  PROVE  /\ link' \in [Sockets -> {"free", "open", "hup"}]
         /\ clients' \subseteq Sockets
         /\ active' \subseteq Sockets
         /\ gameRoom' \in [Sockets -> Rooms \cup {NoRoom}]
         /\ isPlaying' \in [Sockets -> BOOLEAN]
         /\ verdict' \in [Sockets -> {"none", "lost", "won", "late"}]
  <1>1. Released(rec, s) \subseteq Sockets
    BY DEF Released, RoomType
  <1>. QED
    BY <1>1 DEF PlayerLeaves, TypeOK

\* The id handleCreate chooses is a positive number.
LEMMA NextRoomIdType ==
  ASSUME directory \in Seq(Rooms), room \in [Rooms -> RoomType]
  PROVE  NextRoomId \in Nat /\ NextRoomId > 0
  <1>1. CASE directory = <<>>
    BY <1>1 DEF NextRoomId
  <1>2. CASE directory # <<>>
    <2>1. Len(directory) \in 1 .. Len(directory)
      BY <1>2, EmptySeq
    <2>2. directory[Len(directory)] \in Rooms
      BY <2>1, ElementOfSeq
    <2>3. room[directory[Len(directory)]].id \in Nat
      BY <2>2 DEF RoomType
    <2>. QED
      BY <1>2, <2>3 DEF NextRoomId
  <1>. QED
    BY <1>1, <1>2

\* An index findRoomIndex returns is one of the directory's.
LEMMA IndexOfType ==
  ASSUME directory \in Seq(Rooms), NEW id, NEW i \in IndexOf(id)
  PROVE  /\ i \in Nat \ {0} /\ i \in 1 .. Len(directory)
         /\ directory[i] \in Rooms /\ room[directory[i]].id = id
  BY LenProperties, ElementOfSeq DEF IndexOf

\* removeGameRoom takes one element out of the directory and keeps the order.
LEMMA RemovedAt ==
  ASSUME NEW seq \in Seq(Rooms), NEW i \in 1 .. Len(seq)
  PROVE  LET rest == SubSeq(seq, 1, i - 1) \o SubSeq(seq, i + 1, Len(seq))
         IN  /\ rest \in Seq(Rooms)
             /\ Len(rest) = Len(seq) - 1
             /\ \A j \in 1 .. Len(seq) - 1 : rest[j] = seq[IF j < i THEN j ELSE j + 1]
  <1>. DEFINE left == SubSeq(seq, 1, i - 1)
              right == SubSeq(seq, i + 1, Len(seq))
  <1>1. /\ Len(seq) \in Nat
        /\ \A j \in 1 .. Len(seq) : seq[j] \in Rooms
    BY LenProperties, ElementOfSeq
  <1>2. /\ left \in Seq(Rooms) /\ Len(left) = i - 1
        /\ \A j \in 1 .. i - 1 : left[j] = seq[j]
    BY <1>1, SubSeqProperties
  <1>3. /\ right \in Seq(Rooms) /\ Len(right) = Len(seq) - i
        /\ \A j \in 1 .. Len(seq) - i : right[j] = seq[i + j]
    BY <1>1, SubSeqProperties
  <1>. HIDE DEF left, right
  <1>4. /\ left \o right \in Seq(Rooms)
        /\ Len(left \o right) = Len(left) + Len(right)
        /\ \A j \in 1 .. Len(left) + Len(right) :
              (left \o right)[j] = IF j <= Len(left) THEN left[j] ELSE right[j - Len(left)]
    BY <1>2, <1>3, ConcatProperties
  <1>5. \A j \in 1 .. Len(seq) - 1 :
           (left \o right)[j] = seq[IF j < i THEN j ELSE j + 1]
    BY <1>1, <1>2, <1>3, <1>4
  <1>6. Len(left \o right) = Len(seq) - 1
    BY <1>1, <1>2, <1>3, <1>4
  <1>. QED
    BY <1>4, <1>5, <1>6 DEF left, right

\* The record of a new room is well typed.
LEMMA OpenedType ==
  ASSUME TypeOK, NEW s \in Sockets, NEW n \in Sizes
  PROVE  Opened(s, n) \in RoomType
  <1>1. NextRoomId \in Nat
    BY NextRoomIdType DEF TypeOK
  <1>2. Cap(n) \in Nat
    BY SizesAreNat, CapType
  <1>3. [NoGamers EXCEPT ![account[s]] = 1] \in [Ids -> Nat]
    BY DEF TypeOK, NoGamers
  <1>. QED
    BY <1>1, <1>2, <1>3 DEF Opened, TypeOK, RoomType, Unused, Phases, LoopPhases

\* So is a room that addPlayer added a player to, and only its players grew.
LEMMA EnteredType ==
  ASSUME NEW rec \in RoomType, NEW s \in Sockets, account[s] \in Ids, NEW g
  PROVE  /\ Entered(rec, s, g) \in RoomType
         /\ Entered(rec, s, g).players = rec.players \cup {s}
         /\ Entered(rec, s, g).id = rec.id /\ Entered(rec, s, g).phase = rec.phase
         /\ Entered(rec, s, g).todo = rec.todo /\ Entered(rec, s, g).ready = rec.ready
         /\ Entered(rec, s, g).running = rec.running /\ Entered(rec, s, g).playing = rec.playing
  <1>. DEFINE seats == [rec.gamers EXCEPT ![account[s]] = IF g THEN @ + 1 ELSE @]
  <1>1. rec.gamers \in [Ids -> Nat]
    BY DEF RoomType
  <1>2. seats \in [Ids -> Nat]
    BY <1>1
  <1>3. Entered(rec, s, g) = [rec EXCEPT !.players = rec.players \cup {s}, !.gamers = seats]
    BY DEF Entered, RoomType
  <1>. HIDE DEF seats
  <1>4. rec.players \cup {s} \in SUBSET Sockets
    BY DEF RoomType
  <1>5. Entered(rec, s, g) \in RoomType
    BY <1>2, <1>3, <1>4 DEF RoomType
  <1>. QED
    BY <1>3, <1>5 DEF RoomType

\* The seat addPlayer takes for a gamer.
LEMMA EnteredSeat ==
  ASSUME NEW rec \in RoomType, NEW s \in Sockets, account[s] \in Ids, NEW g
  PROVE  Entered(rec, s, g).gamers = [rec.gamers EXCEPT ![account[s]] = IF g THEN @ + 1 ELSE @]
  BY DEF Entered, RoomType

-----------------------------------------------------------------------------
(* Type correctness.                                                         *)

\* The server starts well typed.
LEMMA TypeInit == Init => TypeOK
  <1>. SUFFICES ASSUME Init PROVE TypeOK
    OBVIOUS
  <1>1. Unused \in RoomType
    BY DEF Unused, RoomType, Phases, LoopPhases, Ids, NoGamers
  <1>2. directory \in Seq(Rooms)
    BY EmptySeq DEF Init
  <1>. QED
    BY <1>1, <1>2, OldIdsAreNat DEF Init, TypeOK, Ids

\* Every step of the server keeps the types.
LEMMA TypeNext == TypeOK /\ [Next]_vars => TypeOK'
  <1>. SUFFICES ASSUME TypeOK, [Next]_vars PROVE TypeOK'
    OBVIOUS
  <1>. USE DEF netVars, dbVars, history
  <1>a. \A r \in Rooms : room[r] \in RoomType
    BY DEF TypeOK
  <1>b. {"loop", "restore", "purge", "remove", "gone"} \subseteq Phases
    BY DEF Phases, LoopPhases
  <1>1. ASSUME NEW s \in Sockets, Connect(s) PROVE TypeOK'
    BY <1>1 DEF Connect, TypeOK, Ids
  <1>2. ASSUME NEW s \in Sockets, HangUp(s) PROVE TypeOK'
    BY <1>2 DEF HangUp, TypeOK
  <1>3. ASSUME NEW s \in Sockets, Disconnect(s) PROVE TypeOK'
    BY <1>3 DEF Disconnect, TypeOK
  <1>4. ASSUME NEW s \in Sockets, NEW a \in Accounts, Login(s, a) PROVE TypeOK'
    BY <1>4 DEF Login, TypeOK, Ids
  <1>5. ASSUME NEW s \in Sockets, NEW r \in Rooms, NEW n \in Sizes, Create(s, r, n)
        PROVE  TypeOK'
    <2>1. NextRoomId \in Nat
      BY NextRoomIdType DEF TypeOK
    <2>2. room' \in [Rooms -> RoomType]
      BY <1>5, OpenedType, BecomesType DEF Create, TypeOK
    <2>3. directory' \in Seq(Rooms)
      BY <1>5 DEF Create, TypeOK
    <2>. QED
      BY <1>5, <2>1, <2>2, <2>3 DEF Create, TypeOK
  <1>6. ASSUME NEW s \in Sockets, NEW id \in Nat, NEW g \in BOOLEAN, JoinBegin(s, id, g)
        PROVE  TypeOK'
    <2>1. CASE <<account[s], id>> \in invitations /\ IndexOf(id) # {}
      <3>1. PICK i \in IndexOf(id) :
              /\ active' = active \ {s}
              /\ main' = [op |-> "join", sock |-> s, index |-> i,
                          asGamer |-> g, wanted |-> directory[i]]
        BY <1>6, <2>1 DEF JoinBegin
      <3>4. main' \in JoinType
        BY <3>1, IndexOfType DEF JoinType, TypeOK
      <3>. QED
        BY <1>6, <3>1, <3>4 DEF JoinBegin, TypeOK
    <2>2. CASE ~(<<account[s], id>> \in invitations /\ IndexOf(id) # {})
      BY <1>6, <2>2 DEF JoinBegin, TypeOK
    <2>. QED
      BY <2>1, <2>2
  <1>7. ASSUME JoinEnter PROVE TypeOK'
    <2>1. CASE main.index > Len(directory)
      BY <1>7, <2>1 DEF JoinEnter, Crash, TypeOK
    <2>2. CASE ~(main.index > Len(directory))
      <3>. DEFINE s == main.sock
                  r == directory[main.index]
      <3>1. main \in JoinType
        BY <1>7 DEF JoinEnter, TypeOK
      <3>2. s \in Sockets /\ r \in Rooms /\ account[s] \in Ids
        <4>1. Len(directory) \in Nat
          BY LenProperties DEF TypeOK
        <4>2. main.index \in 1 .. Len(directory)
          BY <2>2, <3>1, <4>1 DEF JoinType
        <4>. QED
          BY <3>1, <4>2, ElementOfSeq DEF JoinType, TypeOK
      <3>3. room' \in [Rooms -> RoomType]
        <4>1. room' = room \/ room' = Becomes(r, Entered(room[r], s, main.asGamer))
          BY <1>7, <2>2 DEF JoinEnter
        <4>2. Entered(room[r], s, main.asGamer) \in RoomType
          BY <3>2, EnteredType DEF TypeOK
        <4>. QED
          BY <4>1, <4>2, BecomesType DEF TypeOK
      <3>4. gameRoom' \in [Sockets -> Rooms \cup {NoRoom}]
        BY <1>7, <2>2, <3>2 DEF JoinEnter, TypeOK
      <3>5. refused' \subseteq Sockets /\ strayed' \in BOOLEAN
        <4>1. refused' \in {refused \cup {s}, refused \ {s}}
          BY <1>7, <2>2 DEF JoinEnter
        <4>2. strayed' \in BOOLEAN
          BY <1>7, <2>2 DEF JoinEnter, TypeOK
        <4>. QED
          BY <3>2, <4>1, <4>2 DEF TypeOK
      <3>. QED
        BY <1>7, <2>2, <3>3, <3>4, <3>5 DEF JoinEnter, TypeOK
    <2>. QED
      BY <2>1, <2>2
  <1>8. ASSUME NEW s \in Sockets, MainLeave(s) PROVE TypeOK'
    <2>1. CASE IndexOf(lobby[s]) = {}
      BY <1>8, <2>1 DEF MainLeave, TypeOK
    <2>2. CASE IndexOf(lobby[s]) # {}
      <3>1. PICK i \in IndexOf(lobby[s]), d \in BOOLEAN :
              /\ PlayerLeaves(room[directory[i]], s, d)
              /\ room' = Becomes(directory[i], AfterLeave(room[directory[i]], s))
              /\ strayed' = (strayed \/ (Dissolves(room[directory[i]], s)
                                       /\ room[directory[i]].phase \notin LoopPhases))
              /\ revived' \in {revived, revived \cup {directory[i]}}
        BY <1>8, <2>2 DEF MainLeave
      <3>2. /\ room[directory[i]] \in RoomType /\ account[s] \in Ids
            /\ directory[i] \in Rooms
        BY IndexOfType DEF TypeOK
      <3>3. AfterLeave(room[directory[i]], s) \in RoomType
        BY <3>2, AfterLeaveType
      <3>4. room' \in [Rooms -> RoomType] /\ strayed' \in BOOLEAN
        BY <3>1, <3>3, BecomesType DEF TypeOK
      <3>5. revived' \subseteq Rooms
        BY <3>1, <3>2 DEF TypeOK
      <3>. QED
        BY <1>8, <3>1, <3>2, <3>4, <3>5, PlayerLeavesType DEF MainLeave, TypeOK
    <2>. QED
      BY <2>1, <2>2
  <1>28. ASSUME NEW s \in Sockets, MainStart(s) PROVE TypeOK'
    <2>1. PICK found \in BOOLEAN : /\ isPlaying' = [isPlaying EXCEPT ![s] = @ \/ found]
                                   /\ strayed' = (strayed \/ found)
      BY <1>28 DEF MainStart
    <2>2. isPlaying' \in [Sockets -> BOOLEAN] /\ strayed' \in BOOLEAN
      BY <2>1, Zenon DEF TypeOK
    <2>. QED
      BY <1>28, <2>2 DEF MainStart, TypeOK
  <1>9. ASSUME NEW r \in Rooms, RoomStart(r) PROVE TypeOK'
    <2>1. [room[r] EXCEPT !.phase = "loop", !.running = TRUE] \in RoomType
      BY <1>a, <1>b, UpdateType
    <2>2. room' \in [Rooms -> RoomType]
      BY <1>9, <2>1, BecomesType DEF RoomStart, TypeOK
    <2>. QED
      BY <1>9, <2>2 DEF RoomStart, TypeOK
  <1>10. ASSUME NEW r \in Rooms, RoomSelect(r) PROVE TypeOK'
    <2>1. PICK S \in SUBSET room[r].players : room' = Becomes(r, [room[r] EXCEPT !.ready = S])
      BY <1>10 DEF RoomSelect
    <2>2. [room[r] EXCEPT !.ready = S] \in RoomType
      <3>1. S \subseteq Sockets
        BY <1>a DEF RoomType
      <3>. QED
        BY <1>a, <3>1, UpdateType
    <2>3. room' \in [Rooms -> RoomType]
      BY <2>1, <2>2, BecomesType DEF TypeOK
    <2>. QED
      BY <1>10, <2>3 DEF RoomSelect, TypeOK
  <1>11. ASSUME NEW r \in Rooms, NEW s \in Sockets, RoomIgnore(r, s) PROVE TypeOK'
    <2>1. room' \in [Rooms -> RoomType]
      BY <1>11, PassedType DEF RoomIgnore, TypeOK
    <2>. QED
      BY <1>11, <2>1 DEF RoomIgnore, TypeOK
  <1>12. ASSUME NEW r \in Rooms, NEW s \in Sockets, RoomHangup(r, s) PROVE TypeOK'
    <2>1. PICK next : room' = Passed(Becomes(r, AfterLeave(room[r], s)), r, next)
      BY <1>12 DEF RoomHangup
    <2>2. room[r] \in RoomType /\ account[s] \in Ids
      BY DEF TypeOK
    <2>3. room' \in [Rooms -> RoomType]
      BY <2>1, <2>2, AfterLeaveType, BecomesType, PassedType DEF TypeOK
    <2>. QED
      BY <1>12, <2>2, <2>3, PlayerLeavesType DEF RoomHangup, TypeOK
  <1>13. ASSUME NEW r \in Rooms, NEW s \in Sockets, RoomLeave(r, s) PROVE TypeOK'
    <2>1. CASE IndexOf(lobby[s]) = {}
      <3>1. room' = Passed(room, r, Handled(r, s))
        BY <1>13, <2>1 DEF RoomLeave
      <3>2. room' \in [Rooms -> RoomType]
        BY <3>1, PassedType DEF TypeOK
      <3>. QED
        BY <1>13, <2>1, <3>2 DEF RoomLeave, TypeOK
    <2>2. CASE IndexOf(lobby[s]) # {}
      <3>1. PICK i \in IndexOf(lobby[s]), next \in AfterErase(r, s), d \in BOOLEAN :
              /\ PlayerLeaves(room[directory[i]], s, d)
              /\ room' = Passed(Becomes(directory[i], AfterLeave(room[directory[i]], s)), r, next)
        BY <1>13, <2>2 DEF RoomLeave
      <3>2. room[directory[i]] \in RoomType /\ account[s] \in Ids
        BY IndexOfType DEF TypeOK
      <3>3. room' \in [Rooms -> RoomType]
        BY <3>1, <3>2, AfterLeaveType, BecomesType, PassedType DEF TypeOK
      <3>. QED
        BY <1>13, <3>1, <3>2, <3>3, PlayerLeavesType DEF RoomLeave, TypeOK
    <2>. QED
      BY <2>1, <2>2
  <1>14. ASSUME NEW r \in Rooms, NEW s \in Sockets, LobbyStart(r, s) PROVE TypeOK'
    <2>1. PICK i \in IndexOf(lobby[s]) :
            /\ room' = Passed(Becomes(directory[i], [room[directory[i]] EXCEPT !.playing = TRUE]),
                              r, Handled(r, s))
            /\ isPlaying' = [p \in Sockets |-> isPlaying[p] \/ p \in room[directory[i]].players]
            /\ verdict' = [p \in Sockets |->
                             IF p \in room[directory[i]].players THEN "none" ELSE verdict[p]]
      BY <1>14 DEF LobbyStart
    <2>2. room[directory[i]] \in RoomType
      BY IndexOfType DEF TypeOK
    <2>3. [room[directory[i]] EXCEPT !.playing = TRUE] \in RoomType
      BY <2>2 DEF RoomType
    <2>4. room' \in [Rooms -> RoomType]
      BY <2>1, <2>3, BecomesType, PassedType DEF TypeOK
    <2>. QED
      BY <1>14, <2>1, <2>4 DEF LobbyStart, TypeOK
  <1>15. ASSUME NEW r \in Rooms, NEW s \in Sockets, NEW n \in Sizes, Modify(r, s, n)
         PROVE  TypeOK'
    <2>1. PICK i \in IndexOf(lobby[s]) :
            room' = Passed(Becomes(directory[i], [room[directory[i]] EXCEPT !.size = Cap(n)]),
                           r, Handled(r, s))
      BY <1>15 DEF Modify
    <2>2. room[directory[i]] \in RoomType /\ Cap(n) \in Nat
      BY IndexOfType, SizesAreNat, CapType DEF TypeOK
    <2>3. [room[directory[i]] EXCEPT !.size = Cap(n)] \in RoomType
      BY <2>2 DEF RoomType
    <2>4. room' \in [Rooms -> RoomType]
      BY <2>1, <2>3, BecomesType, PassedType DEF TypeOK
    <2>. QED
      BY <1>15, <2>4 DEF Modify, TypeOK
  <1>16. ASSUME NEW r \in Rooms, NEW s \in Sockets, NEW a \in Accounts, Invite(r, s, a)
         PROVE  TypeOK'
    <2>1. CASE ~DatabaseFree \/ account[s] = NoAccount
      BY <1>16, <2>1 DEF Invite, Crash, TypeOK
    <2>2. CASE ~(~DatabaseFree \/ account[s] = NoAccount)
      <3>1. room' = Passed(room, r, Handled(r, s))
        BY <1>16, <2>2 DEF Invite
      <3>2. room' \in [Rooms -> RoomType]
        BY <3>1, PassedType DEF TypeOK
      <3>. QED
        BY <1>16, <2>2, <3>2 DEF Invite, TypeOK
    <2>. QED
      BY <2>1, <2>2
  <1>17. ASSUME NEW r \in Rooms, NEW s \in Sockets, Lose(r, s) PROVE TypeOK'
    <2>. DEFINE q == gameRoom[s]
                alive == {p \in room[q].players : isPlaying[p] /\ p # s}
                on == room[q].running /\ Cardinality(alive) > 1
    <2>1. q \in Rooms
      BY <1>17 DEF Lose, TypeOK
    <2>2. room' = Passed(Becomes(q, [room[q] EXCEPT !.running = on]), r, Handled(r, s))
      BY <1>17 DEF Lose
    <2>3. on \in BOOLEAN
      BY <2>1 DEF TypeOK, RoomType
    <2>. HIDE DEF on
    <2>4. [room[q] EXCEPT !.running = on] \in RoomType
      BY <1>a, <2>1, <2>3, UpdateType
    <2>7. room' \in [Rooms -> RoomType]
      BY <2>2, <2>4, BecomesType, PassedType DEF TypeOK
    <2>5. isPlaying' = [isPlaying EXCEPT ![s] = FALSE]
      BY <1>17 DEF Lose
    <2>6. verdict' \in [Sockets -> {"none", "lost", "won", "late"}]
      BY <1>17 DEF Lose, TypeOK
    <2>. QED
      BY <1>17, <2>5, <2>6, <2>7 DEF Lose, TypeOK
  <1>18. ASSUME NEW r \in Rooms, NEW s \in Sockets, GameEnd(r, s) PROVE TypeOK'
    <2>1. CASE ~DatabaseFree
      BY <1>18, <2>1 DEF GameEnd, Crash, TypeOK
    <2>2. CASE DatabaseFree
      <3>. DEFINE q == gameRoom[s]
                  rec == [room[q] EXCEPT !.playing = @ /\ GamerCount(room[q]) # 1]
                  left == AfterLeave(rec, s)
                  ended == [left EXCEPT !.running = @ /\ ~NoGamer(left)]
      <3>1. q \in Rooms /\ account[s] \in Ids
        BY <1>18 DEF GameEnd, TypeOK
      <3>2. rec \in RoomType
        <4>1. (room[q].playing /\ GamerCount(room[q]) # 1) \in BOOLEAN
          BY <3>1 DEF TypeOK, RoomType
        <4>. QED
          BY <1>a, <3>1, <4>1, UpdateType
      <3>3. PICK next : room' = Passed(Becomes(q, ended), r, next)
        BY <1>18, <2>2 DEF GameEnd
      <3>4. PICK d \in BOOLEAN : PlayerLeaves(rec, s, d)
        BY <1>18, <2>2 DEF GameEnd
      <3>5. left \in RoomType
        BY <3>1, <3>2, AfterLeaveType
      <3>. HIDE DEF rec, left
      <3>6. ended \in RoomType
        BY <3>5 DEF RoomType
      <3>. HIDE DEF ended
      <3>7. room' \in [Rooms -> RoomType]
        BY <3>3, <3>6, BecomesType, PassedType DEF TypeOK
      <3>8. /\ lobby' = [lobby EXCEPT ![s] = 0]
            /\ UNCHANGED <<up, account, directory, dbVars, main, history>>
        BY <1>18, <2>2 DEF GameEnd
      <3>. QED
        BY <3>2, <3>4, <3>7, <3>8, PlayerLeavesType DEF TypeOK
    <2>. QED
      BY <2>1, <2>2
  <1>19. ASSUME NEW r \in Rooms, RoomExit(r) PROVE TypeOK'
    <2>1. [room[r] EXCEPT !.phase = "restore", !.todo = room[r].players] \in RoomType
      <3>1. room[r].players \subseteq Sockets
        BY <1>a DEF RoomType
      <3>. QED
        BY <1>a, <1>b, <3>1, UpdateType
    <2>2. room' \in [Rooms -> RoomType]
      BY <1>19, <2>1, BecomesType DEF RoomExit, TypeOK
    <2>. QED
      BY <1>19, <2>2 DEF RoomExit, TypeOK
  <1>20. ASSUME NEW r \in Rooms, NEW s \in Sockets, RoomRestore(r, s) PROVE TypeOK'
    <2>1. [room[r] EXCEPT !.todo = @ \ {s}] \in RoomType
      <3>1. room[r].todo \ {s} \subseteq Sockets
        BY <1>a DEF RoomType
      <3>. QED
        BY <1>a, <3>1, UpdateType
    <2>2. room' \in [Rooms -> RoomType]
      BY <1>20, <2>1, BecomesType DEF RoomRestore, TypeOK
    <2>3. verdict' \in [Sockets -> {"none", "lost", "won", "late"}]
      BY <1>20 DEF RoomRestore, Undelivered, TypeOK
    <2>. QED
      BY <1>20, <2>2, <2>3 DEF RoomRestore, TypeOK
  <1>21. ASSUME NEW r \in Rooms, RoomClear(r) PROVE TypeOK'
    <2>2. [room[r] EXCEPT !.phase = "purge", !.players = {},
                          !.ready = {}, !.gamers = NoGamers] \in RoomType
      BY <1>a, <1>b, UpdateType
    <2>3. room' \in [Rooms -> RoomType]
      BY <1>21, <2>2, BecomesType DEF RoomClear, TypeOK
    <2>. QED
      BY <1>21, <2>3 DEF RoomClear, TypeOK
  <1>22. ASSUME NEW r \in Rooms, RoomPurge(r) PROVE TypeOK'
    <2>1. [room[r] EXCEPT !.phase = "remove"] \in RoomType
      BY <1>a, <1>b, UpdateType
    <2>2. CASE ~DatabaseFree
      BY <1>22, <2>2 DEF RoomPurge, Crash, TypeOK
    <2>3. CASE DatabaseFree
      <3>1. room' = Becomes(r, [room[r] EXCEPT !.phase = "remove"])
        BY <1>22, <2>3 DEF RoomPurge, SetPhase
      <3>2. room' \in [Rooms -> RoomType]
        BY <2>1, <3>1, BecomesType DEF TypeOK
      <3>. QED
        BY <1>22, <2>3, <3>2 DEF RoomPurge, TypeOK
    <2>. QED
      BY <2>2, <2>3
  <1>23. ASSUME NEW r \in Rooms, RoomRemove(r) PROVE TypeOK'
    <2>1. PICK i \in IndexOf(room[r].id) :
            directory' = SubSeq(directory, 1, i - 1) \o SubSeq(directory, i + 1, Len(directory))
      BY <1>23 DEF RoomRemove
    <2>2. directory' \in Seq(Rooms)
      BY <2>1, IndexOfType, RemovedAt DEF TypeOK
    <2>3. [room[r] EXCEPT !.phase = "gone"] \in RoomType
      BY <1>a, <1>b, UpdateType
    <2>4. room' \in [Rooms -> RoomType]
      BY <1>23, <2>3, BecomesType DEF RoomRemove, SetPhase, TypeOK
    <2>. QED
      BY <1>23, <2>2, <2>4 DEF RoomRemove, TypeOK
  <1>24. CASE UNCHANGED vars
    BY <1>24 DEF vars, TypeOK
  <1>25. CASE Outside
    BY <1>1, <1>2, <1>25 DEF Outside
  <1>26. CASE MainThread
    <2>1. \A row \in listed : row[2] \in Nat
      BY DEF TypeOK
    <2>. QED
      BY <1>3, <1>4, <1>5, <1>6, <1>7, <1>8, <1>28, <1>26, <2>1 DEF MainThread
  <1>29. ASSUME NEW r \in Rooms, NEW s \in Sockets, NEW q \in Rooms, NEW n \in Sizes,
                RoomCreate(r, s, q, n)
         PROVE  TypeOK'
    <2>1. NextRoomId \in Nat
      BY NextRoomIdType DEF TypeOK
    <2>. DEFINE mid == Becomes(q, Opened(s, n))
    <2>2. mid \in [Rooms -> RoomType] /\ room' = Passed(mid, r, Handled(r, s))
      BY <1>29, OpenedType, BecomesType DEF RoomCreate, TypeOK
    <2>. HIDE DEF mid
    <2>3. room' \in [Rooms -> RoomType]
      BY <2>2, PassedType
    <2>4. directory' \in Seq(Rooms)
      BY <1>29 DEF RoomCreate, TypeOK
    <2>. QED
      BY <1>29, <2>1, <2>3, <2>4 DEF RoomCreate, TypeOK
  <1>30. ASSUME NEW r \in Rooms, NEW s \in Sockets, NEW id \in Nat, NEW g \in BOOLEAN,
                RoomJoin(r, s, id, g)
         PROVE  TypeOK'
    <2>1. CASE ~DatabaseFree
      BY <1>30, <2>1 DEF RoomJoin, Crash, TypeOK
    <2>2. CASE DatabaseFree
      <3>1. PICK q \in Rooms, full \in BOOLEAN :
              /\ active' \in {active, active \ {s}}
              /\ room' = Passed(IF full THEN room ELSE Becomes(q, Entered(room[q], s, g)),
                                r, Handled(r, s))
              /\ gameRoom' \in {gameRoom, [gameRoom EXCEPT ![s] = q]}
              /\ reseated' \in {reseated, reseated \cup {q}}
        <4>1. CASE <<account[s], id>> \in invitations /\ IndexOf(id) # {}
          <5>1. PICK i \in IndexOf(id) :
                  LET full == Full(room[directory[i]], g)
                  IN  /\ active' = active \ {s}
                      /\ room' = Passed(IF full THEN room
                                        ELSE Becomes(directory[i], Entered(room[directory[i]], s, g)),
                                      r, Handled(r, s))
                      /\ gameRoom' = IF full THEN gameRoom
                                     ELSE [gameRoom EXCEPT ![s] = directory[i]]
                      /\ reseated' = IF full \/ ~g THEN reseated
                                     ELSE reseated \cup {directory[i]}
            BY <1>30, <2>2, <4>1 DEF RoomJoin
          <5>2. directory[i] \in Rooms
            BY IndexOfType DEF TypeOK
          <5>3. Full(room[directory[i]], g) \in BOOLEAN
            BY DEF Full
          <5>. QED
            BY <5>1, <5>2, <5>3
        <4>2. CASE ~(<<account[s], id>> \in invitations /\ IndexOf(id) # {})
          <5>1. room' = Passed(room, r, Handled(r, s)) /\ UNCHANGED <<active, gameRoom, reseated>>
            BY <1>30, <2>2, <4>2 DEF RoomJoin
          <5>2. room' = Passed(IF TRUE THEN room ELSE Becomes(r, Entered(room[r], s, g)),
                               r, Handled(r, s))
            BY <5>1
          <5>. QED
            BY <5>1, <5>2
        <4>. QED
          BY <4>1, <4>2
      <3>2. room' \in [Rooms -> RoomType]
        <4>. DEFINE mid == IF full THEN room ELSE Becomes(q, Entered(room[q], s, g))
        <4>1. Entered(room[q], s, g) \in RoomType
          BY <3>1, EnteredType DEF TypeOK
        <4>2. mid \in [Rooms -> RoomType]
          BY <3>1, <4>1, BecomesType DEF TypeOK
        <4>3. room' = Passed(mid, r, Handled(r, s))
          BY <3>1
        <4>. HIDE DEF mid
        <4>. QED
          BY <4>2, <4>3, PassedType
      <3>3. /\ active' \subseteq Sockets /\ gameRoom' \in [Sockets -> Rooms \cup {NoRoom}]
            /\ reseated' \subseteq Rooms
        BY <3>1 DEF TypeOK
      <3>4. lobby' \in [Sockets -> Nat] /\ strayed' \in BOOLEAN
        BY <1>30, <2>2 DEF RoomJoin, TypeOK
      <3>. QED
        BY <1>30, <2>2, <3>2, <3>3, <3>4 DEF RoomJoin, TypeOK
    <2>. QED
      BY <2>1, <2>2
  <1>27. ASSUME NEW r \in Rooms, RoomThread(r) PROVE TypeOK'
    <2>1. \A row \in listed : row[2] \in Nat
      BY DEF TypeOK
    <2>. QED
      BY <1>9, <1>10, <1>11, <1>12, <1>13, <1>14, <1>15, <1>16, <1>17, <1>18, <1>19,
         <1>20, <1>21, <1>22, <1>23, <1>27, <1>29, <1>30, <2>1 DEF RoomThread
  <1>. QED
    BY <1>24, <1>25, <1>26, <1>27 DEF Next

\* Every variable keeps to the values its C++ declaration admits.
THEOREM TypeCorrect == Spec => []TypeOK
  BY TypeInit, TypeNext, PTL DEF Spec

-----------------------------------------------------------------------------
(* What a step does to the rooms.                                            *)

\* The fields of a room that nothing but its own thread changes.
SameStage(old, new) ==
    /\ new.id = old.id
    /\ new.phase = old.phase
    /\ new.todo = old.todo

\* removePlayer, for one player or for all: what it leaves of the room.
LEMMA AfterLeaveFields ==
  ASSUME NEW rec \in RoomType, NEW s \in Sockets, account[s] \in Ids
  PROVE  /\ SameStage(rec, AfterLeave(rec, s))
         /\ AfterLeave(rec, s).players = rec.players \ Released(rec, s)
         /\ AfterLeave(rec, s).ready \subseteq rec.ready \ Released(rec, s)
         /\ AfterLeave(rec, s).running => rec.running
  <1>. DEFINE one == RemovePlayer(rec, s)
              all == RemoveAll(one)
  <1>1. /\ SameStage(rec, one) /\ one.running = rec.running
        /\ one.players = rec.players \ {s} /\ one.ready = rec.ready \ {s}
    BY DEF RemovePlayer, RoomType, SameStage
  <1>2. one \in RoomType
    BY RemovePlayerType
  <1>3. /\ SameStage(one, all) /\ all.players = {} /\ all.ready = {}
    BY <1>2 DEF RemoveAll, RoomType, SameStage
  <1>4. all \in RoomType
    BY <1>2, RemoveAllType
  <1>. HIDE DEF one, all
  <1>5. CASE Dissolves(rec, s)
    <2>1. AfterLeave(rec, s) = [all EXCEPT !.running = FALSE]
      BY <1>5 DEF AfterLeave, one, all
    <2>2. /\ SameStage(all, AfterLeave(rec, s)) /\ AfterLeave(rec, s).players = {}
          /\ AfterLeave(rec, s).ready = {} /\ ~AfterLeave(rec, s).running
      BY <1>3, <1>4, <2>1 DEF RoomType, SameStage
    <2>3. Released(rec, s) = {s} \cup rec.players
      BY <1>5 DEF Released
    <2>. QED
      BY <1>1, <1>3, <2>2, <2>3 DEF SameStage
  <1>6. CASE ~Dissolves(rec, s)
    <2>1. AfterLeave(rec, s) = one
      BY <1>6 DEF AfterLeave, one
    <2>2. Released(rec, s) = {s}
      BY <1>6 DEF Released
    <2>. QED
      BY <1>1, <2>1, <2>2
  <1>. QED
    BY <1>5, <1>6

\* A room that lost players or stopped running is still consistent.
LEMMA StageShrinks ==
  ASSUME NEW old \in RoomType, NEW new \in RoomType, StageOK(old), SameStage(old, new),
         new.ready \subseteq new.players, new.ready \subseteq old.ready,
         new.running => old.running
  PROVE  StageOK(new)
  BY DEF StageOK, SameStage, RoomType

\* The rooms after a step that replaced one of them.
LEMMA BecomesFields ==
  ASSUME room \in [Rooms -> RoomType], NEW r \in Rooms, NEW rec
  PROVE  /\ Becomes(r, rec)[r] = rec
         /\ \A q \in Rooms \ {r} : Becomes(r, rec)[q] = room[q]
  BY DEF Becomes

\* Going on with a pass changes nothing but the pass.
LEMMA PassedFields ==
  ASSUME NEW rooms \in [Rooms -> RoomType], NEW r \in Rooms, NEW next
  PROVE  \A q \in Rooms :
            /\ SameStage(rooms[q], Passed(rooms, r, next)[q])
            /\ Passed(rooms, r, next)[q].players = rooms[q].players
            /\ Passed(rooms, r, next)[q].running = rooms[q].running
            /\ IF q = r THEN Passed(rooms, r, next)[q].ready = next \cap rooms[q].players
                        ELSE Passed(rooms, r, next)[q].ready = rooms[q].ready
  BY DEF Passed, Ready, RoomType, SameStage

\* The message handlers: room q becomes rec, which lost the players gone, and
\* the thread of r goes on with its pass.
Handles(r, q, rec, gone, next) ==
    /\ r \in Rooms /\ room[r].phase = "loop"
    /\ q \in Rooms /\ rec \in RoomType
    /\ SameStage(room[q], rec)
    /\ rec.players = room[q].players \ gone
    /\ rec.ready \subseteq room[q].ready \ gone
    /\ rec.running => room[q].running
    /\ room' = Passed(Becomes(q, rec), r, next)

\* A message handler changes no room's stage and takes no one but gone out of its room.
LEMMA HandlesRooms ==
  ASSUME TypeOK, RoomStages, NEW r, NEW q, NEW rec, NEW gone, NEW next,
         Handles(r, q, rec, gone, next)
  PROVE  /\ \A p \in Rooms : SameStage(room[p], room'[p]) /\ StageOK(room'[p])
         /\ room'[q].players = room[q].players \ gone
         /\ \A p \in Rooms \ {q} : room'[p].players = room[p].players
  <1>. DEFINE mid == Becomes(q, rec)
  <1>1. mid \in [Rooms -> RoomType] /\ r \in Rooms /\ q \in Rooms
    BY BecomesType DEF Handles, TypeOK
  <1>2. mid[q] = rec /\ \A p \in Rooms \ {q} : mid[p] = room[p]
    BY <1>1, BecomesFields DEF TypeOK
  <1>3. room' = Passed(mid, r, next)
    BY DEF Handles
  <1>. HIDE DEF mid
  <1>4. \A p \in Rooms : SameStage(room[p], mid[p])
    BY <1>2 DEF Handles, SameStage
  <1>5. \A p \in Rooms : StageOK(mid[p])
    <2>1. StageOK(room[q]) /\ room[q] \in RoomType
      BY <1>1 DEF RoomStages, TypeOK
    <2>2. StageOK(rec)
      BY <2>1, StageShrinks DEF Handles, StageOK
    <2>. QED
      BY <1>2, <2>2 DEF RoomStages
  <1>6. \A p \in Rooms : SameStage(mid[p], room'[p])
    BY <1>1, <1>3, PassedFields
  <1>7. \A p \in Rooms : StageOK(room'[p])
    BY <1>1, <1>3, <1>4, <1>5, PassedFields DEF StageOK, SameStage, Handles
  <1>8. \A p \in Rooms : room'[p].players = mid[p].players
    BY <1>1, <1>3, PassedFields
  <1>. QED
    BY <1>1, <1>2, <1>4, <1>6, <1>7, <1>8 DEF SameStage, Handles

\* A message that concerns no room, or is refused.
LEMMA IgnoreHandles ==
  ASSUME TypeOK, NEW r \in Rooms, NEW s \in Sockets, RoomServes(r, s),
         room' = Passed(room, r, Handled(r, s))
  PROVE  Handles(r, r, room[r], {}, Handled(r, s))
  <1>1. Becomes(r, room[r]) = room
    BY DEF Becomes, TypeOK
  <1>. QED
    BY <1>1 DEF Handles, RoomServes, SameStage, TypeOK

\* The definition of Handles, to be cited where rec is known by its fields only.
LEMMA HandlesIntro ==
  ASSUME NEW r \in Rooms, NEW s \in Sockets, RoomServes(r, s), NEW q \in Rooms,
         NEW rec \in RoomType, NEW gone, NEW next, SameStage(room[q], rec),
         rec.players = room[q].players \ gone, rec.ready \subseteq room[q].ready \ gone,
         rec.running => room[q].running, room' = Passed(Becomes(q, rec), r, next)
  PROVE  Handles(r, q, rec, gone, next)
  BY DEF Handles, RoomServes

\* START, MODIFY and a lost game assign to a field that places no client.
LEMMA AssignHandles ==
  ASSUME TypeOK, NEW r \in Rooms, NEW s \in Sockets, RoomServes(r, s), NEW q \in Rooms,
         NEW rec, \/ rec = [room[q] EXCEPT !.playing = TRUE]
                  \/ \E n \in Nat : rec = [room[q] EXCEPT !.size = n]
                  \/ \E b \in BOOLEAN : rec = [room[q] EXCEPT !.running = room[q].running /\ b],
         room' = Passed(Becomes(q, rec), r, Handled(r, s))
  PROVE  Handles(r, q, rec, {}, Handled(r, s))
  <1>1. room[q] \in RoomType /\ room[q].running \in BOOLEAN
    BY DEF TypeOK, RoomType
  <1>2. rec \in RoomType
    BY <1>1, UpdateType
  <1>3. /\ SameStage(room[q], rec) /\ rec.players = room[q].players
        /\ rec.ready = room[q].ready /\ (rec.running => room[q].running)
    BY <1>1 DEF SameStage, RoomType
  <1>4. rec.players = room[q].players \ {} /\ rec.ready \subseteq room[q].ready \ {}
    BY <1>3
  <1>. QED
    BY <1>2, <1>3, <1>4, HandlesIntro

\* LEAVE, END and a hang-up take the released players out of their room.
LEMMA LeaveHandles ==
  ASSUME TypeOK, NEW r \in Rooms, NEW s \in Sockets, RoomServes(r, s), NEW q \in Rooms,
         NEW rec \in RoomType, SameStage(room[q], rec), rec.players = room[q].players,
         rec.ready = room[q].ready, rec.running = room[q].running,
         NEW left, left = AfterLeave(rec, s)
                   \/ \E b \in BOOLEAN : left = [AfterLeave(rec, s) EXCEPT !.running = @ /\ b],
         NEW next, room' = Passed(Becomes(q, left), r, next)
  PROVE  Handles(r, q, left, Released(rec, s), next)
  <1>1. account[s] \in Ids
    BY DEF TypeOK
  <1>. DEFINE after == AfterLeave(rec, s)
  <1>2. after \in RoomType
    BY <1>1, AfterLeaveType
  <1>3. /\ SameStage(rec, after) /\ after.players = rec.players \ Released(rec, s)
        /\ after.ready \subseteq rec.ready \ Released(rec, s)
        /\ after.running => rec.running
    BY <1>1, AfterLeaveFields
  <1>4. left = after \/ \E b \in BOOLEAN : left = [after EXCEPT !.running = after.running /\ b]
    OBVIOUS
  <1>. HIDE DEF after
  <1>5. /\ left \in RoomType
        /\ SameStage(after, left) /\ left.players = after.players
        /\ left.ready = after.ready /\ (left.running => after.running)
    <2>1. CASE left = after
      BY <1>2, <2>1 DEF SameStage
    <2>2. ASSUME NEW b \in BOOLEAN, left = [after EXCEPT !.running = after.running /\ b]
          PROVE  <1>5
      <3>1. after.running \in BOOLEAN
        BY <1>2 DEF RoomType
      <3>2. left \in RoomType
        BY <1>2, <2>2, <3>1, UpdateType
      <3>. QED
        BY <1>2, <2>2, <3>1, <3>2 DEF RoomType, SameStage
    <2>. QED
      BY <1>4, <2>1, <2>2
  <1>6. SameStage(room[q], left)
    BY <1>3, <1>5 DEF SameStage
  <1>7. /\ left.players = room[q].players \ Released(rec, s)
        /\ left.ready \subseteq room[q].ready \ Released(rec, s)
        /\ left.running => room[q].running
    BY <1>3, <1>5
  <1>. QED
    BY <1>5, <1>6, <1>7, HandlesIntro

\* A handler of room r makes s leave room q.
Leaves(r, q, s) ==
    \E rec \in RoomType, d \in BOOLEAN : \E left, next :
        /\ rec.players = room[q].players
        /\ PlayerLeaves(rec, s, d)
        /\ Handles(r, q, left, Released(rec, s), next)

\* readSafe's end of stream makes the player leave its thread's room.
LEMMA HangupLeaves ==
  ASSUME TypeOK, NEW r \in Rooms, NEW s \in Sockets, RoomHangup(r, s)
  PROVE  Leaves(r, r, s)
  <1>1. PICK next : room' = Passed(Becomes(r, AfterLeave(room[r], s)), r, next)
    BY DEF RoomHangup
  <1>2. room[r] \in RoomType /\ PlayerLeaves(room[r], s, TRUE) /\ RoomServes(r, s)
    BY DEF RoomHangup, TypeOK
  <1>3. Handles(r, r, AfterLeave(room[r], s), Released(room[r], s), next)
    BY <1>1, <1>2, LeaveHandles DEF SameStage
  <1>. QED
    BY <1>2, <1>3 DEF Leaves

\* LEAVE makes the player leave the room found by the id it holds.
LEMMA RoomLeaveLeaves ==
  ASSUME TypeOK, NEW r \in Rooms, NEW s \in Sockets, RoomLeave(r, s), IndexOf(lobby[s]) # {}
  PROVE  \E i \in IndexOf(lobby[s]) : Leaves(r, directory[i], s)
  <1>1. PICK i \in IndexOf(lobby[s]), next \in AfterErase(r, s), d \in BOOLEAN :
          /\ PlayerLeaves(room[directory[i]], s, d)
          /\ room' = Passed(Becomes(directory[i], AfterLeave(room[directory[i]], s)), r, next)
    BY DEF RoomLeave
  <1>. DEFINE q == directory[i]
  <1>2. q \in Rooms /\ room[q] \in RoomType /\ RoomServes(r, s)
    BY IndexOfType DEF RoomLeave, TypeOK
  <1>3. Handles(r, q, AfterLeave(room[q], s), Released(room[q], s), next)
    BY <1>1, <1>2, LeaveHandles DEF SameStage
  <1>. QED
    BY <1>1, <1>2, <1>3 DEF Leaves

\* END makes the player leave the room its gameRoom points to.
LEMMA GameEndLeaves ==
  ASSUME TypeOK, NEW r \in Rooms, NEW s \in Sockets, GameEnd(r, s), DatabaseFree
  PROVE  gameRoom[s] \in Rooms /\ Leaves(r, gameRoom[s], s)
  <1>. DEFINE q == gameRoom[s]
              b == GamerCount(room[q]) # 1
              rec == [room[q] EXCEPT !.playing = @ /\ b]
              e == ~NoGamer(AfterLeave(rec, s))
              ended == [AfterLeave(rec, s) EXCEPT !.running = @ /\ e]
  <1>1. q \in Rooms /\ room[q] \in RoomType /\ RoomServes(r, s)
    BY DEF GameEnd, TypeOK
  <1>2. PICK next : room' = Passed(Becomes(q, ended), r, next)
    BY DEF GameEnd
  <1>3. PICK d \in BOOLEAN : PlayerLeaves(rec, s, d)
    BY DEF GameEnd
  <1>4. b \in BOOLEAN /\ e \in BOOLEAN
    BY DEF NoGamer
  <1>. HIDE DEF b, e
  <1>5. /\ rec \in RoomType /\ SameStage(room[q], rec) /\ rec.players = room[q].players
        /\ rec.ready = room[q].ready /\ rec.running = room[q].running
    <2>1. (room[q].playing /\ b) \in BOOLEAN
      BY <1>1, <1>4 DEF RoomType
    <2>2. rec \in RoomType
      BY <1>1, <2>1, UpdateType
    <2>. QED
      BY <1>1, <2>2 DEF RoomType, SameStage
  <1>. HIDE DEF rec
  <1>6. Handles(r, q, ended, Released(rec, s), next)
    BY <1>1, <1>2, <1>4, <1>5, LeaveHandles
  <1>. QED
    BY <1>1, <1>3, <1>5, <1>6 DEF Leaves

-----------------------------------------------------------------------------
(* The stages of the rooms and the order of the directory.                   *)

\* Neither depends on anything a handler of a room changes.
LEMMA KeptStages ==
  ASSUME TypeOK, RoomStages, DirectorySorted, UNCHANGED directory,
         main' = main \/ main' = Idle,
         \A p \in Rooms :
            /\ StageOK(room'[p]) /\ room'[p].id = room[p].id
            /\ room'[p].phase = "unused" <=> room[p].phase = "unused"
            /\ room'[p].phase = "gone" <=> room[p].phase = "gone"
  PROVE  RoomStages' /\ DirectorySorted'
  <1>1. main # Idle => main.wanted \in Rooms
    BY DEF TypeOK, JoinType
  <1>2. RoomStages'
    BY <1>1 DEF RoomStages, StageOK
  <1>3. \A i \in DOMAIN directory : directory[i] \in Rooms
    BY LenProperties, ElementOfSeq DEF TypeOK
  <1>. QED
    BY <1>2, <1>3 DEF DirectorySorted

\* A step that handles one message.
LEMMA HandlesStages ==
  ASSUME TypeOK, RoomStages, DirectorySorted, UNCHANGED <<directory, main>>,
         NEW r, NEW q, NEW rec, NEW gone, NEW next, Handles(r, q, rec, gone, next)
  PROVE  RoomStages' /\ DirectorySorted'
  BY HandlesRooms, KeptStages DEF SameStage

\* A step in which a player leaves.
LEMMA LeavesStages ==
  ASSUME TypeOK, RoomStages, DirectorySorted, UNCHANGED <<directory, main>>,
         NEW r, NEW q, NEW s, Leaves(r, q, s)
  PROVE  RoomStages' /\ DirectorySorted'
  BY HandlesStages DEF Leaves

\* A step that touches no room.
LEMMA UnchangedStages ==
  ASSUME TypeOK, RoomStages, DirectorySorted, UNCHANGED <<directory, room>>,
         main' = main \/ main' = Idle
  PROVE  RoomStages' /\ DirectorySorted'
  BY KeptStages DEF RoomStages

\* A step of room r's own thread: rec is its new record.
LEMMA StepStages ==
  ASSUME TypeOK, RoomStages, DirectorySorted, UNCHANGED <<directory, main>>,
         NEW r \in Rooms, NEW rec, room' = Becomes(r, rec),
         rec.id = room[r].id, StageOK(rec), rec.phase \notin {"unused", "gone"},
         room[r].phase \notin {"unused", "gone"}
  PROVE  RoomStages' /\ DirectorySorted'
  <1>1. room'[r] = rec /\ \A q \in Rooms \ {r} : room'[q] = room[q]
    BY BecomesFields DEF TypeOK
  <1>. QED
    BY <1>1, KeptStages DEF RoomStages

\* handleCreate appends a room whose id exceeds every id of the directory, and
\* touches the other rooms at most by going on with a pass.
LEMMA OpenedStages ==
  ASSUME TypeOK, RoomStages, DirectorySorted, UNCHANGED main,
         NEW r \in Rooms, room[r].phase = "unused", directory' = Append(directory, r),
         NEW new, room'[r] = new, new.id = NextRoomId, new.phase = "start",
         new.ready = {}, new.todo = {},
         \A q \in Rooms \ {r} : SameStage(room[q], room'[q]) /\ StageOK(room'[q])
  PROVE  RoomStages' /\ DirectorySorted'
  <1>. DEFINE len == Len(directory)
  <1>4. NextRoomId \in Nat /\ NextRoomId > 0
    BY NextRoomIdType DEF TypeOK
  <1>6. StageOK(new)
    BY <1>4 DEF StageOK, LoopPhases
  <1>7. RoomStages'
    <2>1. \A q \in Rooms : StageOK(room'[q])
      BY <1>6
    <2>2. main # Idle => main.wanted \in Rooms
      BY DEF TypeOK, JoinType
    <2>. QED
      BY <2>1, <2>2 DEF RoomStages, SameStage
  <1>8. /\ len \in Nat /\ DOMAIN directory = 1 .. len
        /\ \A i \in 1 .. len : directory[i] \in Rooms /\ directory[i] # r
    BY LenProperties, ElementOfSeq DEF TypeOK, DirectorySorted
  <1>9. /\ DOMAIN directory' = 1 .. len + 1 /\ directory'[len + 1] = r
        /\ \A i \in 1 .. len : directory'[i] = directory[i]
    BY <1>8 DEF TypeOK
  <1>10. \A i \in 1 .. len : room[directory[i]].id < NextRoomId
    <2>1. CASE len = 0
      BY <1>8, <2>1
    <2>2. CASE len > 0
      <3>1. NextRoomId = room[directory[len]].id + 1
        BY <2>2, EmptySeq DEF NextRoomId
      <3>2. \A i \in 1 .. len : room[directory[i]].id \in Nat
        BY <1>8 DEF TypeOK, RoomType
      <3>3. \A i \in 1 .. len : i < len => room[directory[i]].id < room[directory[len]].id
        BY <1>8, <2>2 DEF DirectorySorted
      <3>. QED
        BY <1>8, <2>2, <3>1, <3>2, <3>3
    <2>. QED
      BY <1>8, <2>1, <2>2
  <1>11. \A i \in 1 .. len : room'[directory'[i]].id = room[directory[i]].id
    BY <1>8, <1>9 DEF SameStage
  <1>12. \A i, j \in 1 .. len + 1 : i < j => room'[directory'[i]].id < room'[directory'[j]].id
    <2>. SUFFICES ASSUME NEW i \in 1 .. len + 1, NEW j \in 1 .. len + 1, i < j
                  PROVE  room'[directory'[i]].id < room'[directory'[j]].id
      OBVIOUS
    <2>1. i \in 1 .. len
      BY <1>8
    <2>2. CASE j = len + 1
      BY <1>9, <1>10, <1>11, <2>1, <2>2
    <2>3. CASE j \in 1 .. len
      BY <1>8, <1>11, <2>1, <2>3 DEF DirectorySorted
    <2>. QED
      BY <1>8, <2>2, <2>3
  <1>13. \A q \in Rooms : room'[q].phase \notin {"unused", "gone"}
                           <=> \E i \in 1 .. len + 1 : directory'[i] = q
    <2>. SUFFICES ASSUME NEW q \in Rooms
                  PROVE  room'[q].phase \notin {"unused", "gone"}
                           <=> \E i \in 1 .. len + 1 : directory'[i] = q
      OBVIOUS
    <2>1. CASE q = r
      BY <1>8, <1>9, <2>1
    <2>2. CASE q # r
      <3>1. room[q].phase \notin {"unused", "gone"} <=> \E i \in 1 .. len : directory[i] = q
        BY <1>8 DEF DirectorySorted
      <3>2. (\E i \in 1 .. len : directory[i] = q) <=> \E i \in 1 .. len + 1 : directory'[i] = q
        BY <1>8, <1>9, <2>2
      <3>. QED
        BY <2>2, <3>1, <3>2 DEF SameStage
    <2>. QED
      BY <2>1, <2>2
  <1>14. DirectorySorted'
    BY <1>9, <1>12, <1>13 DEF DirectorySorted
  <1>. QED
    BY <1>7, <1>14

\* What the record of a new room says of its stage.
LEMMA OpenedFields ==
  ASSUME TypeOK, NEW s \in Sockets, NEW n \in Sizes
  PROVE  /\ Opened(s, n).id = NextRoomId /\ Opened(s, n).phase = "start"
         /\ Opened(s, n).ready = {} /\ Opened(s, n).todo = {}
         /\ Opened(s, n).players = {s}
  BY DEF Opened, Unused

\* CREATE read by the main thread.
LEMMA CreateStages ==
  ASSUME TypeOK, RoomStages, DirectorySorted,
         NEW s \in Sockets, NEW r \in Rooms, NEW n \in Sizes, Create(s, r, n)
  PROVE  RoomStages' /\ DirectorySorted'
  <1>1. /\ room' = Becomes(r, Opened(s, n)) /\ room[r].phase = "unused"
        /\ directory' = Append(directory, r) /\ main' = main
    BY DEF Create
  <1>2. room'[r] = Opened(s, n) /\ \A q \in Rooms \ {r} : room'[q] = room[q]
    BY <1>1, BecomesFields DEF TypeOK
  <1>3. \A q \in Rooms \ {r} : SameStage(room[q], room'[q]) /\ StageOK(room'[q])
    BY <1>2 DEF SameStage, RoomStages
  <1>. QED
    BY <1>1, <1>2, <1>3, OpenedFields, OpenedStages

\* CREATE read by the thread of a room.
LEMMA RoomCreateStages ==
  ASSUME TypeOK, RoomStages, DirectorySorted, NEW r \in Rooms, NEW s \in Sockets,
         NEW q \in Rooms, NEW n \in Sizes, RoomCreate(r, s, q, n)
  PROVE  RoomStages' /\ DirectorySorted'
  <1>. DEFINE mid == Becomes(q, Opened(s, n))
  <1>1. /\ room' = Passed(mid, r, Handled(r, s)) /\ room[q].phase = "unused"
        /\ directory' = Append(directory, q) /\ main' = main /\ room[r].phase = "loop"
    BY DEF RoomCreate, RoomServes
  <1>2. mid[q] = Opened(s, n) /\ \A p \in Rooms \ {q} : mid[p] = room[p]
    BY BecomesFields DEF TypeOK
  <1>3. mid \in [Rooms -> RoomType]
    BY OpenedType, BecomesType DEF TypeOK
  <1>. HIDE DEF mid
  <1>4. \A p \in Rooms :
           /\ SameStage(mid[p], room'[p])
           /\ room'[p].players = mid[p].players /\ room'[p].running = mid[p].running
           /\ IF p = r THEN room'[p].ready = Handled(r, s) \cap mid[p].players
                       ELSE room'[p].ready = mid[p].ready
    BY <1>1, <1>3, PassedFields
  <1>5. q # r
    BY <1>1
  <1>6. /\ room'[q].id = NextRoomId /\ room'[q].phase = "start"
        /\ room'[q].ready = {} /\ room'[q].todo = {}
    BY <1>2, <1>4, <1>5, OpenedFields DEF SameStage
  <1>7. \A p \in Rooms \ {q} : SameStage(room[p], room'[p]) /\ StageOK(room'[p])
    BY <1>1, <1>2, <1>4 DEF SameStage, RoomStages, StageOK
  <1>. QED
    BY <1>1, <1>6, <1>7, OpenedStages

\* In a sorted directory an id belongs to one room.
LEMMA OneIndex ==
  ASSUME TypeOK, DirectorySorted, NEW i \in DOMAIN directory, NEW j \in DOMAIN directory,
         room[directory[i]].id = room[directory[j]].id
  PROVE  i = j
  <1>1. /\ i \in Nat /\ j \in Nat /\ directory[i] \in Rooms /\ directory[j] \in Rooms
    BY LenProperties, ElementOfSeq DEF TypeOK
  <1>2. room[directory[i]].id \in Nat /\ room[directory[j]].id \in Nat
    BY <1>1 DEF TypeOK, RoomType
  <1>. QED
    BY <1>1, <1>2 DEF DirectorySorted

\* removeGameRoom takes the room itself out of the directory.
LEMMA RemoveStages ==
  ASSUME TypeOK, RoomStages, DirectorySorted, NEW r \in Rooms, RoomRemove(r)
  PROVE  RoomStages' /\ DirectorySorted'
  <1>. DEFINE len == Len(directory)
              rec == [room[r] EXCEPT !.phase = "gone"]
  <1>1. PICK i \in IndexOf(room[r].id) :
          directory' = SubSeq(directory, 1, i - 1) \o SubSeq(directory, i + 1, len)
    BY DEF RoomRemove
  <1>2. /\ len \in Nat /\ DOMAIN directory = 1 .. len
        /\ \A j \in 1 .. len : directory[j] \in Rooms
    BY LenProperties, ElementOfSeq DEF TypeOK
  <1>3. i \in 1 .. len /\ room[directory[i]].id = room[r].id
    BY IndexOfType DEF TypeOK
  <1>4. main' = main /\ room[r].phase = "remove" /\ room' = Becomes(r, rec)
    BY DEF RoomRemove, SetPhase
  <1>5. directory[i] = r
    <2>1. PICK j \in DOMAIN directory : directory[j] = r
      BY <1>4 DEF DirectorySorted
    <2>. QED
      BY <1>2, <1>3, <2>1, OneIndex
  <1>6. /\ rec.phase = "gone" /\ rec.id = room[r].id /\ rec.ready = room[r].ready
        /\ rec.players = room[r].players /\ rec.todo = room[r].todo
        /\ rec.running = room[r].running
    BY DEF TypeOK, RoomType
  <1>. HIDE DEF rec
  <1>7. room'[r] = rec /\ \A q \in Rooms \ {r} : room'[q] = room[q]
    BY <1>4, BecomesFields DEF TypeOK
  <1>8. RoomStages'
    <2>1. main # Idle => main.wanted \in Rooms
      BY DEF TypeOK, JoinType
    <2>2. StageOK(rec)
      BY <1>4, <1>6 DEF RoomStages, StageOK, LoopPhases
    <2>. QED
      BY <1>4, <1>6, <1>7, <2>1, <2>2 DEF RoomStages
  <1>9. /\ directory' \in Seq(Rooms) /\ Len(directory') = len - 1
        /\ \A j \in 1 .. len - 1 : directory'[j] = directory[IF j < i THEN j ELSE j + 1]
    BY <1>1, <1>3, RemovedAt DEF TypeOK
  <1>10. DOMAIN directory' = 1 .. len - 1
    BY <1>9, LenProperties
  <1>11. \A j \in 1 .. len : j # i => directory[j] # r
    BY <1>2, <1>3, <1>5, OneIndex
  <1>. DEFINE k(j) == IF j < i THEN j ELSE j + 1
  <1>12. \A j \in 1 .. len - 1 :
           /\ k(j) \in 1 .. len /\ k(j) # i
           /\ room'[directory'[j]] = room[directory[k(j)]]
    BY <1>2, <1>3, <1>7, <1>9, <1>11
  <1>13. \A j, m \in 1 .. len - 1 : j < m => k(j) < k(m)
    BY <1>2, <1>3
  <1>14. \A j, m \in 1 .. len - 1 : j < m => room'[directory'[j]].id < room'[directory'[m]].id
    <2>. HIDE DEF k
    <2>1. \A a, b \in 1 .. len : a < b => room[directory[a]].id < room[directory[b]].id
      BY <1>2 DEF DirectorySorted
    <2>. QED
      BY <1>12, <1>13, <2>1
  <1>15. \A q \in Rooms : room'[q].phase \notin {"unused", "gone"}
                           <=> \E j \in 1 .. len - 1 : directory'[j] = q
    <2>. SUFFICES ASSUME NEW q \in Rooms
                  PROVE  room'[q].phase \notin {"unused", "gone"}
                           <=> \E j \in 1 .. len - 1 : directory'[j] = q
      OBVIOUS
    <2>1. CASE q = r
      BY <1>6, <1>7, <1>9, <1>11, <1>12, <2>1
    <2>2. CASE q # r
      <3>1. room[q].phase \notin {"unused", "gone"} <=> \E j \in 1 .. len : directory[j] = q
        BY <1>2 DEF DirectorySorted
      <3>2. ASSUME NEW j \in 1 .. len, directory[j] = q
            PROVE  \E m \in 1 .. len - 1 : directory'[m] = q
        <4>1. j # i
          BY <1>5, <2>2, <3>2
        <4>2. CASE j < i
          BY <1>2, <1>3, <1>9, <3>2, <4>2
        <4>3. CASE j > i
          <5>1. j - 1 \in 1 .. len - 1 /\ k(j - 1) = j
            BY <1>2, <1>3, <4>3
          <5>. QED
            BY <1>9, <3>2, <5>1
        <4>. QED
          BY <1>2, <1>3, <4>1, <4>2, <4>3
      <3>3. ASSUME NEW m \in 1 .. len - 1, directory'[m] = q
            PROVE  \E j \in 1 .. len : directory[j] = q
        BY <1>9, <1>12, <3>3
      <3>. QED
        BY <1>7, <2>2, <3>1, <3>2, <3>3
    <2>. QED
      BY <2>1, <2>2
  <1>16. DirectorySorted'
    BY <1>10, <1>14, <1>15 DEF DirectorySorted
  <1>. QED
    BY <1>8, <1>16

\* The steps of the main thread and of the clients.
LEMMA MainStages ==
  ASSUME TypeOK, RoomStages, DirectorySorted, NEW s \in Sockets,
         \/ Connect(s) \/ HangUp(s) \/ Disconnect(s) \/ MainLeave(s) \/ MainStart(s)
         \/ \E a \in Accounts : Login(s, a)
         \/ \E id \in Nat, g \in BOOLEAN : JoinBegin(s, id, g)
  PROVE  RoomStages' /\ DirectorySorted'
  <1>1. CASE Connect(s) \/ HangUp(s) \/ Disconnect(s) \/ MainStart(s)
             \/ \E a \in Accounts : Login(s, a)
    <2>1. UNCHANGED <<directory, room, main>>
      BY <1>1 DEF Connect, HangUp, Disconnect, MainStart, Login
    <2>. QED
      BY <2>1, UnchangedStages
  <1>2. ASSUME NEW id \in Nat, NEW g \in BOOLEAN, JoinBegin(s, id, g)
        PROVE  RoomStages' /\ DirectorySorted'
    <2>1. UNCHANGED <<directory, room>>
      BY <1>2 DEF JoinBegin
    <2>2. CASE <<account[s], id>> \in invitations /\ IndexOf(id) # {}
      <3>1. PICK i \in IndexOf(id) : main' = [op |-> "join", sock |-> s, index |-> i,
                                              asGamer |-> g, wanted |-> directory[i]]
        BY <1>2, <2>2 DEF JoinBegin
      <3>2. directory[i] \in Rooms /\ i \in DOMAIN directory
        BY IndexOfType DEF TypeOK, IndexOf
      <3>3. main'.wanted = directory[i] /\ room[directory[i]].phase # "unused"
        BY <3>1, <3>2 DEF DirectorySorted
      <3>4. RoomStages'
        BY <2>1, <3>3 DEF RoomStages
      <3>. QED
        BY <2>1, <3>4 DEF DirectorySorted
    <2>3. CASE ~(<<account[s], id>> \in invitations /\ IndexOf(id) # {})
      <3>1. main' = main
        BY <1>2, <2>3 DEF JoinBegin
      <3>. QED
        BY <2>1, <3>1, UnchangedStages
    <2>. QED
      BY <2>2, <2>3
  <1>3. CASE MainLeave(s)
    <2>1. UNCHANGED <<directory, main>>
      BY <1>3 DEF MainLeave
    <2>2. CASE IndexOf(lobby[s]) = {}
      BY <1>3, <2>1, <2>2, UnchangedStages DEF MainLeave
    <2>3. CASE IndexOf(lobby[s]) # {}
      <3>1. PICK i \in IndexOf(lobby[s]) :
              room' = Becomes(directory[i], AfterLeave(room[directory[i]], s))
        BY <1>3, <2>3 DEF MainLeave
      <3>. DEFINE q == directory[i]
                  left == AfterLeave(room[q], s)
      <3>2. /\ q \in Rooms /\ room[q] \in RoomType /\ account[s] \in Ids
            /\ room[q].phase \notin {"unused", "gone"} /\ StageOK(room[q])
        BY IndexOfType DEF TypeOK, IndexOf, DirectorySorted, RoomStages
      <3>3. left \in RoomType
        BY <3>2, AfterLeaveType
      <3>4. /\ SameStage(room[q], left) /\ left.players = room[q].players \ Released(room[q], s)
            /\ left.ready \subseteq room[q].ready \ Released(room[q], s)
            /\ left.running => room[q].running
        BY <3>2, AfterLeaveFields
      <3>. HIDE DEF left
      <3>5. StageOK(left)
        <4>1. left.ready \subseteq left.players
          BY <3>2, <3>4 DEF StageOK
        <4>. QED
          BY <3>2, <3>3, <3>4, <4>1, StageShrinks
      <3>. QED
        BY <2>1, <3>1, <3>2, <3>4, <3>5, StepStages DEF SameStage, left
    <2>. QED
      BY <2>2, <2>3
  <1>. QED
    BY <1>1, <1>2, <1>3

\* addPlayer adds the player at the end of handleJoin.
LEMMA EnterStages ==
  ASSUME TypeOK, RoomStages, DirectorySorted, JoinEnter
  PROVE  RoomStages' /\ DirectorySorted'
  <1>1. CASE main.index > Len(directory)
    <2>1. UNCHANGED <<directory, room, main>>
      BY <1>1 DEF JoinEnter, Crash
    <2>. QED
      BY <2>1, UnchangedStages
  <1>2. CASE ~(main.index > Len(directory))
    <2>. DEFINE s == main.sock
                r == directory[main.index]
                rec == Entered(room[r], s, main.asGamer)
    <2>1. directory' = directory /\ main' = Idle
      BY <1>2 DEF JoinEnter
    <2>2. room' = room \/ room' = Becomes(r, rec)
      BY <1>2 DEF JoinEnter
    <2>3. main.index \in DOMAIN directory /\ r \in Rooms
      <3>1. main \in JoinType
        BY DEF JoinEnter, TypeOK
      <3>. QED
        BY <1>2, <3>1, LenProperties, ElementOfSeq DEF JoinType, TypeOK
    <2>4. /\ rec.id = room[r].id /\ rec.phase = room[r].phase /\ rec.todo = room[r].todo
          /\ rec.players = room[r].players \cup {s} /\ rec.ready = room[r].ready
          /\ rec.running = room[r].running
      <3>1. s \in Sockets /\ account[s] \in Ids
        BY DEF JoinEnter, TypeOK, JoinType
      <3>. QED
        BY <2>3, <3>1, EnteredType DEF TypeOK
    <2>. HIDE DEF rec
    <2>5. StageOK(rec)
      BY <2>3, <2>4 DEF RoomStages, StageOK
    <2>6. CASE room' = room
      BY <2>1, <2>6, UnchangedStages
    <2>7. CASE room' = Becomes(r, rec)
      <3>1. room'[r] = rec /\ \A q \in Rooms \ {r} : room'[q] = room[q]
        BY <2>3, <2>7, BecomesFields DEF TypeOK
      <3>. QED
        BY <2>1, <2>4, <2>5, <3>1, KeptStages DEF RoomStages
    <2>. QED
      BY <2>2, <2>6, <2>7
  <1>. QED
    BY <1>1, <1>2

\* The handlers of a message.
LEMMA MessageStages ==
  ASSUME TypeOK, RoomStages, DirectorySorted, NEW r \in Rooms, NEW s \in Sockets,
         \/ RoomIgnore(r, s) \/ RoomHangup(r, s) \/ RoomLeave(r, s)
         \/ LobbyStart(r, s) \/ Lose(r, s) \/ GameEnd(r, s)
         \/ \E n \in Sizes : Modify(r, s, n)
         \/ \E a \in Accounts : Invite(r, s, a)
  PROVE  RoomStages' /\ DirectorySorted'
  <1>. USE DEF netVars, dbVars, history
  <1>a. \A i \in IndexOf(lobby[s]) : directory[i] \in Rooms
    BY IndexOfType DEF TypeOK
  <1>b. ASSUME Crash PROVE RoomStages' /\ DirectorySorted'
    BY <1>b, UnchangedStages DEF Crash
  <1>c. ASSUME RoomServes(r, s), UNCHANGED <<directory, main>>,
               room' = Passed(room, r, Handled(r, s))
        PROVE  RoomStages' /\ DirectorySorted'
    BY <1>c, IgnoreHandles, HandlesStages
  <1>1. CASE RoomIgnore(r, s)
    BY <1>1, <1>c DEF RoomIgnore
  <1>2. CASE RoomHangup(r, s)
    <2>1. UNCHANGED <<directory, main>>
      BY <1>2 DEF RoomHangup
    <2>. QED
      BY <1>2, <2>1, HangupLeaves, LeavesStages
  <1>3. CASE RoomLeave(r, s)
    <2>1. UNCHANGED <<directory, main>> /\ RoomServes(r, s)
      BY <1>3 DEF RoomLeave
    <2>2. CASE IndexOf(lobby[s]) = {}
      BY <1>3, <1>c, <2>1, <2>2 DEF RoomLeave
    <2>3. CASE IndexOf(lobby[s]) # {}
      BY <1>3, <2>1, <2>3, RoomLeaveLeaves, LeavesStages
    <2>. QED
      BY <2>2, <2>3
  <1>4. CASE LobbyStart(r, s)
    <2>1. PICK i \in IndexOf(lobby[s]) :
            room' = Passed(Becomes(directory[i],
                             [room[directory[i]] EXCEPT !.playing = TRUE]), r, Handled(r, s))
      BY <1>4 DEF LobbyStart
    <2>2. UNCHANGED <<directory, main>> /\ RoomServes(r, s)
      BY <1>4 DEF LobbyStart
    <2>. QED
      BY <1>a, <2>1, <2>2, AssignHandles, HandlesStages
  <1>5. CASE Lose(r, s)
    <2>. DEFINE q == gameRoom[s]
                b == Cardinality({p \in room[q].players : isPlaying[p] /\ p # s}) > 1
                rec == [room[q] EXCEPT !.running = room[q].running /\ b]
    <2>1. /\ UNCHANGED <<directory, main>> /\ RoomServes(r, s) /\ q \in Rooms
          /\ room' = Passed(Becomes(q, rec), r, Handled(r, s))
      BY <1>5 DEF Lose, TypeOK
    <2>2. b \in BOOLEAN
      OBVIOUS
    <2>. HIDE DEF b
    <2>3. \E c \in BOOLEAN : rec = [room[q] EXCEPT !.running = room[q].running /\ c]
      BY <2>2
    <2>. HIDE DEF rec
    <2>. QED
      BY <2>1, <2>3, AssignHandles, HandlesStages
  <1>6. CASE GameEnd(r, s)
    <2>1. CASE ~DatabaseFree
      BY <1>6, <1>b, <2>1 DEF GameEnd
    <2>2. CASE DatabaseFree
      <3>1. UNCHANGED <<directory, main>>
        BY <1>6, <2>2 DEF GameEnd
      <3>. QED
        BY <1>6, <2>2, <3>1, GameEndLeaves, LeavesStages
    <2>. QED
      BY <2>1, <2>2
  <1>7. ASSUME NEW n \in Sizes, Modify(r, s, n) PROVE RoomStages' /\ DirectorySorted'
    <2>1. PICK i \in IndexOf(lobby[s]) :
            room' = Passed(Becomes(directory[i],
                             [room[directory[i]] EXCEPT !.size = Cap(n)]), r, Handled(r, s))
      BY <1>7 DEF Modify
    <2>2. UNCHANGED <<directory, main>> /\ RoomServes(r, s)
      BY <1>7 DEF Modify
    <2>3. Cap(n) \in Nat
      BY SizesAreNat, CapType
    <2>. QED
      BY <1>a, <2>1, <2>2, <2>3, AssignHandles, HandlesStages
  <1>8. ASSUME NEW a \in Accounts, Invite(r, s, a) PROVE RoomStages' /\ DirectorySorted'
    <2>1. CASE ~DatabaseFree \/ account[s] = NoAccount
      BY <1>8, <1>b, <2>1 DEF Invite
    <2>2. CASE ~(~DatabaseFree \/ account[s] = NoAccount)
      BY <1>8, <1>c, <2>2 DEF Invite
    <2>. QED
      BY <2>1, <2>2
  <1>. QED
    BY <1>1, <1>2, <1>3, <1>4, <1>5, <1>6, <1>7, <1>8

\* JOIN read by the thread of a room.
LEMMA RoomJoinStages ==
  ASSUME TypeOK, RoomStages, DirectorySorted, NEW r \in Rooms, NEW s \in Sockets,
         NEW id \in Nat, NEW g \in BOOLEAN, RoomJoin(r, s, id, g), DatabaseFree
  PROVE  RoomStages' /\ DirectorySorted'
  <1>1. /\ UNCHANGED <<directory, main>> /\ room[r].phase = "loop" /\ RoomServes(r, s)
    BY DEF RoomJoin, RoomServes
  <1>2. CASE room' = Passed(room, r, Handled(r, s))
    BY <1>1, <1>2, IgnoreHandles, HandlesStages
  <1>3. ASSUME NEW q \in Rooms,
               room' = Passed(Becomes(q, Entered(room[q], s, g)), r, Handled(r, s))
        PROVE  RoomStages' /\ DirectorySorted'
    <2>. DEFINE rec == Entered(room[q], s, g)
                mid == Becomes(q, rec)
    <2>1. /\ rec \in RoomType /\ rec.players = room[q].players \cup {s}
          /\ rec.id = room[q].id /\ rec.phase = room[q].phase /\ rec.running = room[q].running
          /\ rec.ready = room[q].ready /\ rec.todo = room[q].todo
      BY EnteredType DEF TypeOK
    <2>2. mid[q] = rec /\ \A p \in Rooms \ {q} : mid[p] = room[p]
      BY BecomesFields DEF TypeOK
    <2>3. mid \in [Rooms -> RoomType]
      BY <2>1, BecomesType DEF TypeOK
    <2>4. room' = Passed(mid, r, Handled(r, s))
      BY <1>3
    <2>. HIDE DEF mid, rec
    <2>6. \A p \in Rooms :
             /\ SameStage(mid[p], room'[p])
             /\ room'[p].players = mid[p].players /\ room'[p].running = mid[p].running
             /\ IF p = r THEN room'[p].ready = Handled(r, s) \cap mid[p].players
                         ELSE room'[p].ready = mid[p].ready
      BY <2>3, <2>4, PassedFields
    <2>7. \A p \in Rooms : StageOK(mid[p]) /\ SameStage(room[p], mid[p])
      BY <2>1, <2>2 DEF RoomStages, StageOK, SameStage
    <2>8. \A p \in Rooms : StageOK(room'[p]) /\ SameStage(room[p], room'[p])
      BY <1>1, <2>6, <2>7 DEF StageOK, SameStage
    <2>. QED
      BY <1>1, <2>8, KeptStages DEF SameStage
  <1>4. CASE <<account[s], id>> \in invitations /\ IndexOf(id) # {}
    <2>1. PICK i \in IndexOf(id) :
            room' = Passed(IF Full(room[directory[i]], g) THEN room
                           ELSE Becomes(directory[i], Entered(room[directory[i]], s, g)),
                           r, Handled(r, s))
      BY <1>4 DEF RoomJoin
    <2>2. directory[i] \in Rooms
      BY IndexOfType DEF TypeOK
    <2>3. CASE Full(room[directory[i]], g)
      BY <1>2, <2>1, <2>3
    <2>4. CASE ~Full(room[directory[i]], g)
      BY <1>3, <2>1, <2>2, <2>4
    <2>. QED
      BY <2>3, <2>4
  <1>5. CASE ~(<<account[s], id>> \in invitations /\ IndexOf(id) # {})
    BY <1>2, <1>5 DEF RoomJoin
  <1>. QED
    BY <1>4, <1>5

\* The steps of a room's thread.
LEMMA ThreadStages ==
  ASSUME TypeOK, RoomStages, DirectorySorted, NEW r \in Rooms, RoomThread(r)
  PROVE  RoomStages' /\ DirectorySorted'
  <1>. USE DEF netVars, dbVars, history
  <1>a. room[r] \in RoomType /\ StageOK(room[r])
    BY DEF TypeOK, RoomStages
  <1>b. ASSUME Crash PROVE RoomStages' /\ DirectorySorted'
    BY <1>b, UnchangedStages DEF Crash
  <1>1. CASE RoomStart(r)
    <2>. DEFINE rec == [room[r] EXCEPT !.phase = "loop", !.running = TRUE]
    <2>1. /\ UNCHANGED <<directory, main>>
          /\ room' = Becomes(r, rec) /\ room[r].phase = "start"
      BY <1>1 DEF RoomStart
    <2>2. /\ rec.id = room[r].id /\ rec.phase = "loop" /\ StageOK(rec)
      BY <1>a, <2>1 DEF RoomType, StageOK, LoopPhases
    <2>. HIDE DEF rec
    <2>. QED
      BY <2>1, <2>2, StepStages
  <1>2. CASE RoomSelect(r)
    <2>1. PICK S \in SUBSET room[r].players :
            /\ UNCHANGED <<directory, main>> /\ room[r].phase = "loop"
            /\ room' = Becomes(r, [room[r] EXCEPT !.ready = S])
      BY <1>2 DEF RoomSelect
    <2>. DEFINE rec == [room[r] EXCEPT !.ready = S]
    <2>2. rec.id = room[r].id /\ rec.phase = "loop" /\ StageOK(rec)
      BY <1>a, <2>1 DEF RoomType, StageOK, LoopPhases
    <2>. HIDE DEF rec
    <2>. QED
      BY <2>1, <2>2, StepStages DEF rec
  <1>3. CASE RoomExit(r)
    <2>. DEFINE rec == [room[r] EXCEPT !.phase = "restore", !.todo = room[r].players]
    <2>1. /\ UNCHANGED <<directory, main>>
          /\ room' = Becomes(r, rec) /\ room[r].phase = "loop"
          /\ ~room[r].running /\ room[r].ready = {}
      BY <1>3 DEF RoomExit
    <2>2. rec.id = room[r].id /\ rec.phase = "restore" /\ StageOK(rec)
      BY <1>a, <2>1 DEF RoomType, StageOK, LoopPhases
    <2>. HIDE DEF rec
    <2>. QED
      BY <2>1, <2>2, StepStages
  <1>4. ASSUME NEW s \in Sockets, RoomRestore(r, s) PROVE RoomStages' /\ DirectorySorted'
    <2>. DEFINE rec == [room[r] EXCEPT !.todo = room[r].todo \ {s}]
    <2>1. /\ UNCHANGED <<directory, main>>
          /\ room' = Becomes(r, rec) /\ room[r].phase = "restore"
      BY <1>4 DEF RoomRestore
    <2>2. rec.id = room[r].id /\ rec.phase = "restore" /\ StageOK(rec)
      BY <1>a, <2>1 DEF RoomType, StageOK, LoopPhases
    <2>. HIDE DEF rec
    <2>. QED
      BY <2>1, <2>2, StepStages
  <1>5. CASE RoomClear(r)
    <2>. DEFINE rec == [room[r] EXCEPT !.phase = "purge", !.players = {}, !.ready = {},
                                       !.gamers = NoGamers]
    <2>1. /\ UNCHANGED <<directory, main>> /\ room[r].todo = {}
          /\ room' = Becomes(r, rec) /\ room[r].phase = "restore"
      BY <1>5 DEF RoomClear
    <2>2. rec.id = room[r].id /\ rec.phase = "purge" /\ StageOK(rec)
      BY <1>a, <2>1 DEF RoomType, StageOK, LoopPhases
    <2>. HIDE DEF rec
    <2>. QED
      BY <2>1, <2>2, StepStages
  <1>6. CASE RoomPurge(r)
    <2>1. CASE ~DatabaseFree
      BY <1>6, <1>b, <2>1 DEF RoomPurge
    <2>2. CASE DatabaseFree
      <3>. DEFINE rec == [room[r] EXCEPT !.phase = "remove"]
      <3>1. /\ UNCHANGED <<directory, main>>
            /\ room' = Becomes(r, rec) /\ room[r].phase = "purge"
        BY <1>6, <2>2 DEF RoomPurge, SetPhase
      <3>2. rec.id = room[r].id /\ rec.phase = "remove" /\ StageOK(rec)
        BY <1>a, <3>1 DEF RoomType, StageOK, LoopPhases
      <3>. HIDE DEF rec
      <3>. QED
        BY <3>1, <3>2, StepStages
    <2>. QED
      BY <2>1, <2>2
  <1>7. CASE RoomRemove(r)
    BY <1>7, RemoveStages
  <1>8. ASSUME NEW s \in Sockets,
               \/ RoomIgnore(r, s) \/ RoomHangup(r, s) \/ RoomLeave(r, s)
               \/ LobbyStart(r, s) \/ Lose(r, s) \/ GameEnd(r, s)
               \/ \E n \in Sizes : Modify(r, s, n)
               \/ \E a \in Accounts : Invite(r, s, a)
        PROVE  RoomStages' /\ DirectorySorted'
    BY <1>8, MessageStages
  <1>9. ASSUME NEW s \in Sockets, NEW id \in Nat, NEW g \in BOOLEAN, RoomJoin(r, s, id, g)
        PROVE  RoomStages' /\ DirectorySorted'
    <2>1. CASE ~DatabaseFree
      BY <1>9, <1>b, <2>1 DEF RoomJoin
    <2>. QED
      BY <1>9, <2>1, RoomJoinStages
  <1>10. \A row \in listed : row[2] \in Nat
    BY DEF TypeOK
  <1>. QED
    BY <1>1, <1>2, <1>3, <1>4, <1>5, <1>6, <1>7, <1>8, <1>9, <1>10, RoomCreateStages
    DEF RoomThread

\* No step of the server disorders the directory.
LEMMA StagesNext ==
  ASSUME TypeOK, RoomStages, DirectorySorted, [Next]_vars
  PROVE  RoomStages' /\ DirectorySorted'
  <1>1. CASE UNCHANGED vars
    BY <1>1, UnchangedStages DEF vars
  <1>2. CASE Outside
    BY <1>2, MainStages DEF Outside
  <1>3. CASE MainThread
    <2>1. \A row \in listed : row[2] \in Nat
      BY DEF TypeOK
    <2>. QED
      BY <1>3, <2>1, MainStages, EnterStages, CreateStages DEF MainThread
  <1>4. ASSUME NEW r \in Rooms, RoomThread(r) PROVE RoomStages' /\ DirectorySorted'
    BY <1>4, ThreadStages
  <1>. QED
    BY <1>1, <1>2, <1>3, <1>4 DEF Next

\* The server starts with an empty directory.
LEMMA StagesInit == Init => RoomStages /\ DirectorySorted
  BY DEF Init, RoomStages, StageOK, DirectorySorted, Unused

\* The directory stays sorted by room id and lists exactly the open rooms,
\* whatever the two kinds of threads do.
THEOREM DirectoryStaysSorted == Spec => []DirectorySorted
  <1>1. TypeOK /\ RoomStages /\ DirectorySorted /\ [Next]_vars
          => (RoomStages /\ DirectorySorted)'
    BY StagesNext
  <1>. QED
    BY <1>1, StagesInit, TypeCorrect, PTL DEF Spec

-----------------------------------------------------------------------------
(* The binary search of findRoomIndex.                                       *)

Spans == (1..Len(directory) + 1) \X (0..Len(directory))
Id(i) == room[directory[i]].id

\* One pass of its loop, followed by what ends makes of the rest.
Halving(ends, id, span) ==
    LET left == span[1]
        right == span[2]
        mid == left + (right - left) \div 2
    IN
    IF left > right THEN left
    ELSE IF Id(mid) < id THEN ends[<<mid + 1, right>>]
    ELSE IF Id(mid) > id THEN ends[<<left, mid - 1>>]
    ELSE mid

\* What is left to search, and a pass makes shorter.
Rest(span) == IF span[1] > span[2] THEN 0 ELSE span[2] - span[1] + 1

\* The middle lies between left and right, and so does what a pass leaves.
LEMMA MiddleBetween ==
  ASSUME TypeOK, NEW span \in Spans, span[1] <= span[2]
  PROVE  LET mid == span[1] + (span[2] - span[1]) \div 2 IN
         /\ mid \in span[1]..span[2] /\ mid \in 1..Len(directory)
         /\ <<mid + 1, span[2]>> \in Spans /\ Rest(<<mid + 1, span[2]>>) < Rest(span)
         /\ <<span[1], mid - 1>> \in Spans /\ Rest(<<span[1], mid - 1>>) < Rest(span)
  <1>. DEFINE left == span[1]
              right == span[2]
              n == Len(directory)
              mid == left + (right - left) \div 2
  <1>1. n \in Nat /\ left \in 1..n + 1 /\ right \in 0..n /\ left <= right
    BY LenProperties DEF TypeOK, Spans
  <1>2. mid \in left..right
    BY <1>1
  <1>3. Rest(span) = right - left + 1
    BY <1>1 DEF Rest
  <1>. HIDE DEF mid, left, right, n
  <1>4. /\ mid \in 1..n /\ mid + 1 \in 1..n + 1 /\ mid - 1 \in 0..n
        /\ Rest(<<mid + 1, right>>) < right - left + 1
        /\ Rest(<<left, mid - 1>>) < right - left + 1
    BY <1>1, <1>2 DEF Rest
  <1>. QED
    BY <1>1, <1>2, <1>3, <1>4 DEF Spans, mid, left, right, n

\* The recursive definition in Bisect has a solution.
LEMMA BisectEnds ==
  ASSUME TypeOK, NEW id \in Nat
  PROVE  \E ends :
           /\ Bisect(id) = ends[<<1, Len(directory)>>]
           /\ \A span \in Spans : ends[span] = Halving(ends, id, span)
  <1>. DEFINE F == [ends \in [Spans -> Nat] |-> [span \in Spans |-> Halving(ends, id, span)]]
              start == [span \in Spans |-> 0]
              rank == [span \in Spans |-> Rest(span)]
              bound == Len(directory) + 1
              Solution(ends) == ends = [span \in Spans |-> Halving(ends, id, span)]
  <1>1. Len(directory) \in Nat
    BY LenProperties DEF TypeOK
  <1>2. \A span \in Spans : /\ span[1] \in 1..Len(directory) + 1
                            /\ span[2] \in 0..Len(directory)
    BY DEF Spans
  <1>3. ASSUME NEW ends \in [Spans -> Nat], NEW span \in Spans
        PROVE  Halving(ends, id, span) \in Nat
    <2>1. CASE span[1] > span[2]
      BY <1>1, <1>2, <2>1 DEF Halving
    <2>2. CASE span[1] <= span[2]
      <3>. DEFINE mid == span[1] + (span[2] - span[1]) \div 2
      <3>1. /\ mid \in 1..Len(directory)
            /\ <<mid + 1, span[2]>> \in Spans /\ <<span[1], mid - 1>> \in Spans
        BY <2>2, MiddleBetween
      <3>2. ends[<<mid + 1, span[2]>>] \in Nat /\ ends[<<span[1], mid - 1>>] \in Nat
        BY <3>1
      <3>3. Halving(ends, id, span) \in {mid, ends[<<mid + 1, span[2]>>], ends[<<span[1], mid - 1>>]}
        BY <1>2, <2>2 DEF Halving
      <3>. QED
        BY <1>1, <3>1, <3>2, <3>3
    <2>. QED
      BY <1>1, <1>2, <2>1, <2>2
  <1>4. F \in [[Spans -> Nat] -> [Spans -> Nat]]
    BY <1>3
  <1>5. /\ start \in [Spans -> Nat] /\ rank \in [Spans -> Nat] /\ bound \in Nat
        /\ \A span \in Spans : rank[span] < bound
    BY <1>1, <1>2 DEF Rest
  <1>6. ASSUME NEW f \in [Spans -> Nat], NEW g \in [Spans -> Nat], NEW span \in Spans,
               \A y \in Spans : rank[y] < rank[span] => f[y] = g[y]
        PROVE  F[f][span] = F[g][span]
    <2>1. CASE span[1] > span[2]
      BY <2>1 DEF Halving
    <2>2. CASE span[1] <= span[2]
      <3>1. \A y \in Spans : Rest(y) < Rest(span) => f[y] = g[y]
        BY <1>6
      <3>2. Halving(f, id, span) = Halving(g, id, span)
        BY <2>2, <3>1, MiddleBetween DEF Halving
      <3>. QED
        BY <3>2
    <2>. QED
      BY <1>1, <1>2, <2>1, <2>2
  <1>7. \E ends \in [Spans -> Nat] : ends = F[ends]
    <2>1. \A f, g \in [Spans -> Nat] : \A span \in Spans :
            (\A y \in Spans : rank[y] < rank[span] => f[y] = g[y]) => F[f][span] = F[g][span]
      BY <1>6
    <2>2. Recurses(Spans, Nat, F, rank, bound)
      <3>. HIDE DEF F, rank, bound
      <3>. QED
        BY <1>4, <1>5, <2>1 DEF Recurses
    <2>. HIDE DEF F, rank, bound
    <2>. QED
      BY <2>2, Recursion
  <1>8. \E ends : Solution(ends)
    BY <1>7
  <1>9. Bisect(id) = (CHOOSE ends : Solution(ends))[<<1, Len(directory)>>]
    BY DEF Bisect, Halving, Spans, Id
  <1>10. PICK ends : Solution(ends) /\ Bisect(id) = ends[<<1, Len(directory)>>]
    <2>. HIDE DEF Solution
    <2>. QED
      BY <1>8, <1>9
  <1>. QED
    BY <1>10

\* The loop ends at the room of that id, or there is none, and left is past the
\* end only when every room has a smaller id.
Found(end, id) ==
    \/ end \in IndexOf(id)
    \/ /\ IndexOf(id) = {} /\ end \in Nat
       /\ end > Len(directory) => \A i \in DOMAIN directory : Id(i) < id

\* Everything before left is smaller, everything after right larger.
Narrowed(span, id) ==
    \A i \in DOMAIN directory : /\ i < span[1] => Id(i) < id
                                /\ i > span[2] => Id(i) > id

\* One pass keeps the room between left and right, or ends there.
LEMMA HalvingNarrows ==
  ASSUME TypeOK, DirectorySorted, NEW id \in Nat, NEW ends, NEW span \in Spans,
         Narrowed(span, id),
         \A s \in Spans : Rest(s) < Rest(span) /\ Narrowed(s, id) => Found(ends[s], id)
  PROVE  Found(Halving(ends, id, span), id)
  <1>. DEFINE n == Len(directory)
              mid == span[1] + (span[2] - span[1]) \div 2
  <1>1. /\ n \in Nat /\ DOMAIN directory = 1..n
        /\ span[1] \in 1..n + 1 /\ span[2] \in 0..n
    BY LenProperties DEF TypeOK, Spans
  <1>2. \A i \in 1..n : Id(i) \in Nat
    BY <1>1, ElementOfSeq DEF TypeOK, RoomType, Id
  <1>3. \A i, j \in 1..n : i < j => Id(i) < Id(j)
    BY <1>1 DEF DirectorySorted, Id
  <1>4. CASE span[1] > span[2]
    <2>1. \A i \in 1..n : i < span[1] \/ i > span[2]
      BY <1>1, <1>4
    <2>2. IndexOf(id) = {}
      BY <1>1, <1>2, <2>1 DEF Narrowed, IndexOf, Id
    <2>3. Halving(ends, id, span) = span[1]
      BY <1>4 DEF Halving
    <2>. QED
      BY <1>1, <2>2, <2>3 DEF Found, Narrowed
  <1>5. CASE span[1] <= span[2]
    <2>1. /\ mid \in 1..n
          /\ <<mid + 1, span[2]>> \in Spans /\ Rest(<<mid + 1, span[2]>>) < Rest(span)
          /\ <<span[1], mid - 1>> \in Spans /\ Rest(<<span[1], mid - 1>>) < Rest(span)
      BY <1>5, MiddleBetween
    <2>2. Halving(ends, id, span) = IF Id(mid) < id THEN ends[<<mid + 1, span[2]>>]
                                    ELSE IF Id(mid) > id THEN ends[<<span[1], mid - 1>>]
                                    ELSE mid
      BY <1>1, <1>5 DEF Halving
    <2>. HIDE DEF mid
    <2>3. CASE Id(mid) < id
      <3>1. Narrowed(<<mid + 1, span[2]>>, id)
        BY <1>1, <1>2, <1>3, <2>1, <2>3 DEF Narrowed
      <3>. QED
        BY <2>1, <2>2, <2>3, <3>1
    <2>4. CASE Id(mid) > id
      <3>1. Narrowed(<<span[1], mid - 1>>, id)
        BY <1>1, <1>2, <1>3, <2>1, <2>4 DEF Narrowed
      <3>2. ~(Id(mid) < id)
        BY <1>2, <2>1, <2>4
      <3>. QED
        BY <2>1, <2>2, <2>4, <3>1, <3>2
    <2>5. CASE ~(Id(mid) < id) /\ ~(Id(mid) > id)
      <3>1. Id(mid) = id
        BY <1>2, <2>1, <2>5
      <3>. QED
        BY <1>1, <2>1, <2>2, <2>5, <3>1 DEF Found, IndexOf, Id
    <2>. QED
      BY <2>3, <2>4, <2>5
  <1>. QED
    BY <1>1, <1>4, <1>5

\* The search finds what it looks for in a sorted directory of any length.
LEMMA BisectFound ==
  ASSUME TypeOK, DirectorySorted, NEW id \in Nat
  PROVE  Found(Bisect(id), id)
  <1>1. PICK ends : /\ Bisect(id) = ends[<<1, Len(directory)>>]
                    /\ \A span \in Spans : ends[span] = Halving(ends, id, span)
    BY BisectEnds
  <1>2. Len(directory) \in Nat /\ DOMAIN directory = 1..Len(directory)
    BY LenProperties DEF TypeOK
  <1>3. \A span \in Spans : Rest(span) \in Nat
    BY <1>2 DEF Spans, Rest
  <1>. DEFINE T == {k \in Nat : \A span \in Spans :
                      Rest(span) < k /\ Narrowed(span, id) => Found(ends[span], id)}
  <1>4. 0 \in T
    BY <1>3
  <1>5. ASSUME NEW k \in T \cap Nat PROVE k + 1 \in T
    <2>1. ASSUME NEW span \in Spans, Rest(span) < k + 1, Narrowed(span, id)
          PROVE  Found(ends[span], id)
      <3>1. ASSUME NEW s \in Spans, Rest(s) < Rest(span), Narrowed(s, id)
            PROVE  Found(ends[s], id)
        <4>1. Rest(s) < k
          BY <1>3, <2>1, <3>1
        <4>. QED
          BY <3>1, <4>1
      <3>2. Found(Halving(ends, id, span), id)
        BY <2>1, <3>1, HalvingNarrows
      <3>. QED
        BY <1>1, <3>2
    <2>. QED
      BY <2>1
  <1>6. <<1, Len(directory)>> \in Spans /\ Narrowed(<<1, Len(directory)>>, id)
    BY <1>2 DEF Spans, Narrowed
  <1>7. Rest(<<1, Len(directory)>>) + 1 \in T
    <2>. HIDE DEF T
    <2>. QED
      BY <1>3, <1>4, <1>5, <1>6, Induction
  <1>8. Rest(<<1, Len(directory)>>) < Rest(<<1, Len(directory)>>) + 1
    BY <1>3, <1>6
  <1>. QED
    BY <1>1, <1>6, <1>7, <1>8

\* The binary search of findRoomIndex finds every open room, however many there
\* are, and reads past the end of the directory only for an id larger than all.
THEOREM BisectionFinds == Spec => []BisectFinds
  <1>1. TypeOK /\ DirectorySorted => BisectFinds
    <2>. SUFFICES ASSUME TypeOK, DirectorySorted, NEW id \in 1..Cardinality(Rooms) + 1
                  PROVE  /\ IndexOf(id) # {} => Bisect(id) \in IndexOf(id)
                         /\ Bisect(id) > Len(directory)
                              => \A i \in DOMAIN directory : room[directory[i]].id < id
      BY DEF BisectFinds
    <2>1. Found(Bisect(id), id)
      BY BisectFound
    <2>2. Len(directory) \in Nat /\ DOMAIN directory = 1..Len(directory)
      BY LenProperties DEF TypeOK
    <2>. QED
      BY <2>1, <2>2 DEF Found, IndexOf, Id
  <1>. QED
    BY <1>1, TypeCorrect, DirectoryStaysSorted, PTL
=============================================================================
