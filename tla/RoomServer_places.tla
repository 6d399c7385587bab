-------------------------- MODULE RoomServer_places --------------------------
(* Where a client is: with the main thread, in a room, or on its way into one. *)
(* Every copy the threads keep of that place agrees, until one goes astray;   *)
(* so do a room's seats with its players, only invited clients enter, and the  *)
(* threads, select sets and room records implement Custody.                    *)
EXTENDS RoomServer_proofs

-----------------------------------------------------------------------------
(* What a step does to one client.                                           *)

\* The rooms that hold client s are the same, and as open as they were.
SameRooms(s) ==
    \A r \in Rooms :
       /\ Holds(s, r)' <=> Holds(s, r)
       /\ room[r].phase # "unused" => room'[r].id = room[r].id
       /\ Holds(s, r) /\ room'[r].phase \in LoopPhases => room[r].phase \in LoopPhases

\* The step leaves client s where it is.
SamePlace(s) ==
    /\ gameRoom'[s] = gameRoom[s]
    /\ isPlaying'[s] => isPlaying[s] \/ gameRoom[s] # NoRoom
    /\ s \in active' <=> s \in active
    /\ link'[s] = "free" <=> link[s] = "free"
    /\ s \in active \/ lobby'[s] = lobby[s]
    /\ s \in refused => s \in refused'
    /\ main' = main \/ (~BeingJoined(s) /\ ~BeingJoined(s)')
    /\ SameRooms(s)

\* A room that holds a client is no unused GameRoom object.
LEMMA HoldsUsed ==
  ASSUME RoomStages, NEW r \in Rooms, NEW s, Holds(s, r)
  PROVE  room[r].phase # "unused"
  BY DEF RoomStages, StageOK, Holds, LoopPhases

\* A client that stays where it is has a place after the step.
LEMMA FramePlace ==
  ASSUME TypeOK, RoomStages, NEW s \in Sockets, HasPlace(s), SamePlace(s)
  PROVE  HasPlace(s)'
  <1>1. CASE WithMain(s)
    <2>1. OutOfRooms(s)'
      BY <1>1 DEF WithMain, OutOfRooms, SamePlace, SameRooms
    <2>2. ~BeingJoined(s)'
      BY <1>1 DEF WithMain, SamePlace, BeingJoined
    <2>. QED
      BY <1>1, <2>1, <2>2 DEF WithMain, SamePlace, HasPlace
  <1>2. CASE InJoin(s)
    <2>1. OutOfRooms(s)'
      BY <1>2 DEF InJoin, OutOfRooms, SamePlace, SameRooms
    <2>2. main' = main /\ BeingJoined(s)'
      BY <1>2 DEF InJoin, SamePlace, BeingJoined
    <2>3. room'[main.wanted].id = room[main.wanted].id
      BY <1>2 DEF InJoin, BeingJoined, SamePlace, SameRooms, RoomStages, TypeOK, JoinType
    <2>. QED
      BY <1>2, <2>1, <2>2, <2>3 DEF InJoin, SamePlace, HasPlace
  <1>3. ASSUME NEW r \in Rooms, InRoom(s, r) PROVE HasPlace(s)'
    <2>1. Holds(s, r) /\ room[r].phase # "unused"
      BY <1>3, HoldsUsed DEF InRoom
    <2>2. ~BeingJoined(s)'
      BY <1>3 DEF InRoom, SamePlace, BeingJoined
    <2>3. InRoom(s, r)'
      BY <1>3, <2>1, <2>2 DEF InRoom, SamePlace, SameRooms
    <2>. QED
      BY <2>3 DEF HasPlace
  <1>. QED
    BY <1>1, <1>2, <1>3 DEF HasPlace

\* A client that no room holds and no JOIN carries is with the main thread,
\* unless its connection is closed.
LEMMA FreedPlace ==
  ASSUME NEW s \in Sockets, OutOfRooms(s)', ~BeingJoined(s)',
         s \in active' <=> link'[s] # "free"
  PROVE  HasPlace(s)'
  BY DEF HasPlace, WithMain

\* The three kinds of places exclude each other.
LEMMA PlaceOf ==
  ASSUME NEW s \in Sockets, HasPlace(s)
  PROVE  /\ \A r \in Rooms : Holds(s, r) => InRoom(s, r)
         /\ s \in active \/ link[s] = "free" => WithMain(s)
         /\ BeingJoined(s) => InJoin(s)
  BY DEF HasPlace, WithMain, InJoin, InRoom, OutOfRooms

-----------------------------------------------------------------------------
(* Steps that move nobody.                                                   *)

\* A step that changes nothing but rooms, and leaves their players where they are.
LEMMA SettledPlaces ==
  ASSUME TypeOK, RoomStages, Placed, ~strayed,
         UNCHANGED <<gameRoom, netVars, main, lobby, refused>>,
         \A p \in Sockets : isPlaying'[p] => isPlaying[p] \/ gameRoom[p] # NoRoom,
         \A p \in Sockets : SameRooms(p),
         \A r \in Rooms : room'[r].todo \subseteq room'[r].players
  PROVE  Placed'
  <1>. SUFFICES ASSUME NEW s \in Sockets PROVE HasPlace(s)'
    BY DEF Placed
  <1>1. SamePlace(s)
    BY DEF SamePlace, netVars
  <1>. QED
    BY <1>1, FramePlace DEF Placed

\* The process ends, or nothing happens.
LEMMA UnchangedPlaces ==
  ASSUME TypeOK, RoomStages, Placed, ~strayed,
         UNCHANGED <<gameRoom, isPlaying, netVars, main, lobby, refused, room>>
  PROVE  Placed'
  <1>1. \A p \in Sockets : SameRooms(p)
    BY DEF SameRooms, Holds
  <1>. QED
    BY <1>1, SettledPlaces DEF Placed

\* A message that makes nobody leave.
LEMMA HandlesPlaces ==
  ASSUME TypeOK, RoomStages, Placed, ~strayed,
         UNCHANGED <<gameRoom, netVars, main, lobby, refused>>,
         \A p \in Sockets : isPlaying'[p] => isPlaying[p] \/ gameRoom[p] # NoRoom,
         NEW r, NEW q \in Rooms, NEW rec, NEW next, Handles(r, q, rec, {}, next)
  PROVE  Placed'
  <1>1. \A p \in Rooms : SameStage(room[p], room'[p]) /\ room'[p].players = room[p].players
    <2>1. /\ \A p \in Rooms : SameStage(room[p], room'[p])
          /\ room'[q].players = room[q].players \ {}
          /\ \A p \in Rooms \ {q} : room'[p].players = room[p].players
      BY HandlesRooms
    <2>. QED
      BY <2>1
  <1>2. \A p \in Sockets : SameRooms(p)
    BY <1>1 DEF SameRooms, Holds, SameStage
  <1>3. \A p \in Rooms : room'[p].todo \subseteq room'[p].players
    BY <1>1 DEF Placed, SameStage
  <1>. QED
    BY <1>2, <1>3, SettledPlaces

\* A step of room r's own thread that keeps the players it holds.
LEMMA StepPlaces ==
  ASSUME TypeOK, RoomStages, Placed, ~strayed,
         UNCHANGED <<gameRoom, isPlaying, netVars, main, lobby, refused>>,
         NEW r \in Rooms, NEW rec, room' = Becomes(r, rec), rec.id = room[r].id,
         rec.todo \subseteq rec.players,
         rec.phase \in LoopPhases => room[r].phase \in LoopPhases,
         \A s \in Sockets : (s \in rec.players /\ (rec.phase \in LoopPhases \/ s \in rec.todo))
                               <=> Holds(s, r)
  PROVE  Placed'
  <1>1. room'[r] = rec /\ \A q \in Rooms \ {r} : room'[q] = room[q]
    BY BecomesFields DEF TypeOK
  <1>2. ASSUME NEW p \in Sockets PROVE SameRooms(p)
    BY <1>1 DEF SameRooms, Holds
  <1>3. \A q \in Rooms : room'[q].todo \subseteq room'[q].players
    BY <1>1 DEF Placed
  <1>. QED
    BY <1>2, <1>3, SettledPlaces

-----------------------------------------------------------------------------
(* playerLeaves.                                                             *)

\* The released players are on the main thread's set, unless disconnected.
LEMMA PlayerLeavesEffect ==
  ASSUME TypeOK, NEW rec \in RoomType, NEW s \in Sockets, NEW d \in BOOLEAN,
         PlayerLeaves(rec, s, d)
  PROVE  \A p \in Sockets :
           IF p \in Released(rec, s)
             THEN /\ gameRoom'[p] = NoRoom /\ ~isPlaying'[p]
                  /\ link[p] # "free" => (p \in active' <=> link'[p] # "free")
                  /\ link[p] = "free" => link'[p] = "free" /\ p \in active'
             ELSE /\ gameRoom'[p] = gameRoom[p] /\ isPlaying'[p] = isPlaying[p]
                  /\ p \in active' <=> p \in active
                  /\ link'[p] = link[p]
  <1>1. s \in Released(rec, s)
    BY DEF Released
  <1>. QED
    BY <1>1 DEF PlayerLeaves, TypeOK

\* The players gone leave room q for the main thread.
LEMMA LeavePlaces ==
  ASSUME TypeOK, RoomStages, Placed, ~strayed, UNCHANGED <<main, refused>>,
         NEW q \in Rooms, NEW gone,
         \A p \in Rooms : SameStage(room[p], room'[p]),
         room'[q].players = room[q].players \ gone,
         \A p \in Rooms \ {q} : room'[p].players = room[p].players,
         \A p \in gone : p \notin room[q].todo,
         \A p \in gone \cap Sockets : link[p] # "free" /\ (Holds(p, q) \/ WithMain(p)),
         \A p \in Sockets : p \notin gone => lobby'[p] = lobby[p],
         \A p \in Sockets :
           IF p \in gone
             THEN /\ gameRoom'[p] = NoRoom /\ ~isPlaying'[p]
                  /\ p \in active' <=> link'[p] # "free"
             ELSE /\ gameRoom'[p] = gameRoom[p] /\ isPlaying'[p] = isPlaying[p]
                  /\ p \in active' <=> p \in active
                  /\ link'[p] = link[p]
  PROVE  Placed'
  <1>1. \A p \in Rooms : room'[p].todo \subseteq room'[p].players
    BY DEF Placed, SameStage
  <1>2. ASSUME NEW s \in Sockets PROVE HasPlace(s)'
    <2>1. HasPlace(s)
      BY DEF Placed
    <2>2. CASE s \in gone
      <3>1. Holds(s, q) \/ WithMain(s)
        BY <2>2
      <3>2. \A p \in Rooms \ {q} : ~Holds(s, p)
        BY <2>1, <3>1, PlaceOf DEF InRoom, WithMain, OutOfRooms
      <3>3. \A p \in Rooms : ~Holds(s, p)'
        BY <2>2, <3>2 DEF Holds, SameStage
      <3>4. ~BeingJoined(s)'
        BY <2>1, <3>1, PlaceOf DEF InRoom, WithMain, BeingJoined
      <3>. QED
        BY <2>2, <3>3, <3>4, FreedPlace DEF OutOfRooms
    <2>3. CASE s \notin gone
      <3>1. SameRooms(s)
        BY <2>3 DEF SameRooms, Holds, SameStage
      <3>2. SamePlace(s)
        BY <2>3, <3>1 DEF SamePlace
      <3>. QED
        BY <2>1, <3>2, FramePlace
    <2>. QED
      BY <2>2, <2>3
  <1>. QED
    BY <1>1, <1>2 DEF Placed

\* A thread serves only the players of its own room.
LEMMA ServesInRoom ==
  ASSUME TypeOK, RoomStages, Placed, ~strayed, NEW r \in Rooms, NEW s \in Sockets,
         RoomServes(r, s)
  PROVE  /\ room[r].phase = "loop" /\ s \in room[r].players
         /\ InRoom(s, r) /\ lobby[s] = room[r].id
         /\ \A p \in room[r].players : p \in Sockets /\ Holds(p, r) /\ InRoom(p, r)
  <1>1. room[r].phase = "loop" /\ s \in room[r].players /\ room[r].players \subseteq Sockets
    BY DEF RoomServes, RoomStages, StageOK, TypeOK, RoomType
  <1>2. \A p \in room[r].players : Holds(p, r)
    BY <1>1 DEF Holds, LoopPhases
  <1>3. \A p \in room[r].players : InRoom(p, r)
    BY <1>1, <1>2, PlaceOf DEF Placed
  <1>. QED
    BY <1>1, <1>2, <1>3 DEF InRoom, LoopPhases

\* The room id its client holds leads findRoomIndex to the thread's own room.
LEMMA LobbyIsHere ==
  ASSUME TypeOK, RoomStages, DirectorySorted, Placed, ~strayed,
         NEW r \in Rooms, NEW s \in Sockets, RoomServes(r, s)
  PROVE  /\ IndexOf(lobby[s]) # {}
         /\ \A i \in IndexOf(lobby[s]) : directory[i] = r
  <1>1. room[r].phase = "loop" /\ lobby[s] = room[r].id
    BY ServesInRoom
  <1>2. PICK j \in DOMAIN directory : directory[j] = r
    BY <1>1 DEF DirectorySorted
  <1>3. j \in IndexOf(lobby[s])
    BY <1>1, <1>2 DEF IndexOf
  <1>4. \A i \in IndexOf(lobby[s]) : i \in DOMAIN directory /\ room[directory[i]].id = room[r].id
    BY <1>1 DEF IndexOf
  <1>. QED
    BY <1>2, <1>3, <1>4, OneIndex

\* LEAVE, END or a hang-up of a player of the room.
LEMMA LeavesPlaces ==
  ASSUME TypeOK, RoomStages, Placed, ~strayed, UNCHANGED <<main, refused>>,
         NEW r \in Rooms, NEW s \in Sockets, RoomServes(r, s), Leaves(r, r, s),
         \A p \in Sockets : p # s => lobby'[p] = lobby[p]
  PROVE  Placed'
  <1>1. PICK rec \in RoomType, d \in BOOLEAN : \E left, next :
          /\ rec.players = room[r].players
          /\ PlayerLeaves(rec, s, d)
          /\ Handles(r, r, left, Released(rec, s), next)
    BY DEF Leaves
  <1>. DEFINE gone == Released(rec, s)
  <1>2. gone \subseteq room[r].players /\ s \in gone
    BY <1>1, ServesInRoom DEF Released
  <1>3. /\ \A p \in Rooms : SameStage(room[p], room'[p])
        /\ room'[r].players = room[r].players \ gone
        /\ \A p \in Rooms \ {r} : room'[p].players = room[p].players
    BY <1>1, HandlesRooms
  <1>4. room[r].todo = {}
    BY ServesInRoom DEF RoomStages, StageOK
  <1>5. \A p \in gone : Holds(p, r) /\ InRoom(p, r) /\ link[p] # "free"
    BY <1>2, ServesInRoom DEF InRoom
  <1>6. \A p \in Sockets :
           IF p \in gone
             THEN /\ gameRoom'[p] = NoRoom /\ ~isPlaying'[p]
                  /\ p \in active' <=> link'[p] # "free"
             ELSE /\ gameRoom'[p] = gameRoom[p] /\ isPlaying'[p] = isPlaying[p]
                  /\ p \in active' <=> p \in active
                  /\ link'[p] = link[p]
    BY <1>1, <1>5, PlayerLeavesEffect
  <1>. HIDE DEF gone
  <1>. QED
    BY <1>2, <1>3, <1>4, <1>5, <1>6, LeavePlaces

-----------------------------------------------------------------------------
(* The room threads.                                                         *)

\* Room r becomes rec, with the same players and one more seat taken, or not.
TakesSeat(r, s, rec) ==
    /\ Handles(r, r, rec, {}, Handled(r, s))
    /\ rec.gamers = room[r].gamers \/ r \in reseated'
    /\ NoGamer(rec) => NoGamer(room[r])
    /\ rec.playing = room[r].playing

\* A JOIN read by the thread of the room the client is already in moves nobody;
\* it may take one more seat.
LEMMA SecondJoin ==
  ASSUME TypeOK, RoomStages, DirectorySorted, Placed, ~strayed, ~strayed',
         NEW r \in Rooms, NEW s \in Sockets, NEW id \in Nat, NEW g \in BOOLEAN,
         RoomJoin(r, s, id, g), DatabaseFree
  PROVE  /\ UNCHANGED <<gameRoom, isPlaying, netVars, main, lobby, dbVars, refused, revived>>
         /\ RoomServes(r, s) /\ reseated \subseteq reseated'
         /\ \E rec \in RoomType : TakesSeat(r, s, rec)
  <1>1. /\ RoomServes(r, s) /\ id = room[r].id /\ lobby' = [lobby EXCEPT ![s] = id]
        /\ UNCHANGED <<isPlaying, link, clients, account, main, dbVars, refused, revived>>
    BY DEF RoomJoin
  <1>2. /\ room[r].phase = "loop" /\ s \in room[r].players /\ lobby[s] = room[r].id
        /\ gameRoom[s] = r /\ s \notin active /\ room[r] \in RoomType /\ account[s] \in Ids
    BY <1>1, ServesInRoom DEF InRoom, TypeOK
  <1>3. lobby' = lobby /\ active = active \ {s} /\ gameRoom = [gameRoom EXCEPT ![s] = r]
    BY <1>1, <1>2 DEF TypeOK
  <1>. DEFINE more == Entered(room[r], s, g)
  <1>4. /\ more \in RoomType /\ more.players = room[r].players
        /\ more.id = room[r].id /\ more.phase = room[r].phase
        /\ more.todo = room[r].todo /\ more.ready = room[r].ready
        /\ more.running = room[r].running
    <2>1. room[r] \in RoomType /\ account[s] \in Ids /\ room[r].players \cup {s} = room[r].players
      BY <1>2
    <2>. QED
      BY <2>1, EnteredType
  <1>5. /\ more.playing = room[r].playing
        /\ more.gamers = [room[r].gamers EXCEPT ![account[s]] = IF g THEN @ + 1 ELSE @]
    BY <1>2, EnteredType, EnteredSeat
  <1>6. room[r].gamers \in [Ids -> Nat]
    BY <1>2 DEF RoomType
  <1>. HIDE DEF more
  <1>7. (NoGamer(more) => NoGamer(room[r])) /\ (~g => more.gamers = room[r].gamers)
    BY <1>2, <1>5, <1>6 DEF NoGamer
  <1>8. ASSUME room' = Passed(room, r, Handled(r, s))
        PROVE  \E rec \in RoomType : TakesSeat(r, s, rec)
    <2>1. TakesSeat(r, s, room[r])
      BY <1>1, <1>8, IgnoreHandles DEF TakesSeat
    <2>. QED
      BY <1>2, <1>8, <2>1
  <1>9. CASE <<account[s], id>> \in invitations /\ IndexOf(id) # {}
    <2>1. PICK i \in IndexOf(id) :
            /\ active' = active \ {s}
            /\ room' = Passed(IF Full(room[directory[i]], g) THEN room
                              ELSE Becomes(directory[i], Entered(room[directory[i]], s, g)),
                              r, Handled(r, s))
            /\ gameRoom' = IF Full(room[directory[i]], g) THEN gameRoom
                           ELSE [gameRoom EXCEPT ![s] = directory[i]]
            /\ reseated' = IF Full(room[directory[i]], g) \/ ~g THEN reseated
                           ELSE reseated \cup {directory[i]}
      BY <1>9 DEF RoomJoin
    <2>2. directory[i] = r
      BY <1>1, <1>2, LobbyIsHere
    <2>3. UNCHANGED <<active, gameRoom>> /\ reseated \subseteq reseated'
      BY <1>3, <2>1, <2>2
    <2>4. ASSUME Full(room[r], g) PROVE \E rec \in RoomType : TakesSeat(r, s, rec)
      BY <1>8, <2>1, <2>2, <2>3, <2>4
    <2>5. ASSUME ~Full(room[r], g) PROVE \E rec \in RoomType : TakesSeat(r, s, rec)
      <3>1. room' = Passed(Becomes(r, more), r, Handled(r, s))
        BY <2>1, <2>2, <2>5 DEF more
      <3>2. more.gamers = room[r].gamers \/ r \in reseated'
        BY <1>7, <2>1, <2>2, <2>5
      <3>3. Handles(r, r, more, {}, Handled(r, s))
        BY <1>2, <1>4, <3>1 DEF Handles, SameStage
      <3>4. TakesSeat(r, s, more)
        BY <1>5, <1>7, <3>2, <3>3 DEF TakesSeat
      <3>. QED
        BY <1>4, <2>3, <3>4
    <2>6. /\ UNCHANGED <<active, gameRoom>> /\ reseated \subseteq reseated'
          /\ \E rec \in RoomType : TakesSeat(r, s, rec)
      BY <2>3, <2>4, <2>5
    <2>. QED
      BY <1>1, <1>3, <2>6 DEF netVars
  <1>10. CASE ~(<<account[s], id>> \in invitations /\ IndexOf(id) # {})
    <2>1. room' = Passed(room, r, Handled(r, s)) /\ UNCHANGED <<active, gameRoom, reseated>>
      BY <1>10 DEF RoomJoin
    <2>2. \E rec \in RoomType : TakesSeat(r, s, rec)
      BY <1>8, <2>1
    <2>. QED
      BY <1>1, <1>3, <2>1, <2>2 DEF netVars
  <1>. QED
    BY <1>9, <1>10

\* The handlers of a message.
LEMMA MessagePlaces ==
  ASSUME TypeOK, RoomStages, DirectorySorted, Placed, ~strayed,
         NEW r \in Rooms, NEW s \in Sockets,
         \/ RoomIgnore(r, s) \/ RoomHangup(r, s) \/ RoomLeave(r, s)
         \/ LobbyStart(r, s) \/ Lose(r, s) \/ GameEnd(r, s)
         \/ \E n \in Sizes : Modify(r, s, n)
         \/ \E a \in Accounts : Invite(r, s, a)
  PROVE  Placed'
  <1>. USE DEF dbVars, history
  <1>a. ASSUME Crash PROVE Placed'
    BY <1>a, UnchangedPlaces DEF Crash, netVars
  <1>b. ASSUME RoomServes(r, s), room' = Passed(room, r, Handled(r, s)),
               UNCHANGED <<gameRoom, isPlaying, netVars, main, lobby, refused>>
        PROVE  Placed'
    <2>1. Handles(r, r, room[r], {}, Handled(r, s))
      BY <1>b, IgnoreHandles
    <2>. QED
      BY <1>b, <2>1, HandlesPlaces
  <1>1. CASE RoomIgnore(r, s)
    BY <1>1, <1>b DEF RoomIgnore
  <1>2. CASE RoomHangup(r, s)
    <2>1. UNCHANGED <<main, refused, lobby>> /\ RoomServes(r, s)
      BY <1>2 DEF RoomHangup
    <2>2. Leaves(r, r, s)
      BY <1>2, HangupLeaves
    <2>. QED
      BY <2>1, <2>2, LeavesPlaces
  <1>3. CASE RoomLeave(r, s)
    <2>1. /\ UNCHANGED <<main, refused>> /\ RoomServes(r, s)
          /\ \A p \in Sockets : p # s => lobby'[p] = lobby[p]
      BY <1>3 DEF RoomLeave, TypeOK
    <2>2. Leaves(r, r, s)
      BY <1>3, <2>1, LobbyIsHere, RoomLeaveLeaves
    <2>. QED
      BY <2>1, <2>2, LeavesPlaces
  <1>4. CASE LobbyStart(r, s)
    <2>1. PICK i \in IndexOf(lobby[s]) :
            /\ room' = Passed(Becomes(directory[i],
                                [room[directory[i]] EXCEPT !.playing = TRUE]), r, Handled(r, s))
            /\ isPlaying' = [p \in Sockets |-> isPlaying[p] \/ p \in room[directory[i]].players]
      BY <1>4 DEF LobbyStart
    <2>2. UNCHANGED <<gameRoom, netVars, main, lobby, refused>> /\ RoomServes(r, s)
      BY <1>4 DEF LobbyStart
    <2>3. directory[i] = r
      BY <2>2, LobbyIsHere
    <2>4. \A p \in Sockets : isPlaying'[p] => isPlaying[p] \/ gameRoom[p] # NoRoom
      <3>. SUFFICES ASSUME NEW p \in Sockets, isPlaying'[p], ~isPlaying[p]
                    PROVE  gameRoom[p] # NoRoom
        OBVIOUS
      <3>1. isPlaying'[p] = (isPlaying[p] \/ p \in room[r].players)
        BY <2>1, <2>3, Zenon
      <3>2. InRoom(p, r)
        BY <2>2, <3>1, ServesInRoom
      <3>. QED
        BY <3>2, NoRoomOutside DEF InRoom
    <2>. DEFINE rec == [room[r] EXCEPT !.playing = TRUE]
    <2>5. Handles(r, r, rec, {}, Handled(r, s))
      BY <2>1, <2>2, <2>3, AssignHandles
    <2>. HIDE DEF rec
    <2>. QED
      BY <2>2, <2>4, <2>5, HandlesPlaces
  <1>5. CASE Lose(r, s)
    <2>. DEFINE q == gameRoom[s]
                b == Cardinality({p \in room[q].players : isPlaying[p] /\ p # s}) > 1
                rec == [room[q] EXCEPT !.running = room[q].running /\ b]
    <2>1. /\ UNCHANGED <<gameRoom, netVars, main, lobby, refused>>
          /\ RoomServes(r, s) /\ q \in Rooms
          /\ room' = Passed(Becomes(q, rec), r, Handled(r, s))
      BY <1>5 DEF Lose, TypeOK
    <2>2. \A p \in Sockets : isPlaying'[p] => isPlaying[p] \/ gameRoom[p] # NoRoom
      BY <1>5 DEF Lose, TypeOK
    <2>3. b \in BOOLEAN
      OBVIOUS
    <2>. HIDE DEF b
    <2>4. \E c \in BOOLEAN : rec = [room[q] EXCEPT !.running = room[q].running /\ c]
      BY <2>3
    <2>. HIDE DEF rec
    <2>5. Handles(r, q, rec, {}, Handled(r, s))
      BY <2>1, <2>4, AssignHandles
    <2>. QED
      BY <2>1, <2>2, <2>5, HandlesPlaces
  <1>6. CASE GameEnd(r, s)
    <2>1. CASE ~DatabaseFree
      BY <1>6, <1>a, <2>1 DEF GameEnd
    <2>2. CASE DatabaseFree
      <3>1. /\ UNCHANGED <<main, refused>> /\ RoomServes(r, s)
            /\ \A p \in Sockets : p # s => lobby'[p] = lobby[p]
        BY <1>6, <2>2 DEF GameEnd, TypeOK
      <3>2. gameRoom[s] = r
        BY <3>1, ServesInRoom DEF InRoom
      <3>3. Leaves(r, r, s)
        BY <1>6, <2>2, <3>2, GameEndLeaves
      <3>. QED
        BY <3>1, <3>3, LeavesPlaces
    <2>. QED
      BY <2>1, <2>2
  <1>7. ASSUME NEW n \in Sizes, Modify(r, s, n) PROVE Placed'
    <2>1. PICK i \in IndexOf(lobby[s]) :
            room' = Passed(Becomes(directory[i],
                             [room[directory[i]] EXCEPT !.size = Cap(n)]), r, Handled(r, s))
      BY <1>7 DEF Modify
    <2>2. /\ UNCHANGED <<gameRoom, isPlaying, netVars, main, lobby, refused>>
          /\ RoomServes(r, s) /\ Cap(n) \in Nat
      BY <1>7, SizesAreNat, CapType DEF Modify
    <2>3. directory[i] = r
      BY <2>2, LobbyIsHere
    <2>. DEFINE rec == [room[r] EXCEPT !.size = Cap(n)]
    <2>4. Handles(r, r, rec, {}, Handled(r, s))
      BY <2>1, <2>2, <2>3, AssignHandles
    <2>. HIDE DEF rec
    <2>. QED
      BY <2>2, <2>4, HandlesPlaces
  <1>8. ASSUME NEW a \in Accounts, Invite(r, s, a) PROVE Placed'
    <2>1. CASE ~DatabaseFree \/ account[s] = NoAccount
      BY <1>8, <1>a, <2>1 DEF Invite
    <2>2. CASE ~(~DatabaseFree \/ account[s] = NoAccount)
      BY <1>8, <1>b, <2>2 DEF Invite
    <2>. QED
      BY <2>1, <2>2
  <1>. QED
    BY <1>1, <1>2, <1>3, <1>4, <1>5, <1>6, <1>7, <1>8

\* loop() gives client s back while it closes its room.
LEMMA RestorePlaces ==
  ASSUME TypeOK, RoomStages, Placed, ~strayed, NEW r \in Rooms, NEW s \in Sockets,
         RoomRestore(r, s)
  PROVE  Placed'
  <1>. DEFINE rec == [room[r] EXCEPT !.todo = room[r].todo \ {s}]
  <1>1. /\ UNCHANGED <<link, main, refused>> /\ room' = Becomes(r, rec)
        /\ room[r].phase = "restore" /\ s \in room[r].todo
        /\ gameRoom' = [gameRoom EXCEPT ![s] = NoRoom]
        /\ isPlaying' = [isPlaying EXCEPT ![s] = FALSE]
        /\ active' = active \cup {s} /\ lobby' = [lobby EXCEPT ![s] = 0]
    BY DEF RoomRestore, history
  <1>2. /\ rec.id = room[r].id /\ rec.phase = room[r].phase
        /\ rec.players = room[r].players /\ rec.todo = room[r].todo \ {s}
    BY DEF TypeOK, RoomType
  <1>. HIDE DEF rec
  <1>3. room'[r] = rec /\ \A q \in Rooms \ {r} : room'[q] = room[q]
    BY <1>1, BecomesFields DEF TypeOK
  <1>4. \A q \in Rooms : room'[q].todo \subseteq room'[q].players
    BY <1>2, <1>3 DEF Placed
  <1>5. HasPlace(s)'
    <2>1. InRoom(s, r)
      BY <1>1, PlaceOf DEF Placed, Holds
    <2>2. \A q \in Rooms : ~Holds(s, q)'
      BY <1>1, <1>2, <1>3, <2>1 DEF InRoom, Holds, LoopPhases
    <2>3. OutOfRooms(s)' /\ ~BeingJoined(s)' /\ s \in active' /\ link'[s] # "free"
      BY <1>1, <2>1, <2>2 DEF OutOfRooms, InRoom, BeingJoined, TypeOK
    <2>. QED
      BY <2>3, FreedPlace
  <1>6. ASSUME NEW p \in Sockets, p # s PROVE HasPlace(p)'
    <2>1. SameRooms(p)
      BY <1>1, <1>2, <1>3, <1>6 DEF SameRooms, Holds, LoopPhases
    <2>2. SamePlace(p)
      BY <1>1, <1>6, <2>1 DEF SamePlace, TypeOK
    <2>. QED
      BY <2>2, FramePlace DEF Placed
  <1>. QED
    BY <1>4, <1>5, <1>6 DEF Placed

\* The steps of a room's thread.
LEMMA ThreadPlaces ==
  ASSUME TypeOK, RoomStages, DirectorySorted, Placed, ~strayed, ~strayed',
         NEW r \in Rooms, RoomThread(r)
  PROVE  Placed'
  <1>. USE DEF dbVars, history
  <1>a. /\ room[r] \in RoomType /\ StageOK(room[r])
        /\ room[r].todo \subseteq room[r].players
    BY DEF TypeOK, RoomStages, Placed
  <1>1. CASE RoomStart(r)
    <2>. DEFINE rec == [room[r] EXCEPT !.phase = "loop", !.running = TRUE]
    <2>1. /\ UNCHANGED <<gameRoom, isPlaying, netVars, main, lobby, refused>>
          /\ room' = Becomes(r, rec) /\ room[r].phase = "start"
      BY <1>1 DEF RoomStart
    <2>2. /\ rec.id = room[r].id /\ rec.phase = "loop" /\ rec.todo = room[r].todo
          /\ rec.players = room[r].players
      BY <1>a DEF RoomType
    <2>. HIDE DEF rec
    <2>. QED
      BY <1>a, <2>1, <2>2, StepPlaces DEF Holds, LoopPhases
  <1>2. CASE RoomSelect(r)
    <2>1. PICK S \in SUBSET room[r].players :
            /\ UNCHANGED <<gameRoom, isPlaying, netVars, main, lobby, refused>>
            /\ room' = Becomes(r, [room[r] EXCEPT !.ready = S])
      BY <1>2 DEF RoomSelect
    <2>. DEFINE rec == [room[r] EXCEPT !.ready = S]
    <2>2. /\ rec.id = room[r].id /\ rec.phase = room[r].phase /\ rec.todo = room[r].todo
          /\ rec.players = room[r].players /\ room' = Becomes(r, rec)
      BY <1>a, <2>1 DEF RoomType
    <2>. HIDE DEF rec
    <2>. QED
      BY <1>a, <2>1, <2>2, StepPlaces DEF Holds
  <1>3. CASE RoomExit(r)
    <2>. DEFINE rec == [room[r] EXCEPT !.phase = "restore", !.todo = room[r].players]
    <2>1. /\ UNCHANGED <<gameRoom, isPlaying, netVars, main, lobby, refused>>
          /\ room' = Becomes(r, rec) /\ room[r].phase = "loop"
      BY <1>3 DEF RoomExit
    <2>2. /\ rec.id = room[r].id /\ rec.phase = "restore" /\ rec.todo = room[r].players
          /\ rec.players = room[r].players
      BY <1>a DEF RoomType
    <2>. HIDE DEF rec
    <2>. QED
      BY <1>a, <2>1, <2>2, StepPlaces DEF Holds, LoopPhases
  <1>4. CASE RoomClear(r)
    <2>. DEFINE rec == [room[r] EXCEPT !.phase = "purge", !.players = {}, !.ready = {},
                                       !.gamers = NoGamers]
    <2>1. /\ UNCHANGED <<gameRoom, isPlaying, netVars, main, lobby, refused>>
          /\ room' = Becomes(r, rec) /\ room[r].phase = "restore" /\ room[r].todo = {}
      BY <1>4 DEF RoomClear
    <2>2. /\ rec.id = room[r].id /\ rec.phase = "purge" /\ rec.todo = room[r].todo
          /\ rec.players = {}
      BY <1>a DEF RoomType
    <2>. HIDE DEF rec
    <2>. QED
      BY <1>a, <2>1, <2>2, StepPlaces DEF Holds, LoopPhases
  <1>5. ASSUME NEW from \in {"purge", "remove"}, NEW to \in {"remove", "gone"}, SetPhase(r, from, to),
               UNCHANGED <<gameRoom, isPlaying, netVars, main, lobby, refused>>
        PROVE  Placed'
    <2>. DEFINE rec == [room[r] EXCEPT !.phase = to]
    <2>1. room' = Becomes(r, rec) /\ room[r].phase = from
      BY <1>5 DEF SetPhase
    <2>2. /\ rec.id = room[r].id /\ rec.phase = to /\ rec.todo = room[r].todo
          /\ rec.players = room[r].players
      BY <1>a DEF RoomType
    <2>. HIDE DEF rec
    <2>. QED
      BY <1>a, <1>5, <2>1, <2>2, StepPlaces DEF Holds, LoopPhases
  <1>6. CASE RoomPurge(r)
    <2>1. CASE ~DatabaseFree
      BY <1>6, <2>1, UnchangedPlaces DEF RoomPurge, Crash, netVars
    <2>2. CASE DatabaseFree
      BY <1>5, <1>6, <2>2 DEF RoomPurge
    <2>. QED
      BY <2>1, <2>2
  <1>7. CASE RoomRemove(r)
    BY <1>5, <1>7 DEF RoomRemove
  <1>8. ASSUME NEW s \in Sockets, RoomRestore(r, s) PROVE Placed'
    BY <1>8, RestorePlaces
  <1>9. ASSUME NEW s \in Sockets,
               \/ RoomIgnore(r, s) \/ RoomHangup(r, s) \/ RoomLeave(r, s)
               \/ LobbyStart(r, s) \/ Lose(r, s) \/ GameEnd(r, s)
               \/ \E n \in Sizes : Modify(r, s, n)
               \/ \E a \in Accounts : Invite(r, s, a)
        PROVE  Placed'
    BY <1>9, MessagePlaces
  <1>10. ASSUME NEW s \in Sockets, NEW id \in Nat, NEW g \in BOOLEAN, RoomJoin(r, s, id, g)
         PROVE  Placed'
    <2>1. CASE ~DatabaseFree
      BY <1>10, <2>1, UnchangedPlaces DEF RoomJoin, Crash, netVars
    <2>2. CASE DatabaseFree
      <3>1. /\ UNCHANGED <<gameRoom, isPlaying, netVars, main, lobby, refused>>
            /\ \E rec \in RoomType : TakesSeat(r, s, rec)
        BY <1>10, <2>2, SecondJoin
      <3>2. PICK rec : Handles(r, r, rec, {}, Handled(r, s))
        BY <3>1 DEF TakesSeat
      <3>. QED
        BY <3>1, <3>2, HandlesPlaces
    <2>. QED
      BY <2>1, <2>2
  <1>11. ~\E s \in Sockets, q \in Rooms, n \in Sizes : RoomCreate(r, s, q, n)
    BY DEF RoomCreate
  <1>12. \A row \in listed : row[2] \in Nat
    BY DEF TypeOK
  <1>. QED
    BY <1>1, <1>2, <1>3, <1>4, <1>6, <1>7, <1>8, <1>9, <1>10, <1>11, <1>12 DEF RoomThread

-----------------------------------------------------------------------------
(* The main thread and the clients.                                          *)

\* A step in which only client s moves, while every other one stays.
LEMMA OneMoves ==
  ASSUME TypeOK, RoomStages, Placed, NEW s \in Sockets, ~strayed,
         HasPlace(s)', \A p \in Sockets \ {s} : SamePlace(p),
         \A r \in Rooms : room'[r].todo \subseteq room'[r].players
  PROVE  Placed'
  BY FramePlace DEF Placed

\* A client accepted, disconnected, or logged in.
LEMMA ConnectionPlaces ==
  ASSUME TypeOK, RoomStages, Placed, ~strayed, NEW s \in Sockets,
         Connect(s) \/ Disconnect(s) \/ \E a \in Accounts : Login(s, a)
  PROVE  Placed'
  <1>1. /\ UNCHANGED <<room, main, refused>> /\ main = Idle
        /\ s \in active \/ link[s] = "free"
    BY DEF Connect, Disconnect, Login, MainReads, MainServes, history
  <1>2. WithMain(s) /\ OutOfRooms(s)
    BY <1>1, PlaceOf DEF Placed, WithMain
  <1>3. /\ gameRoom' = gameRoom /\ isPlaying' = isPlaying
        /\ s \in active' <=> link'[s] # "free"
        /\ \A p \in Sockets \ {s} :
             /\ p \in active' <=> p \in active
             /\ link'[p] = link[p] /\ lobby'[p] = lobby[p]
    <2>1. gameRoom = [gameRoom EXCEPT ![s] = NoRoom] /\ isPlaying = [isPlaying EXCEPT ![s] = FALSE]
      BY <1>2 DEF OutOfRooms, TypeOK
    <2>2. CASE Connect(s)
      BY <2>1, <2>2 DEF Connect, TypeOK
    <2>3. CASE Disconnect(s)
      BY <2>1, <2>3 DEF Disconnect, TypeOK
    <2>4. ASSUME NEW a \in Accounts, Login(s, a) PROVE <1>3
      BY <2>1, <2>4 DEF Login, MainReads, MainServes, TypeOK
    <2>. QED
      BY <2>2, <2>3, <2>4
  <1>4. HasPlace(s)'
    <2>1. OutOfRooms(s)' /\ ~BeingJoined(s)'
      BY <1>1, <1>2, <1>3 DEF OutOfRooms, Holds, BeingJoined
    <2>. QED
      BY <1>3, <2>1, FreedPlace
  <1>5. \A p \in Sockets \ {s} : SamePlace(p)
    BY <1>1, <1>3 DEF SamePlace, SameRooms, Holds
  <1>6. \A r \in Rooms : room'[r].todo \subseteq room'[r].players
    BY <1>1 DEF Placed
  <1>. QED
    BY <1>4, <1>5, <1>6, OneMoves

\* handleCreate moves the creator into a room that nobody could know before.
LEMMA CreatePlaces ==
  ASSUME TypeOK, RoomStages, Placed, ~strayed,
         NEW s \in Sockets, NEW r \in Rooms, NEW n \in Sizes, Create(s, r, n)
  PROVE  Placed'
  <1>. DEFINE new == Opened(s, n)
  <1>1. /\ new.id = NextRoomId /\ new.phase = "start" /\ new.players = {s}
        /\ new.todo = {}
    BY OpenedFields
  <1>2. /\ room' = Becomes(r, new)
        /\ UNCHANGED <<link, isPlaying, main, refused>> /\ main = Idle
        /\ s \in active /\ link[s] # "free" /\ room[r].phase = "unused"
        /\ gameRoom' = [gameRoom EXCEPT ![s] = r] /\ active' = active \ {s}
        /\ lobby' = [lobby EXCEPT ![s] = NextRoomId]
    BY DEF Create, MainReads, MainServes, history
  <1>. HIDE DEF new
  <1>3. room'[r] = new /\ \A q \in Rooms \ {r} : room'[q] = room[q]
    BY <1>2, BecomesFields DEF TypeOK
  <1>4. OutOfRooms(s)
    BY <1>2, PlaceOf DEF Placed, WithMain
  <1>5. \A p \in Sockets : ~Holds(p, r)
    BY <1>2, HoldsUsed
  <1>6. InRoom(s, r)'
    <2>1. \A q \in Rooms : Holds(s, q)' <=> q = r
      BY <1>1, <1>3, <1>4 DEF OutOfRooms, Holds, LoopPhases
    <2>. QED
      BY <1>1, <1>2, <1>3, <2>1 DEF InRoom, BeingJoined, TypeOK
  <1>7. ASSUME NEW p \in Sockets \ {s} PROVE SamePlace(p)
    <2>1. SameRooms(p)
      BY <1>1, <1>2, <1>3, <1>5 DEF SameRooms, Holds
    <2>. QED
      BY <1>2, <2>1 DEF SamePlace, TypeOK
  <1>8. \A q \in Rooms : room'[q].todo \subseteq room'[q].players
    BY <1>1, <1>3 DEF Placed
  <1>. QED
    BY <1>6, <1>7, <1>8, OneMoves DEF HasPlace

\* handleJoin takes the client off the main thread's set, or answers at once.
LEMMA JoinBeginPlaces ==
  ASSUME TypeOK, RoomStages, Placed, ~strayed,
         NEW s \in Sockets, NEW id \in Nat, NEW g \in BOOLEAN, JoinBegin(s, id, g)
  PROVE  Placed'
  <1>1. /\ UNCHANGED <<link, gameRoom, isPlaying, room, refused>> /\ main = Idle
        /\ s \in active /\ link[s] # "free" /\ lobby' = [lobby EXCEPT ![s] = id]
    BY DEF JoinBegin, MainReads, MainServes, history
  <1>2. OutOfRooms(s) /\ OutOfRooms(s)'
    <2>1. OutOfRooms(s)
      BY <1>1, PlaceOf DEF Placed, WithMain
    <2>. QED
      BY <1>1, <2>1 DEF OutOfRooms, Holds
  <1>3. \A p \in Sockets : SameRooms(p)
    BY <1>1 DEF SameRooms, Holds
  <1>4. \A r \in Rooms : room'[r].todo \subseteq room'[r].players
    BY <1>1 DEF Placed
  <1>5. CASE <<account[s], id>> \in invitations /\ IndexOf(id) # {}
    <2>1. PICK i \in IndexOf(id) :
            /\ active' = active \ {s}
            /\ main' = [op |-> "join", sock |-> s, index |-> i,
                        asGamer |-> g, wanted |-> directory[i]]
      BY <1>5 DEF JoinBegin
    <2>2. main' # Idle /\ main'.sock = s /\ main'.wanted = directory[i]
      BY <2>1 DEF Idle
    <2>3. directory[i] \in Rooms /\ room[directory[i]].id = id
      BY IndexOfType DEF TypeOK
    <2>4. InJoin(s)'
      BY <1>1, <1>2, <2>1, <2>2, <2>3 DEF InJoin, BeingJoined, TypeOK
    <2>5. \A p \in Sockets \ {s} : SamePlace(p)
      BY <1>1, <1>3, <2>1, <2>2 DEF SamePlace, BeingJoined, TypeOK
    <2>. QED
      BY <1>4, <2>4, <2>5, OneMoves DEF HasPlace
  <1>6. CASE ~(<<account[s], id>> \in invitations /\ IndexOf(id) # {})
    <2>1. UNCHANGED <<active, main>>
      BY <1>6 DEF JoinBegin
    <2>2. \A p \in Sockets : SamePlace(p)
      BY <1>1, <1>3, <2>1 DEF SamePlace, TypeOK
    <2>. QED
      BY <1>4, <2>2, FramePlace DEF Placed
  <1>. QED
    BY <1>5, <1>6

\* addPlayer moves the client into the room, or forgets it when the room is full.
LEMMA EnterPlaces ==
  ASSUME TypeOK, RoomStages, DirectorySorted, Placed, ~strayed, ~strayed', JoinEnter
  PROVE  Placed'
  <1>1. CASE main.index > Len(directory)
    BY <1>1, UnchangedPlaces DEF JoinEnter, Crash, netVars, history
  <1>2. CASE ~(main.index > Len(directory))
    <2>1. main \in JoinType
      BY DEF JoinEnter, TypeOK
    <2>2. main.index \in DOMAIN directory /\ directory[main.index] \in Rooms
      BY <1>2, <2>1, LenProperties, ElementOfSeq DEF JoinType, TypeOK
    <2>3. PICK s \in Sockets, r \in Rooms : s = main.sock /\ r = directory[main.index]
      BY <2>1, <2>2 DEF JoinType
    <2>. DEFINE rec == Entered(room[r], s, main.asGamer)
                full == Full(room[r], main.asGamer)
    <2>4. /\ UNCHANGED <<link, isPlaying, active, lobby>> /\ main # Idle /\ main' = Idle
          /\ room' = IF full THEN room ELSE Becomes(r, rec)
          /\ gameRoom' = IF full THEN gameRoom ELSE [gameRoom EXCEPT ![s] = r]
          /\ refused' = IF full THEN refused \cup {s} ELSE refused \ {s}
          /\ full \/ (r = main.wanted /\ ~Closed(room[r]))
      BY <1>2, <2>3 DEF JoinEnter
    <2>5. /\ rec.id = room[r].id /\ rec.phase = room[r].phase /\ rec.todo = room[r].todo
          /\ rec.players = room[r].players \cup {s}
      BY EnteredType DEF TypeOK
    <2>. HIDE DEF rec, full
    <2>6. InJoin(s)
      BY <2>3, <2>4, PlaceOf DEF Placed, BeingJoined
    <2>7. \A p \in Sockets \ {s} : ~BeingJoined(p) /\ ~BeingJoined(p)'
      BY <2>3, <2>4 DEF BeingJoined
    <2>8. CASE full
      <3>1. WithMain(s)'
        BY <2>4, <2>6, <2>8 DEF InJoin, WithMain, OutOfRooms, Holds, BeingJoined
      <3>2. \A p \in Sockets \ {s} : SamePlace(p)
        BY <2>4, <2>7, <2>8 DEF SamePlace, SameRooms, Holds
      <3>. QED
        BY <2>4, <2>8, <3>1, <3>2, OneMoves DEF HasPlace, Placed
    <2>9. CASE ~full
      <3>1. room'[r] = rec /\ \A q \in Rooms \ {r} : room'[q] = room[q]
        BY <2>4, <2>2, <2>9, BecomesFields DEF TypeOK
      <3>2. r = main.wanted /\ room[r].phase \in LoopPhases
        <4>1. room[r].phase # "unused"
          BY <2>2, <2>3 DEF DirectorySorted
        <4>. QED
          BY <2>4, <2>2, <2>9, <4>1 DEF Closed, RoomStages, StageOK, LoopPhases
      <3>3. InRoom(s, r)'
        <4>1. \A q \in Rooms : Holds(s, q)' <=> q = r
          BY <2>5, <2>6, <3>1, <3>2 DEF InJoin, OutOfRooms, Holds
        <4>. QED
          BY <2>4, <2>2, <2>5, <2>6, <2>9, <3>1, <3>2, <4>1 DEF InRoom, InJoin, BeingJoined, TypeOK
      <3>4. ASSUME NEW p \in Sockets \ {s} PROVE SamePlace(p)
        <4>1. SameRooms(p)
          BY <2>5, <3>1 DEF SameRooms, Holds
        <4>. QED
          BY <2>4, <2>7, <2>9, <4>1 DEF SamePlace, TypeOK
      <3>5. \A q \in Rooms : room'[q].todo \subseteq room'[q].players
        BY <2>5, <3>1 DEF Placed
      <3>. QED
        BY <2>4, <2>2, <3>3, <3>4, <3>5, OneMoves DEF HasPlace
    <2>. QED
      BY <2>8, <2>9
  <1>. QED
    BY <1>1, <1>2

\* LEAVE read by the main thread, from a client that is in no room any more.
LEMMA MainLeavePlaces ==
  ASSUME TypeOK, RoomStages, Placed, ~strayed, ~strayed', NEW s \in Sockets, MainLeave(s)
  PROVE  Placed'
  <1>1. /\ UNCHANGED <<main, refused>> /\ s \in active /\ link[s] # "free"
        /\ lobby' = [lobby EXCEPT ![s] = 0]
    BY DEF MainLeave, MainReads, MainServes
  <1>2. WithMain(s) /\ OutOfRooms(s)
    BY <1>1, PlaceOf DEF Placed, WithMain
  <1>3. CASE IndexOf(lobby[s]) = {}
    <2>1. UNCHANGED <<link, active, gameRoom, isPlaying, room>>
      BY <1>3 DEF MainLeave
    <2>2. \A p \in Sockets : SamePlace(p)
      BY <1>1, <2>1 DEF SamePlace, SameRooms, Holds, TypeOK
    <2>. QED
      BY <2>1, <2>2, FramePlace DEF Placed
  <1>4. CASE IndexOf(lobby[s]) # {}
    <2>1. PICK i \in IndexOf(lobby[s]), d \in BOOLEAN :
            /\ PlayerLeaves(room[directory[i]], s, d)
            /\ room' = Becomes(directory[i], AfterLeave(room[directory[i]], s))
            /\ ~(Dissolves(room[directory[i]], s)
                   /\ room[directory[i]].phase \notin LoopPhases)
      BY <1>4 DEF MainLeave
    <2>. DEFINE q == directory[i]
                gone == Released(room[q], s)
                left == AfterLeave(room[q], s)
    <2>2. q \in Rooms /\ room[q] \in RoomType /\ account[s] \in Ids
      BY IndexOfType DEF TypeOK
    <2>3. SameStage(room[q], left) /\ left.players = room[q].players \ gone
      BY <2>2, AfterLeaveFields
    <2>4. /\ s \in gone
          /\ gone = {s} \/ (room[q].phase \in LoopPhases /\ gone = {s} \cup room[q].players)
      BY <2>1 DEF Released
    <2>5. \A p \in Sockets :
            IF p \in gone
              THEN /\ gameRoom'[p] = NoRoom /\ ~isPlaying'[p]
                   /\ link[p] # "free" => (p \in active' <=> link'[p] # "free")
                   /\ link[p] = "free" => link'[p] = "free" /\ p \in active'
              ELSE /\ gameRoom'[p] = gameRoom[p] /\ isPlaying'[p] = isPlaying[p]
                   /\ p \in active' <=> p \in active
                   /\ link'[p] = link[p]
      BY <2>1, <2>2, PlayerLeavesEffect
    <2>. HIDE DEF gone, left
    <2>6. room'[q] = left /\ \A p \in Rooms \ {q} : room'[p] = room[p]
      BY <2>1, <2>2, BecomesFields DEF TypeOK, left
    <2>7. /\ \A p \in Rooms : SameStage(room[p], room'[p])
          /\ room'[q].players = room[q].players \ gone
          /\ \A p \in Rooms \ {q} : room'[p].players = room[p].players
      BY <2>3, <2>6 DEF SameStage
    <2>8. \A p \in gone : p \notin room[q].todo
      <3>1. s \notin room[q].todo
        BY <1>2, <2>2 DEF OutOfRooms, Holds, Placed
      <3>2. room[q].phase \in LoopPhases => room[q].todo = {}
        BY <2>2 DEF RoomStages, StageOK, LoopPhases
      <3>. QED
        BY <2>4, <3>1, <3>2
    <2>9. ASSUME NEW p \in gone \cap Sockets
          PROVE  link[p] # "free" /\ (Holds(p, q) \/ WithMain(p))
      <3>1. CASE p = s
        BY <1>1, <1>2, <3>1
      <3>2. CASE p # s
        <4>1. Holds(p, q)
          BY <2>4, <3>2 DEF Holds
        <4>2. InRoom(p, q)
          BY <2>2, <4>1, PlaceOf DEF Placed
        <4>. QED
          BY <4>1, <4>2 DEF InRoom
      <3>. QED
        BY <3>1, <3>2
    <2>10. \A p \in Sockets :
           IF p \in gone
             THEN /\ gameRoom'[p] = NoRoom /\ ~isPlaying'[p]
                  /\ p \in active' <=> link'[p] # "free"
             ELSE /\ gameRoom'[p] = gameRoom[p] /\ isPlaying'[p] = isPlaying[p]
                  /\ p \in active' <=> p \in active
                  /\ link'[p] = link[p]
      BY <2>5, <2>9
    <2>11. \A p \in Sockets : p \notin gone => lobby'[p] = lobby[p]
      BY <1>1, <2>4 DEF TypeOK
    <2>. QED
      BY <1>1, <2>2, <2>7, <2>8, <2>9, <2>10, <2>11, LeavePlaces
  <1>. QED
    BY <1>3, <1>4

\* Whoever's START finds it in a room went astray; any other changes no place.
LEMMA MainStartPlaces ==
  ASSUME TypeOK, RoomStages, Placed, ~strayed, ~strayed', NEW s \in Sockets, MainStart(s)
  PROVE  Placed'
  <1>1. /\ UNCHANGED <<link, active, gameRoom, room, main, lobby, refused>>
        /\ isPlaying' = [isPlaying EXCEPT ![s] = @ \/ FALSE]
    BY DEF MainStart, netVars
  <1>2. \A p \in Sockets : isPlaying'[p] = isPlaying[p]
    BY <1>1, Zenon DEF TypeOK
  <1>3. \A p \in Sockets : SamePlace(p)
    BY <1>1, <1>2 DEF SamePlace, SameRooms, Holds
  <1>. QED
    BY <1>1, <1>3, FramePlace DEF Placed

\* The steps of the main thread.
LEMMA MainPlaces ==
  ASSUME TypeOK, RoomStages, DirectorySorted, Placed, ~strayed, ~strayed', MainThread
  PROVE  Placed'
  <1>1. \A row \in listed : row[2] \in Nat
    BY DEF TypeOK
  <1>2. ASSUME NEW s \in Sockets, Disconnect(s) \/ \E a \in Accounts : Login(s, a)
        PROVE  Placed'
    BY <1>2, ConnectionPlaces
  <1>3. ASSUME NEW s \in Sockets, MainLeave(s) PROVE Placed'
    BY <1>3, MainLeavePlaces
  <1>4. ASSUME NEW s \in Sockets, NEW r \in Rooms, NEW n \in Sizes, Create(s, r, n)
        PROVE  Placed'
    BY <1>4, CreatePlaces
  <1>5. ASSUME NEW s \in Sockets, NEW id \in Nat, NEW g \in BOOLEAN, JoinBegin(s, id, g)
        PROVE  Placed'
    BY <1>5, JoinBeginPlaces
  <1>6. CASE JoinEnter
    BY <1>6, EnterPlaces
  <1>7. ASSUME NEW s \in Sockets, MainStart(s) PROVE Placed'
    BY <1>7, MainStartPlaces
  <1>. QED
    BY <1>1, <1>2, <1>3, <1>4, <1>5, <1>6, <1>7 DEF MainThread

\* A client connects or hangs up.
LEMMA OutsidePlaces ==
  ASSUME TypeOK, RoomStages, Placed, ~strayed, Outside
  PROVE  Placed'
  <1>1. ASSUME NEW s \in Sockets, Connect(s) PROVE Placed'
    BY <1>1, ConnectionPlaces
  <1>2. ASSUME NEW s \in Sockets, HangUp(s) PROVE Placed'
    <2>1. \A p \in Sockets : SamePlace(p)
      BY <1>2 DEF HangUp, history, SamePlace, SameRooms, Holds, TypeOK
    <2>2. room' = room
      BY <1>2 DEF HangUp
    <2>. QED
      BY <2>1, <2>2, FramePlace DEF Placed
  <1>. QED
    BY <1>1, <1>2 DEF Outside

-----------------------------------------------------------------------------
(* The seats of a room.                                                      *)

\* The sockets of P that are logged in to account a.
OwnedBy(P, a) == {s \in P : account[s] = a}

\* Every seat of the room has a player.
Seated(rec) ==
    rec.phase \in LoopPhases =>
        \A a \in Ids : rec.gamers[a] <= Cardinality(OwnedBy(rec.players, a))

\* A room that waits for its game has a gamer.
Attended(rec) ==
    rec.phase = "start" \/ (rec.phase = "loop" /\ rec.running) =>
        rec.playing \/ ~NoGamer(rec)

\* A second JOIN may leave a seat behind, and a room dissolved before its thread
\* ran may wait for nobody.
Occupied(r, rec) == (r \in reseated \/ Seated(rec)) /\ (r \in revived \/ Attended(rec))

Lobbies == ~strayed => \A r \in Rooms : Occupied(r, room[r])

\* The players of an account are finitely many.
LEMMA OwnedFinite ==
  ASSUME NEW P \in SUBSET Sockets, NEW a
  PROVE  IsFiniteSet(OwnedBy(P, a)) /\ Cardinality(OwnedBy(P, a)) \in Nat
  <1>1. OwnedBy(P, a) \subseteq Sockets
    BY DEF OwnedBy
  <1>. QED
    BY <1>1, SocketsFinite, FS_Subset, FS_CardinalityType

\* A new player counts for its own account only.
LEMMA OwnedAdd ==
  ASSUME NEW P \in SUBSET Sockets, NEW s \in Sockets, s \notin P, NEW a
  PROVE  Cardinality(OwnedBy(P \cup {s}, a))
           = IF account[s] = a THEN Cardinality(OwnedBy(P, a)) + 1 ELSE Cardinality(OwnedBy(P, a))
  <1>1. OwnedBy(P \cup {s}, a)
          = IF account[s] = a THEN OwnedBy(P, a) \cup {s} ELSE OwnedBy(P, a)
    BY DEF OwnedBy
  <1>2. s \notin OwnedBy(P, a)
    BY DEF OwnedBy
  <1>. QED
    BY <1>1, <1>2, OwnedFinite, FS_AddElement

\* So does one that leaves.
LEMMA OwnedRemove ==
  ASSUME NEW P \in SUBSET Sockets, NEW s \in P, NEW a
  PROVE  Cardinality(OwnedBy(P \ {s}, a))
           = IF account[s] = a THEN Cardinality(OwnedBy(P, a)) - 1 ELSE Cardinality(OwnedBy(P, a))
  <1>1. OwnedBy(P \ {s}, a)
          = IF account[s] = a THEN OwnedBy(P, a) \ {s} ELSE OwnedBy(P, a)
    BY DEF OwnedBy
  <1>2. account[s] = a => s \in OwnedBy(P, a)
    BY DEF OwnedBy
  <1>. QED
    BY <1>1, <1>2, OwnedFinite, FS_RemoveElement

\* A room whose seats all have a player keeps that while its record is the same
\* in what the seats depend on.
LEMMA SameSeats ==
  ASSUME NEW old \in RoomType, NEW new, NEW r, Occupied(r, old),
         new.gamers = old.gamers, new.players = old.players,
         new.phase \in LoopPhases => old.phase \in LoopPhases,
         new.phase = "start" => old.phase = "start",
         new.phase = "loop" /\ new.running => old.phase = "start" \/ (old.phase = "loop" /\ old.running),
         old.playing => new.playing
  PROVE  Occupied(r, new)
  BY DEF Occupied, Seated, Attended, NoGamer

\* removePlayer takes the seat of a player along, if it has one.
LEMMA RemoveSeat ==
  ASSUME NEW rec \in RoomType, NEW s \in Sockets, account[s] \in Ids,
         \A a \in Ids : rec.gamers[a] <= Cardinality(OwnedBy(rec.players, a))
  PROVE  \A a \in Ids :
           RemovePlayer(rec, s).gamers[a] <= Cardinality(OwnedBy(RemovePlayer(rec, s).players, a))
  <1>. SUFFICES ASSUME NEW a \in Ids
                PROVE  RemovePlayer(rec, s).gamers[a]
                         <= Cardinality(OwnedBy(RemovePlayer(rec, s).players, a))
    OBVIOUS
  <1>. DEFINE g == rec.gamers
              n == Cardinality(OwnedBy(rec.players, a))
  <1>1. g \in [Ids -> Nat] /\ rec.players \in SUBSET Sockets
    BY DEF RoomType
  <1>2. g[a] \in Nat /\ n \in Nat /\ g[a] <= n
    BY <1>1, OwnedFinite
  <1>3. RemovePlayer(rec, s).players = rec.players \ {s}
    BY DEF RemovePlayer, RoomType
  <1>4. RemovePlayer(rec, s).gamers = EraseGamer(g, account[s])
    BY DEF RemovePlayer, RoomType
  <1>5. RemovePlayer(rec, s).gamers[a]
          = IF account[s] = a THEN (IF g[a] > 0 THEN g[a] - 1 ELSE 0) ELSE g[a]
    BY <1>1, <1>4 DEF EraseGamer
  <1>6. CASE s \in rec.players
    <2>1. Cardinality(OwnedBy(rec.players \ {s}, a)) = IF account[s] = a THEN n - 1 ELSE n
      BY <1>1, <1>6, OwnedRemove
    <2>2. n - 1 \in Nat \/ account[s] # a
      BY <1>1, <1>2, <2>1, OwnedFinite
    <2>. QED
      BY <1>2, <1>3, <1>5, <2>1, <2>2
  <1>7. CASE s \notin rec.players
    <2>1. rec.players \ {s} = rec.players
      BY <1>7
    <2>2. RemovePlayer(rec, s).gamers[a] <= n
      <3>. HIDE DEF g, n
      <3>. QED
        BY <1>2, <1>5
    <2>. QED
      BY <1>3, <2>1, <2>2
  <1>. QED
    BY <1>6, <1>7

\* A dissolved room has no seat taken.
LEMMA RemoveAllSeats ==
  ASSUME NEW rec \in RoomType,
         \A a \in Ids : rec.gamers[a] <= Cardinality(OwnedBy(rec.players, a))
  PROVE  \A a \in Ids : RemoveAll(rec).gamers[a] = 0
  <1>. SUFFICES ASSUME NEW a \in Ids PROVE RemoveAll(rec).gamers[a] = 0
    OBVIOUS
  <1>. DEFINE n(b) == Cardinality({p \in rec.players : account[p] = b})
              g == [b \in Ids |-> IF rec.gamers[b] > n(b) THEN rec.gamers[b] - n(b) ELSE 0]
  <1>1. rec.gamers[a] \in Nat /\ n(a) \in Nat /\ rec.gamers[a] <= n(a)
    BY OwnedFinite DEF RoomType, OwnedBy
  <1>2. RemoveAll(rec) = [rec EXCEPT !.gamers = g, !.players = {}, !.ready = {}]
    BY Zenon DEF RemoveAll
  <1>3. [rec EXCEPT !.gamers = g, !.players = {}, !.ready = {}].gamers = g
    <2>. HIDE DEF g
    <2>. QED
      BY DEF RoomType
  <1>4. g[a] = IF rec.gamers[a] > n(a) THEN rec.gamers[a] - n(a) ELSE 0
    OBVIOUS
  <1>. HIDE DEF g, n
  <1>. QED
    BY <1>1, <1>2, <1>3, <1>4

\* Whoever leaves keeps no seat, and a room that goes on waiting has a gamer left.
LEMMA LeaveSeats ==
  ASSUME NEW rec \in RoomType, NEW s \in Sockets, account[s] \in Ids
  PROVE  /\ Seated(rec) => Seated(AfterLeave(rec, s))
         /\ (rec.phase = "start" /\ Dissolves(rec, s)) \/ Attended(AfterLeave(rec, s))
  <1>. DEFINE one == RemovePlayer(rec, s)
              all == RemoveAll(one)
  <1>1. one \in RoomType /\ all \in RoomType
    BY RemovePlayerType, RemoveAllType
  <1>2. one.phase = rec.phase /\ one.playing = rec.playing
    BY DEF RemovePlayer, RoomType
  <1>3. Seated(rec) /\ rec.phase \in LoopPhases =>
          \A a \in Ids : one.gamers[a] <= Cardinality(OwnedBy(one.players, a))
    BY RemoveSeat DEF Seated
  <1>. HIDE DEF one
  <1>4. CASE Dissolves(rec, s)
    <2>1. all.phase = one.phase /\ all.players = {}
      BY <1>1 DEF RemoveAll, RoomType
    <2>2. Seated(rec) /\ rec.phase \in LoopPhases => \A a \in Ids : all.gamers[a] = 0
      BY <1>1, <1>3, RemoveAllSeats
    <2>. HIDE DEF all
    <2>. DEFINE left == [all EXCEPT !.running = FALSE]
    <2>3. /\ left.phase = all.phase /\ left.players = {}
          /\ left.gamers = all.gamers /\ ~left.running
      BY <1>1, <2>1 DEF RoomType
    <2>4. AfterLeave(rec, s) = left
      BY <1>4 DEF AfterLeave, all, one
    <2>5. \A a \in Ids : 0 <= Cardinality(OwnedBy(left.players, a))
      BY <2>3, OwnedFinite
    <2>. HIDE DEF left
    <2>6. Seated(rec) /\ left.phase \in LoopPhases =>
            \A a \in Ids : left.gamers[a] <= Cardinality(OwnedBy(left.players, a))
      BY <1>2, <2>1, <2>2, <2>3, <2>5
    <2>7. rec.phase # "start" => left.phase # "start"
      BY <1>2, <2>1, <2>3
    <2>. QED
      BY <1>4, <2>3, <2>4, <2>6, <2>7 DEF Seated, Attended
  <1>5. CASE ~Dissolves(rec, s)
    <2>1. AfterLeave(rec, s) = one
      BY <1>5 DEF AfterLeave, one
    <2>2. one.playing \/ ~NoGamer(one)
      BY <1>2, <1>5 DEF Dissolves, one
    <2>. QED
      BY <1>2, <1>3, <2>1, <2>2 DEF Seated, Attended
  <1>. QED
    BY <1>4, <1>5

\* While nobody logs in, a room's seats depend on the room alone.
LEMMA SeatsPrimed ==
  ASSUME UNCHANGED account, NEW r, r \in reseated' \/ Seated(room'[r]),
         r \in revived' \/ Attended(room'[r])
  PROVE  Occupied(r, room[r])'
  BY DEF Occupied, Seated, Attended, OwnedBy, NoGamer

\* Steps that touch no room and no account.
LEMMA UnchangedLobbies ==
  ASSUME Lobbies, ~strayed, UNCHANGED <<account, room, revived, reseated>>
  PROVE  Lobbies'
  BY SeatsPrimed DEF Lobbies, Occupied

\* A step that gives one room a new record, at the end of a message or not.
LEMMA StepSeats ==
  ASSUME TypeOK, Lobbies, ~strayed, UNCHANGED account, revived \subseteq revived',
         reseated \subseteq reseated', NEW q \in Rooms, NEW rec \in RoomType,
         q \in reseated' \/ Seated(rec), q \in revived' \/ Attended(rec),
         \/ room' = Becomes(q, rec)
         \/ \E r \in Rooms : \E next : room' = Passed(Becomes(q, rec), r, next)
  PROVE  Lobbies'
  <1>. DEFINE rooms == Becomes(q, rec)
  <1>1. /\ rooms \in [Rooms -> RoomType] /\ rooms[q] = rec
        /\ \A p \in Rooms \ {q} : rooms[p] = room[p]
    BY BecomesFields, BecomesType DEF TypeOK
  <1>. HIDE DEF rooms
  <1>2. ASSUME NEW p \in Rooms
        PROVE  /\ rooms[p] \in RoomType /\ (p \in reseated' \/ Seated(rooms[p]))
               /\ p \in revived' \/ Attended(rooms[p])
    BY <1>1 DEF Lobbies, Occupied
  <1>3. ASSUME NEW p \in Rooms
        PROVE  (p \in reseated' \/ Seated(room'[p])) /\ (p \in revived' \/ Attended(room'[p]))
    <2>1. CASE room' = rooms
      BY <1>2, <2>1
    <2>2. ASSUME NEW r \in Rooms, NEW next, room' = Passed(rooms, r, next)
          PROVE  (p \in reseated' \/ Seated(room'[p])) /\ (p \in revived' \/ Attended(room'[p]))
      <3>1. /\ room'[p].gamers = rooms[p].gamers /\ room'[p].players = rooms[p].players
            /\ room'[p].phase = rooms[p].phase /\ room'[p].running = rooms[p].running
            /\ room'[p].playing = rooms[p].playing
        BY <1>1, <2>2 DEF Passed, Ready, RoomType
      <3>. QED
        BY <1>2, <3>1 DEF Seated, Attended, NoGamer
    <2>. QED
      BY <2>1, <2>2 DEF rooms
  <1>. QED
    BY <1>3, SeatsPrimed DEF Lobbies

\* The same, for a step that dissolves no room before it starts.
LEMMA StepLobbies ==
  ASSUME TypeOK, Lobbies, ~strayed, UNCHANGED <<account, revived, reseated>>,
         NEW q \in Rooms, NEW rec \in RoomType, Occupied(q, rec),
         \/ room' = Becomes(q, rec)
         \/ \E r \in Rooms : \E next : room' = Passed(Becomes(q, rec), r, next)
  PROVE  Lobbies'
  BY StepSeats DEF Occupied

\* A client that logs in, or connects, is in no room that counts its seats.
LEMMA ConnectionLobbies ==
  ASSUME TypeOK, RoomStages, Placed, Lobbies, ~strayed, NEW s \in Sockets,
         Connect(s) \/ Disconnect(s) \/ \E a \in Accounts : Login(s, a)
  PROVE  Lobbies'
  <1>1. /\ UNCHANGED <<room, revived, reseated>>
        /\ s \in active \/ link[s] = "free"
        /\ \A p \in Sockets \ {s} : account'[p] = account[p]
    BY DEF Connect, Disconnect, Login, MainReads, MainServes, TypeOK, history
  <1>2. OutOfRooms(s)
    BY <1>1, PlaceOf DEF Placed, WithMain
  <1>. SUFFICES ASSUME NEW r \in Rooms PROVE Occupied(r, room[r])'
    BY DEF Lobbies
  <1>3. Occupied(r, room[r]) /\ room[r].players \subseteq Sockets
    BY DEF Lobbies, TypeOK, RoomType
  <1>4. room[r].phase \in LoopPhases => s \notin room[r].players
    BY <1>2 DEF OutOfRooms, Holds
  <1>5. room[r].phase \in LoopPhases =>
          \A a \in Ids : OwnedBy(room[r].players, a)' = OwnedBy(room[r].players, a)
    BY <1>1, <1>3, <1>4 DEF OwnedBy
  <1>6. r \notin reseated /\ room[r].phase \in LoopPhases =>
          \A a \in Ids : room'[r].gamers[a] <= Cardinality(OwnedBy(room[r].players, a))'
    BY <1>1, <1>3, <1>5 DEF Occupied, Seated
  <1>. QED
    BY <1>1, <1>3, <1>6 DEF Occupied, Seated, Attended, NoGamer

\* handleCreate seats the creator, the room's only player.
LEMMA CreateLobbies ==
  ASSUME TypeOK, Lobbies, ~strayed,
         NEW s \in Sockets, NEW r \in Rooms, NEW n \in Sizes, Create(s, r, n)
  PROVE  Lobbies'
  <1>. DEFINE g == [NoGamers EXCEPT ![account[s]] = 1]
              new == Opened(s, n)
  <1>1. room' = Becomes(r, new) /\ UNCHANGED <<account, revived, reseated>>
    BY DEF Create, history
  <1>2. account[s] \in Ids /\ NextRoomId \in Nat /\ Cap(n) \in Nat
    BY NextRoomIdType, CapType, SizesAreNat DEF TypeOK
  <1>3. g \in [Ids -> Nat] /\ \A a \in Ids : g[a] = IF a = account[s] THEN 1 ELSE 0
    BY <1>2 DEF NoGamers
  <1>. HIDE DEF g
  <1>4. /\ new \in RoomType /\ new.gamers = g /\ new.players = {s}
        /\ new.phase = "start"
    BY OpenedType, OpenedFields DEF Opened, Unused, g
  <1>. HIDE DEF new
  <1>5. \A a \in Ids : g[a] <= Cardinality(OwnedBy({s}, a))
    <2>1. ASSUME NEW a \in Ids, a = account[s] PROVE Cardinality(OwnedBy({s}, a)) = 1
      <3>1. OwnedBy({s}, a) = {s}
        BY <2>1 DEF OwnedBy
      <3>. QED
        BY <3>1, FS_Singleton
    <2>2. \A a \in Ids : Cardinality(OwnedBy({s}, a)) \in Nat
      BY OwnedFinite
    <2>. QED
      BY <1>3, <2>1, <2>2
  <1>6. ~NoGamer(new)
    BY <1>2, <1>3, <1>4 DEF NoGamer
  <1>7. Occupied(r, new)
    BY <1>4, <1>5, <1>6 DEF Occupied, Seated, Attended
  <1>. QED
    BY <1>1, <1>4, <1>7, StepLobbies

\* addPlayer takes a seat for a client that was not a player of the room.
LEMMA EnterLobbies ==
  ASSUME TypeOK, RoomStages, DirectorySorted, Placed, Lobbies, ~strayed, ~strayed', JoinEnter
  PROVE  Lobbies'
  <1>1. CASE main.index > Len(directory)
    BY <1>1, UnchangedLobbies DEF JoinEnter, Crash, history
  <1>2. CASE ~(main.index > Len(directory))
    <2>1. main \in JoinType
      BY DEF JoinEnter, TypeOK
    <2>2. main.index \in DOMAIN directory /\ directory[main.index] \in Rooms
      BY <1>2, <2>1, LenProperties, ElementOfSeq DEF JoinType, TypeOK
    <2>3. PICK s \in Sockets, r \in Rooms : s = main.sock /\ r = directory[main.index]
      BY <2>1, <2>2 DEF JoinType
    <2>. DEFINE seats == IF main.asGamer THEN 1 ELSE 0
                g == [room[r].gamers EXCEPT ![account[s]] = IF main.asGamer THEN @ + 1 ELSE @]
                P == room[r].players \cup {s}
                rec == Entered(room[r], s, main.asGamer)
                full == Full(room[r], main.asGamer)
    <2>4. /\ UNCHANGED <<account, revived, reseated>> /\ main # Idle
          /\ room' = IF full THEN room ELSE Becomes(r, rec)
          /\ full \/ (r = main.wanted /\ ~Closed(room[r]))
      BY <1>2, <2>3 DEF JoinEnter
    <2>5. CASE full
      BY <2>4, <2>5, UnchangedLobbies
    <2>6. CASE ~full
      <3>1. room' = Becomes(r, rec) /\ ~Closed(room[r])
        BY <2>4, <2>6
      <3>. HIDE DEF full
      <3>2. /\ room[r] \in RoomType /\ account[s] \in Ids /\ Occupied(r, room[r])
            /\ room[r].gamers \in [Ids -> Nat] /\ room[r].players \in SUBSET Sockets
        BY DEF TypeOK, RoomType, Lobbies
      <3>3. room[r].phase \in LoopPhases
        BY <2>2, <2>3, <3>1 DEF Closed, RoomStages, StageOK, DirectorySorted, LoopPhases
      <3>4. s \notin room[r].players
        <4>1. InJoin(s)
          BY <2>3, <2>4, PlaceOf DEF Placed, BeingJoined
        <4>. QED
          BY <3>3, <4>1 DEF InJoin, OutOfRooms, Holds
      <3>5. /\ g \in [Ids -> Nat]
            /\ \A a \in Ids : g[a] = room[r].gamers[a] + IF a = account[s] THEN seats ELSE 0
        BY <3>2
      <3>6. seats \in 0 .. 1
        OBVIOUS
      <3>. HIDE DEF g, seats
      <3>7. /\ rec \in RoomType /\ rec.gamers = g /\ rec.players = P
            /\ rec.phase = room[r].phase /\ rec.playing = room[r].playing
            /\ rec.running = room[r].running
        BY <3>2, EnteredType, EnteredSeat DEF g
      <3>. HIDE DEF rec
      <3>8. r \notin reseated => \A a \in Ids : g[a] <= Cardinality(OwnedBy(P, a))
        <4>. SUFFICES ASSUME r \notin reseated, NEW a \in Ids PROVE g[a] <= Cardinality(OwnedBy(P, a))
          OBVIOUS
        <4>1. Cardinality(OwnedBy(P, a))
                = Cardinality(OwnedBy(room[r].players, a)) + IF account[s] = a THEN 1 ELSE 0
          BY <3>2, <3>4, OwnedAdd, OwnedFinite
        <4>2. /\ room[r].gamers[a] <= Cardinality(OwnedBy(room[r].players, a))
              /\ room[r].gamers[a] \in Nat /\ Cardinality(OwnedBy(room[r].players, a)) \in Nat
          BY <3>2, <3>3, OwnedFinite DEF Occupied, Seated
        <4>3. g[a] = room[r].gamers[a] + IF a = account[s] THEN seats ELSE 0
          BY <3>5
        <4>. QED
          BY <3>6, <4>1, <4>2, <4>3
      <3>9. NoGamer(rec) => NoGamer(room[r])
        BY <3>2, <3>5, <3>6, <3>7 DEF NoGamer
      <3>10. Occupied(r, rec)
        BY <3>2, <3>7, <3>8, <3>9 DEF Occupied, Seated, Attended
      <3>. QED
        BY <3>1, <2>4, <3>7, <3>10, StepLobbies
    <2>. QED
      BY <2>5, <2>6
  <1>. QED
    BY <1>1, <1>2

\* LEAVE read by the main thread may dissolve a room that has not started.
LEMMA MainLeaveLobbies ==
  ASSUME TypeOK, Lobbies, ~strayed, NEW s \in Sockets, MainLeave(s)
  PROVE  Lobbies'
  <1>1. CASE IndexOf(lobby[s]) = {}
    BY <1>1, UnchangedLobbies DEF MainLeave
  <1>2. CASE IndexOf(lobby[s]) # {}
    <2>1. PICK i \in IndexOf(lobby[s]) :
            /\ room' = Becomes(directory[i], AfterLeave(room[directory[i]], s))
            /\ revived' = IF Dissolves(room[directory[i]], s) /\ room[directory[i]].phase = "start"
                            THEN revived \cup {directory[i]} ELSE revived
      BY <1>2 DEF MainLeave
    <2>2. directory[i] \in Rooms /\ account[s] \in Ids /\ UNCHANGED account
      BY IndexOfType DEF TypeOK, MainLeave
    <2>3. /\ room[directory[i]] \in RoomType /\ UNCHANGED reseated
          /\ directory[i] \in reseated \/ Seated(room[directory[i]])
      BY <2>2 DEF TypeOK, Lobbies, Occupied, MainLeave
    <2>4. AfterLeave(room[directory[i]], s) \in RoomType
      BY <2>2, <2>3, AfterLeaveType
    <2>5. /\ directory[i] \in reseated' \/ Seated(AfterLeave(room[directory[i]], s))
          /\ directory[i] \in revived' \/ Attended(AfterLeave(room[directory[i]], s))
          /\ revived \subseteq revived'
      BY <2>1, <2>2, <2>3, LeaveSeats
    <2>. QED
      BY <2>1, <2>2, <2>3, <2>4, <2>5, StepSeats
  <1>. QED
    BY <1>1, <1>2

\* START, MODIFY and a lost game give nobody a seat and take none.
LEMMA AssignSeats ==
  ASSUME NEW old \in RoomType,
         NEW rec, \/ rec = [old EXCEPT !.playing = TRUE]
                  \/ \E n \in Nat : rec = [old EXCEPT !.size = n]
                  \/ \E b \in BOOLEAN : rec = [old EXCEPT !.running = old.running /\ b]
  PROVE  /\ rec \in RoomType
         /\ rec.gamers = old.gamers /\ rec.players = old.players
         /\ rec.phase = old.phase
         /\ rec.running => old.running
         /\ old.playing => rec.playing
  <1>1. CASE rec = [old EXCEPT !.playing = TRUE]
    BY <1>1 DEF RoomType
  <1>2. ASSUME NEW n \in Nat, rec = [old EXCEPT !.size = n]
        PROVE  /\ rec \in RoomType
               /\ rec.gamers = old.gamers /\ rec.players = old.players
               /\ rec.phase = old.phase
               /\ rec.running => old.running
               /\ old.playing => rec.playing
    BY <1>2 DEF RoomType
  <1>3. ASSUME NEW b \in BOOLEAN, rec = [old EXCEPT !.running = old.running /\ b]
        PROVE  /\ rec \in RoomType
               /\ rec.gamers = old.gamers /\ rec.players = old.players
               /\ rec.phase = old.phase
               /\ rec.running => old.running
               /\ old.playing => rec.playing
    <2>. DEFINE c == old.running /\ b
    <2>1. c \in BOOLEAN /\ (c => old.running) /\ rec = [old EXCEPT !.running = c]
      BY <1>3 DEF RoomType
    <2>. HIDE DEF c
    <2>. QED
      BY <2>1 DEF RoomType
  <1>. QED
    BY <1>1, <1>2, <1>3

\* The handlers of a message.
LEMMA MessageLobbies ==
  ASSUME TypeOK, RoomStages, DirectorySorted, Placed, Lobbies, ~strayed,
         NEW r \in Rooms, NEW s \in Sockets,
         \/ RoomIgnore(r, s) \/ RoomHangup(r, s) \/ RoomLeave(r, s)
         \/ LobbyStart(r, s) \/ Lose(r, s) \/ GameEnd(r, s)
         \/ \E n \in Sizes : Modify(r, s, n)
         \/ \E a \in Accounts : Invite(r, s, a)
  PROVE  Lobbies'
  <1>. USE DEF netVars, dbVars, history
  <1>a. ASSUME Crash PROVE Lobbies'
    BY <1>a, UnchangedLobbies DEF Crash
  <1>b. \A q \in Rooms : room[q] \in RoomType /\ Occupied(q, room[q])
    BY DEF TypeOK, Lobbies
  <1>c. ASSUME UNCHANGED <<account, revived, reseated>>, room' = Passed(room, r, Handled(r, s)) PROVE Lobbies'
    <2>1. room = Becomes(r, room[r])
      BY DEF Becomes, TypeOK
    <2>. QED
      BY <1>b, <1>c, <2>1, StepLobbies
  <1>d. ASSUME NEW q \in Rooms, NEW rec, UNCHANGED <<account, revived, reseated>>,
               \/ rec = [room[q] EXCEPT !.playing = TRUE]
               \/ \E n \in Nat : rec = [room[q] EXCEPT !.size = n]
               \/ \E b \in BOOLEAN : rec = [room[q] EXCEPT !.running = room[q].running /\ b],
               room' = Passed(Becomes(q, rec), r, Handled(r, s))
        PROVE  Lobbies'
    <2>1. /\ rec \in RoomType
          /\ rec.gamers = room[q].gamers /\ rec.players = room[q].players
          /\ rec.phase = room[q].phase
          /\ rec.running => room[q].running
          /\ room[q].playing => rec.playing
      BY <1>b, <1>d, AssignSeats
    <2>2. Occupied(q, rec)
      BY <1>b, <2>1, SameSeats
    <2>. QED
      BY <1>d, <2>1, <2>2, StepLobbies
  <1>e. ASSUME UNCHANGED <<account, revived, reseated>>, NEW rec \in RoomType, RoomServes(r, s),
               rec.phase = room[r].phase, rec.gamers = room[r].gamers,
               rec.players = room[r].players,
               NEW left, left = AfterLeave(rec, s)
                         \/ \E b \in BOOLEAN : left = [AfterLeave(rec, s) EXCEPT !.running = @ /\ b],
               NEW next, room' = Passed(Becomes(r, left), r, next)
        PROVE  Lobbies'
    <2>1. rec.phase = "loop" /\ Occupied(r, room[r]) /\ account[s] \in Ids
      BY <1>b, <1>e DEF RoomServes, TypeOK
    <2>2. Occupied(r, AfterLeave(rec, s))
      BY <1>e, <2>1, LeaveSeats DEF Occupied, Seated
    <2>3. AfterLeave(rec, s) \in RoomType
      BY <1>e, <2>1, AfterLeaveType
    <2>4. left \in RoomType /\ Occupied(r, left)
      <3>1. CASE left = AfterLeave(rec, s)
        BY <2>2, <2>3, <3>1
      <3>2. ASSUME NEW b \in BOOLEAN, NEW all \in RoomType, all = AfterLeave(rec, s),
                   left = [all EXCEPT !.running = all.running /\ b]
            PROVE  left \in RoomType /\ Occupied(r, left)
        <4>1. all.running \in BOOLEAN /\ Occupied(r, all)
          BY <2>2, <3>2 DEF RoomType
        <4>. DEFINE c == all.running /\ b
        <4>2. c \in BOOLEAN /\ (c => all.running) /\ left = [all EXCEPT !.running = c]
          BY <3>2, <4>1
        <4>. HIDE DEF c
        <4>3. left \in RoomType
          BY <4>2, UpdateType
        <4>4. /\ left.gamers = all.gamers /\ left.players = all.players
              /\ left.phase = all.phase /\ left.playing = all.playing
              /\ left.running => all.running
          BY <4>2 DEF RoomType
        <4>5. Occupied(r, left)
          BY <4>1, <4>4, SameSeats
        <4>. QED
          BY <4>3, <4>5
      <3>. QED
        BY <1>e, <2>3, <3>1, <3>2
    <2>. QED
      BY <1>e, <2>4, StepLobbies
  <1>1. CASE RoomIgnore(r, s)
    BY <1>1, <1>c DEF RoomIgnore
  <1>2. CASE RoomHangup(r, s)
    <2>1. PICK next : room' = Passed(Becomes(r, AfterLeave(room[r], s)), r, next)
      BY <1>2 DEF RoomHangup
    <2>. QED
      BY <1>2, <1>b, <1>e, <2>1 DEF RoomHangup
  <1>3. CASE RoomLeave(r, s)
    <2>1. RoomServes(r, s) /\ UNCHANGED <<account, revived, reseated>>
      BY <1>3 DEF RoomLeave
    <2>2. IndexOf(lobby[s]) # {} /\ \A i \in IndexOf(lobby[s]) : directory[i] = r
      BY <2>1, LobbyIsHere
    <2>3. PICK i \in IndexOf(lobby[s]) : \E next :
            room' = Passed(Becomes(directory[i], AfterLeave(room[directory[i]], s)), r, next)
      BY <1>3, <2>2 DEF RoomLeave
    <2>4. PICK next : room' = Passed(Becomes(r, AfterLeave(room[r], s)), r, next)
      BY <2>2, <2>3
    <2>. QED
      BY <1>b, <1>e, <2>1, <2>4
  <1>4. CASE LobbyStart(r, s)
    <2>1. PICK i \in IndexOf(lobby[s]) :
            room' = Passed(Becomes(directory[i],
                             [room[directory[i]] EXCEPT !.playing = TRUE]), r, Handled(r, s))
      BY <1>4 DEF LobbyStart
    <2>2. directory[i] \in Rooms /\ UNCHANGED <<account, revived, reseated>>
      BY <1>4, IndexOfType DEF LobbyStart, TypeOK
    <2>. QED
      BY <1>d, <2>1, <2>2
  <1>5. CASE Lose(r, s)
    <2>. DEFINE q == gameRoom[s]
                alive == {p \in room[q].players : isPlaying[p] /\ p # s}
                b == Cardinality(alive) > 1
    <2>1. /\ q \in Rooms /\ UNCHANGED <<account, revived, reseated>>
          /\ room' = Passed(Becomes(q, [room[q] EXCEPT !.running = @ /\ b]), r, Handled(r, s))
      BY <1>5 DEF Lose, TypeOK
    <2>2. b \in BOOLEAN
      OBVIOUS
    <2>. HIDE DEF b
    <2>. QED
      BY <1>d, <2>1, <2>2
  <1>6. CASE GameEnd(r, s)
    <2>1. CASE ~DatabaseFree
      BY <1>6, <1>a, <2>1 DEF GameEnd
    <2>2. CASE DatabaseFree
      <3>1. RoomServes(r, s) /\ UNCHANGED <<account, revived, reseated>>
        BY <1>6, <2>2 DEF GameEnd
      <3>2. gameRoom[s] = r
        BY <3>1, ServesInRoom DEF InRoom
      <3>. DEFINE b == GamerCount(room[r]) # 1
                  rec == [room[r] EXCEPT !.playing = @ /\ b]
                  e == ~NoGamer(AfterLeave(rec, s))
      <3>3. PICK next :
              room' = Passed(Becomes(r, [AfterLeave(rec, s) EXCEPT !.running = @ /\ e]), r, next)
        BY <1>6, <2>2, <3>2 DEF GameEnd
      <3>4. b \in BOOLEAN /\ e \in BOOLEAN
        BY DEF NoGamer
      <3>. HIDE DEF b
      <3>5. /\ rec \in RoomType /\ rec.gamers = room[r].gamers
            /\ rec.players = room[r].players /\ rec.phase = room[r].phase
        <4>1. room[r].playing \in BOOLEAN /\ (room[r].playing /\ b) \in BOOLEAN
          BY <1>b, <3>4 DEF RoomType
        <4>. QED
          BY <1>b, <4>1 DEF RoomType
      <3>. HIDE DEF rec, e
      <3>. QED
        BY <1>e, <3>1, <3>3, <3>4, <3>5
    <2>. QED
      BY <2>1, <2>2
  <1>7. ASSUME NEW n \in Sizes, Modify(r, s, n) PROVE Lobbies'
    <2>1. PICK i \in IndexOf(lobby[s]) :
            room' = Passed(Becomes(directory[i],
                             [room[directory[i]] EXCEPT !.size = Cap(n)]), r, Handled(r, s))
      BY <1>7 DEF Modify
    <2>2. directory[i] \in Rooms /\ UNCHANGED <<account, revived, reseated>> /\ Cap(n) \in Nat
      BY <1>7, IndexOfType, CapType, SizesAreNat DEF Modify, TypeOK
    <2>. QED
      BY <1>d, <2>1, <2>2
  <1>8. ASSUME NEW a \in Accounts, Invite(r, s, a) PROVE Lobbies'
    <2>1. CASE ~DatabaseFree \/ account[s] = NoAccount
      BY <1>8, <1>a, <2>1 DEF Invite
    <2>2. CASE ~(~DatabaseFree \/ account[s] = NoAccount)
      BY <1>8, <1>c, <2>2 DEF Invite
    <2>. QED
      BY <2>1, <2>2
  <1>. QED
    BY <1>1, <1>2, <1>3, <1>4, <1>5, <1>6, <1>7, <1>8

\* The steps of a room's thread.
LEMMA ThreadLobbies ==
  ASSUME TypeOK, RoomStages, DirectorySorted, Placed, Lobbies, ~strayed, ~strayed',
         NEW r \in Rooms, RoomThread(r)
  PROVE  Lobbies'
  <1>. USE DEF netVars, dbVars, history
  <1>a. room[r] \in RoomType /\ Occupied(r, room[r])
    BY DEF TypeOK, Lobbies
  <1>b. {"loop", "restore", "purge", "remove", "gone"} \subseteq Phases
    BY DEF Phases, LoopPhases
  <1>1. CASE RoomStart(r)
    <2>. DEFINE rec == [room[r] EXCEPT !.phase = "loop", !.running = TRUE]
    <2>1. UNCHANGED <<account, revived, reseated>> /\ room' = Becomes(r, rec) /\ room[r].phase = "start"
      BY <1>1 DEF RoomStart
    <2>2. /\ rec \in RoomType /\ rec.phase = "loop" /\ rec.gamers = room[r].gamers
          /\ rec.players = room[r].players /\ rec.playing = room[r].playing
      BY <1>a, <1>b DEF RoomType
    <2>. HIDE DEF rec
    <2>3. Occupied(r, rec)
      BY <1>a, <2>1, <2>2, SameSeats DEF LoopPhases
    <2>. QED
      BY <2>1, <2>2, <2>3, StepLobbies
  <1>2. CASE RoomSelect(r)
    <2>1. PICK S \in SUBSET room[r].players :
            UNCHANGED <<account, revived, reseated>> /\ room' = Becomes(r, [room[r] EXCEPT !.ready = S])
      BY <1>2 DEF RoomSelect
    <2>. DEFINE rec == [room[r] EXCEPT !.ready = S]
    <2>2. /\ rec \in RoomType /\ rec.phase = room[r].phase /\ rec.gamers = room[r].gamers
          /\ rec.players = room[r].players /\ rec.playing = room[r].playing
          /\ rec.running = room[r].running /\ room' = Becomes(r, rec)
      BY <1>a, <2>1 DEF RoomType
    <2>. HIDE DEF rec
    <2>3. Occupied(r, rec)
      BY <1>a, <2>2, SameSeats
    <2>. QED
      BY <2>1, <2>2, <2>3, StepLobbies
  <1>c. ASSUME NEW rec \in RoomType, rec.phase \notin LoopPhases, UNCHANGED <<account, revived, reseated>>,
               room' = Becomes(r, rec)
        PROVE  Lobbies'
    <2>1. Occupied(r, rec)
      BY <1>c DEF Occupied, Seated, Attended, LoopPhases
    <2>. QED
      BY <1>c, <2>1, StepLobbies
  <1>3. CASE RoomExit(r)
    <2>. DEFINE rec == [room[r] EXCEPT !.phase = "restore", !.todo = room[r].players]
    <2>1. rec \in RoomType /\ rec.phase = "restore"
      BY <1>a, <1>b DEF RoomType
    <2>2. UNCHANGED <<account, revived, reseated>> /\ room' = Becomes(r, rec)
      BY <1>3 DEF RoomExit
    <2>. HIDE DEF rec
    <2>. QED
      BY <1>c, <2>1, <2>2 DEF LoopPhases
  <1>4. CASE RoomClear(r)
    <2>. DEFINE rec == [room[r] EXCEPT !.phase = "purge", !.players = {}, !.ready = {},
                                       !.gamers = NoGamers]
    <2>1. rec \in RoomType
      BY <1>a, <1>b, UpdateType
    <2>2. rec.phase = "purge"
      BY <1>a DEF RoomType
    <2>3. UNCHANGED <<account, revived, reseated>> /\ room' = Becomes(r, rec)
      BY <1>4 DEF RoomClear
    <2>. HIDE DEF rec
    <2>. QED
      BY <1>c, <2>1, <2>2, <2>3 DEF LoopPhases
  <1>5. ASSUME NEW from, NEW to \in {"remove", "gone"}, SetPhase(r, from, to), UNCHANGED <<account, revived, reseated>>
        PROVE  Lobbies'
    <2>. DEFINE rec == [room[r] EXCEPT !.phase = to]
    <2>1. rec \in RoomType /\ rec.phase = to
      BY <1>a, <1>b DEF RoomType
    <2>2. room' = Becomes(r, rec)
      BY <1>5 DEF SetPhase
    <2>. HIDE DEF rec
    <2>. QED
      BY <1>c, <1>5, <2>1, <2>2 DEF LoopPhases
  <1>6. CASE RoomPurge(r)
    <2>1. CASE ~DatabaseFree
      BY <1>6, <2>1, UnchangedLobbies DEF RoomPurge, Crash
    <2>2. CASE DatabaseFree
      BY <1>5, <1>6, <2>2 DEF RoomPurge
    <2>. QED
      BY <2>1, <2>2
  <1>7. CASE RoomRemove(r)
    BY <1>5, <1>7 DEF RoomRemove
  <1>8. ASSUME NEW s \in Sockets, RoomRestore(r, s) PROVE Lobbies'
    <2>. DEFINE rec == [room[r] EXCEPT !.todo = room[r].todo \ {s}]
    <2>1. /\ UNCHANGED <<account, revived, reseated>> /\ room' = Becomes(r, rec) /\ room[r].phase = "restore"
      BY <1>8 DEF RoomRestore
    <2>2. rec \in RoomType /\ rec.phase = room[r].phase
      BY <1>a DEF RoomType
    <2>. HIDE DEF rec
    <2>. QED
      BY <1>c, <2>1, <2>2 DEF LoopPhases
  <1>9. ASSUME NEW s \in Sockets,
               \/ RoomIgnore(r, s) \/ RoomHangup(r, s) \/ RoomLeave(r, s)
               \/ LobbyStart(r, s) \/ Lose(r, s) \/ GameEnd(r, s)
               \/ \E n \in Sizes : Modify(r, s, n)
               \/ \E a \in Accounts : Invite(r, s, a)
        PROVE  Lobbies'
    BY <1>9, MessageLobbies
  <1>10. ASSUME NEW s \in Sockets, NEW id \in Nat, NEW g \in BOOLEAN, RoomJoin(r, s, id, g)
         PROVE  Lobbies'
    <2>1. CASE ~DatabaseFree
      BY <1>10, <2>1, UnchangedLobbies DEF RoomJoin, Crash
    <2>2. CASE DatabaseFree
      <3>0. PICK rec \in RoomType : TakesSeat(r, s, rec)
        BY <1>10, <2>2, SecondJoin
      <3>1. /\ Handles(r, r, rec, {}, Handled(r, s))
            /\ rec.gamers = room[r].gamers \/ r \in reseated'
            /\ NoGamer(rec) => NoGamer(room[r])
            /\ rec.playing = room[r].playing
        BY <3>0 DEF TakesSeat
      <3>2. UNCHANGED <<account, revived>> /\ reseated \subseteq reseated'
        BY <1>10, <2>2, SecondJoin
      <3>3. /\ rec.phase = room[r].phase /\ rec.players = room[r].players
            /\ rec.running => room[r].running
            /\ room' = Passed(Becomes(r, rec), r, Handled(r, s))
        BY <3>1 DEF Handles, SameStage
      <3>4. r \in reseated' \/ Seated(rec)
        BY <1>a, <3>1, <3>2, <3>3 DEF Occupied, Seated
      <3>5. r \in revived' \/ Attended(rec)
        BY <1>a, <3>1, <3>2, <3>3 DEF Occupied, Attended
      <3>. QED
        BY <3>2, <3>3, <3>4, <3>5, StepSeats
    <2>. QED
      BY <2>1, <2>2
  <1>11. ~\E s \in Sockets, q \in Rooms, n \in Sizes : RoomCreate(r, s, q, n)
    BY DEF RoomCreate
  <1>12. \A row \in listed : row[2] \in Nat
    BY DEF TypeOK
  <1>. QED
    BY <1>1, <1>2, <1>3, <1>4, <1>6, <1>7, <1>8, <1>9, <1>10, <1>11, <1>12 DEF RoomThread

-----------------------------------------------------------------------------
(* Who enters a room.                                                        *)

\* A client that a JOIN carries is invited to the room it looked up.
Vouched ==
    ~strayed /\ main # Idle => <<account[main.sock], room[main.wanted].id>> \in invitations

\* The stages of a room whose invitations are not deleted yet.
Inviting(rec) == rec.phase \in LoopPhases \cup {"restore", "purge"}

\* Every row that no former process left was written for the one room that has
\* the id of the row.
Recorded ==
    ~strayed => \A row \in invitations :
        \/ row \in leftover
        \/ \E r \in Rooms : /\ Inviting(room[r]) /\ room[r].id = row[2]
                             /\ <<row[1], r>> \in asked

\* Every room that is in use keeps its id, and its invitations too.
RoomsStay ==
    \A p \in Rooms : room[p].phase # "unused" =>
        room'[p].id = room[p].id /\ (Inviting(room[p]) => Inviting(room'[p]))

\* No room that is in use gets a new player.
NobodyEnters ==
    \A p \in Rooms : room[p].phase # "unused" => room'[p].players \subseteq room[p].players

\* A step outside the main thread forgets no invitation while a JOIN is under way.
InvitationsKept ==
    /\ UNCHANGED <<account, main>>
    /\ main = Idle \/ invitations \subseteq invitations'

\* What a message handler does to the rooms lets nobody in.
LEMMA HandlesEnters ==
  ASSUME TypeOK, RoomStages, NEW r, NEW q, NEW rec, NEW gone, NEW next,
         Handles(r, q, rec, gone, next)
  PROVE  NobodyEnters /\ RoomsStay
  <1>1. /\ \A p \in Rooms : SameStage(room[p], room'[p])
        /\ room'[q].players = room[q].players \ gone
        /\ \A p \in Rooms \ {q} : room'[p].players = room[p].players
    BY HandlesRooms
  <1>. QED
    BY <1>1 DEF NobodyEnters, RoomsStay, Inviting, SameStage

\* The handlers of a message let nobody in.
LEMMA MessageEnters ==
  ASSUME TypeOK, RoomStages, NEW r \in Rooms, NEW s \in Sockets,
         \/ RoomIgnore(r, s) \/ RoomHangup(r, s) \/ RoomLeave(r, s)
         \/ LobbyStart(r, s) \/ Lose(r, s) \/ GameEnd(r, s)
         \/ \E n \in Sizes : Modify(r, s, n)
         \/ \E a \in Accounts : Invite(r, s, a)
  PROVE  NobodyEnters /\ RoomsStay /\ InvitationsKept
  <1>. USE DEF netVars, dbVars, history
  <1>a. \A i \in IndexOf(lobby[s]) : directory[i] \in Rooms
    BY IndexOfType DEF TypeOK
  <1>b. ASSUME Crash PROVE NobodyEnters /\ RoomsStay /\ InvitationsKept
    BY <1>b DEF Crash, NobodyEnters, RoomsStay, InvitationsKept
  <1>c. ASSUME RoomServes(r, s), room' = Passed(room, r, Handled(r, s)) PROVE NobodyEnters /\ RoomsStay
    BY <1>c, IgnoreHandles, HandlesEnters
  <1>d. ASSUME NEW q, Leaves(r, q, s) PROVE NobodyEnters /\ RoomsStay
    BY <1>d, HandlesEnters DEF Leaves
  <1>e. ASSUME UNCHANGED <<account, main, invitations>> PROVE InvitationsKept
    BY <1>e DEF InvitationsKept
  <1>1. CASE RoomIgnore(r, s)
    BY <1>1, <1>c, <1>e DEF RoomIgnore
  <1>2. CASE RoomHangup(r, s)
    <2>1. UNCHANGED <<account, main, invitations>>
      BY <1>2 DEF RoomHangup
    <2>. QED
      BY <1>2, <1>d, <1>e, <2>1, HangupLeaves
  <1>3. CASE RoomLeave(r, s)
    <2>1. UNCHANGED <<account, main, invitations>> /\ RoomServes(r, s)
      BY <1>3 DEF RoomLeave
    <2>2. CASE IndexOf(lobby[s]) = {}
      BY <1>3, <1>c, <1>e, <2>1, <2>2 DEF RoomLeave
    <2>3. CASE IndexOf(lobby[s]) # {}
      BY <1>3, <1>d, <1>e, <2>1, <2>3, RoomLeaveLeaves
    <2>. QED
      BY <2>2, <2>3
  <1>4. CASE LobbyStart(r, s)
    <2>1. PICK i \in IndexOf(lobby[s]) :
            room' = Passed(Becomes(directory[i],
                             [room[directory[i]] EXCEPT !.playing = TRUE]), r, Handled(r, s))
      BY <1>4 DEF LobbyStart
    <2>2. UNCHANGED <<account, main, invitations>> /\ RoomServes(r, s)
      BY <1>4 DEF LobbyStart
    <2>. QED
      BY <1>a, <1>e, <2>1, <2>2, AssignHandles, HandlesEnters
  <1>5. CASE Lose(r, s)
    <2>. DEFINE q == gameRoom[s]
                b == Cardinality({p \in room[q].players : isPlaying[p] /\ p # s}) > 1
                rec == [room[q] EXCEPT !.running = room[q].running /\ b]
    <2>1. /\ UNCHANGED <<account, main, invitations>> /\ RoomServes(r, s) /\ q \in Rooms
          /\ room' = Passed(Becomes(q, rec), r, Handled(r, s))
      BY <1>5 DEF Lose, TypeOK
    <2>2. b \in BOOLEAN
      OBVIOUS
    <2>. HIDE DEF b
    <2>3. \E c \in BOOLEAN : rec = [room[q] EXCEPT !.running = room[q].running /\ c]
      BY <2>2
    <2>. HIDE DEF rec
    <2>. QED
      BY <1>e, <2>1, <2>3, AssignHandles, HandlesEnters
  <1>6. CASE GameEnd(r, s)
    <2>1. CASE ~DatabaseFree
      BY <1>6, <1>b, <2>1 DEF GameEnd
    <2>2. CASE DatabaseFree
      <3>1. UNCHANGED <<account, main, invitations>>
        BY <1>6, <2>2 DEF GameEnd
      <3>. QED
        BY <1>6, <1>d, <1>e, <2>2, <3>1, GameEndLeaves
    <2>. QED
      BY <2>1, <2>2
  <1>7. ASSUME NEW n \in Sizes, Modify(r, s, n) PROVE NobodyEnters /\ RoomsStay /\ InvitationsKept
    <2>1. PICK i \in IndexOf(lobby[s]) :
            room' = Passed(Becomes(directory[i],
                             [room[directory[i]] EXCEPT !.size = Cap(n)]), r, Handled(r, s))
      BY <1>7 DEF Modify
    <2>2. UNCHANGED <<account, main, invitations>> /\ RoomServes(r, s) /\ Cap(n) \in Nat
      BY <1>7, SizesAreNat, CapType DEF Modify
    <2>. QED
      BY <1>a, <1>e, <2>1, <2>2, AssignHandles, HandlesEnters
  <1>8. ASSUME NEW a \in Accounts, Invite(r, s, a) PROVE NobodyEnters /\ RoomsStay /\ InvitationsKept
    <2>1. CASE ~DatabaseFree \/ account[s] = NoAccount
      BY <1>8, <1>b, <2>1 DEF Invite
    <2>2. CASE ~(~DatabaseFree \/ account[s] = NoAccount)
      BY <1>8, <1>c, <2>2 DEF Invite, InvitationsKept
    <2>. QED
      BY <2>1, <2>2
  <1>. QED
    BY <1>1, <1>2, <1>3, <1>4, <1>5, <1>6, <1>7, <1>8

\* A step of room r's own thread that keeps its id and lets nobody in.
LEMMA StepEnters ==
  ASSUME TypeOK, NEW r \in Rooms, NEW rec, room' = Becomes(r, rec),
         rec.id = room[r].id, rec.players \subseteq room[r].players,
         Inviting(room[r]) => Inviting(rec)
  PROVE  NobodyEnters /\ RoomsStay
  <1>1. room'[r] = rec /\ \A p \in Rooms \ {r} : room'[p] = room[p]
    BY BecomesFields DEF TypeOK
  <1>. QED
    BY <1>1 DEF NobodyEnters, RoomsStay

\* The thread of a room lets nobody in.
LEMMA ThreadEnters ==
  ASSUME TypeOK, RoomStages, DirectorySorted, Placed, ~strayed, ~strayed',
         NEW r \in Rooms, RoomThread(r), ~RoomPurge(r)
  PROVE  NobodyEnters /\ RoomsStay /\ InvitationsKept
  <1>. USE DEF netVars, dbVars, history
  <1>a. room[r] \in RoomType
    BY DEF TypeOK
  <1>1. CASE RoomStart(r)
    <2>. DEFINE rec == [room[r] EXCEPT !.phase = "loop", !.running = TRUE]
    <2>1. rec.id = room[r].id /\ rec.players = room[r].players /\ rec.phase = "loop"
      BY <1>a DEF RoomType
    <2>2. room' = Becomes(r, rec) /\ UNCHANGED <<account, main, invitations>>
      BY <1>1 DEF RoomStart
    <2>. HIDE DEF rec
    <2>. QED
      BY <2>1, <2>2, StepEnters DEF InvitationsKept, Inviting, LoopPhases
  <1>2. CASE RoomSelect(r)
    <2>1. PICK S \in SUBSET room[r].players : room' = Becomes(r, [room[r] EXCEPT !.ready = S])
      BY <1>2 DEF RoomSelect
    <2>. DEFINE rec == [room[r] EXCEPT !.ready = S]
    <2>2. rec.id = room[r].id /\ rec.players = room[r].players /\ rec.phase = room[r].phase
      BY <1>a DEF RoomType
    <2>3. room' = Becomes(r, rec) /\ UNCHANGED <<account, main, invitations>>
      BY <1>2, <2>1 DEF RoomSelect
    <2>. HIDE DEF rec
    <2>. QED
      BY <2>2, <2>3, StepEnters DEF InvitationsKept, Inviting
  <1>3. CASE RoomExit(r)
    <2>. DEFINE rec == [room[r] EXCEPT !.phase = "restore", !.todo = room[r].players]
    <2>1. rec.id = room[r].id /\ rec.players = room[r].players /\ rec.phase = "restore"
      BY <1>a DEF RoomType
    <2>2. room' = Becomes(r, rec) /\ UNCHANGED <<account, main, invitations>>
      BY <1>3 DEF RoomExit
    <2>. HIDE DEF rec
    <2>. QED
      BY <2>1, <2>2, StepEnters DEF InvitationsKept, Inviting
  <1>4. CASE RoomClear(r)
    <2>. DEFINE rec == [room[r] EXCEPT !.phase = "purge", !.players = {}, !.ready = {},
                                       !.gamers = NoGamers]
    <2>1. rec.id = room[r].id /\ rec.players = {} /\ rec.phase = "purge"
      BY <1>a DEF RoomType
    <2>2. room' = Becomes(r, rec) /\ UNCHANGED <<account, main, invitations>>
      BY <1>4 DEF RoomClear
    <2>. HIDE DEF rec
    <2>. QED
      BY <2>1, <2>2, StepEnters DEF InvitationsKept, Inviting
  <1>7. CASE RoomRemove(r)
    <2>. DEFINE rec == [room[r] EXCEPT !.phase = "gone"]
    <2>1. rec.id = room[r].id /\ rec.players = room[r].players /\ ~Inviting(room[r])
      BY <1>a, <1>7 DEF RoomType, RoomRemove, SetPhase, Inviting, LoopPhases
    <2>2. room' = Becomes(r, rec) /\ UNCHANGED <<account, main, invitations>>
      BY <1>7 DEF RoomRemove, SetPhase
    <2>. HIDE DEF rec
    <2>. QED
      BY <2>1, <2>2, StepEnters DEF InvitationsKept
  <1>8. ASSUME NEW s \in Sockets, RoomRestore(r, s) PROVE NobodyEnters /\ RoomsStay /\ InvitationsKept
    <2>. DEFINE rec == [room[r] EXCEPT !.todo = room[r].todo \ {s}]
    <2>1. rec.id = room[r].id /\ rec.players = room[r].players /\ rec.phase = room[r].phase
      BY <1>a DEF RoomType
    <2>2. room' = Becomes(r, rec) /\ UNCHANGED <<account, main, invitations>>
      BY <1>8 DEF RoomRestore
    <2>. HIDE DEF rec
    <2>. QED
      BY <2>1, <2>2, StepEnters DEF InvitationsKept, Inviting
  <1>9. ASSUME NEW s \in Sockets,
               \/ RoomIgnore(r, s) \/ RoomHangup(r, s) \/ RoomLeave(r, s)
               \/ LobbyStart(r, s) \/ Lose(r, s) \/ GameEnd(r, s)
               \/ \E n \in Sizes : Modify(r, s, n)
               \/ \E a \in Accounts : Invite(r, s, a)
        PROVE  NobodyEnters /\ RoomsStay /\ InvitationsKept
    BY <1>9, MessageEnters
  <1>10. ASSUME NEW s \in Sockets, NEW id \in Nat, NEW g \in BOOLEAN, RoomJoin(r, s, id, g)
         PROVE  NobodyEnters /\ RoomsStay /\ InvitationsKept
    <2>1. CASE ~DatabaseFree
      BY <1>10, <2>1 DEF RoomJoin, Crash, NobodyEnters, RoomsStay, InvitationsKept
    <2>2. CASE DatabaseFree
      <3>1. PICK rec \in RoomType : TakesSeat(r, s, rec)
        BY <1>10, <2>2, SecondJoin
      <3>2. UNCHANGED <<account, main, invitations>>
        BY <1>10, <2>2, SecondJoin
      <3>. QED
        BY <3>1, <3>2, HandlesEnters DEF TakesSeat, InvitationsKept
    <2>. QED
      BY <2>1, <2>2
  <1>11. \A s \in Sockets, q \in Rooms, n \in Sizes : ~RoomCreate(r, s, q, n)
    BY DEF RoomCreate
  <1>12. \A row \in listed : row[2] \in Nat
    BY DEF TypeOK
  <1>. QED
    BY <1>1, <1>2, <1>3, <1>4, <1>7, <1>8, <1>9, <1>10, <1>11, <1>12 DEF RoomThread

\* deleteAllInvitations touches no player and no id.
LEMMA PurgeEnters ==
  ASSUME TypeOK, NEW r \in Rooms, RoomPurge(r)
  PROVE  /\ NobodyEnters /\ InvitationsKept
         /\ \A p \in Rooms : room'[p].id = room[p].id
         /\ \A p \in Rooms \ {r} : room'[p] = room[p]
  <1>. USE DEF netVars, dbVars, history
  <1>1. CASE ~DatabaseFree
    BY <1>1 DEF RoomPurge, Crash, NobodyEnters, InvitationsKept
  <1>2. CASE DatabaseFree
    <2>. DEFINE rec == [room[r] EXCEPT !.phase = "remove"]
    <2>1. rec.id = room[r].id /\ rec.players = room[r].players
      BY DEF TypeOK, RoomType
    <2>2. room' = Becomes(r, rec) /\ UNCHANGED <<account, main>>
      BY <1>2 DEF RoomPurge, SetPhase
    <2>. HIDE DEF rec
    <2>3. room'[r] = rec /\ \A p \in Rooms \ {r} : room'[p] = room[p]
      BY <2>2, BecomesFields DEF TypeOK
    <2>. QED
      BY <1>2, <2>1, <2>2, <2>3 DEF NobodyEnters, InvitationsKept, DatabaseFree
  <1>. QED
    BY <1>1, <1>2

\* The thread of a room writes to the database only for INVITE and when it closes.
LEMMA ThreadWrites ==
  ASSUME NEW r \in Rooms, RoomThread(r), ~RoomPurge(r),
         \A s \in Sockets, a \in Accounts : ~Invite(r, s, a)
  PROVE  UNCHANGED dbVars
  <1>1. ASSUME RoomStart(r) \/ RoomSelect(r) \/ RoomExit(r) \/ RoomClear(r) \/ RoomRemove(r)
        PROVE  UNCHANGED dbVars
    BY <1>1 DEF RoomStart, RoomSelect, RoomExit, RoomClear, RoomRemove
  <1>2. ASSUME NEW s \in Sockets,
               \/ RoomIgnore(r, s) \/ RoomHangup(r, s) \/ RoomLeave(r, s)
               \/ LobbyStart(r, s) \/ Lose(r, s) \/ GameEnd(r, s) \/ RoomRestore(r, s)
               \/ \E n \in Sizes : Modify(r, s, n)
               \/ \E q \in Rooms, n \in Sizes : RoomCreate(r, s, q, n)
        PROVE  UNCHANGED dbVars
    BY <1>2 DEF RoomIgnore, RoomHangup, RoomLeave, LobbyStart, Lose, GameEnd, RoomRestore,
                Modify, RoomCreate, Crash
  <1>3. ASSUME NEW s \in Sockets, NEW id, NEW g, RoomJoin(r, s, id, g)
        PROVE  UNCHANGED dbVars
    BY <1>3 DEF RoomJoin, Crash
  <1>. QED
    BY <1>1, <1>2, <1>3 DEF RoomThread

\* The main thread lets nobody in but by a JOIN.
LEMMA MainEnters ==
  ASSUME TypeOK, RoomStages, NEW s \in Sockets,
         \/ Connect(s) \/ HangUp(s) \/ Disconnect(s) \/ MainLeave(s) \/ MainStart(s)
         \/ \E a \in Accounts : Login(s, a)
         \/ \E r \in Rooms, n \in Sizes : Create(s, r, n)
         \/ \E row \in listed, g \in BOOLEAN : JoinBegin(s, row[2], g)
  PROVE  NobodyEnters /\ RoomsStay /\ UNCHANGED dbVars
  <1>. USE DEF netVars, dbVars, history
  <1>a. ASSUME UNCHANGED room PROVE NobodyEnters /\ RoomsStay
    BY <1>a DEF NobodyEnters, RoomsStay
  <1>b. UNCHANGED dbVars
    BY DEF Connect, HangUp, Disconnect, MainLeave, MainStart, Login, Create, JoinBegin
  <1>1. CASE \/ Connect(s) \/ HangUp(s) \/ Disconnect(s) \/ MainStart(s)
             \/ \E a \in Accounts : Login(s, a)
             \/ \E row \in listed, g \in BOOLEAN : JoinBegin(s, row[2], g)
    BY <1>1, <1>a DEF Connect, HangUp, Disconnect, MainStart, Login, JoinBegin
  <1>2. ASSUME NEW r \in Rooms, NEW n \in Sizes, Create(s, r, n)
        PROVE  NobodyEnters /\ RoomsStay
    <2>1. room' = Becomes(r, Opened(s, n)) /\ room[r].phase = "unused"
      BY <1>2 DEF Create
    <2>2. \A p \in Rooms \ {r} : room'[p] = room[p]
      BY <2>1, BecomesFields DEF TypeOK
    <2>. QED
      BY <2>1, <2>2 DEF NobodyEnters, RoomsStay
  <1>3. CASE MainLeave(s)
    <2>1. CASE IndexOf(lobby[s]) = {}
      BY <1>3, <1>a, <2>1 DEF MainLeave
    <2>2. CASE IndexOf(lobby[s]) # {}
      <3>1. PICK i \in IndexOf(lobby[s]) :
              room' = Becomes(directory[i], AfterLeave(room[directory[i]], s))
        BY <1>3, <2>2 DEF MainLeave
      <3>2. directory[i] \in Rooms /\ account[s] \in Ids
        BY IndexOfType DEF TypeOK
      <3>. DEFINE left == AfterLeave(room[directory[i]], s)
      <3>3. /\ left.id = room[directory[i]].id /\ left.phase = room[directory[i]].phase
            /\ left.players \subseteq room[directory[i]].players
        BY <3>2, AfterLeaveFields DEF TypeOK, SameStage
      <3>4. room' = Becomes(directory[i], left)
        BY <3>1
      <3>. HIDE DEF left
      <3>. QED
        BY <1>b, <3>2, <3>3, <3>4, StepEnters DEF Inviting
    <2>. QED
      BY <2>1, <2>2
  <1>. QED
    BY <1>b, <1>1, <1>2, <1>3

\* Who went astray stays astray.
LEMMA StrayedStays ==
  ASSUME TypeOK, [Next]_vars, strayed
  PROVE  strayed'
  <1>. USE DEF history
  <1>1. CASE UNCHANGED vars
    BY <1>1 DEF vars
  <1>2. ASSUME NEW s \in Sockets, \/ Connect(s) \/ HangUp(s) \/ Disconnect(s) \/ MainLeave(s)
                                  \/ MainStart(s)
                                  \/ \E a \in Accounts : Login(s, a)
                                  \/ \E r \in Rooms, n \in Sizes : Create(s, r, n)
                                  \/ \E row \in listed, g \in BOOLEAN : JoinBegin(s, row[2], g)
        PROVE  strayed'
    BY <1>2 DEF Connect, HangUp, Disconnect, MainLeave, MainStart, Login, Create, JoinBegin
  <1>3. CASE JoinEnter
    BY <1>3 DEF JoinEnter, Crash
  <1>4. ASSUME NEW r \in Rooms, \/ RoomStart(r) \/ RoomSelect(r) \/ RoomExit(r)
                                \/ RoomClear(r) \/ RoomPurge(r) \/ RoomRemove(r)
        PROVE  strayed'
    BY <1>4 DEF RoomStart, RoomSelect, RoomExit, RoomClear, RoomPurge, RoomRemove, Crash
  <1>5. ASSUME NEW r \in Rooms, NEW s \in Sockets,
               \/ RoomIgnore(r, s) \/ RoomHangup(r, s) \/ RoomLeave(r, s)
               \/ LobbyStart(r, s) \/ Lose(r, s) \/ GameEnd(r, s) \/ RoomRestore(r, s)
               \/ \E n \in Sizes : Modify(r, s, n)
               \/ \E a \in Accounts : Invite(r, s, a)
               \/ \E q \in Rooms, n \in Sizes : RoomCreate(r, s, q, n)
        PROVE  strayed'
    BY <1>5 DEF RoomIgnore, RoomHangup, RoomLeave, LobbyStart, Lose, GameEnd, RoomRestore,
                Modify, Invite, RoomCreate, Crash
  <1>6. ASSUME NEW r \in Rooms, NEW s \in Sockets, NEW id, NEW g, RoomJoin(r, s, id, g)
        PROVE  strayed'
    BY <1>6 DEF RoomJoin, Crash
  <1>. QED
    BY <1>1, <1>2, <1>3, <1>4, <1>5, <1>6 DEF Next, Outside, MainThread, RoomThread

\* A JOIN enters the room it looked up, which keeps its id and its invitations.
LEMMA EnterStays ==
  ASSUME TypeOK, JoinEnter
  PROVE  RoomsStay /\ UNCHANGED dbVars
  <1>1. CASE main.index > Len(directory)
    BY <1>1 DEF JoinEnter, Crash, RoomsStay
  <1>2. CASE ~(main.index > Len(directory))
    <2>. DEFINE s == main.sock
                q == directory[main.index]
    <2>1. room' = room \/ room' = Becomes(q, Entered(room[q], s, main.asGamer))
      BY <1>2 DEF JoinEnter
    <2>2. UNCHANGED dbVars
      BY <1>2 DEF JoinEnter
    <2>3. main \in JoinType /\ directory \in Seq(Rooms)
      BY DEF JoinEnter, TypeOK
    <2>4. q \in Rooms /\ s \in Sockets
      BY <1>2, <2>3, LenProperties, ElementOfSeq DEF JoinType
    <2>5. room[q] \in RoomType /\ account[s] \in Ids
      BY <2>4 DEF TypeOK
    <2>. HIDE DEF q, s
    <2>6. CASE room' = Becomes(q, Entered(room[q], s, main.asGamer))
      <3>. DEFINE rec == Entered(room[q], s, main.asGamer)
      <3>1. rec.id = room[q].id /\ rec.phase = room[q].phase
        BY <2>4, <2>5, EnteredType
      <3>. HIDE DEF rec
      <3>2. room'[q] = rec /\ \A p \in Rooms \ {q} : room'[p] = room[p]
        BY <2>4, <2>6, BecomesFields DEF TypeOK, rec
      <3>. QED
        BY <2>2, <3>1, <3>2 DEF RoomsStay, Inviting
    <2>. QED
      BY <2>1, <2>2, <2>6 DEF RoomsStay
  <1>. QED
    BY <1>1, <1>2

\* Whoever is carried by a JOIN stays invited until the JOIN ends.
LEMMA VouchedNext ==
  ASSUME TypeOK, RoomStages, DirectorySorted, Placed, Vouched, [Next]_vars
  PROVE  Vouched'
  <1>. USE DEF netVars, dbVars, history
  <1>. SUFFICES ASSUME ~strayed, ~strayed' PROVE Vouched'
    BY StrayedStays DEF Vouched
  <1>1. CASE UNCHANGED vars
    BY <1>1 DEF vars, Vouched
  <1>2. ASSUME NEW s \in Sockets, HangUp(s) PROVE Vouched'
    BY <1>2 DEF HangUp, Vouched
  <1>3. ASSUME NEW s \in Sockets,
               \/ Connect(s) \/ Disconnect(s) \/ MainLeave(s) \/ MainStart(s)
               \/ \E a \in Accounts : Login(s, a)
               \/ \E r \in Rooms, n \in Sizes : Create(s, r, n)
        PROVE  Vouched'
    <2>1. main = Idle /\ main' = main
      BY <1>3 DEF Connect, Disconnect, MainLeave, MainStart, Login, Create, MainReads, MainServes
    <2>. QED
      BY <2>1 DEF Vouched
  <1>4. ASSUME NEW s \in Sockets, NEW row \in listed, NEW g \in BOOLEAN, JoinBegin(s, row[2], g)
        PROVE  Vouched'
    <2>1. UNCHANGED <<account, invitations, room>> /\ main = Idle
      BY <1>4 DEF JoinBegin, MainReads, MainServes
    <2>2. CASE main' = main
      BY <2>1, <2>2 DEF Vouched
    <2>3. CASE main' # main
      <3>1. <<account[s], row[2]>> \in invitations
        BY <1>4, <2>3 DEF JoinBegin
      <3>2. PICK i \in IndexOf(row[2]) :
              main' = [op |-> "join", sock |-> s, index |-> i,
                       asGamer |-> g, wanted |-> directory[i]]
        BY <1>4, <2>3 DEF JoinBegin
      <3>3. main'.sock = s /\ room[main'.wanted].id = row[2]
        BY <3>2 DEF IndexOf
      <3>. QED
        BY <2>1, <3>1, <3>3 DEF Vouched
    <2>. QED
      BY <2>2, <2>3
  <1>5. CASE JoinEnter
    BY <1>5 DEF JoinEnter, Crash, Vouched
  <1>6. ASSUME NEW r \in Rooms, RoomThread(r) PROVE Vouched'
    <2>1. main # Idle => main.wanted \in Rooms /\ room[main.wanted].phase # "unused"
      BY DEF TypeOK, JoinType, RoomStages
    <2>2. InvitationsKept /\ (main # Idle => room'[main.wanted].id = room[main.wanted].id)
      BY <1>6, <2>1, ThreadEnters, PurgeEnters DEF RoomsStay
    <2>. QED
      BY <2>1, <2>2 DEF InvitationsKept, Vouched
  <1>. QED
    BY <1>1, <1>2, <1>3, <1>4, <1>5, <1>6 DEF Next, Outside, MainThread

\* Rows stay recorded while nobody writes any and no room loses its own.
LEMMA FrameRecorded ==
  ASSUME Recorded, ~strayed, RoomsStay, UNCHANGED dbVars
  PROVE  Recorded'
  <1>. SUFFICES ASSUME NEW row \in invitations, row \notin leftover
                PROVE  \E r \in Rooms : /\ Inviting(room'[r]) /\ room'[r].id = row[2]
                                        /\ <<row[1], r>> \in asked
    BY DEF Recorded, dbVars, Inviting
  <1>1. PICK r \in Rooms : /\ Inviting(room[r]) /\ room[r].id = row[2]
                           /\ <<row[1], r>> \in asked
    BY DEF Recorded
  <1>2. room[r].phase # "unused"
    BY <1>1 DEF Inviting, LoopPhases
  <1>. QED
    BY <1>1, <1>2 DEF RoomsStay

\* A leader invites to the room that reads its INVITE.
LEMMA InviteRecorded ==
  ASSUME TypeOK, RoomStages, DirectorySorted, Placed, ~strayed, Recorded,
         NEW r \in Rooms, NEW s \in Sockets, NEW a \in Accounts, Invite(r, s, a)
  PROVE  Recorded'
  <1>1. RoomsStay /\ RoomServes(r, s)
    BY MessageEnters DEF Invite
  <1>2. CASE ~DatabaseFree \/ account[s] = NoAccount
    BY <1>1, <1>2, FrameRecorded DEF Invite, Crash
  <1>3. CASE ~(~DatabaseFree \/ account[s] = NoAccount)
    <2>1. /\ invitations' = invitations \cup {<<a, lobby[s]>>} /\ leftover' = leftover
          /\ asked' = asked \cup {<<a, r>>}
      BY <1>3 DEF Invite
    <2>2. room[r].phase = "loop" /\ lobby[s] = room[r].id
      BY <1>1, ServesInRoom
    <2>3. room'[r].id = room[r].id /\ Inviting(room'[r])
      BY <1>1, <2>2 DEF RoomsStay, Inviting, LoopPhases
    <2>4. ASSUME NEW row \in invitations'
          PROVE  \/ row \in leftover'
                 \/ \E q \in Rooms : /\ Inviting(room'[q]) /\ room'[q].id = row[2]
                                     /\ <<row[1], q>> \in asked'
      <3>1. CASE row = <<a, lobby[s]>>
        <4>1. row[1] = a /\ row[2] = lobby[s]
          BY <3>1
        <4>. QED
          BY <2>1, <2>2, <2>3, <4>1
      <3>2. CASE row \in leftover
        BY <2>1, <3>2
      <3>3. CASE row \in invitations /\ row \notin leftover
        <4>1. PICK q \in Rooms : /\ Inviting(room[q]) /\ room[q].id = row[2]
                                 /\ <<row[1], q>> \in asked
          BY <3>3 DEF Recorded
        <4>2. room[q].phase # "unused"
          BY <4>1 DEF Inviting, LoopPhases
        <4>. QED
          BY <1>1, <2>1, <4>1, <4>2 DEF RoomsStay
      <3>. QED
        BY <2>1, <2>4, <3>1, <3>2, <3>3
    <2>. QED
      BY <2>4 DEF Recorded, Inviting
  <1>. QED
    BY <1>2, <1>3

\* A room that closes deletes the rows with its id, and no other room has it.
LEMMA PurgeRecorded ==
  ASSUME TypeOK, ~strayed, Recorded, NEW r \in Rooms, RoomPurge(r)
  PROVE  Recorded'
  <1>1. CASE ~DatabaseFree
    BY <1>1, FrameRecorded DEF RoomPurge, Crash, RoomsStay
  <1>2. CASE DatabaseFree
    <2>1. /\ invitations' = {row \in invitations : row[2] # room[r].id}
          /\ leftover' = {row \in leftover : row[2] # room[r].id} /\ asked' = asked
      BY <1>2 DEF RoomPurge
    <2>2. \A p \in Rooms \ {r} : room'[p] = room[p]
      BY PurgeEnters
    <2>3. ASSUME NEW row \in invitations'
          PROVE  \/ row \in leftover'
                 \/ \E q \in Rooms : /\ Inviting(room'[q]) /\ room'[q].id = row[2]
                                     /\ <<row[1], q>> \in asked'
      <3>1. row \in invitations /\ row[2] # room[r].id
        BY <2>1, <2>3
      <3>2. CASE row \in leftover
        BY <2>1, <3>1, <3>2
      <3>3. CASE row \notin leftover
        <4>1. PICK q \in Rooms : /\ Inviting(room[q]) /\ room[q].id = row[2]
                                 /\ <<row[1], q>> \in asked
          BY <3>1, <3>3 DEF Recorded
        <4>. QED
          BY <2>1, <2>2, <3>1, <4>1
      <3>. QED
        BY <3>2, <3>3
    <2>. QED
      BY <2>3 DEF Recorded, Inviting
  <1>. QED
    BY <1>1, <1>2

\* Every row keeps being a leftover, or the invitation of its one room.
LEMMA RecordedNext ==
  ASSUME TypeOK, RoomStages, DirectorySorted, Placed, Recorded, [Next]_vars
  PROVE  Recorded'
  <1>. SUFFICES ASSUME ~strayed, ~strayed' PROVE Recorded'
    BY StrayedStays DEF Recorded
  <1>1. CASE UNCHANGED vars
    BY <1>1, FrameRecorded DEF vars, dbVars, RoomsStay
  <1>2. CASE Outside \/ (MainThread /\ ~JoinEnter)
    BY <1>2, MainEnters, FrameRecorded DEF Outside, MainThread
  <1>3. CASE JoinEnter
    BY <1>3, EnterStays, FrameRecorded
  <1>4. ASSUME NEW r \in Rooms, RoomThread(r) PROVE Recorded'
    <2>1. CASE RoomPurge(r)
      BY <2>1, PurgeRecorded
    <2>2. CASE \E s \in Sockets, a \in Accounts : Invite(r, s, a)
      BY <2>2, InviteRecorded
    <2>3. CASE ~RoomPurge(r) /\ ~\E s \in Sockets, a \in Accounts : Invite(r, s, a)
      BY <1>4, <2>3, ThreadEnters, ThreadWrites, FrameRecorded
    <2>. QED
      BY <2>1, <2>2, <2>3
  <1>. QED
    BY <1>1, <1>2, <1>3, <1>4 DEF Next

\* A JOIN lets in the invited client, and nobody else, into the room it looked up.
LEMMA JoinEnters ==
  ASSUME TypeOK, Vouched, JoinEnter, ~strayed, ~strayed',
         NEW s \in Sockets, NEW r \in Rooms, s \in room'[r].players \ room[r].players
  PROVE  <<account[s], room[r].id>> \in invitations /\ \E i \in DOMAIN directory : directory[i] = r
  <1>1. main # Idle /\ main.index \in Nat \ {0} /\ ~(main.index > Len(directory))
    BY DEF JoinEnter, Crash, TypeOK, JoinType
  <1>. DEFINE t == main.sock
              q == directory[main.index]
              full == Full(room[q], main.asGamer)
              rec == Entered(room[q], t, main.asGamer)
  <1>2. /\ room' = IF full THEN room ELSE Becomes(q, rec)
        /\ full \/ q = main.wanted
    BY <1>1 DEF JoinEnter
  <1>. HIDE DEF full
  <1>3. room' = Becomes(q, rec) /\ q = main.wanted
    BY <1>2
  <1>4. q \in Rooms /\ t \in Sockets
    BY <1>1, <1>3 DEF TypeOK, JoinType
  <1>5. main.index \in DOMAIN directory /\ directory[main.index] = q
    BY <1>1, LenProperties DEF TypeOK
  <1>. HIDE DEF q, t
  <1>6. rec.players = room[q].players \cup {t}
    <2>1. room[q] \in RoomType /\ account[t] \in Ids
      BY <1>4 DEF TypeOK
    <2>. QED
      BY <1>4, <2>1, EnteredType
  <1>. HIDE DEF rec
  <1>7. room'[q] = rec /\ \A p \in Rooms \ {q} : room'[p] = room[p]
    BY <1>3, <1>4, BecomesFields DEF TypeOK
  <1>8. r = q /\ s = t
    BY <1>6, <1>7
  <1>. QED
    BY <1>1, <1>3, <1>5, <1>8 DEF Vouched, t

-----------------------------------------------------------------------------
(* The theorems.                                                             *)

\* No step of the server leaves a client without a place, until one goes astray.
LEMMA PlacesNext ==
  ASSUME TypeOK, RoomStages, DirectorySorted, Placed, [Next]_vars
  PROVE  Placed'
  <1>. SUFFICES ASSUME ~strayed, ~strayed' PROVE Placed'
    BY StrayedStays DEF Placed
  <1>1. CASE UNCHANGED vars
    BY <1>1, UnchangedPlaces DEF vars, netVars
  <1>2. CASE Outside
    BY <1>2, OutsidePlaces
  <1>3. CASE MainThread
    BY <1>3, MainPlaces
  <1>4. ASSUME NEW r \in Rooms, RoomThread(r) PROVE Placed'
    BY <1>4, ThreadPlaces
  <1>. QED
    BY <1>1, <1>2, <1>3, <1>4 DEF Next

\* The seats stay taken by players, until one goes astray.
LEMMA LobbiesNext ==
  ASSUME TypeOK, RoomStages, DirectorySorted, Placed, Lobbies, [Next]_vars
  PROVE  Lobbies'
  <1>. SUFFICES ASSUME ~strayed, ~strayed' PROVE Lobbies'
    BY StrayedStays DEF Lobbies
  <1>1. CASE UNCHANGED vars
    BY <1>1, UnchangedLobbies DEF vars, netVars
  <1>2. ASSUME NEW s \in Sockets,
               Connect(s) \/ Disconnect(s) \/ \E a \in Accounts : Login(s, a)
        PROVE  Lobbies'
    BY <1>2, ConnectionLobbies
  <1>3. ASSUME NEW s \in Sockets, HangUp(s) \/ MainStart(s)
                                  \/ \E row \in listed, g \in BOOLEAN : JoinBegin(s, row[2], g)
        PROVE  Lobbies'
    BY <1>3, UnchangedLobbies DEF HangUp, MainStart, JoinBegin, netVars, history
  <1>4. ASSUME NEW s \in Sockets, MainLeave(s) PROVE Lobbies'
    BY <1>4, MainLeaveLobbies
  <1>5. ASSUME NEW s \in Sockets, NEW r \in Rooms, NEW n \in Sizes, Create(s, r, n)
        PROVE  Lobbies'
    BY <1>5, CreateLobbies
  <1>6. CASE JoinEnter
    BY <1>6, EnterLobbies
  <1>7. ASSUME NEW r \in Rooms, RoomThread(r) PROVE Lobbies'
    BY <1>7, ThreadLobbies
  <1>. QED
    BY <1>1, <1>2, <1>3, <1>4, <1>5, <1>6, <1>7 DEF Next, Outside, MainThread

\* The server starts with no room.
LEMMA LobbiesInit == Init => Lobbies
  BY DEF Init, Lobbies, Occupied, Seated, Attended, Unused, LoopPhases

\* The server starts with no connection.
LEMMA PlacesInit == Init => Placed
  BY DEF Init, Placed, HasPlace, WithMain, OutOfRooms, Holds, BeingJoined, Unused

\* The inductive invariant holds in every state of the server.
THEOREM InductiveHolds == Spec => []Inductive
  <1>1. Init => Inductive
    BY TypeInit, StagesInit, PlacesInit DEF Inductive
  <1>2. Inductive /\ [Next]_vars => Inductive'
    BY TypeNext, StagesNext, PlacesNext DEF Inductive
  <1>. QED
    BY <1>1, <1>2, PTL DEF Spec

\* At most one thread reads a client's socket, until a client goes astray.
THEOREM OneListenerHolds == Spec => []OneListener
  <1>1. Inductive => OneListener
    <2>. SUFFICES ASSUME Inductive, ~strayed, NEW s \in Sockets, NEW r \in Rooms, InLoop(s, r)
                  PROVE  /\ s \notin active /\ ~BeingJoined(s)
                         /\ \A q \in Rooms : InLoop(s, q) => q = r
      BY DEF OneListener
    <2>1. InRoom(s, r)
      BY PlaceOf DEF Inductive, Placed, InLoop, Holds
    <2>. QED
      BY <2>1 DEF InRoom, InLoop, Holds
  <1>. QED
    BY <1>1, InductiveHolds, PTL

\* A connected client that no refused JOIN lost is read by some thread, until a
\* client goes astray.
THEOREM WatchedHolds == Spec => []Watched
  <1>1. Inductive => Watched
    <2>. SUFFICES ASSUME Inductive, ~strayed, NEW s \in Sockets, link[s] # "free", s \notin refused
                  PROVE  \/ s \in active
                         \/ BeingJoined(s)
                         \/ \E r \in Rooms : InLoop(s, r) \/ s \in room[r].todo
      BY DEF Watched
    <2>1. HasPlace(s)
      BY DEF Inductive, Placed
    <2>. QED
      BY <2>1 DEF HasPlace, WithMain, InJoin, InRoom, InLoop, Holds
  <1>. QED
    BY <1>1, InductiveHolds, PTL

\* gameRoom points to the room that serves the client, and to no other, until
\* a client goes astray.
THEOREM MembersPointHomeHolds == Spec => []MembersPointHome
  <1>1. Inductive => MembersPointHome
    <2>. SUFFICES ASSUME Inductive, ~strayed, NEW s \in Sockets
                  PROVE  /\ \A r \in Rooms : InLoop(s, r) => gameRoom[s] = r
                         /\ gameRoom[s] # NoRoom => s \in room[gameRoom[s]].players
                         /\ isPlaying[s] => gameRoom[s] # NoRoom
      BY DEF MembersPointHome
    <2>1. HasPlace(s)
      BY DEF Inductive, Placed
    <2>2. CASE OutOfRooms(s)
      BY <2>2 DEF OutOfRooms, InLoop, Holds
    <2>3. ASSUME NEW r \in Rooms, InRoom(s, r)
          PROVE  /\ \A q \in Rooms : InLoop(s, q) => gameRoom[s] = q
                 /\ gameRoom[s] # NoRoom => s \in room[gameRoom[s]].players
                 /\ isPlaying[s] => gameRoom[s] # NoRoom
      BY <2>3, NoRoomOutside DEF InRoom, InLoop, Holds
    <2>. QED
      BY <2>1, <2>2, <2>3 DEF HasPlace, WithMain, InJoin
  <1>. QED
    BY <1>1, InductiveHolds, PTL

\* Seats and gamers are as they should be in every state of the server.
LEMMA LobbiesHold == Spec => []Lobbies
  <1>1. Inductive /\ Lobbies /\ [Next]_vars => Lobbies'
    BY LobbiesNext DEF Inductive
  <1>. QED
    BY <1>1, LobbiesInit, InductiveHolds, PTL DEF Spec

\* Nobody holds a seat of a room without being one of its players, until a client
\* goes astray, except in a room that one of its players joined once more.
THEOREM SeatsAreTaken == Spec => []SeatsTaken
  <1>1. Lobbies => SeatsTaken
    <2>. SUFFICES ASSUME Lobbies, ~strayed, NEW r \in Rooms \ reseated,
                         room[r].phase \in LoopPhases, NEW a \in Ids
                  PROVE  room[r].gamers[a]
                           <= Cardinality({s \in room[r].players : account[s] = a})
      BY DEF SeatsTaken
    <2>1. Seated(room[r])
      BY DEF Lobbies, Occupied
    <2>. QED
      BY <2>1 DEF Seated, OwnedBy
  <1>. QED
    BY <1>1, LobbiesHold, PTL

\* A waiting lobby ends with its last player, until a client goes astray, unless it
\* was dissolved before its thread ran or one of its players joined it once more.
THEOREM LobbiesAreKept == Spec => []NoAbandonedLobby
  <1>1. TypeOK /\ Lobbies => NoAbandonedLobby
    <2>. SUFFICES ASSUME TypeOK, Lobbies, ~strayed, NEW r \in Rooms \ (revived \cup reseated),
                         room[r].phase = "loop", room[r].running, room[r].players = {}
                  PROVE  room[r].playing
      BY DEF NoAbandonedLobby
    <2>1. Occupied(r, room[r]) /\ room[r].gamers \in [Ids -> Nat]
      BY DEF Lobbies, TypeOK, RoomType
    <2>2. \A a \in Ids : OwnedBy(room[r].players, a) = {}
      BY DEF OwnedBy
    <2>3. \A a \in Ids : room[r].gamers[a] <= 0
      BY <2>1, <2>2, FS_EmptySet DEF Occupied, Seated, LoopPhases
    <2>4. NoGamer(room[r])
      BY <2>1, <2>3 DEF NoGamer
    <2>. QED
      BY <2>1, <2>4 DEF Occupied, Attended
  <1>. QED
    BY <1>1, InductiveHolds, LobbiesHold, PTL DEF Inductive

\* Nobody enters a room of somebody else without an invitation to that very room,
\* or one that a former process left for its id, until a client went astray.
THEOREM OnlyTheInvitedEnter == Spec => OnlyInvitedEnter
  <1>. DEFINE Step == ~strayed' => \A s \in Sockets, r \in Rooms :
          s \in room'[r].players \ room[r].players /\ room[r].phase # "unused"
              => <<account[s], r>> \in asked \/ <<account[s], room[r].id>> \in leftover
  <1>1. Init => Vouched /\ Recorded
    BY DEF Init, Vouched, Recorded
  <1>2. Inductive /\ Vouched /\ Recorded /\ [Next]_vars => Vouched' /\ Recorded'
    BY VouchedNext, RecordedNext DEF Inductive
  <1>3. Inductive /\ Vouched /\ Recorded /\ [Next]_vars => [Step]_vars
    <2>. SUFFICES ASSUME TypeOK, RoomStages, DirectorySorted, Placed, Vouched, Recorded,
                         Next, ~strayed', NEW s \in Sockets, NEW r \in Rooms,
                         s \in room'[r].players \ room[r].players, room[r].phase # "unused"
                  PROVE  <<account[s], r>> \in asked \/ <<account[s], room[r].id>> \in leftover
      BY DEF Inductive
    <2>1. ~NobodyEnters /\ ~strayed
      BY StrayedStays DEF NobodyEnters
    <2>2. JoinEnter
      BY <2>1, MainEnters, ThreadEnters, PurgeEnters DEF Next, Outside, MainThread
    <2>3. PICK i \in DOMAIN directory : directory[i] = r
      BY <2>1, <2>2, JoinEnters
    <2>. DEFINE row == <<account[s], room[r].id>>
    <2>4. row \in invitations /\ row[1] = account[s] /\ row[2] = room[r].id
      BY <2>1, <2>2, JoinEnters
    <2>. HIDE DEF row
    <2>5. CASE row \in leftover
      BY <2>5 DEF row
    <2>6. CASE row \notin leftover
      <3>1. PICK q \in Rooms : Inviting(room[q]) /\ room[q].id = room[r].id /\ <<account[s], q>> \in asked
        BY <2>1, <2>4, <2>6 DEF Recorded
      <3>2. PICK j \in DOMAIN directory : directory[j] = q
        BY <3>1 DEF DirectorySorted, Inviting, LoopPhases
      <3>3. i = j
        BY <2>3, <3>1, <3>2, OneIndex
      <3>. QED
        BY <2>3, <3>1, <3>2, <3>3
    <2>. QED
      BY <2>5, <2>6
  <1>. QED
    BY <1>1, <1>2, <1>3, InductiveHolds, PTL DEF Spec, OnlyInvitedEnter

-----------------------------------------------------------------------------
(* The refinement of Custody.                                                *)

\* The step leaves the socket of client s with the thread that has it.
Stays(s) ==
    /\ s \in atMain' <=> s \in atMain
    /\ s \in forgotten' <=> s \in forgotten
    /\ \A r \in Rooms : Holds(s, r)' <=> Holds(s, r)

SameStages == \A r \in Rooms : StageOf(room'[r]) = StageOf(room[r])

\* What the steps that Custody does not tell apart have in common.
Kept == UNCHANGED <<atMain, held, forgotten, stage>>

\* A client that stays where it is stays with its thread.
LEMMA SamePlaceStays ==
  ASSUME NEW s \in Sockets, SamePlace(s)
  PROVE  Stays(s)
  <1>1. \A r \in Rooms : Holds(s, r)' <=> Holds(s, r)
    BY DEF SamePlace, SameRooms
  <1>2. BeingJoined(s)' <=> BeingJoined(s)
    BY DEF SamePlace, BeingJoined
  <1>3. s \in atMain' <=> s \in atMain
    BY <1>2 DEF SamePlace, atMain
  <1>4. s \in forgotten' <=> s \in forgotten
    BY <1>1, <1>3 DEF SamePlace, forgotten, held
  <1>. QED
    BY <1>1, <1>3, <1>4 DEF Stays

\* Nobody goes anywhere and no room changes its stage.
LEMMA NothingMoves ==
  ASSUME \A s \in Sockets : Stays(s), SameStages
  PROVE  Kept
  <1>1. atMain' = atMain /\ forgotten' = forgotten
    BY DEF Stays, atMain, forgotten
  <1>2. held' = held
    BY DEF Stays, held
  <1>3. stage' = stage
    BY DEF SameStages, stage
  <1>. QED
    BY <1>1, <1>2, <1>3 DEF Kept

\* Only the socket of client s changes hands.
LEMMA OnlyOne ==
  ASSUME NEW s \in Sockets, \A p \in Sockets \ {s} : Stays(p)
  PROVE  /\ atMain' = IF s \in atMain' THEN atMain \cup {s} ELSE atMain \ {s}
         /\ forgotten' = IF s \in forgotten' THEN forgotten \cup {s} ELSE forgotten \ {s}
         /\ \A r \in Rooms : held'[r] = IF Holds(s, r)' THEN held[r] \cup {s} ELSE held[r] \ {s}
  <1>1. atMain \subseteq Sockets /\ atMain' \subseteq Sockets
    BY DEF atMain
  <1>2. forgotten \subseteq Sockets /\ forgotten' \subseteq Sockets
    BY DEF forgotten
  <1>3. ASSUME NEW r \in Rooms
        PROVE  held'[r] = IF Holds(s, r)' THEN held[r] \cup {s} ELSE held[r] \ {s}
    BY DEF held, Stays
  <1>. QED
    BY <1>1, <1>2, <1>3 DEF Stays

\* The same for a client that is not and does not get forgotten.
LEMMA OnlyAtMain ==
  ASSUME NEW s \in Sockets, \A p \in Sockets \ {s} : Stays(p),
         s \notin forgotten, s \notin forgotten'
  PROVE  /\ forgotten' = forgotten
         /\ s \in atMain' => atMain' = atMain \cup {s}
         /\ s \notin atMain' => atMain' = atMain \ {s}
  <1>1. /\ atMain' = IF s \in atMain' THEN atMain \cup {s} ELSE atMain \ {s}
        /\ forgotten' = IF s \in forgotten' THEN forgotten \cup {s} ELSE forgotten \ {s}
    BY OnlyOne
  <1>2. forgotten' = forgotten \ {s} /\ forgotten \ {s} = forgotten
    BY <1>1
  <1>. QED
    BY <1>1, <1>2

\* Which thread has a client's socket, by its place.
LEMMA WhoHas ==
  ASSUME NEW s \in Sockets
  PROVE  /\ WithMain(s) /\ link[s] = "free" =>
              s \notin atMain \cup forgotten /\ \A r \in Rooms : s \notin held[r]
         /\ WithMain(s) /\ s \in active =>
              s \in atMain /\ s \notin forgotten /\ \A r \in Rooms : s \notin held[r]
         /\ InJoin(s) => s \in atMain /\ s \notin forgotten /\ \A r \in Rooms : s \notin held[r]
         /\ \A r \in Rooms : InRoom(s, r) =>
              s \in held[r] /\ s \notin atMain /\ s \notin forgotten
         /\ \A r \in Rooms : s \in held[r] <=> Holds(s, r)
  BY DEF WithMain, InJoin, InRoom, OutOfRooms, atMain, forgotten, held

\* A room that holds a client is open or closing.
LEMMA HoldersServe ==
  ASSUME TypeOK, RoomStages, NEW r \in Rooms, NEW s, Holds(s, r)
  PROVE  StageOf(room[r]) \in {"open", "closing"}
  <1>1. room[r].phase \in LoopPhases \cup {"restore"}
    BY DEF RoomStages, StageOK, Holds
  <1>. QED
    BY <1>1 DEF StageOf, LoopPhases

\* The stages and the holdings as functions.
LEMMA StageMoves ==
  ASSUME NEW r \in Rooms, NEW v, StageOf(room'[r]) = v,
         \A q \in Rooms \ {r} : StageOf(room'[q]) = StageOf(room[q])
  PROVE  stage' = [stage EXCEPT ![r] = v]
  BY DEF stage

LEMMA HeldMoves ==
  ASSUME NEW r \in Rooms, NEW S, held'[r] = S,
         \A q \in Rooms \ {r} : held'[q] = held[q]
  PROVE  held' = [held EXCEPT ![r] = S]
  BY DEF held
-----------------------------------------------------------------------------
(* The main thread and the clients.                                          *)

\* A client accepted, disconnected, or logged in.
LEMMA ConnectionCustody ==
  ASSUME TypeOK, Placed, ~strayed, NEW s \in Sockets,
         Connect(s) \/ Disconnect(s) \/ \E a \in Accounts : Login(s, a)
  PROVE  Contract!Move \/ Kept
  <1>1. /\ UNCHANGED <<room, main>> /\ main = Idle
        /\ s \in active \/ link[s] = "free"
    BY DEF Connect, Disconnect, Login, MainReads, MainServes
  <1>2. WithMain(s)
    BY <1>1, PlaceOf DEF Placed
  <1>3. SameStages /\ stage' = stage
    BY <1>1 DEF SameStages, stage
  <1>4. /\ \A p \in Sockets : BeingJoined(p)' <=> BeingJoined(p)
        /\ \A p \in Sockets, r \in Rooms : Holds(p, r)' <=> Holds(p, r)
        /\ held' = held
    BY <1>1 DEF BeingJoined, Holds, held
  <1>5. ASSUME NEW p \in Sockets, link'[p] = link[p], p \in active' <=> p \in active
        PROVE  Stays(p)
    <2>1. p \in atMain' <=> p \in atMain
      BY <1>4, <1>5 DEF atMain
    <2>. QED
      BY <1>4, <1>5, <2>1 DEF Stays, forgotten
  <1>6. CASE Connect(s)
    <2>1. /\ link[s] = "free" /\ link'[s] = "open" /\ s \in active'
          /\ \A p \in Sockets \ {s} : link'[p] = link[p] /\ (p \in active' <=> p \in active)
      BY <1>6 DEF Connect, TypeOK
    <2>2. s \in atMain' /\ s \notin forgotten'
      BY <2>1 DEF atMain, forgotten
    <2>3. s \notin atMain \cup forgotten /\ \A r \in Rooms : s \notin held[r]
      BY <1>2, <2>1, WhoHas
    <2>4. \A p \in Sockets \ {s} : Stays(p)
      BY <1>5, <2>1
    <2>5. atMain' = atMain \cup {s} /\ forgotten' = forgotten
      BY <2>2, <2>3, <2>4, OnlyAtMain
    <2>. QED
      BY <1>3, <1>4, <2>3, <2>5 DEF Contract!Move, Contract!Accept
  <1>7. CASE Disconnect(s)
    <2>1. /\ s \in active /\ link'[s] = "free"
          /\ \A p \in Sockets \ {s} : link'[p] = link[p] /\ (p \in active' <=> p \in active)
      BY <1>7 DEF Disconnect, MainServes, TypeOK
    <2>2. s \notin atMain' /\ s \notin forgotten'
      BY <2>1 DEF atMain, forgotten
    <2>3. s \in atMain /\ s \notin forgotten
      BY <1>2, <2>1, WhoHas
    <2>4. \A p \in Sockets \ {s} : Stays(p)
      BY <1>5, <2>1
    <2>5. atMain' = atMain \ {s} /\ forgotten' = forgotten
      BY <2>2, <2>3, <2>4, OnlyAtMain
    <2>. QED
      BY <1>3, <1>4, <2>3, <2>5 DEF Contract!Move, Contract!Close
  <1>8. ASSUME NEW a \in Accounts, Login(s, a) PROVE Kept
    <2>1. UNCHANGED <<link, active>>
      BY <1>8 DEF Login
    <2>. QED
      BY <1>3, <1>5, <2>1, NothingMoves
  <1>. QED
    BY <1>6, <1>7, <1>8

\* handleCreate: the client goes to a room that held nobody.
LEMMA CreateCustody ==
  ASSUME TypeOK, RoomStages, Placed, ~strayed,
         NEW s \in Sockets, NEW r \in Rooms, NEW n \in Sizes, Create(s, r, n)
  PROVE  Contract!Move
  <1>. DEFINE new == Opened(s, n)
  <1>1. new.phase = "start" /\ new.players = {s} /\ new.todo = {}
    BY OpenedFields
  <1>2. /\ room' = Becomes(r, new)
        /\ UNCHANGED <<link, main>> /\ main = Idle
        /\ s \in active /\ room[r].phase = "unused" /\ active' = active \ {s}
    BY DEF Create, MainReads, MainServes
  <1>. HIDE DEF new
  <1>3. room'[r] = new /\ \A q \in Rooms \ {r} : room'[q] = room[q]
    BY <1>2, BecomesFields DEF TypeOK
  <1>4. WithMain(s)
    BY <1>2, PlaceOf DEF Placed
  <1>5. s \in atMain /\ s \notin forgotten /\ \A q \in Rooms : ~Holds(s, q)
    BY <1>2, <1>4, WhoHas
  <1>6. \A p \in Sockets : ~Holds(p, r)
    BY <1>2, HoldsUsed
  <1>7. Holds(s, r)' /\ \A p \in Sockets \ {s} : ~Holds(p, r)'
    BY <1>1, <1>3 DEF Holds, LoopPhases
  <1>8. \A p \in Sockets, q \in Rooms \ {r} : Holds(p, q)' <=> Holds(p, q)
    BY <1>3 DEF Holds
  <1>9. \A p \in Sockets : ~BeingJoined(p) /\ ~BeingJoined(p)'
    BY <1>2 DEF BeingJoined
  <1>10. ASSUME NEW p \in Sockets \ {s} PROVE Stays(p)
    <2>1. p \in atMain' <=> p \in atMain
      BY <1>2, <1>9 DEF atMain
    <2>2. \A q \in Rooms : Holds(p, q)' <=> Holds(p, q)
      BY <1>6, <1>7, <1>8
    <2>. QED
      BY <1>2, <2>1, <2>2 DEF Stays, forgotten, held
  <1>11. s \notin atMain' /\ s \notin forgotten'
    <2>1. s \in held'[r]
      BY <1>7 DEF held
    <2>2. s \notin forgotten'
      BY <2>1 DEF forgotten
    <2>. QED
      BY <1>2, <1>9, <2>2 DEF atMain
  <1>12. atMain' = atMain \ {s} /\ forgotten' = forgotten
    BY <1>5, <1>10, <1>11, OnlyOne
  <1>13. held' = [held EXCEPT ![r] = {s}]
    <2>1. held'[r] = {s} /\ \A q \in Rooms \ {r} : held'[q] = held[q]
      BY <1>7, <1>8 DEF held
    <2>. QED
      BY <2>1, HeldMoves
  <1>14. stage[r] = "none" /\ stage' = [stage EXCEPT ![r] = "open"]
    <2>1. StageOf(room'[r]) = "open"
      BY <1>1, <1>3 DEF StageOf, LoopPhases, Closed
    <2>2. stage[r] = "none"
      <3>1. stage[r] = StageOf(room[r])
        BY DEF stage
      <3>. QED
        BY <1>2, <3>1 DEF StageOf, LoopPhases
    <2>. QED
      BY <1>3, <2>1, <2>2, StageMoves
  <1>. QED
    BY <1>5, <1>12, <1>13, <1>14 DEF Contract!Move, Contract!Open

\* The first half of handleJoin keeps the socket, whatever it answers.
LEMMA JoinBeginCustody ==
  ASSUME TypeOK, Placed, ~strayed,
         NEW s \in Sockets, NEW id, NEW g, JoinBegin(s, id, g)
  PROVE  Kept
  <1>1. /\ UNCHANGED <<link, room>> /\ main = Idle /\ s \in active /\ link[s] # "free"
    BY DEF JoinBegin, MainReads, MainServes
  <1>2. SameStages /\ \A p \in Sockets, r \in Rooms : Holds(p, r)' <=> Holds(p, r)
    BY <1>1 DEF SameStages, Holds
  <1>3. \A p \in Sockets : p \in active' \/ BeingJoined(p)' <=> p \in active \/ BeingJoined(p)
    <2>1. CASE <<account[s], id>> \in invitations /\ IndexOf(id) # {}
      <3>1. PICK i \in IndexOf(id) :
              /\ active' = active \ {s}
              /\ main' = [op |-> "join", sock |-> s, index |-> i,
                          asGamer |-> g, wanted |-> directory[i]]
        BY <2>1 DEF JoinBegin
      <3>2. main' # Idle /\ main'.sock = s
        BY <3>1 DEF Idle
      <3>. QED
        BY <1>1, <3>1, <3>2 DEF BeingJoined
    <2>2. CASE ~(<<account[s], id>> \in invitations /\ IndexOf(id) # {})
      <3>1. UNCHANGED <<active, main>>
        BY <2>2 DEF JoinBegin
      <3>. QED
        BY <3>1 DEF BeingJoined
    <2>. QED
      BY <2>1, <2>2
  <1>4. ASSUME NEW p \in Sockets PROVE Stays(p)
    <2>1. p \in atMain' <=> p \in atMain
      BY <1>1, <1>3 DEF atMain
    <2>. QED
      BY <1>1, <1>2, <2>1 DEF Stays, forgotten, held
  <1>. QED
    BY <1>2, <1>4, NothingMoves

\* addPlayer gives the socket to the room, or to nobody when the room is full.
LEMMA EnterCustody ==
  ASSUME TypeOK, RoomStages, DirectorySorted, Placed, ~strayed, ~strayed', JoinEnter
  PROVE  Contract!Move \/ Kept
  <1>1. CASE main.index > Len(directory)
    <2>1. UNCHANGED <<link, active, room, main>>
      BY <1>1 DEF JoinEnter, Crash
    <2>2. \A p \in Sockets : Stays(p)
      BY <2>1 DEF Stays, atMain, forgotten, held, Holds, BeingJoined
    <2>. QED
      BY <2>1, <2>2, NothingMoves DEF SameStages
  <1>2. CASE ~(main.index > Len(directory))
    <2>1. main \in JoinType
      BY DEF JoinEnter, TypeOK
    <2>2. main.index \in DOMAIN directory /\ directory[main.index] \in Rooms
      BY <1>2, <2>1, LenProperties, ElementOfSeq DEF JoinType, TypeOK
    <2>3. PICK s \in Sockets, r \in Rooms : s = main.sock /\ r = directory[main.index]
      BY <2>1, <2>2 DEF JoinType
    <2>. DEFINE rec == Entered(room[r], s, main.asGamer)
                full == Full(room[r], main.asGamer)
    <2>4. /\ UNCHANGED <<link, active>> /\ main # Idle /\ main' = Idle
          /\ room' = IF full THEN room ELSE Becomes(r, rec)
          /\ full \/ ~Closed(room[r])
      BY <1>2, <2>3 DEF JoinEnter
    <2>5. /\ rec.phase = room[r].phase /\ rec.todo = room[r].todo
          /\ rec.players = room[r].players \cup {s} /\ rec.running = room[r].running
      <3>1. room[r] \in RoomType /\ account[s] \in Ids
        BY <2>3 DEF TypeOK
      <3>. QED
        BY <3>1, EnteredType
    <2>. HIDE DEF rec, full
    <2>6. InJoin(s)
      BY <2>3, <2>4, PlaceOf DEF Placed, BeingJoined
    <2>7. /\ s \in atMain /\ s \notin forgotten /\ \A q \in Rooms : ~Holds(s, q)
          /\ s \notin active /\ link[s] # "free"
      BY <2>6, WhoHas DEF InJoin
    <2>8. s \notin atMain'
      BY <2>4, <2>7 DEF atMain, BeingJoined
    <2>9. \A p \in Sockets \ {s} : p \in atMain' <=> p \in atMain
      BY <2>3, <2>4 DEF atMain, BeingJoined
    <2>10. CASE full
      <3>1. room' = room
        BY <2>4, <2>10
      <3>2. held' = held /\ stage' = stage
        BY <3>1 DEF held, stage, Holds
      <3>3. s \in forgotten'
        BY <2>4, <2>7, <2>8, <3>2 DEF forgotten, held
      <3>4. \A p \in Sockets \ {s} : Stays(p)
        BY <2>4, <2>9, <3>1, <3>2 DEF Stays, forgotten, Holds
      <3>5. atMain' = atMain \ {s} /\ forgotten' = forgotten \cup {s}
        BY <2>8, <3>3, <3>4, OnlyOne
      <3>. QED
        BY <2>7, <3>2, <3>5 DEF Contract!Move, Contract!Refuse
    <2>11. CASE ~full
      <3>1. room'[r] = rec /\ \A q \in Rooms \ {r} : room'[q] = room[q]
        BY <2>4, <2>2, <2>11, BecomesFields DEF TypeOK
      <3>2. room[r].phase \in LoopPhases
        <4>1. room[r].phase # "unused"
          BY <2>2, <2>3 DEF DirectorySorted
        <4>. QED
          BY <2>4, <2>2, <2>11, <4>1 DEF Closed, RoomStages, StageOK, LoopPhases
      <3>3. Holds(s, r)' /\ \A q \in Rooms \ {r} : ~Holds(s, q)'
        BY <2>5, <2>7, <3>1, <3>2 DEF Holds
      <3>4. \A p \in Sockets \ {s}, q \in Rooms : Holds(p, q)' <=> Holds(p, q)
        BY <2>5, <3>1 DEF Holds
      <3>5. s \notin forgotten'
        BY <3>3 DEF forgotten, held
      <3>6. \A p \in Sockets \ {s} : Stays(p)
        BY <2>4, <2>9, <3>4 DEF Stays, forgotten, held
      <3>7. atMain' = atMain \ {s} /\ forgotten' = forgotten
        BY <2>7, <2>8, <3>5, <3>6, OnlyOne
      <3>8. held' = [held EXCEPT ![r] = held[r] \cup {s}]
        <4>1. held'[r] = held[r] \cup {s}
          BY <3>3, <3>6, OnlyOne
        <4>2. \A q \in Rooms \ {r} : held'[q] = held[q]
          BY <2>7, <3>3, <3>4 DEF held
        <4>. QED
          BY <4>1, <4>2, HeldMoves
      <3>9. stage[r] = "open" /\ stage' = stage
        <4>1. StageOf(room[r]) = "open" /\ StageOf(room'[r]) = "open"
          BY <2>4, <2>5, <2>11, <3>1, <3>2 DEF StageOf, LoopPhases, Closed
        <4>. QED
          BY <3>1, <4>1 DEF stage
      <3>. QED
        BY <2>7, <3>7, <3>8, <3>9 DEF Contract!Move, Contract!Enter
    <2>. QED
      BY <2>10, <2>11
  <1>. QED
    BY <1>1, <1>2

-----------------------------------------------------------------------------
(* playerLeaves.                                                             *)

\* Only the leaver's connection may be closed.
LEMMA PlayerLeavesLinks ==
  ASSUME TypeOK, NEW rec, NEW s \in Sockets, NEW d, PlayerLeaves(rec, s, d)
  PROVE  \A p \in Sockets \ {s} : link'[p] = link[p]
  BY DEF PlayerLeaves, TypeOK

\* A room that lost players is as open as it was, or closing.
LEMMA LeftStage ==
  ASSUME NEW old, NEW new, new.phase = old.phase, new.running => old.running,
         StageOf(old) \in {"open", "closing"}
  PROVE  StageOf(new) \in {StageOf(old), "closing"}
  BY DEF StageOf, Closed, LoopPhases

\* A handler of a message stops no room but the one it concerns.
LEMMA HandlesRunning ==
  ASSUME TypeOK, NEW r, NEW q, NEW rec, NEW gone, NEW next,
         Handles(r, q, rec, gone, next)
  PROVE  /\ room'[q].running => room[q].running
         /\ \A p \in Rooms \ {q} : StageOf(room'[p]) = StageOf(room[p])
  <1>. DEFINE mid == Becomes(q, rec)
  <1>1. mid \in [Rooms -> RoomType] /\ r \in Rooms /\ q \in Rooms
    BY BecomesType DEF Handles, TypeOK
  <1>2. mid[q] = rec /\ \A p \in Rooms \ {q} : mid[p] = room[p]
    BY <1>1, BecomesFields DEF TypeOK
  <1>3. room' = Passed(mid, r, next) /\ SameStage(room[q], rec)
        /\ (rec.running => room[q].running)
    BY DEF Handles
  <1>. HIDE DEF mid
  <1>4. \A p \in Rooms : SameStage(mid[p], room'[p]) /\ room'[p].running = mid[p].running
    BY <1>1, <1>3, PassedFields
  <1>5. \A p \in Rooms : StageOf(room'[p]) = StageOf(mid[p])
    BY <1>4 DEF StageOf, Closed, SameStage
  <1>. QED
    BY <1>1, <1>2, <1>3, <1>4, <1>5 DEF StageOf, Closed, SameStage

\* A room gives back the client that leaves, or everybody it holds.
LEMMA GivesBack ==
  ASSUME TypeOK, RoomStages, Placed, ~strayed, main' = main,
         NEW q \in Rooms, NEW s \in Sockets, NEW gone,
         room[q].phase \in LoopPhases,
         (WithMain(s) /\ s \in active /\ link[s] # "free") \/ Holds(s, q),
         (gone = {s} /\ Holds(s, q)) \/ gone = {s} \cup room[q].players,
         \A p \in Rooms : SameStage(room[p], room'[p]),
         room'[q].players = room[q].players \ gone,
         \A p \in Rooms \ {q} : room'[p].players = room[p].players,
         StageOf(room'[q]) \in {StageOf(room[q]), "closing"},
         \A p \in Rooms \ {q} : StageOf(room'[p]) = StageOf(room[p]),
         \A p \in Sockets \ {s} : link'[p] = link[p],
         \A p \in Sockets : IF p \in gone THEN p \in active' <=> link'[p] # "free"
                                          ELSE p \in active' <=> p \in active
  PROVE  Contract!Move
  <1>1. gone \subseteq Sockets /\ room[q].players \subseteq Sockets /\ s \in gone
    BY DEF TypeOK, RoomType
  <1>2. held[q] = room[q].players /\ \A p \in Sockets : Holds(p, q) <=> p \in room[q].players
    BY <1>1 DEF held, Holds
  <1>3. ASSUME NEW p \in gone
        PROVE  /\ ~BeingJoined(p) /\ link[p] # "free" /\ p \notin forgotten
               /\ p \in atMain \cup held[q]
               /\ \A r \in Rooms \ {q} : ~Holds(p, r)
    <2>1. p \in Sockets
      BY <1>1
    <2>2. CASE Holds(p, q)
      <3>1. InRoom(p, q)
        BY <2>1, <2>2, PlaceOf DEF Placed
      <3>. QED
        BY <2>1, <3>1, WhoHas DEF InRoom
    <2>3. CASE ~Holds(p, q)
      <3>1. p = s /\ WithMain(p) /\ p \in active /\ link[p] # "free"
        BY <1>2, <2>1, <2>3
      <3>. QED
        BY <2>1, <3>1, WhoHas DEF WithMain, OutOfRooms
    <2>. QED
      BY <2>2, <2>3
  <1>4. \A p \in Sockets : Holds(p, q)' <=> Holds(p, q) /\ p \notin gone
    BY <1>2 DEF Holds, SameStage
  <1>5. \A p \in Sockets, r \in Rooms \ {q} : Holds(p, r)' <=> Holds(p, r)
    BY DEF Holds, SameStage
  <1>6. \A p \in Sockets : BeingJoined(p)' <=> BeingJoined(p)
    BY DEF BeingJoined
  <1>7. \A p \in Sockets \ gone : Stays(p)
    <2>. SUFFICES ASSUME NEW p \in Sockets \ gone PROVE Stays(p)
      OBVIOUS
    <2>1. link'[p] = link[p] /\ (p \in active' <=> p \in active)
      BY <1>1
    <2>2. p \in atMain' <=> p \in atMain
      BY <1>6, <2>1 DEF atMain
    <2>3. \A r \in Rooms : Holds(p, r)' <=> Holds(p, r)
      BY <1>4, <1>5
    <2>. QED
      BY <2>1, <2>2, <2>3 DEF Stays, forgotten, held
  <1>8. ASSUME NEW p \in gone
        PROVE  (p \in atMain' <=> link'[p] # "free") /\ p \notin forgotten'
    BY <1>1, <1>3, <1>6 DEF atMain, forgotten
  <1>9. forgotten' = forgotten
    BY <1>3, <1>7, <1>8 DEF forgotten, Stays
  <1>10. atMain' \in {atMain \cup gone, (atMain \cup gone) \ {s}}
    <2>1. \A p \in gone \ {s} : p \in atMain'
      BY <1>1, <1>3, <1>8
    <2>2. atMain' \subseteq Sockets /\ atMain \subseteq Sockets
      BY DEF atMain
    <2>3. \A p \in Sockets \ gone : p \in atMain' <=> p \in atMain
      BY <1>7 DEF Stays
    <2>. QED
      BY <1>1, <2>1, <2>2, <2>3
  <1>11. held' = [held EXCEPT ![q] = held[q] \ gone]
    <2>1. held'[q] = held[q] \ gone
      BY <1>4 DEF held
    <2>2. \A r \in Rooms \ {q} : held'[r] = held[r]
      BY <1>5 DEF held
    <2>. QED
      BY <2>1, <2>2, HeldMoves
  <1>12. stage[q] \in {"open", "closing"} /\ stage' \in {stage, [stage EXCEPT ![q] = "closing"]}
    <2>1. stage[q] = StageOf(room[q]) /\ StageOf(room[q]) \in {"open", "closing"}
      BY DEF stage, StageOf, LoopPhases
    <2>2. CASE StageOf(room'[q]) = StageOf(room[q])
      BY <2>1, <2>2 DEF stage
    <2>3. CASE StageOf(room'[q]) = "closing"
      BY <2>1, <2>3, StageMoves
    <2>. QED
      BY <2>1, <2>2, <2>3
  <1>13. CASE gone = {s} /\ Holds(s, q)
    <2>1. s \in held[q] /\ Contract!GiveBack(q, {s}, s)
      BY <1>1, <1>2, <1>9, <1>10, <1>11, <1>12, <1>13 DEF Contract!GiveBack
    <2>. QED
      BY <2>1 DEF Contract!Move, Contract!Leave
  <1>14. CASE gone = {s} \cup room[q].players
    <2>1. s \in held[q] \cup atMain
      BY <1>1, <1>3
    <2>2. held[q] \ gone = held[q] \ held[q]
      BY <1>2, <1>14
    <2>3. atMain' \in {atMain \cup held[q], (atMain \cup held[q]) \ {s}}
      BY <1>2, <1>10, <1>14, <2>1
    <2>4. Contract!GiveBack(q, held[q], s)
      BY <1>9, <1>11, <1>12, <2>2, <2>3 DEF Contract!GiveBack
    <2>. QED
      BY <2>1, <2>4 DEF Contract!Move, Contract!Dissolve
  <1>. QED
    BY <1>13, <1>14

\* LEAVE, END or a hang-up of a player of the room.
LEMMA LeavesCustody ==
  ASSUME TypeOK, RoomStages, Placed, ~strayed, UNCHANGED main,
         NEW r \in Rooms, NEW s \in Sockets, RoomServes(r, s), Leaves(r, r, s)
  PROVE  Contract!Move
  <1>1. PICK rec \in RoomType, d \in BOOLEAN : \E left, next :
          /\ rec.players = room[r].players
          /\ PlayerLeaves(rec, s, d)
          /\ Handles(r, r, left, Released(rec, s), next)
    BY DEF Leaves
  <1>2. PICK left, next : Handles(r, r, left, Released(rec, s), next)
    BY <1>1
  <1>. DEFINE gone == Released(rec, s)
  <1>3. (gone = {s} /\ Holds(s, r)) \/ gone = {s} \cup room[r].players
    BY <1>1, ServesInRoom DEF Released
  <1>4. /\ \A p \in Rooms : SameStage(room[p], room'[p])
        /\ room'[r].players = room[r].players \ gone
        /\ \A p \in Rooms \ {r} : room'[p].players = room[p].players
    BY <1>2, HandlesRooms
  <1>5. /\ room'[r].running => room[r].running
        /\ \A p \in Rooms \ {r} : StageOf(room'[p]) = StageOf(room[p])
    BY <1>2, HandlesRunning
  <1>6. room[r].phase \in LoopPhases /\ Holds(s, r)
    BY ServesInRoom DEF LoopPhases
  <1>7. StageOf(room'[r]) \in {StageOf(room[r]), "closing"}
    <2>1. StageOf(room[r]) \in {"open", "closing"}
      BY <1>6, HoldersServe
    <2>. QED
      BY <1>4, <1>5, <2>1, LeftStage DEF SameStage
  <1>8. \A p \in gone : p \in Sockets /\ link[p] # "free"
    BY <1>3, ServesInRoom DEF InRoom
  <1>9. \A p \in Sockets : IF p \in gone THEN p \in active' <=> link'[p] # "free"
                                         ELSE p \in active' <=> p \in active
    BY <1>1, <1>8, PlayerLeavesEffect
  <1>10. \A p \in Sockets \ {s} : link'[p] = link[p]
    BY <1>1, PlayerLeavesLinks
  <1>. HIDE DEF gone
  <1>. QED
    BY <1>3, <1>4, <1>5, <1>6, <1>7, <1>9, <1>10, GivesBack

\* LEAVE read by the main thread dissolves an open lobby, or concerns its client only.
LEMMA MainLeaveCustody ==
  ASSUME TypeOK, RoomStages, Placed, ~strayed, ~strayed', NEW s \in Sockets, MainLeave(s)
  PROVE  Contract!Move \/ Kept
  <1>1. main' = main /\ s \in active /\ link[s] # "free"
    BY DEF MainLeave, MainReads, MainServes
  <1>2. WithMain(s) /\ OutOfRooms(s)
    BY <1>1, PlaceOf DEF Placed, WithMain
  <1>3. CASE IndexOf(lobby[s]) = {}
    <2>1. UNCHANGED <<link, active, room>>
      BY <1>3 DEF MainLeave
    <2>2. \A p \in Sockets : Stays(p)
      BY <1>1, <2>1 DEF Stays, atMain, forgotten, held, Holds, BeingJoined
    <2>. QED
      BY <2>1, <2>2, NothingMoves DEF SameStages
  <1>4. CASE IndexOf(lobby[s]) # {}
    <2>1. PICK i \in IndexOf(lobby[s]), d \in BOOLEAN :
            /\ PlayerLeaves(room[directory[i]], s, d)
            /\ room' = Becomes(directory[i], AfterLeave(room[directory[i]], s))
            /\ ~(Dissolves(room[directory[i]], s)
                   /\ room[directory[i]].phase \notin LoopPhases)
      BY <1>4 DEF MainLeave
    <2>. DEFINE q == directory[i]
                gone == Released(room[q], s)
                left == AfterLeave(room[q], s)
    <2>2. q \in Rooms /\ room[q] \in RoomType /\ account[s] \in Ids
      BY IndexOfType DEF TypeOK
    <2>3. /\ SameStage(room[q], left) /\ left.players = room[q].players \ gone
          /\ left.running => room[q].running
      BY <2>2, AfterLeaveFields
    <2>4. gone = {s} \/ (room[q].phase \in LoopPhases /\ gone = {s} \cup room[q].players)
      BY <2>1 DEF Released
    <2>5. \A p \in Sockets :
            IF p \in gone
              THEN link[p] # "free" => (p \in active' <=> link'[p] # "free")
              ELSE p \in active' <=> p \in active
      BY <2>1, <2>2, PlayerLeavesEffect
    <2>6. \A p \in Sockets \ {s} : link'[p] = link[p]
      BY <2>1, PlayerLeavesLinks
    <2>7. ~Dissolves(room[q], s) => left.running = room[q].running /\ gone = {s}
      BY <2>2 DEF AfterLeave, RemovePlayer, RoomType, Released
    <2>. HIDE DEF gone, left
    <2>8. room'[q] = left /\ \A p \in Rooms \ {q} : room'[p] = room[p]
      BY <2>1, <2>2, BecomesFields DEF TypeOK, left
    <2>9. CASE gone = {s} /\ ~Dissolves(room[q], s)
      <3>1. SameStages
        BY <2>3, <2>7, <2>8, <2>9 DEF SameStages, StageOf, Closed, SameStage
      <3>2. \A p \in Sockets, r \in Rooms : Holds(p, r)' <=> Holds(p, r)
        <4>1. ~Holds(s, q)
          BY <1>2, <2>2 DEF OutOfRooms
        <4>. QED
          BY <2>3, <2>8, <2>9, <4>1 DEF Holds, SameStage
      <3>3. \A p \in Sockets : BeingJoined(p)' <=> BeingJoined(p)
        BY <1>1 DEF BeingJoined
      <3>4. \A p \in Sockets \ {s} : Stays(p)
        <4>. SUFFICES ASSUME NEW p \in Sockets \ {s} PROVE Stays(p)
          OBVIOUS
        <4>1. link'[p] = link[p] /\ (p \in active' <=> p \in active)
          BY <2>5, <2>6, <2>9
        <4>2. p \in atMain' <=> p \in atMain
          BY <3>3, <4>1 DEF atMain
        <4>. QED
          BY <3>2, <4>1, <4>2 DEF Stays, forgotten, held
      <3>5. held' = held /\ stage' = stage
        BY <3>1, <3>2 DEF held, stage, SameStages
      <3>6. s \in atMain /\ s \notin forgotten
        BY <1>1, <1>2, WhoHas
      <3>7. s \in active' <=> link'[s] # "free"
        BY <1>1, <2>5, <2>9
      <3>8. s \notin forgotten' /\ (s \in atMain' <=> link'[s] # "free")
        BY <3>7 DEF forgotten, atMain, WithMain, BeingJoined
      <3>9. CASE link'[s] = "free"
        <4>1. s \notin atMain'
          BY <3>8, <3>9
        <4>2. atMain' = atMain \ {s} /\ forgotten' = forgotten
          BY <3>4, <3>6, <3>8, <4>1, OnlyAtMain
        <4>. QED
          BY <3>5, <3>6, <4>2 DEF Contract!Move, Contract!Close
      <3>10. CASE link'[s] # "free"
        <4>1. Stays(s)
          BY <3>2, <3>6, <3>8, <3>10 DEF Stays
        <4>. QED
          BY <3>1, <3>4, <4>1, NothingMoves
      <3>. QED
        BY <3>9, <3>10
    <2>10. CASE Dissolves(room[q], s)
      <3>1. room[q].phase \in LoopPhases /\ gone = {s} \cup room[q].players
        BY <2>1, <2>10 DEF Released, gone
      <3>2. /\ \A p \in Rooms : SameStage(room[p], room'[p])
            /\ room'[q].players = room[q].players \ gone
            /\ \A p \in Rooms \ {q} : room'[p].players = room[p].players
            /\ \A p \in Rooms \ {q} : StageOf(room'[p]) = StageOf(room[p])
        BY <2>3, <2>8 DEF SameStage
      <3>3. StageOf(room'[q]) \in {StageOf(room[q]), "closing"}
        <4>1. StageOf(room[q]) \in {"open", "closing"}
          BY <3>1 DEF StageOf, LoopPhases
        <4>. QED
          BY <2>3, <2>8, <4>1, LeftStage DEF SameStage
      <3>4. \A p \in gone \cap Sockets : link[p] # "free"
        <4>. SUFFICES ASSUME NEW p \in gone \cap Sockets PROVE link[p] # "free"
          OBVIOUS
        <4>1. CASE p = s
          BY <1>1, <4>1
        <4>2. CASE p # s
          <5>1. Holds(p, q)
            BY <3>1, <4>2 DEF Holds
          <5>2. InRoom(p, q)
            BY <2>2, <5>1, PlaceOf DEF Placed
          <5>. QED
            BY <5>2 DEF InRoom
        <4>. QED
          BY <4>1, <4>2
      <3>5. \A p \in Sockets : IF p \in gone THEN p \in active' <=> link'[p] # "free"
                                             ELSE p \in active' <=> p \in active
        BY <2>5, <3>4
      <3>. QED
        BY <1>1, <1>2, <2>2, <2>6, <3>1, <3>2, <3>3, <3>5, GivesBack
    <2>. QED
      BY <2>7, <2>9, <2>10
  <1>. QED
    BY <1>3, <1>4

-----------------------------------------------------------------------------
(* The room threads.                                                         *)

\* A step that changes no place: what is left to look at are the stages.
LEMMA SettledCustody ==
  ASSUME UNCHANGED <<link, active, main>>,
         \A p \in Sockets, r \in Rooms : Holds(p, r)' <=> Holds(p, r)
  PROVE  /\ UNCHANGED <<atMain, held, forgotten>>
         /\ SameStages => Kept
  <1>1. \A p \in Sockets : Stays(p)
    BY DEF Stays, atMain, forgotten, held, BeingJoined
  <1>2. atMain' = atMain /\ held' = held /\ forgotten' = forgotten
    <2>1. held' = held
      BY DEF held
    <2>2. atMain' = atMain
      BY DEF atMain, BeingJoined
    <2>. QED
      BY <2>1, <2>2 DEF forgotten
  <1>. QED
    BY <1>1, <1>2, NothingMoves

\* A message that makes nobody leave may stop the game.
LEMMA HandlesCustody ==
  ASSUME TypeOK, RoomStages, UNCHANGED <<link, active, main>>,
         NEW r, NEW rec, NEW next, Handles(r, r, rec, {}, next)
  PROVE  Contract!Move \/ Kept
  <1>1. r \in Rooms /\ room[r].phase = "loop"
    BY DEF Handles
  <1>2. \A p \in Rooms : SameStage(room[p], room'[p]) /\ room'[p].players = room[p].players
    <2>1. /\ \A p \in Rooms : SameStage(room[p], room'[p])
          /\ room'[r].players = room[r].players \ {}
          /\ \A p \in Rooms \ {r} : room'[p].players = room[p].players
      BY <1>1, HandlesRooms
    <2>. QED
      BY <2>1
  <1>3. \A p \in Sockets, x \in Rooms : Holds(p, x)' <=> Holds(p, x)
    BY <1>2 DEF Holds, SameStage
  <1>4. /\ room'[r].running => room[r].running
        /\ \A p \in Rooms \ {r} : StageOf(room'[p]) = StageOf(room[p])
    BY HandlesRunning
  <1>5. StageOf(room[r]) \in {"open", "closing"}
    BY <1>1 DEF StageOf, LoopPhases
  <1>6. StageOf(room'[r]) \in {StageOf(room[r]), "closing"}
    BY <1>1, <1>2, <1>4, <1>5, LeftStage DEF SameStage
  <1>7. CASE StageOf(room'[r]) = StageOf(room[r])
    <2>1. SameStages
      BY <1>4, <1>7 DEF SameStages
    <2>. QED
      BY <1>3, <2>1, SettledCustody
  <1>8. CASE StageOf(room'[r]) # StageOf(room[r])
    <2>1. stage[r] = "open" /\ stage' = [stage EXCEPT ![r] = "closing"]
      BY <1>1, <1>4, <1>5, <1>6, <1>8, StageMoves DEF stage
    <2>. QED
      BY <1>1, <1>3, <2>1, SettledCustody DEF Contract!Move, Contract!Stop
  <1>. QED
    BY <1>7, <1>8

\* The handlers of a message.
LEMMA MessageCustody ==
  ASSUME TypeOK, RoomStages, DirectorySorted, Placed, ~strayed,
         NEW r \in Rooms, NEW s \in Sockets,
         \/ RoomIgnore(r, s) \/ RoomHangup(r, s) \/ RoomLeave(r, s)
         \/ LobbyStart(r, s) \/ Lose(r, s) \/ GameEnd(r, s)
         \/ \E n \in Sizes : Modify(r, s, n)
         \/ \E a \in Accounts : Invite(r, s, a)
  PROVE  Contract!Move \/ Kept
  <1>. USE DEF netVars
  <1>a. ASSUME Crash PROVE Kept
    <2>1. UNCHANGED <<link, active, main, room>>
      BY <1>a DEF Crash
    <2>. QED
      BY <2>1, SettledCustody DEF Holds, SameStages
  <1>b. ASSUME RoomServes(r, s), room' = Passed(room, r, Handled(r, s)),
               UNCHANGED <<link, active, main>>
        PROVE  Contract!Move \/ Kept
    <2>1. Handles(r, r, room[r], {}, Handled(r, s))
      BY <1>b, IgnoreHandles
    <2>. QED
      BY <1>b, <2>1, HandlesCustody
  <1>1. CASE RoomIgnore(r, s)
    BY <1>1, <1>b DEF RoomIgnore
  <1>2. CASE RoomHangup(r, s)
    <2>1. UNCHANGED main /\ RoomServes(r, s)
      BY <1>2 DEF RoomHangup
    <2>2. Leaves(r, r, s)
      BY <1>2, HangupLeaves
    <2>. QED
      BY <2>1, <2>2, LeavesCustody
  <1>3. CASE RoomLeave(r, s)
    <2>1. UNCHANGED main /\ RoomServes(r, s)
      BY <1>3 DEF RoomLeave
    <2>2. Leaves(r, r, s)
      BY <1>3, <2>1, LobbyIsHere, RoomLeaveLeaves
    <2>. QED
      BY <2>1, <2>2, LeavesCustody
  <1>4. CASE LobbyStart(r, s)
    <2>1. PICK i \in IndexOf(lobby[s]) :
            room' = Passed(Becomes(directory[i],
                             [room[directory[i]] EXCEPT !.playing = TRUE]), r, Handled(r, s))
      BY <1>4 DEF LobbyStart
    <2>2. UNCHANGED <<link, active, main>> /\ RoomServes(r, s)
      BY <1>4 DEF LobbyStart
    <2>3. directory[i] = r
      BY <2>2, LobbyIsHere
    <2>. DEFINE rec == [room[r] EXCEPT !.playing = TRUE]
    <2>4. Handles(r, r, rec, {}, Handled(r, s))
      BY <2>1, <2>2, <2>3, AssignHandles
    <2>. HIDE DEF rec
    <2>. QED
      BY <2>2, <2>4, HandlesCustody
  <1>5. CASE Lose(r, s)
    <2>. DEFINE b == Cardinality({p \in room[r].players : isPlaying[p] /\ p # s}) > 1
                rec == [room[r] EXCEPT !.running = room[r].running /\ b]
    <2>1. UNCHANGED <<link, active, main>> /\ RoomServes(r, s)
      BY <1>5 DEF Lose
    <2>2. gameRoom[s] = r
      BY <2>1, ServesInRoom DEF InRoom
    <2>3. room' = Passed(Becomes(r, rec), r, Handled(r, s))
      BY <1>5, <2>2 DEF Lose
    <2>4. b \in BOOLEAN
      OBVIOUS
    <2>. HIDE DEF b
    <2>5. \E c \in BOOLEAN : rec = [room[r] EXCEPT !.running = room[r].running /\ c]
      BY <2>4
    <2>. HIDE DEF rec
    <2>6. Handles(r, r, rec, {}, Handled(r, s))
      BY <2>1, <2>3, <2>5, AssignHandles
    <2>. QED
      BY <2>1, <2>6, HandlesCustody
  <1>6. CASE GameEnd(r, s)
    <2>1. CASE ~DatabaseFree
      BY <1>6, <1>a, <2>1 DEF GameEnd
    <2>2. CASE DatabaseFree
      <3>1. UNCHANGED main /\ RoomServes(r, s)
        BY <1>6, <2>2 DEF GameEnd
      <3>2. gameRoom[s] = r
        BY <3>1, ServesInRoom DEF InRoom
      <3>3. Leaves(r, r, s)
        BY <1>6, <2>2, <3>2, GameEndLeaves
      <3>. QED
        BY <3>1, <3>3, LeavesCustody
    <2>. QED
      BY <2>1, <2>2
  <1>7. ASSUME NEW n \in Sizes, Modify(r, s, n) PROVE Contract!Move \/ Kept
    <2>1. PICK i \in IndexOf(lobby[s]) :
            room' = Passed(Becomes(directory[i],
                             [room[directory[i]] EXCEPT !.size = Cap(n)]), r, Handled(r, s))
      BY <1>7 DEF Modify
    <2>2. UNCHANGED <<link, active, main>> /\ RoomServes(r, s) /\ Cap(n) \in Nat
      BY <1>7, SizesAreNat, CapType DEF Modify
    <2>3. directory[i] = r
      BY <2>2, LobbyIsHere
    <2>. DEFINE rec == [room[r] EXCEPT !.size = Cap(n)]
    <2>4. Handles(r, r, rec, {}, Handled(r, s))
      BY <2>1, <2>2, <2>3, AssignHandles
    <2>. HIDE DEF rec
    <2>. QED
      BY <2>2, <2>4, HandlesCustody
  <1>8. ASSUME NEW a \in Accounts, Invite(r, s, a) PROVE Contract!Move \/ Kept
    <2>1. CASE ~DatabaseFree \/ account[s] = NoAccount
      BY <1>8, <1>a, <2>1 DEF Invite
    <2>2. CASE ~(~DatabaseFree \/ account[s] = NoAccount)
      BY <1>8, <1>b, <2>2 DEF Invite
    <2>. QED
      BY <2>1, <2>2
  <1>. QED
    BY <1>1, <1>2, <1>3, <1>4, <1>5, <1>6, <1>7, <1>8

\* loop() gives client s back while it closes its room.
LEMMA RestoreCustody ==
  ASSUME TypeOK, RoomStages, Placed, ~strayed, NEW r \in Rooms, NEW s \in Sockets,
         RoomRestore(r, s)
  PROVE  Contract!Move
  <1>. DEFINE rec == [room[r] EXCEPT !.todo = room[r].todo \ {s}]
  <1>1. /\ UNCHANGED <<link, main>> /\ room' = Becomes(r, rec)
        /\ room[r].phase = "restore" /\ s \in room[r].todo /\ active' = active \cup {s}
    BY DEF RoomRestore
  <1>2. /\ rec.phase = room[r].phase /\ rec.players = room[r].players
        /\ rec.todo = room[r].todo \ {s} /\ rec.running = room[r].running
    BY DEF TypeOK, RoomType
  <1>. HIDE DEF rec
  <1>3. room'[r] = rec /\ \A q \in Rooms \ {r} : room'[q] = room[q]
    BY <1>1, BecomesFields DEF TypeOK
  <1>4. Holds(s, r)
    BY <1>1 DEF Placed, Holds
  <1>5. InRoom(s, r)
    BY <1>4, PlaceOf DEF Placed
  <1>6. s \in held[r] /\ s \notin forgotten /\ link[s] # "free"
    BY <1>5, WhoHas DEF InRoom
  <1>7. \A p \in Sockets : BeingJoined(p)' <=> BeingJoined(p)
    BY <1>1 DEF BeingJoined
  <1>8. \A p \in Sockets \ {s}, q \in Rooms : Holds(p, q)' <=> Holds(p, q)
    BY <1>1, <1>2, <1>3 DEF Holds, LoopPhases
  <1>9. \A q \in Rooms : ~Holds(s, q)'
    BY <1>1, <1>2, <1>3, <1>5 DEF InRoom, Holds, LoopPhases
  <1>10. ASSUME NEW p \in Sockets \ {s} PROVE Stays(p)
    <2>1. p \in atMain' <=> p \in atMain
      BY <1>1, <1>7 DEF atMain
    <2>. QED
      BY <1>1, <1>8, <2>1 DEF Stays, forgotten, held
  <1>11. s \in atMain' /\ s \notin forgotten'
    BY <1>1, <1>6 DEF atMain, forgotten
  <1>12. atMain' = atMain \cup {s} /\ forgotten' = forgotten
    BY <1>6, <1>10, <1>11, OnlyOne
  <1>13. held' = [held EXCEPT ![r] = held[r] \ {s}]
    <2>1. held'[r] = held[r] \ {s}
      BY <1>9, <1>10, OnlyOne
    <2>2. \A q \in Rooms \ {r} : held'[q] = held[q]
      BY <1>5, <1>8, <1>9 DEF held, InRoom
    <2>. QED
      BY <2>1, <2>2, HeldMoves
  <1>14. stage[r] \in {"open", "closing"} /\ stage' = stage
    <2>1. StageOf(rec) = StageOf(room[r])
      BY <1>2 DEF StageOf, Closed
    <2>2. stage' = stage
      BY <1>3, <2>1 DEF stage
    <2>. QED
      BY <1>4, <2>2, HoldersServe DEF stage
  <1>15. Contract!GiveBack(r, {s}, s)
    BY <1>12, <1>13, <1>14 DEF Contract!GiveBack
  <1>. QED
    BY <1>6, <1>15 DEF Contract!Move, Contract!Leave

\* The steps of a room's thread: closing tells the stages apart only at its
\* begin, when the loop is told to stop, and at its end, when players_ is cleared.
LEMMA ThreadCustody ==
  ASSUME TypeOK, RoomStages, DirectorySorted, Placed, ~strayed, ~strayed',
         NEW r \in Rooms, RoomThread(r)
  PROVE  Contract!Move \/ Kept
  <1>. USE DEF netVars
  <1>a. room[r] \in RoomType /\ StageOK(room[r])
    BY DEF TypeOK, RoomStages
  <1>b. ASSUME NEW rec, room' = Becomes(r, rec), UNCHANGED <<link, active, main>>,
               StageOf(rec) = StageOf(room[r]),
               \A s \in Sockets : (s \in rec.players /\ (rec.phase \in LoopPhases \/ s \in rec.todo))
                                     <=> Holds(s, r)
        PROVE  Kept
    <2>1. room'[r] = rec /\ \A q \in Rooms \ {r} : room'[q] = room[q]
      BY <1>b, BecomesFields DEF TypeOK
    <2>2. SameStages
      BY <1>b, <2>1 DEF SameStages
    <2>3. \A s \in Sockets, q \in Rooms : Holds(s, q)' <=> Holds(s, q)
      BY <1>b, <2>1 DEF Holds
    <2>. QED
      BY <1>b, <2>2, <2>3, SettledCustody
  <1>1. CASE RoomStart(r)
    <2>. DEFINE rec == [room[r] EXCEPT !.phase = "loop", !.running = TRUE]
    <2>1. /\ UNCHANGED <<link, active, main>>
          /\ room' = Becomes(r, rec) /\ room[r].phase = "start"
      BY <1>1 DEF RoomStart
    <2>2. /\ rec.phase = "loop" /\ rec.running
          /\ rec.todo = room[r].todo /\ rec.players = room[r].players
      BY <1>a DEF RoomType
    <2>. HIDE DEF rec
    <2>3. StageOf(rec) = "open" /\ StageOf(room[r]) = "open"
      BY <2>1, <2>2 DEF StageOf, Closed
    <2>. QED
      BY <1>b, <2>1, <2>2, <2>3 DEF Holds, LoopPhases
  <1>2. CASE RoomSelect(r)
    <2>1. PICK S \in SUBSET room[r].players :
            /\ UNCHANGED <<link, active, main>>
            /\ room' = Becomes(r, [room[r] EXCEPT !.ready = S])
      BY <1>2 DEF RoomSelect
    <2>. DEFINE rec == [room[r] EXCEPT !.ready = S]
    <2>2. /\ rec.phase = room[r].phase /\ rec.todo = room[r].todo
          /\ rec.players = room[r].players /\ rec.running = room[r].running
          /\ room' = Becomes(r, rec)
      BY <1>a, <2>1 DEF RoomType
    <2>. HIDE DEF rec
    <2>3. StageOf(rec) = StageOf(room[r])
      BY <2>2 DEF StageOf, Closed
    <2>. QED
      BY <1>b, <2>1, <2>2, <2>3 DEF Holds
  <1>3. CASE RoomExit(r)
    <2>. DEFINE rec == [room[r] EXCEPT !.phase = "restore", !.todo = room[r].players]
    <2>1. /\ UNCHANGED <<link, active, main>> /\ room' = Becomes(r, rec)
          /\ room[r].phase = "loop" /\ ~room[r].running
      BY <1>3 DEF RoomExit
    <2>2. /\ rec.phase = "restore" /\ rec.todo = room[r].players
          /\ rec.players = room[r].players /\ rec.running = room[r].running
      BY <1>a DEF RoomType
    <2>. HIDE DEF rec
    <2>3. StageOf(rec) = "closing" /\ StageOf(room[r]) = "closing"
      BY <2>1, <2>2 DEF StageOf, Closed
    <2>. QED
      BY <1>b, <2>1, <2>2, <2>3 DEF Holds, LoopPhases
  <1>4. CASE RoomClear(r)
    <2>. DEFINE rec == [room[r] EXCEPT !.phase = "purge", !.players = {}, !.ready = {},
                                       !.gamers = NoGamers]
    <2>1. /\ UNCHANGED <<link, active, main>> /\ room' = Becomes(r, rec)
          /\ room[r].phase = "restore" /\ room[r].todo = {}
      BY <1>4 DEF RoomClear
    <2>2. rec.phase = "purge" /\ rec.players = {}
      BY <1>a DEF RoomType
    <2>. HIDE DEF rec
    <2>3. room'[r] = rec /\ \A q \in Rooms \ {r} : room'[q] = room[q]
      BY <2>1, BecomesFields DEF TypeOK
    <2>4. \A s \in Sockets : ~Holds(s, r)
      BY <2>1 DEF Holds, LoopPhases
    <2>5. \A s \in Sockets, q \in Rooms : Holds(s, q)' <=> Holds(s, q)
      BY <2>2, <2>3, <2>4 DEF Holds
    <2>6. UNCHANGED <<atMain, held, forgotten>>
      BY <2>1, <2>5, SettledCustody
    <2>7. held[r] = {}
      BY <2>4 DEF held
    <2>8. StageOf(room[r]) = "closing" /\ StageOf(rec) = "gone"
      BY <1>a, <2>1, <2>2 DEF StageOf, Closed, StageOK, LoopPhases
    <2>9. stage[r] = "closing" /\ stage' = [stage EXCEPT ![r] = "gone"]
      BY <2>3, <2>8, StageMoves DEF stage
    <2>. QED
      BY <2>6, <2>7, <2>9 DEF Contract!Move, Contract!Finish
  <1>5. ASSUME NEW from \in {"purge", "remove"}, NEW to \in {"remove", "gone"}, SetPhase(r, from, to),
               UNCHANGED <<link, active, main>>
        PROVE  Kept
    <2>. DEFINE rec == [room[r] EXCEPT !.phase = to]
    <2>1. room' = Becomes(r, rec) /\ room[r].phase = from
      BY <1>5 DEF SetPhase
    <2>2. rec.phase = to /\ rec.todo = room[r].todo /\ rec.players = room[r].players
      BY <1>a DEF RoomType
    <2>. HIDE DEF rec
    <2>3. StageOf(rec) = "gone" /\ StageOf(room[r]) = "gone"
      BY <2>1, <2>2 DEF StageOf
    <2>. QED
      BY <1>b, <1>5, <2>1, <2>2, <2>3 DEF Holds, LoopPhases
  <1>6. CASE RoomPurge(r)
    <2>1. CASE ~DatabaseFree
      <3>1. UNCHANGED <<link, active, main, room>>
        BY <1>6, <2>1 DEF RoomPurge, Crash
      <3>. QED
        BY <3>1, SettledCustody DEF Holds, SameStages
    <2>2. CASE DatabaseFree
      BY <1>5, <1>6, <2>2 DEF RoomPurge
    <2>. QED
      BY <2>1, <2>2
  <1>7. CASE RoomRemove(r)
    BY <1>5, <1>7 DEF RoomRemove
  <1>8. ASSUME NEW s \in Sockets, RoomRestore(r, s) PROVE Contract!Move
    BY <1>8, RestoreCustody
  <1>9. ASSUME NEW s \in Sockets,
               \/ RoomIgnore(r, s) \/ RoomHangup(r, s) \/ RoomLeave(r, s)
               \/ LobbyStart(r, s) \/ Lose(r, s) \/ GameEnd(r, s)
               \/ \E n \in Sizes : Modify(r, s, n)
               \/ \E a \in Accounts : Invite(r, s, a)
        PROVE  Contract!Move \/ Kept
    BY <1>9, MessageCustody
  <1>10. ASSUME NEW s \in Sockets, NEW id \in Nat, NEW g \in BOOLEAN, RoomJoin(r, s, id, g)
         PROVE  Contract!Move \/ Kept
    <2>1. CASE ~DatabaseFree
      <3>1. UNCHANGED <<link, active, main, room>>
        BY <1>10, <2>1 DEF RoomJoin, Crash
      <3>. QED
        BY <3>1, SettledCustody DEF Holds, SameStages
    <2>2. CASE DatabaseFree
      <3>1. PICK rec \in RoomType : TakesSeat(r, s, rec)
        BY <1>10, <2>2, SecondJoin
      <3>2. UNCHANGED <<link, active, main>>
        BY <1>10, <2>2, SecondJoin
      <3>. QED
        BY <3>1, <3>2, HandlesCustody DEF TakesSeat
    <2>. QED
      BY <2>1, <2>2
  <1>11. \A s \in Sockets, q \in Rooms, n \in Sizes : ~RoomCreate(r, s, q, n)
    BY DEF RoomCreate
  <1>12. \A row \in listed : row[2] \in Nat
    BY DEF TypeOK
  <1>. QED
    BY <1>1, <1>2, <1>3, <1>4, <1>6, <1>7, <1>8, <1>9, <1>10, <1>11, <1>12 DEF RoomThread

-----------------------------------------------------------------------------
(* The implementation.                                                       *)

\* The server starts as Custody does.
LEMMA CustodyInit == Init => Contract!Init
  BY DEF Init, Contract!Init, atMain, forgotten, held, stage, StageOf, Holds, BeingJoined,
         Unused, LoopPhases

\* Every step of the server is a step of Custody, or does not show there.
LEMMA CustodyNext ==
  ASSUME Inductive, [Next]_vars
  PROVE  [Contract!Next]_(Contract!vars)
  <1>. USE DEF Inductive
  <1>1. CASE strayed'
    BY <1>1 DEF Contract!Next
  <1>2. CASE ~strayed'
    <2>1. ~strayed
      BY <1>2, StrayedStays
    <2>2. SUFFICES Contract!Move \/ Kept
      <3>1. strayed \in BOOLEAN /\ strayed' \in BOOLEAN
        BY TypeNext DEF TypeOK
      <3>2. strayed' = strayed
        BY <1>2, <2>1, <3>1
      <3>. QED
        BY <1>2, <2>1, <3>2 DEF Contract!Next, Contract!vars, Kept
    <2>3. CASE UNCHANGED vars
      <3>1. UNCHANGED <<link, active, main, room>>
        BY <2>3 DEF vars, netVars
      <3>. QED
        BY <3>1, SettledCustody DEF Holds, SameStages
    <2>4. ASSUME NEW s \in Sockets,
                 Connect(s) \/ Disconnect(s) \/ \E a \in Accounts : Login(s, a)
          PROVE  Contract!Move \/ Kept
      BY <2>1, <2>4, ConnectionCustody
    <2>5. ASSUME NEW s \in Sockets, HangUp(s) PROVE Kept
      <3>1. /\ UNCHANGED <<active, main, room>>
            /\ \A p \in Sockets : link'[p] = "free" <=> link[p] = "free"
        BY <2>5 DEF HangUp, TypeOK
      <3>2. \A p \in Sockets : Stays(p)
        BY <3>1 DEF Stays, atMain, forgotten, held, Holds, BeingJoined
      <3>. QED
        BY <3>1, <3>2, NothingMoves DEF SameStages
    <2>6. ASSUME NEW s \in Sockets, MainStart(s) PROVE Kept
      <3>1. UNCHANGED <<link, active, main, room>>
        BY <2>6 DEF MainStart, netVars
      <3>. QED
        BY <3>1, SettledCustody DEF Holds, SameStages
    <2>7. ASSUME NEW s \in Sockets, MainLeave(s) PROVE Contract!Move \/ Kept
      BY <1>2, <2>1, <2>7, MainLeaveCustody
    <2>8. ASSUME NEW s \in Sockets, NEW r \in Rooms, NEW n \in Sizes, Create(s, r, n)
          PROVE  Contract!Move
      BY <2>1, <2>8, CreateCustody
    <2>9. ASSUME NEW s \in Sockets, NEW id, NEW g, JoinBegin(s, id, g) PROVE Kept
      BY <2>1, <2>9, JoinBeginCustody
    <2>10. CASE JoinEnter
      BY <1>2, <2>1, <2>10, EnterCustody
    <2>11. ASSUME NEW r \in Rooms, RoomThread(r) PROVE Contract!Move \/ Kept
      BY <1>2, <2>1, <2>11, ThreadCustody
    <2>. QED
      BY <2>3, <2>4, <2>5, <2>6, <2>7, <2>8, <2>9, <2>10, <2>11 DEF Next, Outside, MainThread
  <1>. QED
    BY <1>1, <1>2

\* For any number of sockets, rooms and accounts, and as long as nothing strayed:
\* a client's socket is never with two threads, it gets lost only in a JOIN
\* that a full room refused, it enters no closing room, and no room is gone
\* before it gave back every client it held.
THEOREM ImplementsCustody == Spec => InCustody
  <1>1. Inductive /\ [Next]_vars => [Contract!Next]_(Contract!vars)
    BY CustodyNext
  <1>. QED
    BY <1>1, CustodyInit, InductiveHolds, PTL DEF Spec, InCustody, Contract!Spec

=============================================================================
