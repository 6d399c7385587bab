--------------------------- MODULE Friends_proofs ---------------------------
(***************************************************************************)
(* Proofs about Friends, for any number of people: its types, that a       *)
(* friendship is mutual and settles every request, and that the tables,    *)
(* streams and menus implement Friendship.                                 *)
(***************************************************************************)
EXTENDS Friends, TLAPS

Rows == People \cup {NoOne}
Clients == [menu : Menus, awaits : Awaits, friends : Lists, invitations : Lists]

-----------------------------------------------------------------------------
(* Streams *)

LEMMA NothingIsList == {} \in Lists
BY DEF Lists

\* What is in a stream.
Elements(s) == {s[i] : i \in DOMAIN s}

LEMMA ElementsOfTail ==
    ASSUME NEW R, NEW s \in Seq(R), s # <<>>
    PROVE  /\ Tail(s) \in Seq(R) /\ Head(s) \in R /\ Head(s) \in Elements(s)
           /\ Elements(Tail(s)) \subseteq Elements(s)
BY DEF Elements

LEMMA ElementsOfAppend ==
    ASSUME NEW R, NEW s \in Seq(R), NEW m \in R
    PROVE  Append(s, m) \in Seq(R) /\ Elements(Append(s, m)) = Elements(s) \cup {m}
<1>1. Append(s, m) \in Seq(R) /\ DOMAIN Append(s, m) = DOMAIN s \cup {Len(s) + 1}
  OBVIOUS
<1>2. Append(s, m)[Len(s) + 1] = m /\ \A i \in DOMAIN s : Append(s, m)[i] = s[i]
  OBVIOUS
<1> QED
  BY <1>1, <1>2 DEF Elements

LEMMA ElementsOfConcat ==
    ASSUME NEW R, NEW s \in Seq(R), NEW t \in Seq(R)
    PROVE  s \o t \in Seq(R) /\ Elements(s \o t) = Elements(s) \cup Elements(t)
<1>1. s \o t \in Seq(R) /\ Len(s \o t) = Len(s) + Len(t)
  OBVIOUS
<1>2. \A i \in DOMAIN s : i \in DOMAIN (s \o t) /\ (s \o t)[i] = s[i]
  OBVIOUS
<1>3. \A i \in DOMAIN t : Len(s) + i \in DOMAIN (s \o t) /\ (s \o t)[Len(s) + i] = t[i]
  OBVIOUS
<1>4. \A i \in DOMAIN (s \o t) :
        \/ i \in DOMAIN s /\ (s \o t)[i] = s[i]
        \/ i - Len(s) \in DOMAIN t /\ (s \o t)[i] = t[i - Len(s)]
  OBVIOUS
<1>5. Elements(s) \cup Elements(t) \subseteq Elements(s \o t)
  BY <1>2, <1>3 DEF Elements
<1>6. Elements(s \o t) \subseteq Elements(s) \cup Elements(t)
  BY <1>4 DEF Elements
<1> QED
  BY <1>1, <1>5, <1>6

LEMMA ElementsOfShort ==
    ASSUME NEW m, NEW n
    PROVE  /\ Elements(<<>>) = {} /\ Elements(<<m>>) = {m}
           /\ Elements(<<m, n>>) = {m, n}
BY DEF Elements

LEMMA MsgIsRequest ==
    ASSUME NEW type \in {"INVITE", "ACCEPT", "REMOVE", "FRIENDS", "REQUESTS"}, NEW q \in Rows
    PROVE  Msg(type, q) \in Requests
BY DEF Msg, Requests, Rows

-----------------------------------------------------------------------------
(* The invariant.  TypeOK alone is not inductive: that an acceptance leads to a *)
(* pair of two different people must be known while it is under way.          *)

NoSelf(p, m) == m.type = "requests" => p \notin m.rows
OfOther(p, m) == m.type = "ACCEPT" => m.who \in People \ {p}

Strangers ==
    \A p \in People :
      /\ session[p] \in {p, NoOne}
      /\ p \notin client[p].invitations
      /\ \A m \in Elements(toClient[p]) : NoSelf(p, m)
      /\ \A m \in Elements(toServer[p]) : OfOther(p, m)

Inductive == TypeOK /\ Mutual /\ NoRequestBetweenFriends /\ Strangers

-----------------------------------------------------------------------------
(* Types *)

LEMMA OnlyAccept ==
    ASSUME NEW p, NEW type, NEW q, type = "ACCEPT" => q \in People \ {p}
    PROVE  OfOther(p, Msg(type, q))
BY DEF OfOther, Msg

LEMMA ShortOfOther ==
    ASSUME NEW p, NEW m, NEW n, OfOther(p, m), OfOther(p, n)
    PROVE  /\ \A x \in Elements(<<m>>) : OfOther(p, x)
           /\ \A x \in Elements(<<m, n>>) : OfOther(p, x)
<1>1. Elements(<<m>>) = {m} /\ Elements(<<m, n>>) = {m, n}
  BY ElementsOfShort
<1> QED
  BY <1>1

LEMMA InitInductive == Init => Inductive
<1> SUFFICES ASSUME Init PROVE Inductive
  OBVIOUS
<1>1. Offline \in Clients
  BY DEF Offline, Clients, Lists, Menus, Awaits
<1>2. TypeOK
  BY <1>1 DEF Init, TypeOK, Clients
<1>3. Strangers
  BY ElementsOfShort DEF Init, Strangers, Offline
<1> QED
  BY <1>2, <1>3 DEF Init, Inductive, Mutual, NoRequestBetweenFriends

\* What a menu sends and waits for.
LEMMA SendsInductive ==
    ASSUME Inductive, NEW p \in People, NEW msgs \in Seq(Requests), NEW m \in Menus,
           NEW answer \in Awaits, Sends(p, msgs, m, answer),
           \A x \in Elements(msgs) : OfOther(p, x)
    PROVE  Inductive'
<1>1. toServer[p] \in Seq(Requests)
  BY DEF Inductive, TypeOK
<1>2. toServer[p] \o msgs \in Seq(Requests)
      /\ Elements(toServer[p] \o msgs) = Elements(toServer[p]) \cup Elements(msgs)
  BY <1>1, ElementsOfConcat
<1>3. toServer' \in [People -> Seq(Requests)]
  BY <1>2 DEF Sends, Inductive, TypeOK
<1>4. client' \in [People -> Clients]
  BY DEF Sends, Inductive, TypeOK, Clients
<1>5. TypeOK'
  BY <1>3, <1>4 DEF Sends, Inductive, TypeOK, Clients, tables
<1>6. ASSUME NEW q \in People PROVE client'[q].invitations = client[q].invitations
  BY DEF Sends, Inductive, TypeOK
<1>7. ASSUME NEW q \in People PROVE \A x \in Elements(toServer'[q]) : OfOther(q, x)
  BY <1>2 DEF Sends, Inductive, TypeOK, Strangers
<1>8. Strangers'
  BY <1>6, <1>7 DEF Sends, Inductive, Strangers
<1> QED
  BY <1>5, <1>8 DEF Inductive, Sends, tables, Mutual, NoRequestBetweenFriends

LEMMA SendsListOf ==
    ASSUME Inductive, NEW p \in People, NEW m \in Menus, NEW answer \in Awaits,
           NEW type \in {"FRIENDS", "REQUESTS"}, Sends(p, <<ListOf(type)>>, m, answer)
    PROVE  Inductive'
<1>1. ListOf(type) \in Requests
  BY MsgIsRequest DEF ListOf, Rows
<1>2. <<ListOf(type)>> \in Seq(Requests)
  BY <1>1
<1>3. \A x \in Elements(<<ListOf(type)>>) : OfOther(p, x)
  <2>1. OfOther(p, ListOf(type))
    BY OnlyAccept DEF ListOf
  <2> QED
    BY <2>1, ShortOfOther
<1> QED
  BY <1>2, <1>3, SendsInductive

LEMMA AddFriendInductive ==
    ASSUME Inductive, NEW p \in People, NEW q \in Rows, AddFriend(p, q)
    PROVE  Inductive'
<1>1. <<Msg("INVITE", q)>> \in Seq(Requests)
  BY MsgIsRequest
<1>2. \A x \in Elements(<<Msg("INVITE", q)>>) : OfOther(p, x)
  <2>1. OfOther(p, Msg("INVITE", q))
    BY OnlyAccept
  <2> QED
    BY <2>1, ShortOfOther
<1> QED
  BY <1>1, <1>2, SendsInductive DEF AddFriend, Menus, Awaits

LEMMA DeleteFriendInductive ==
    ASSUME Inductive, NEW p \in People, NEW q \in Rows, DeleteFriend(p, q)
    PROVE  Inductive'
<1> DEFINE msgs == <<Msg("REMOVE", q), ListOf("FRIENDS")>>
<1>1. msgs \in Seq(Requests)
  BY MsgIsRequest DEF ListOf, Rows
<1>2. \A x \in Elements(msgs) : OfOther(p, x)
  <2>1. OfOther(p, Msg("REMOVE", q)) /\ OfOther(p, ListOf("FRIENDS"))
    BY OnlyAccept DEF ListOf
  <2> QED
    BY <2>1, ShortOfOther
<1>3. Sends(p, msgs, "profile", "friends")
  BY DEF DeleteFriend
<1> HIDE DEF msgs
<1> QED
  BY <1>1, <1>2, <1>3, SendsInductive DEF Menus, Awaits

LEMMA AcceptInvitationInductive ==
    ASSUME Inductive, NEW p \in People, NEW q \in Rows, AcceptInvitation(p, q)
    PROVE  Inductive'
<1> DEFINE msgs == <<Msg("ACCEPT", q), ListOf("REQUESTS")>>
           shown == client[p].invitations
           left == shown \ {q}
<1>1. shown \in Lists /\ q \in shown
  BY DEF Inductive, TypeOK, AcceptInvitation, At
<1>2. left \in Lists /\ q \in People
  BY <1>1 DEF Lists
<1>3. q \in People \ {p}
  BY <1>1, <1>2 DEF Inductive, Strangers
<1>4. msgs \in Seq(Requests)
  BY MsgIsRequest DEF ListOf, Rows
<1>5. \A x \in Elements(msgs) : OfOther(p, x)
  <2>1. OfOther(p, Msg("ACCEPT", q)) /\ OfOther(p, ListOf("REQUESTS"))
    BY <1>3, OnlyAccept DEF ListOf
  <2> QED
    BY <2>1, ShortOfOther
<1>6. toServer' = [toServer EXCEPT ![p] = @ \o msgs]
  BY DEF AcceptInvitation
<1>7. client' = [client EXCEPT ![p].awaits = "requests", ![p].invitations = left]
  BY DEF AcceptInvitation, Inductive, TypeOK
<1> HIDE DEF msgs, left, shown
<1>8. toServer[p] \in Seq(Requests)
  BY DEF Inductive, TypeOK
<1>9. toServer[p] \o msgs \in Seq(Requests)
      /\ Elements(toServer[p] \o msgs) = Elements(toServer[p]) \cup Elements(msgs)
  BY <1>4, <1>8, ElementsOfConcat
<1>10. toServer' \in [People -> Seq(Requests)]
  BY <1>6, <1>9 DEF Inductive, TypeOK
<1>11. client' \in [People -> Clients]
  BY <1>2, <1>7 DEF Inductive, TypeOK, Clients, Awaits
<1>12. TypeOK'
  BY <1>10, <1>11 DEF AcceptInvitation, Inductive, TypeOK, Clients, tables
<1>13. ASSUME NEW r \in People PROVE r \notin client'[r].invitations
  <2>1. left \subseteq shown
    BY DEF left
  <2> QED
    BY <1>7, <2>1 DEF Inductive, TypeOK, Strangers, shown
<1>14. ASSUME NEW r \in People PROVE \A x \in Elements(toServer'[r]) : OfOther(r, x)
  BY <1>5, <1>6, <1>9 DEF Inductive, TypeOK, Strangers
<1>15. Strangers'
  BY <1>13, <1>14 DEF AcceptInvitation, Inductive, Strangers
<1> QED
  BY <1>12, <1>15 DEF AcceptInvitation, Inductive, tables, Mutual, NoRequestBetweenFriends

LEMMA AccountInductive ==
    ASSUME Inductive, NEW p \in People, Register(p) \/ Login(p) \/ Back(p)
    PROVE  Inductive'
<1>1. client' = [client EXCEPT ![p].menu = "main"]
  BY DEF Register, Login, Back
<1>2. client' \in [People -> Clients]
  BY <1>1 DEF Inductive, TypeOK, Clients, Menus
<1>3. UNCHANGED <<toServer, toClient, friendRequest, friendList>>
  BY DEF Register, Login, Back, tables
<1>4. /\ up' = up /\ users' \subseteq People /\ users \subseteq users'
      /\ userDatabase' = userDatabase
  BY DEF Register, Login, Back, tables, Inductive, TypeOK
<1>5. session' \in [People -> Rows] /\ \A q \in People : session'[q] \in {q, NoOne}
  BY DEF Register, Login, Back, tables, Inductive, TypeOK, Strangers, Rows
<1>6. TypeOK'
  BY <1>2, <1>3, <1>4, <1>5 DEF Inductive, TypeOK, Clients, Rows
<1>7. \A q \in People : client'[q].invitations = client[q].invitations
  BY <1>1 DEF Inductive, TypeOK
<1>8. Strangers'
  BY <1>3, <1>5, <1>7 DEF Inductive, Strangers
<1> QED
  BY <1>3, <1>6, <1>8 DEF Inductive, Mutual, NoRequestBetweenFriends

LEMMA QuitInductive ==
    ASSUME Inductive, NEW p \in People, Quit(p)
    PROVE  Inductive'
<1>1. Offline \in Clients /\ Offline.invitations = {}
  BY DEF Offline, Clients, Lists, Menus, Awaits
<1>2. /\ client' = [client EXCEPT ![p] = Offline] /\ session' = [session EXCEPT ![p] = NoOne]
      /\ UNCHANGED <<up, tables, userDatabase, toServer, toClient>>
  BY DEF Quit
<1> HIDE DEF Offline
<1>3. TypeOK'
  BY <1>1, <1>2 DEF tables, Inductive, TypeOK, Clients
<1>4. \A q \in People : client'[q].invitations \in {client[q].invitations, {}}
  BY <1>1, <1>2 DEF Inductive, TypeOK
<1>5. Strangers'
  BY <1>2, <1>4 DEF Inductive, TypeOK, Strangers
<1> QED
  BY <1>2, <1>3, <1>5 DEF tables, Inductive, Mutual, NoRequestBetweenFriends

LEMMA RestartInductive ==
    ASSUME Inductive, Restart
    PROVE  Inductive'
<1>1. Offline \in Clients
  BY DEF Offline, Clients, Lists, Menus, Awaits
<1>2. TypeOK'
  BY <1>1 DEF Restart, tables, Inductive, TypeOK, Clients
<1>3. Strangers'
  BY ElementsOfShort DEF Restart, Strangers, Offline
<1> QED
  BY <1>2, <1>3 DEF Restart, tables, Inductive, Mutual, NoRequestBetweenFriends

LEMMA ReceiveInductive ==
    ASSUME Inductive, NEW p \in People, Receive(p)
    PROVE  Inductive'
<1> DEFINE answer == Head(toClient[p])
<1>1. toClient[p] \in Seq(Answers) /\ toClient[p] # <<>>
  BY DEF Inductive, TypeOK, Receive
<1>2. /\ Tail(toClient[p]) \in Seq(Answers) /\ answer \in Answers
      /\ answer \in Elements(toClient[p])
      /\ Elements(Tail(toClient[p])) \subseteq Elements(toClient[p])
  BY <1>1, ElementsOfTail
<1>3. toClient' = [toClient EXCEPT ![p] = Tail(@)]
  BY DEF Receive
<1>4. toClient' \in [People -> Seq(Answers)]
  BY <1>2, <1>3 DEF Inductive, TypeOK
<1>5. \A q \in People : \A m \in Elements(toClient'[q]) : NoSelf(q, m)
  BY <1>2, <1>3 DEF Inductive, TypeOK, Strangers
<1>6. /\ toServer' \in [People -> Seq(Requests)]
      /\ \A q \in People : \A m \in Elements(toServer'[q]) : OfOther(q, m)
  <2>1. CASE UNCHANGED toServer
    BY <2>1 DEF Inductive, TypeOK, Strangers
  <2>2. CASE toServer' = [toServer EXCEPT ![p] = Append(@, ListOf("FRIENDS"))]
    <3>1. ListOf("FRIENDS") \in Requests /\ OfOther(p, ListOf("FRIENDS"))
      BY MsgIsRequest, OnlyAccept DEF ListOf, Rows
    <3>2. toServer[p] \in Seq(Requests)
      BY DEF Inductive, TypeOK
    <3>3. /\ Append(toServer[p], ListOf("FRIENDS")) \in Seq(Requests)
          /\ Elements(Append(toServer[p], ListOf("FRIENDS")))
                = Elements(toServer[p]) \cup {ListOf("FRIENDS")}
      BY <3>1, <3>2, ElementsOfAppend
    <3> QED
      BY <2>2, <3>1, <3>3 DEF Inductive, TypeOK, Strangers
  <2> QED
    BY <2>1, <2>2 DEF Receive
<1>7. /\ client' \in [People -> Clients]
      /\ \A q \in People : q \notin client'[q].invitations
  <2>1. answer.rows \in Lists
    BY <1>2 DEF Answers
  <2>2. answer.type = "requests" => p \notin answer.rows
    BY <1>2 DEF Inductive, Strangers, NoSelf
  <2>3. CASE client' = [client EXCEPT ![p].awaits = "friends"]
    BY <2>3 DEF Inductive, TypeOK, Strangers, Clients, Awaits
  <2>0. client \in [People -> Clients] /\ \A q \in People : q \notin client[q].invitations
    BY DEF Inductive, TypeOK, Strangers, Clients
  <2> HIDE DEF answer
  <2>4. CASE client' = [client EXCEPT ![p].awaits = "nothing", ![p].friends = answer.rows]
    <3>1. client' \in [People -> Clients]
      BY <2>0, <2>1, <2>4 DEF Clients, Awaits
    <3>2. \A q \in People : client'[q].invitations = client[q].invitations
      BY <2>0, <2>4 DEF Clients
    <3> QED
      BY <2>0, <3>1, <3>2
  <2>5. CASE /\ answer.type = "requests"
             /\ client' = [client EXCEPT ![p].awaits = "nothing", ![p].invitations = answer.rows]
    <3>1. client' \in [People -> Clients]
      BY <2>0, <2>1, <2>5 DEF Clients, Awaits
    <3>2. client'[p].invitations = answer.rows
      BY <2>0, <2>5 DEF Clients
    <3>3. \A q \in People \ {p} : client'[q] = client[q]
      BY <2>0, <2>5
    <3> QED
      BY <2>0, <2>2, <2>5, <3>1, <3>2, <3>3
  <2> QED
    BY <2>3, <2>4, <2>5 DEF Receive, answer
<1>8. UNCHANGED <<up, tables, userDatabase, session>>
  BY DEF Receive
<1>9. TypeOK'
  BY <1>4, <1>6, <1>7, <1>8 DEF Inductive, TypeOK, Clients, tables
<1>10. Strangers'
  BY <1>5, <1>6, <1>7, <1>8 DEF Inductive, Strangers
<1> QED
  BY <1>8, <1>9, <1>10 DEF Inductive, Mutual, NoRequestBetweenFriends, tables

-----------------------------------------------------------------------------
(* The handlers *)

\* The message of a handler.
LEMMA MessageOf ==
    ASSUME Inductive, NEW p \in People, NEW type, Reads(p, type)
    PROVE  /\ Head(toServer[p]) \in Requests /\ Head(toServer[p]).type = type
           /\ Head(toServer[p]).who \in Rows
           /\ type = "ACCEPT" => Head(toServer[p]).who \in People \ {p}
           /\ session[p] \in {p, NoOne}
           /\ Tail(toServer[p]) \in Seq(Requests)
           /\ Elements(Tail(toServer[p])) \subseteq Elements(toServer[p])
           /\ Head(toServer[p]) \in Elements(toServer[p])
<1>1. toServer[p] \in Seq(Requests) /\ toServer[p] # <<>>
  BY DEF Inductive, TypeOK, Reads
<1>2. /\ Tail(toServer[p]) \in Seq(Requests) /\ Head(toServer[p]) \in Requests
      /\ Elements(Tail(toServer[p])) \subseteq Elements(toServer[p])
      /\ Head(toServer[p]) \in Elements(toServer[p])
  BY <1>1, ElementsOfTail
<1>3. Head(toServer[p]).who \in Rows
  BY <1>2 DEF Requests, Rows
<1>4. Head(toServer[p]).type = type
  BY DEF Reads
<1>5. session[p] \in {p, NoOne} /\ OfOther(p, Head(toServer[p]))
  BY <1>2 DEF Inductive, Strangers
<1> QED
  BY <1>2, <1>3, <1>4, <1>5 DEF OfOther

\* What the connections may be sent.
Told ==
    /\ toClient \in [People -> Seq(Answers)]
    /\ \A q \in People : \A m \in Elements(toClient[q]) : NoSelf(q, m)

LEMMA NobodyTold == ASSUME Inductive, UNCHANGED toClient PROVE Told'
BY DEF Inductive, TypeOK, Strangers, Told

LEMMA ReplyTold ==
    ASSUME Inductive, NEW p \in People, NEW type \in {"status", "friends", "requests"},
           NEW rows \in Lists, type = "requests" => p \notin rows, Reply(p, type, rows)
    PROVE  Told'
<1> DEFINE answer == [type |-> type, rows |-> rows]
<1>1. answer \in Answers /\ NoSelf(p, answer)
  BY DEF Answers, NoSelf
<1>2. toClient' = [toClient EXCEPT ![p] = Append(@, answer)]
  BY DEF Reply
<1> HIDE DEF answer
<1>3. toClient[p] \in Seq(Answers)
  BY DEF Inductive, TypeOK
<1>4. /\ Append(toClient[p], answer) \in Seq(Answers)
      /\ Elements(Append(toClient[p], answer)) = Elements(toClient[p]) \cup {answer}
  BY <1>1, <1>3, ElementsOfAppend
<1> QED
  BY <1>1, <1>2, <1>4 DEF Inductive, TypeOK, Strangers, Told

LEMMA HandledInductive ==
    ASSUME Inductive, NEW p \in People, NEW type, Reads(p, type), Done(p), Quiet, Told',
           friendRequest' \subseteq Pairs, friendList' \subseteq Pairs,
           Mutual', NoRequestBetweenFriends'
    PROVE  Inductive'
<1>1. toServer' = [toServer EXCEPT ![p] = Tail(@)]
  BY DEF Done
<1>2. /\ toServer' \in [People -> Seq(Requests)]
      /\ \A q \in People : \A m \in Elements(toServer'[q]) : OfOther(q, m)
  BY <1>1, MessageOf DEF Inductive, TypeOK, Strangers
<1>3. TypeOK'
  BY <1>2 DEF Inductive, TypeOK, Quiet, Told
<1>4. Strangers'
  BY <1>2 DEF Inductive, Strangers, Quiet, Told
<1> QED
  BY <1>3, <1>4 DEF Inductive

\* Both rows of a friendship, of requests.
LEMMA BothWays ==
    ASSUME NEW a, NEW b, NEW e
    PROVE  /\ e \in Both(a, b) <=> e = <<a, b>> \/ e = <<b, a>>
           /\ <<a, b>> \in Both(a, b) /\ <<b, a>> \in Both(a, b)
BY DEF Both

LEMMA CrashInductive == ASSUME Inductive, Crash PROVE Inductive'
<1>1. TypeOK'
  BY DEF Inductive, TypeOK, Crash, tables
<1> QED
  BY <1>1 DEF Inductive, Crash, tables, Mutual, NoRequestBetweenFriends, Strangers

LEMMA HandleInviteInductive ==
    ASSUME Inductive, NEW p \in People, HandleInvite(p)
    PROVE  Inductive'
<1> DEFINE q == Head(toServer[p]).who
           s == session[p]
<1>1. CASE Crash
  BY <1>1, CrashInductive
<1>2. CASE /\ Allowed(s, q) => s # NoOne
           /\ friendRequest' = friendRequest \cup IF Allowed(s, q) THEN {<<s, q>>} ELSE {}
           /\ Done(p) /\ Reply(p, "status", {}) /\ Quiet /\ UNCHANGED friendList
  <2>1. Reads(p, "INVITE")
    BY DEF HandleInvite
  <2>2. q \in Rows /\ s \in {p, NoOne}
    BY <2>1, MessageOf
  <2>3. Allowed(s, q) => <<s, q>> \in Pairs /\ <<s, q>> \notin friendList
    BY <1>2, <2>2 DEF Allowed, Pairs, Inductive, TypeOK
  <2> HIDE DEF q, s
  <2>4. friendRequest' \subseteq Pairs /\ friendList' \subseteq Pairs
    BY <1>2, <2>3 DEF Inductive, TypeOK
  <2>5. Mutual' /\ NoRequestBetweenFriends'
    BY <1>2, <2>3 DEF Inductive, Mutual, NoRequestBetweenFriends
  <2>6. Told'
    BY <1>2, NothingIsList, ReplyTold
  <2> QED
    BY <1>2, <2>1, <2>4, <2>5, <2>6, HandledInductive
<1> QED
  BY <1>1, <1>2 DEF HandleInvite

LEMMA HandleAcceptInductive ==
    ASSUME Inductive, NEW p \in People, HandleAccept(p)
    PROVE  Inductive'
<1> DEFINE q == Head(toServer[p]).who
           s == session[p]
<1>1. CASE Crash
  BY <1>1, CrashInductive
<1>2. CASE /\ s # NoOne /\ Both(q, s) \cap friendList = {}
           /\ friendRequest' = friendRequest \ Settled(q, s)
           /\ friendList' = friendList \cup Both(q, s)
           /\ Done(p) /\ Quiet /\ UNCHANGED toClient
  <2>1. Reads(p, "ACCEPT")
    BY DEF HandleAccept
  <2>2. q \in People /\ s \in People /\ q # s
    BY <1>2, <2>1, MessageOf
  <2>3. Both(q, s) \subseteq Pairs
    BY <2>2 DEF Both, Pairs
  <2> HIDE DEF q, s
  <2>4. friendRequest' \subseteq Pairs /\ friendList' \subseteq Pairs
    BY <1>2, <2>3 DEF Inductive, TypeOK
  <2>5. Mutual'
    <3>1. \A e \in Both(q, s) : <<e[2], e[1]>> \in Both(q, s)
      BY DEF Both
    <3> QED
      BY <1>2, <3>1 DEF Inductive, Mutual
  <2>6. NoRequestBetweenFriends'
    BY <1>2 DEF Inductive, NoRequestBetweenFriends, Settled
  <2>7. Told'
    BY <1>2, NobodyTold
  <2> QED
    BY <1>2, <2>1, <2>4, <2>5, <2>6, <2>7, HandledInductive
<1> QED
  BY <1>1, <1>2 DEF HandleAccept

LEMMA HandleRemoveInductive ==
    ASSUME Inductive, NEW p \in People, HandleRemove(p)
    PROVE  Inductive'
<1> DEFINE q == Head(toServer[p]).who
           s == session[p]
<1>1. /\ Reads(p, "REMOVE") /\ Done(p) /\ Quiet /\ UNCHANGED <<friendRequest, toClient>>
      /\ friendList' = friendList \ Both(q, s)
  BY DEF HandleRemove, Dropped
<1> HIDE DEF q, s
<1>2. friendRequest' \subseteq Pairs /\ friendList' \subseteq Pairs
  BY <1>1 DEF Inductive, TypeOK
<1>3. Mutual'
  <2>1. \A e \in friendList : <<e[2], e[1]>> \in Both(q, s) => e \in Both(q, s)
    BY DEF Both, Inductive, TypeOK, Pairs
  <2> QED
    BY <1>1, <2>1 DEF Inductive, Mutual
<1>4. NoRequestBetweenFriends'
  BY <1>1 DEF Inductive, NoRequestBetweenFriends
<1> QED
  BY <1>1, <1>2, <1>3, <1>4, NobodyTold, HandledInductive

LEMMA HandleListsInductive ==
    ASSUME Inductive, NEW p \in People, HandleFriends(p) \/ HandleRequests(p)
    PROVE  Inductive'
<1>1. /\ Reads(p, "FRIENDS") \/ Reads(p, "REQUESTS")
      /\ Done(p) /\ Quiet /\ UNCHANGED <<friendRequest, friendList>>
  BY DEF HandleFriends, HandleRequests
<1>3. Told'
  <2>1. CASE HandleFriends(p)
    BY <2>1, ReplyTold DEF HandleFriends, Lists
  <2>2. CASE HandleRequests(p)
    <3> DEFINE rows == {q \in People : <<q, p>> \in friendRequest}
    <3>1. Reply(p, "requests", rows)
      BY <2>2 DEF HandleRequests
    <3>2. p \notin rows
      BY DEF Inductive, TypeOK, Pairs
    <3> HIDE DEF rows
    <3>3. rows \in Lists
      BY DEF rows, Lists
    <3> QED
      BY <3>1, <3>2, <3>3, ReplyTold
  <2> QED
    BY <2>1, <2>2
<1>4. /\ friendRequest' \subseteq Pairs /\ friendList' \subseteq Pairs
      /\ Mutual' /\ NoRequestBetweenFriends'
  BY <1>1 DEF Inductive, TypeOK, Mutual, NoRequestBetweenFriends
<1> QED
  BY <1>1, <1>3, <1>4, HandledInductive

-----------------------------------------------------------------------------
(* The invariants *)

LEMMA StepInductive ==
    ASSUME Inductive, [Next]_vars
    PROVE  Inductive'
<1>1. CASE UNCHANGED vars
  <2>1. TypeOK'
    BY <1>1 DEF vars, Inductive, TypeOK
  <2> QED
    BY <1>1, <2>1 DEF vars, Inductive, Mutual, NoRequestBetweenFriends, Strangers
<1>2. CASE Restart
  BY <1>2, RestartInductive
<1>3. ASSUME NEW p \in People, Register(p) \/ Login(p) \/ Back(p) \/ Quit(p)
      PROVE  Inductive'
  BY <1>3, AccountInductive, QuitInductive
<1>4. ASSUME NEW p \in People, OpenProfile(p) \/ OpenInvitations(p) \/ Refresh(p)
      PROVE  Inductive'
  BY <1>4, SendsListOf DEF OpenProfile, OpenInvitations, Refresh, Menus, Awaits
<1>5. ASSUME NEW p \in People, Receive(p) PROVE Inductive'
  BY <1>5, ReceiveInductive
<1>6. ASSUME NEW p \in People, Serve(p) PROVE Inductive'
  BY <1>6, HandleInviteInductive, HandleAcceptInductive, HandleRemoveInductive,
     HandleListsInductive DEF Serve
<1>7. ASSUME NEW p \in People, NEW q \in Rows,
             AddFriend(p, q) \/ DeleteFriend(p, q) \/ AcceptInvitation(p, q)
      PROVE  Inductive'
  BY <1>7, AddFriendInductive, DeleteFriendInductive, AcceptInvitationInductive
<1> QED
  BY <1>1, <1>2, <1>3, <1>4, <1>5, <1>6, <1>7 DEF Next, Rows

\* The inductive invariant holds in every reachable state.
THEOREM InductiveHolds == Spec => []Inductive
BY InitInductive, StepInductive, PTL DEF Spec

\* Every reachable state is well typed: in particular, no message leads to a
\* request to oneself or to a friendship with oneself.
THEOREM TypeCorrect == Spec => []TypeOK
<1>1. Inductive => TypeOK
  BY DEF Inductive
<1> QED
  BY <1>1, InductiveHolds, PTL

\* friend_list is symmetric, whatever people accept, remove and ask at once
\* (acceptFriendinvite, removeFriend).
THEOREM MutualHolds == Spec => []Mutual
<1>1. Inductive => Mutual
  BY DEF Inductive
<1> QED
  BY <1>1, InductiveHolds, PTL

\* No request is left between friends, crossed requests included
\* (acceptFriendinvite, processInviteRequest).
THEOREM NoRequestBetweenFriendsHolds == Spec => []NoRequestBetweenFriends
<1>1. Inductive => NoRequestBetweenFriends
  BY DEF Inductive
<1> QED
  BY <1>1, InductiveHolds, PTL

-----------------------------------------------------------------------------
(* Where a request of a to b may still be open. *)

InMenu(a, b) == a \in client[b].invitations
UnderWay(a, b) == \E m \in Elements(toClient[b]) : m.type = "requests" /\ a \in m.rows
BeingAccepted(a, b) == Msg("ACCEPT", a) \in Elements(toServer[b])
IsOpen(a, b) ==
    \/ <<a, b>> \in friendRequest
    \/ InMenu(a, b) \/ UnderWay(a, b) \/ BeingAccepted(a, b)

LEMMA OpenIs == Open = {e \in People \X People : IsOpen(e[1], e[2])}
<1>1. ASSUME NEW a \in People, NEW b \in People
      PROVE  <<a, b>> \in Open <=> IsOpen(a, b)
  <2>1. UnderWay(a, b) <=>
          \E i \in DOMAIN toClient[b] :
            toClient[b][i].type = "requests" /\ a \in toClient[b][i].rows
    BY DEF UnderWay, Elements
  <2>2. BeingAccepted(a, b) <=> \E i \in DOMAIN toServer[b] : toServer[b][i] = Msg("ACCEPT", a)
    BY DEF BeingAccepted, Elements
  <2> QED
    BY <2>1, <2>2 DEF Open, IsOpen, InMenu
<1> QED
  BY <1>1 DEF Open

\* Whether a request is open depends on the variables of whom it is made to.
LEMMA OpenShrinks ==
    ASSUME \A a, b \in People : IsOpen(a, b)' => IsOpen(a, b)
    PROVE  Open' \subseteq Open
<1>1. (Open = {e \in People \X People : IsOpen(e[1], e[2])})'
  BY OpenIs, PTL
<1> QED
  BY <1>1, OpenIs

-----------------------------------------------------------------------------
(* The pairs of friends. *)

PairsOfFriends == {{e[1], e[2]} : e \in friendList}

LEMMA PairOf ==
    ASSUME Inductive, NEW a, NEW b
    PROVE  {a, b} \in PairsOfFriends <=> <<a, b>> \in friendList
<1>1. <<a, b>> \in friendList => {a, b} \in PairsOfFriends
  BY DEF PairsOfFriends
<1>2. ASSUME NEW e \in friendList, {a, b} = {e[1], e[2]}
      PROVE  <<a, b>> \in friendList
  <2>1. e = <<e[1], e[2]>> /\ e[1] # e[2] /\ <<e[2], e[1]>> \in friendList
    BY DEF Inductive, TypeOK, Pairs, Mutual
  <2>2. (a = e[1] /\ b = e[2]) \/ (a = e[2] /\ b = e[1])
    BY <1>2, <2>1
  <2> QED
    BY <2>1, <2>2
<1> QED
  BY <1>1, <1>2 DEF PairsOfFriends

-----------------------------------------------------------------------------
(* Steps that open no request and make no friends. *)

Forgets == Open' \subseteq Open /\ UNCHANGED friendList

LEMMA SendsForgets ==
    ASSUME Inductive, NEW p \in People, NEW msgs \in Seq(Requests), NEW m, NEW answer,
           Sends(p, msgs, m, answer), \A x \in Elements(msgs) : x.type # "ACCEPT"
    PROVE  Forgets
<1>1. /\ toServer[p] \in Seq(Requests)
      /\ toServer' = [toServer EXCEPT ![p] = @ \o msgs]
  BY DEF Inductive, TypeOK, Sends
<1>2. Elements(toServer[p] \o msgs) = Elements(toServer[p]) \cup Elements(msgs)
  BY <1>1, ElementsOfConcat
<1>3. ASSUME NEW a \in People, NEW b \in People, BeingAccepted(a, b)'
      PROVE  BeingAccepted(a, b)
  <2>1. Msg("ACCEPT", a).type = "ACCEPT"
    BY DEF Msg
  <2>2. Msg("ACCEPT", a) \notin Elements(msgs)
    BY <2>1
  <2> QED
    BY <1>1, <1>2, <1>3, <2>2 DEF BeingAccepted, Inductive, TypeOK
<1>4. \A b \in People : client'[b].invitations = client[b].invitations
  BY DEF Sends, Inductive, TypeOK
<1>5. UNCHANGED <<friendRequest, friendList, toClient>>
  BY DEF Sends, tables
<1>6. \A a, b \in People : IsOpen(a, b)' => IsOpen(a, b)
  BY <1>3, <1>4, <1>5 DEF IsOpen, InMenu, UnderWay
<1> QED
  BY <1>5, <1>6, OpenShrinks DEF Forgets

LEMMA MenuForgets ==
    ASSUME Inductive, NEW p \in People, NEW q \in Rows,
           \/ OpenProfile(p) \/ OpenInvitations(p) \/ Refresh(p)
           \/ AddFriend(p, q) \/ DeleteFriend(p, q)
    PROVE  Forgets
<1>1. ASSUME NEW type \in {"FRIENDS", "REQUESTS"}
      PROVE  /\ <<ListOf(type)>> \in Seq(Requests)
             /\ \A x \in Elements(<<ListOf(type)>>) : x.type # "ACCEPT"
  <2>1. ListOf(type) \in Requests /\ ListOf(type).type = type
    BY MsgIsRequest DEF ListOf, Msg, Rows
  <2>2. Elements(<<ListOf(type)>>) = {ListOf(type)}
    BY ElementsOfShort
  <2> QED
    BY <2>1, <2>2
<1>2. /\ <<Msg("INVITE", q)>> \in Seq(Requests)
      /\ \A x \in Elements(<<Msg("INVITE", q)>>) : x.type # "ACCEPT"
  <2>1. Msg("INVITE", q) \in Requests /\ Msg("INVITE", q).type = "INVITE"
    BY MsgIsRequest DEF Msg
  <2>2. Elements(<<Msg("INVITE", q)>>) = {Msg("INVITE", q)}
    BY ElementsOfShort
  <2> QED
    BY <2>1, <2>2
<1>3. /\ <<Msg("REMOVE", q), ListOf("FRIENDS")>> \in Seq(Requests)
      /\ \A x \in Elements(<<Msg("REMOVE", q), ListOf("FRIENDS")>>) : x.type # "ACCEPT"
  <2>1. /\ Msg("REMOVE", q) \in Requests /\ Msg("REMOVE", q).type = "REMOVE"
        /\ ListOf("FRIENDS") \in Requests /\ ListOf("FRIENDS").type = "FRIENDS"
    BY MsgIsRequest DEF ListOf, Msg, Rows
  <2>2. Elements(<<Msg("REMOVE", q), ListOf("FRIENDS")>>) = {Msg("REMOVE", q), ListOf("FRIENDS")}
    BY ElementsOfShort
  <2> QED
    BY <2>1, <2>2
<1>4. CASE OpenProfile(p) \/ OpenInvitations(p) \/ Refresh(p)
  BY <1>1, <1>4, SendsForgets DEF OpenProfile, OpenInvitations, Refresh
<1>5. CASE AddFriend(p, q)
  BY <1>2, <1>5, SendsForgets DEF AddFriend
<1>6. CASE DeleteFriend(p, q)
  BY <1>3, <1>6, SendsForgets DEF DeleteFriend
<1> QED
  BY <1>4, <1>5, <1>6

LEMMA AccountForgets ==
    ASSUME Inductive, NEW p \in People, Register(p) \/ Login(p) \/ Back(p)
    PROVE  Forgets
<1>1. client' = [client EXCEPT ![p].menu = "main"]
  BY DEF Register, Login, Back
<1>2. UNCHANGED <<friendRequest, friendList, toServer, toClient>>
  BY DEF Register, Login, Back, tables
<1>3. \A b \in People : client'[b].invitations = client[b].invitations
  BY <1>1 DEF Inductive, TypeOK
<1>4. \A a, b \in People : IsOpen(a, b)' => IsOpen(a, b)
  BY <1>2, <1>3 DEF IsOpen, InMenu, UnderWay, BeingAccepted
<1> QED
  BY <1>2, <1>4, OpenShrinks DEF Forgets

LEMMA QuitForgets == ASSUME Inductive, NEW p \in People, Quit(p) PROVE Forgets
<1>1. UNCHANGED <<friendRequest, friendList, toServer, toClient>>
  BY DEF Quit, tables
<1>2. \A b \in People : client'[b].invitations \in {client[b].invitations, {}}
  BY DEF Quit, Offline, Inductive, TypeOK
<1>3. \A a, b \in People : IsOpen(a, b)' => IsOpen(a, b)
  BY <1>1, <1>2 DEF IsOpen, InMenu, UnderWay, BeingAccepted
<1> QED
  BY <1>1, <1>3, OpenShrinks DEF Forgets

LEMMA RestartForgets == ASSUME Inductive, Restart PROVE Forgets
<1>1. UNCHANGED <<friendRequest, friendList>>
  BY DEF Restart, tables
<1>2. ASSUME NEW b \in People
      PROVE  /\ Elements(toServer'[b]) = {} /\ Elements(toClient'[b]) = {}
             /\ client'[b].invitations = {}
  BY ElementsOfShort DEF Restart, Offline
<1>3. \A a, b \in People : IsOpen(a, b)' => IsOpen(a, b)
  BY <1>1, <1>2 DEF IsOpen, InMenu, UnderWay, BeingAccepted
<1> QED
  BY <1>1, <1>3, OpenShrinks DEF Forgets

LEMMA AcceptInvitationForgets ==
    ASSUME Inductive, NEW p \in People, NEW q \in Rows, AcceptInvitation(p, q)
    PROVE  Forgets
<1> DEFINE msgs == <<Msg("ACCEPT", q), ListOf("REQUESTS")>>
           shown == client[p].invitations
           left == shown \ {q}
<1>1. toServer' = [toServer EXCEPT ![p] = @ \o msgs]
  BY DEF AcceptInvitation
<1>2. Elements(msgs) = {Msg("ACCEPT", q), ListOf("REQUESTS")} /\ msgs \in Seq(Requests)
  <2>1. Msg("ACCEPT", q) \in Requests /\ ListOf("REQUESTS") \in Requests
    BY MsgIsRequest DEF ListOf, Rows
  <2>2. Elements(msgs) = {Msg("ACCEPT", q), ListOf("REQUESTS")}
    BY ElementsOfShort
  <2> QED
    BY <2>1, <2>2
<1>3. client' = [client EXCEPT ![p].awaits = "requests", ![p].invitations = left]
  BY DEF AcceptInvitation, Inductive, TypeOK
<1>4. q \in shown /\ left \subseteq shown
  BY DEF AcceptInvitation
<1> HIDE DEF msgs, left
<1>5. toServer[p] \in Seq(Requests)
  BY DEF Inductive, TypeOK
<1>6. Elements(toServer[p] \o msgs) = Elements(toServer[p]) \cup Elements(msgs)
  BY <1>2, <1>5, ElementsOfConcat
<1>7. ASSUME NEW a \in People, NEW b \in People, BeingAccepted(a, b)'
      PROVE  IsOpen(a, b)
  <2>1. ASSUME b = p, Msg("ACCEPT", a) = Msg("ACCEPT", q) PROVE IsOpen(a, b)
    <3>1. a = q
      BY <2>1 DEF Msg
    <3> QED
      BY <1>4, <2>1, <3>1 DEF IsOpen, InMenu
  <2>2. Msg("ACCEPT", a) # ListOf("REQUESTS")
    BY DEF ListOf, Msg
  <2>3. BeingAccepted(a, b) \/ (b = p /\ Msg("ACCEPT", a) \in Elements(msgs))
    BY <1>1, <1>6, <1>7 DEF BeingAccepted, Inductive, TypeOK
  <2> QED
    BY <1>2, <2>1, <2>2, <2>3 DEF IsOpen
<1>8. ASSUME NEW a \in People, NEW b \in People, InMenu(a, b)' PROVE InMenu(a, b)
  <2>1. client'[p].invitations = left
    BY <1>3 DEF Inductive, TypeOK
  <2>2. b # p => client'[b] = client[b]
    BY <1>3 DEF Inductive, TypeOK
  <2> QED
    BY <1>4, <1>8, <2>1, <2>2 DEF InMenu
<1>9. UNCHANGED <<friendRequest, friendList, toClient>>
  BY DEF AcceptInvitation, tables
<1>10. \A a, b \in People : IsOpen(a, b)' => IsOpen(a, b)
  BY <1>7, <1>8, <1>9 DEF IsOpen, UnderWay
<1> QED
  BY <1>9, <1>10, OpenShrinks DEF Forgets

\* The invitations an answer brings were under way, and the list that a status
\* makes the client ask for accepts nothing.
LEMMA ReceiveForgets ==
    ASSUME Inductive, NEW p \in People, Receive(p)
    PROVE  Forgets
<1> DEFINE answer == Head(toClient[p])
           rest == Tail(toClient[p])
<1>1. /\ answer \in Elements(toClient[p])
      /\ Elements(rest) \subseteq Elements(toClient[p])
  BY ElementsOfTail DEF Receive, Inductive, TypeOK
<1>2. toClient' = [toClient EXCEPT ![p] = rest] /\ UNCHANGED <<friendRequest, friendList>>
  BY DEF Receive, tables
<1>3. ASSUME NEW a \in People, NEW b \in People, UnderWay(a, b)' PROVE UnderWay(a, b)
  <2>1. Elements(toClient'[b]) \subseteq Elements(toClient[b])
    BY <1>1, <1>2 DEF Inductive, TypeOK
  <2> QED
    BY <1>3, <2>1 DEF UnderWay
<1>4. ASSUME NEW a \in People, NEW b \in People, BeingAccepted(a, b)'
      PROVE  BeingAccepted(a, b)
  <2>1. toServer[p] \in Seq(Requests) /\ ListOf("FRIENDS") \in Requests
    BY MsgIsRequest DEF Inductive, TypeOK, ListOf, Rows
  <2>2. Elements(Append(toServer[p], ListOf("FRIENDS")))
          = Elements(toServer[p]) \cup {ListOf("FRIENDS")}
    BY <2>1, ElementsOfAppend
  <2>3. Msg("ACCEPT", a) # ListOf("FRIENDS")
    BY DEF ListOf, Msg
  <2>4. CASE answer.type = "status"
    <3>1. toServer' = [toServer EXCEPT ![p] = Append(@, ListOf("FRIENDS"))]
      BY <2>4 DEF Receive
    <3> QED
      BY <1>4, <2>2, <2>3, <3>1 DEF BeingAccepted, Inductive, TypeOK
  <2>5. CASE answer.type # "status"
    BY <1>4, <2>5 DEF Receive, BeingAccepted
  <2> QED
    BY <2>4, <2>5
<1>5. ASSUME NEW a \in People, NEW b \in People, InMenu(a, b)'
      PROVE  InMenu(a, b) \/ UnderWay(a, b)
  <2>1. CASE answer.type = "requests"
    <3>1. client' = [client EXCEPT ![p].awaits = "nothing", ![p].invitations = answer.rows]
      BY <2>1 DEF Receive
    <3>2. b = p => client'[b].invitations = answer.rows
      BY <3>1 DEF Inductive, TypeOK
    <3>3. b # p => client'[b] = client[b]
      BY <3>1 DEF Inductive, TypeOK
    <3> QED
      BY <1>1, <1>5, <2>1, <3>2, <3>3 DEF InMenu, UnderWay
  <2>2. CASE answer.type # "requests"
    <3>1. \/ client' = [client EXCEPT ![p].awaits = "friends"]
          \/ client' = [client EXCEPT ![p].awaits = "nothing", ![p].friends = answer.rows]
      BY <2>2 DEF Receive
    <3>2. client'[b].invitations = client[b].invitations
      <4>1. CASE client' = [client EXCEPT ![p].awaits = "friends"]
        BY <4>1 DEF Inductive, TypeOK
      <4>2. CASE client' = [client EXCEPT ![p].awaits = "nothing", ![p].friends = answer.rows]
        BY <4>2 DEF Inductive, TypeOK
      <4> QED
        BY <3>1, <4>1, <4>2
    <3> QED
      BY <1>5, <3>2 DEF InMenu
  <2> QED
    BY <2>1, <2>2
<1>6. \A a, b \in People : IsOpen(a, b)' => IsOpen(a, b)
  BY <1>2, <1>3, <1>4, <1>5 DEF IsOpen
<1> QED
  BY <1>2, <1>6, OpenShrinks DEF Forgets

-----------------------------------------------------------------------------
(* What the handlers have in common. *)

LEMMA ElementsOfHead ==
    ASSUME NEW R, NEW s \in Seq(R), s # <<>>
    PROVE  Elements(s) = {Head(s)} \cup Elements(Tail(s))
<1>1. ASSUME NEW i \in DOMAIN s PROVE s[i] \in {Head(s)} \cup Elements(Tail(s))
  <2>1. CASE i = 1
    BY <2>1
  <2>2. CASE i # 1
    <3>1. i - 1 \in DOMAIN Tail(s) /\ Tail(s)[i - 1] = s[i]
      BY <2>2
    <3> QED
      BY <3>1 DEF Elements
  <2> QED
    BY <2>1, <2>2
<1>2. Elements(s) \subseteq {Head(s)} \cup Elements(Tail(s))
  BY <1>1 DEF Elements
<1> QED
  BY <1>2, ElementsOfTail

\* Reading a message leaves the menus alone and no new acceptance behind.
LEMMA ReadNarrows ==
    ASSUME Inductive, NEW p \in People, NEW type, Reads(p, type), Done(p), Quiet,
           NEW a \in People, NEW b \in People
    PROVE  /\ BeingAccepted(a, b)' => BeingAccepted(a, b)
           /\ InMenu(a, b)' <=> InMenu(a, b)
<1>1. toServer' = [toServer EXCEPT ![p] = Tail(@)] /\ client' = client
  BY DEF Done, Quiet
<1>2. Elements(Tail(toServer[p])) \subseteq Elements(toServer[p])
  BY ElementsOfTail DEF Reads, Inductive, TypeOK
<1>3. Elements(toServer'[b]) \subseteq Elements(toServer[b])
  BY <1>1, <1>2 DEF Inductive, TypeOK
<1> QED
  BY <1>1, <1>3 DEF BeingAccepted, InMenu

\* Only an answer with requests puts any under way.
LEMMA ReplyUnderWay ==
    ASSUME Inductive, NEW p \in People, NEW type \in {"status", "friends", "requests"},
           NEW rows \in Lists, Reply(p, type, rows), NEW a \in People, NEW b \in People,
           UnderWay(a, b)'
    PROVE  UnderWay(a, b) \/ (b = p /\ type = "requests" /\ a \in rows)
<1> DEFINE answer == [type |-> type, rows |-> rows]
<1>1. answer \in Answers /\ toClient[p] \in Seq(Answers)
  BY DEF Answers, Inductive, TypeOK
<1>2. answer.type = type /\ answer.rows = rows
  OBVIOUS
<1>3. toClient' = [toClient EXCEPT ![p] = Append(@, answer)]
  BY DEF Reply
<1> HIDE DEF answer
<1>4. Elements(Append(toClient[p], answer)) = Elements(toClient[p]) \cup {answer}
  BY <1>1, ElementsOfAppend
<1> QED
  BY <1>2, <1>3, <1>4 DEF UnderWay, Inductive, TypeOK

\* A message that accepts nothing closes no request when it is read, nor does
\* an answer.
LEMMA ReadKeeps ==
    ASSUME Inductive, NEW p \in People, NEW type, type # "ACCEPT", Reads(p, type), Done(p),
           NEW a \in People, NEW b \in People, BeingAccepted(a, b)
    PROVE  BeingAccepted(a, b)'
<1>1. toServer' = [toServer EXCEPT ![p] = Tail(@)]
  BY DEF Done
<1>2. toServer[p] \in Seq(Requests) /\ toServer[p] # <<>> /\ Head(toServer[p]).type = type
  BY DEF Reads, Inductive, TypeOK
<1>3. Elements(toServer[p]) = {Head(toServer[p])} \cup Elements(Tail(toServer[p]))
  BY <1>2, ElementsOfHead
<1>4. Msg("ACCEPT", a).type = "ACCEPT"
  BY DEF Msg
<1> QED
  BY <1>1, <1>2, <1>3, <1>4 DEF BeingAccepted, Inductive, TypeOK

LEMMA ReplyKeeps ==
    ASSUME Inductive, NEW p \in People, NEW type \in {"status", "friends", "requests"},
           NEW rows \in Lists, Reply(p, type, rows), NEW a \in People, NEW b \in People,
           UnderWay(a, b)
    PROVE  UnderWay(a, b)'
<1> DEFINE answer == [type |-> type, rows |-> rows]
<1>1. answer \in Answers /\ toClient[p] \in Seq(Answers)
  BY DEF Answers, Inductive, TypeOK
<1>2. toClient' = [toClient EXCEPT ![p] = Append(@, answer)]
  BY DEF Reply
<1> HIDE DEF answer
<1>3. Elements(Append(toClient[p], answer)) = Elements(toClient[p]) \cup {answer}
  BY <1>1, ElementsOfAppend
<1>4. Elements(toClient[b]) \subseteq Elements(toClient'[b])
  BY <1>2, <1>3 DEF Inductive, TypeOK
<1> QED
  BY <1>4 DEF UnderWay

LEMMA CrashForgets == ASSUME Crash PROVE Forgets
BY DEF Crash, tables, Forgets, Open

LEMMA HandleListsForgets ==
    ASSUME Inductive, NEW p \in People, HandleFriends(p) \/ HandleRequests(p)
    PROVE  Forgets
<1>1. /\ Done(p) /\ Quiet /\ UNCHANGED <<friendRequest, friendList>>
      /\ Reads(p, "FRIENDS") \/ Reads(p, "REQUESTS")
  BY DEF HandleFriends, HandleRequests
<1>2. ASSUME NEW a \in People, NEW b \in People, UnderWay(a, b)' PROVE IsOpen(a, b)
  <2>1. CASE HandleFriends(p)
    <3> DEFINE rows == {x \in People : <<p, x>> \in friendList}
    <3>1. Reply(p, "friends", rows) /\ rows \in Lists
      BY <2>1 DEF HandleFriends, Lists
    <3> HIDE DEF rows
    <3> QED
      BY <1>2, <3>1, ReplyUnderWay DEF IsOpen
  <2>2. CASE HandleRequests(p)
    <3> DEFINE rows == {x \in People : <<x, p>> \in friendRequest}
    <3>1. Reply(p, "requests", rows) /\ rows \in Lists
      BY <2>2 DEF HandleRequests, Lists
    <3>2. a \in rows <=> <<a, p>> \in friendRequest
      OBVIOUS
    <3> HIDE DEF rows
    <3>3. UnderWay(a, b) \/ (b = p /\ a \in rows)
      BY <1>2, <3>1, ReplyUnderWay
    <3> QED
      BY <3>2, <3>3 DEF IsOpen
  <2> QED
    BY <2>1, <2>2
<1>3. \A a, b \in People : IsOpen(a, b)' => IsOpen(a, b)
  BY <1>1, <1>2, ReadNarrows DEF IsOpen
<1> QED
  BY <1>1, <1>3, OpenShrinks DEF Forgets

-----------------------------------------------------------------------------
(* The handlers that change the tables. *)

\* INVITE by somebody who may opens one request, between people that are not
\* friends; otherwise it changes neither table.
LEMMA HandleInviteAsks ==
    ASSUME Inductive, NEW p \in People, HandleInvite(p)
    PROVE  Forgets \/ \E a, b \in People : Contract!Ask(a, b)
<1> DEFINE q == Head(toServer[p]).who
           s == session[p]
<1>1. CASE Crash
  BY <1>1, CrashForgets
<1>2. CASE ~Crash
  <2>1. /\ Reads(p, "INVITE") /\ Done(p) /\ Reply(p, "status", {}) /\ Quiet
        /\ UNCHANGED friendList /\ (Allowed(s, q) => s # NoOne)
        /\ friendRequest' = friendRequest \cup IF Allowed(s, q) THEN {<<s, q>>} ELSE {}
    BY <1>2 DEF HandleInvite
  <2>2. ASSUME NEW a \in People, NEW b \in People
        PROVE  /\ UnderWay(a, b)' => UnderWay(a, b)
               /\ BeingAccepted(a, b)' => BeingAccepted(a, b)
               /\ InMenu(a, b)' => InMenu(a, b)
    BY <2>1, ReadNarrows, ReplyUnderWay, NothingIsList
  <2>3. CASE ~Allowed(s, q)
    <3>1. friendRequest' = friendRequest
      BY <2>1, <2>3
    <3>2. \A a, b \in People : IsOpen(a, b)' => IsOpen(a, b)
      BY <2>2, <3>1 DEF IsOpen
    <3> QED
      BY <2>1, <3>2, OpenShrinks DEF Forgets
  <2>4. CASE Allowed(s, q)
    <3>1. s \in People /\ q \in People /\ s # q /\ <<s, q>> \notin friendList
      BY <2>1, <2>4, MessageOf DEF Allowed, Inductive, TypeOK
    <3>2. PICK x \in People, y \in People : x = s /\ y = q
      BY <3>1
    <3>3. {x, y} \notin PairsOfFriends
      BY <3>1, <3>2, PairOf
    <3>4. friendRequest' = friendRequest \cup {<<x, y>>}
      BY <2>1, <2>4, <3>2
    <3>5. ASSUME NEW a \in People, NEW b \in People
          PROVE  IsOpen(a, b)' <=> IsOpen(a, b) \/ (a = x /\ b = y)
      <4>1. BeingAccepted(a, b) => BeingAccepted(a, b)'
        BY <2>1, ReadKeeps
      <4>2. UnderWay(a, b) => UnderWay(a, b)'
        BY <2>1, ReplyKeeps, NothingIsList
      <4>3. InMenu(a, b) => InMenu(a, b)'
        BY <2>1, ReadNarrows
      <4> QED
        BY <2>2, <3>4, <4>1, <4>2, <4>3 DEF IsOpen
    <3>6. (Open = {e \in People \X People : IsOpen(e[1], e[2])})'
      BY OpenIs, PTL
    <3>7. ASSUME NEW e \in People \X People
          PROVE  e \in Open' <=> e \in Open \/ e = <<x, y>>
      BY <3>5, <3>6, OpenIs
    <3>8. Open \subseteq People \X People /\ Open' \subseteq People \X People
      BY <3>6, OpenIs
    <3>9. Open' = Open \cup {<<x, y>>}
      BY <3>7, <3>8
    <3>10. Contract!Ask(x, y)
      BY <2>1, <3>1, <3>2, <3>3, <3>9 DEF Contract!Ask, PairsOfFriends
    <3> QED
      BY <3>10
  <2> QED
    BY <2>3, <2>4
<1> QED
  BY <1>1, <1>2

\* ACCEPT makes friends of two people only while a request of the other was open
\* for the one that accepts: its own message was one.
LEMMA HandleAcceptAgrees ==
    ASSUME Inductive, NEW p \in People, HandleAccept(p)
    PROVE  Forgets \/ \E a, b \in People : Contract!Agree(a, b)
<1> DEFINE q == Head(toServer[p]).who
           s == session[p]
<1>1. CASE Crash
  BY <1>1, CrashForgets
<1>2. CASE ~Crash
  <2>1. /\ Reads(p, "ACCEPT") /\ s # NoOne /\ Both(q, s) \cap friendList = {}
        /\ friendRequest' = friendRequest \ Both(q, s)
        /\ friendList' = friendList \cup Both(q, s)
        /\ Done(p) /\ Quiet /\ UNCHANGED toClient
    BY <1>2 DEF HandleAccept, Settled
  <2>2. s = p /\ q \in People \ {p}
    BY <2>1, MessageOf
  <2>3. <<q, s>> \notin friendList
    BY <2>1, BothWays
  <2>4. {q, s} \notin PairsOfFriends
    BY <2>3, PairOf
  <2>5. <<q, s>> \in Open
    <3>1. toServer[p] \in Seq(Requests) /\ toServer[p] # <<>>
      BY <2>1 DEF Reads, Inductive, TypeOK
    <3>2. Head(toServer[p]) \in Elements(toServer[p])
      BY <3>1, ElementsOfTail
    <3>3. Head(toServer[p]) = Msg("ACCEPT", q)
      BY <2>1, MessageOf DEF Reads, Requests, Msg
    <3>4. IsOpen(q, s)
      BY <2>2, <3>2, <3>3 DEF IsOpen, BeingAccepted
    <3> QED
      BY <2>2, <3>4, OpenIs
  <2>6. PairsOfFriends' = PairsOfFriends \cup {{q, s}}
    <3>1. friendList' = friendList \cup {<<q, s>>, <<s, q>>}
      BY <2>1 DEF Both
    <3>2. {<<q, s>>[1], <<q, s>>[2]} = {q, s} /\ {<<s, q>>[1], <<s, q>>[2]} = {q, s}
      OBVIOUS
    <3> QED
      BY <3>1, <3>2 DEF PairsOfFriends
  <2>7. \A a, b \in People : IsOpen(a, b)' => IsOpen(a, b)
    BY <2>1, ReadNarrows DEF IsOpen, UnderWay
  <2>8. PICK x \in People, y \in People : x = q /\ y = s
    BY <2>2
  <2>9. Contract!Agree(x, y)
    BY <2>4, <2>5, <2>6, <2>7, <2>8, OpenShrinks DEF Contract!Agree, PairsOfFriends
  <2> QED
    BY <2>9
<1> QED
  BY <1>1, <1>2

\* REMOVE takes both rows of one friendship away, or no row.
LEMMA HandleRemoveParts ==
    ASSUME Inductive, NEW p \in People, HandleRemove(p)
    PROVE  Forgets \/ \E a, b \in People : Contract!Part(a, b)
<1> DEFINE q == Head(toServer[p]).who
           s == session[p]
<1>1. /\ Reads(p, "REMOVE") /\ Done(p) /\ Quiet /\ UNCHANGED <<friendRequest, toClient>>
      /\ friendList' = friendList \ Both(q, s)
  BY DEF HandleRemove, Dropped
<1>2. Open' \subseteq Open
  <2>1. \A a, b \in People : IsOpen(a, b)' => IsOpen(a, b)
    BY <1>1, ReadNarrows DEF IsOpen, UnderWay
  <2> QED
    BY <2>1, OpenShrinks
<1>3. CASE friendList' = friendList
  BY <1>2, <1>3 DEF Forgets
<1>4. CASE friendList' # friendList
  <2>1. q \in People /\ s \in People
    <3>1. PICK e \in friendList : e \in Both(q, s)
      BY <1>1, <1>4
    <3>2. e \in People \X People
      BY DEF Inductive, TypeOK, Pairs
    <3>3. e = <<q, s>> \/ e = <<s, q>>
      BY <3>1, BothWays
    <3> QED
      BY <3>2, <3>3
  <2>2. PairsOfFriends' = PairsOfFriends \ {{q, s}}
    <3>1. ASSUME NEW e \in friendList
          PROVE  e \in Both(q, s) <=> {e[1], e[2]} = {q, s}
      <4>1. e = <<e[1], e[2]>>
        BY DEF Inductive, TypeOK, Pairs
      <4>2. e \in Both(q, s) <=> (e[1] = q /\ e[2] = s) \/ (e[1] = s /\ e[2] = q)
        <5>1. e \in Both(q, s) <=> e = <<q, s>> \/ e = <<s, q>>
          BY BothWays
        <5> QED
          BY <4>1, <5>1
      <4>3. e[1] # e[2]
        BY DEF Inductive, TypeOK, Pairs
      <4> QED
        BY <4>2, <4>3
    <3> QED
      BY <1>1, <3>1 DEF PairsOfFriends
  <2>3. PICK x \in People, y \in People : x = q /\ y = s
    BY <2>1
  <2>4. Contract!Part(x, y)
    BY <1>2, <2>2, <2>3 DEF Contract!Part, PairsOfFriends
  <2> QED
    BY <2>4
<1> QED
  BY <1>3, <1>4

-----------------------------------------------------------------------------
(* The refinement. *)

LEMMA InitContract == Init => Contract!Init
<1> SUFFICES ASSUME Init PROVE Contract!Init
  OBVIOUS
<1>1. \A b \in People :
        /\ Elements(toServer[b]) = {} /\ Elements(toClient[b]) = {}
        /\ client[b].invitations = {}
  BY ElementsOfShort DEF Init, Offline
<1>2. \A a, b \in People : ~IsOpen(a, b)
  BY <1>1 DEF Init, IsOpen, InMenu, UnderWay, BeingAccepted
<1>3. Open = {}
  BY <1>2, OpenIs
<1>4. friendList = {}
  BY DEF Init
<1> QED
  BY <1>3, <1>4 DEF Contract!Init

LEMMA StepContract ==
    ASSUME Inductive, [Next]_vars
    PROVE  [Contract!Next]_(Contract!vars)
<1>1. Forgets => Contract!Next
  BY DEF Forgets, Contract!Next, Contract!Forget
<1>2. CASE UNCHANGED vars
  <2>1. Open' = Open /\ PairsOfFriends' = PairsOfFriends
    BY <1>2 DEF vars, Open, PairsOfFriends
  <2> QED
    BY <2>1 DEF Contract!vars, PairsOfFriends
<1>3. CASE Restart
  BY <1>1, <1>3, RestartForgets
<1>4. ASSUME NEW p \in People, Register(p) \/ Login(p) \/ Back(p) \/ Quit(p)
      PROVE  Contract!Next
  BY <1>1, <1>4, AccountForgets, QuitForgets
<1>5. ASSUME NEW p \in People, OpenProfile(p) \/ OpenInvitations(p) \/ Refresh(p)
      PROVE  Contract!Next
  BY <1>1, <1>5, MenuForgets DEF Rows
<1>6. ASSUME NEW p \in People, Receive(p) PROVE Contract!Next
  BY <1>1, <1>6, ReceiveForgets
<1>7. ASSUME NEW p \in People, Serve(p) PROVE Contract!Next
  <2>1. CASE HandleInvite(p)
    BY <1>1, <2>1, HandleInviteAsks DEF Contract!Next
  <2>2. CASE HandleAccept(p)
    BY <1>1, <2>2, HandleAcceptAgrees DEF Contract!Next
  <2>3. CASE HandleRemove(p)
    BY <1>1, <2>3, HandleRemoveParts DEF Contract!Next
  <2>4. CASE HandleFriends(p) \/ HandleRequests(p)
    BY <1>1, <2>4, HandleListsForgets
  <2> QED
    BY <1>7, <2>1, <2>2, <2>3, <2>4 DEF Serve
<1>8. ASSUME NEW p \in People, NEW q \in Rows,
             AddFriend(p, q) \/ DeleteFriend(p, q) \/ AcceptInvitation(p, q)
      PROVE  Contract!Next
  BY <1>1, <1>8, MenuForgets, AcceptInvitationForgets
<1> QED
  BY <1>2, <1>3, <1>4, <1>5, <1>6, <1>7, <1>8 DEF Next, Rows

\* For any number of people: two people become friends both at once, in one
\* step, and only while a request of one to the other is open; nobody is asked
\* by a friend; a friendship ends for both at once.
THEOREM ImplementsFriendship == Spec => Consent
BY InductiveHolds, InitContract, StepContract, PTL DEF Spec, Consent, Contract!Spec
=============================================================================
