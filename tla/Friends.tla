------------------------------ MODULE Friends ------------------------------
(***************************************************************************)
(* Accounts, friend requests and friends: the account and social handlers  *)
(* of message.cpp over the tables users, friend_request and friend_list,   *)
(* and the menus of the clients (SocialController.cpp, Social.cpp,         *)
(* SocialView.cpp) that show copies of them.                               *)
(*                                                                         *)
(* The main thread handles one message at a time, each in one database     *)
(* transaction, so a handler is one step.  What interleaves is the people: *)
(* a menu shows the answer to an earlier request and is acted upon later.  *)
(* Each person uses one client at a time.  A list is the set of its ids:   *)
(* the names that getFriendData puts beside them are left out.             *)
(***************************************************************************)
EXTENDS Naturals, Sequences, FiniteSets

CONSTANTS
    People,  \* users, by player_id and username alike
    NoOne    \* the id 0 of a connection that did not log in; a name nobody has

ASSUME NoOneOutside == NoOne \notin People

VARIABLES
    up,            \* the server process is alive
    users,         \* the table users
    userDatabase,  \* Server::userDatabase, filled when the server starts
    friendRequest, \* the table friend_request: <<inviting, invited>>
    friendList,    \* the table friend_list: <<player, friend>>
    session,       \* Player::ID of each person's connection
    toServer, toClient, \* the two directions of each connection, FIFO
    client         \* the menu a client shows, what it waits for, and its two lists

tables == <<users, friendRequest, friendList>>
vars == <<up, users, userDatabase, friendRequest, friendList, session, toServer,
          toClient, client>>

Pairs == {e \in People \X People : e[1] # e[2]}

\* A list of a menu: the ids in it.
Lists == SUBSET People

Menus == {"offline", "main", "profile", "invitations"}
Awaits == {"nothing", "status", "friends", "requests"}
Requests == [type : {"INVITE", "ACCEPT", "REMOVE", "FRIENDS", "REQUESTS"},
             who : People \cup {NoOne}]
Answers == [type : {"status", "friends", "requests"}, rows : Lists]

Offline == [menu |-> "offline", awaits |-> "nothing", friends |-> {}, invitations |-> {}]

Init ==
    /\ up = TRUE /\ users = {} /\ userDatabase = {}
    /\ friendRequest = {} /\ friendList = {}
    /\ session = [p \in People |-> NoOne]
    /\ toServer = [p \in People |-> <<>>] /\ toClient = [p \in People |-> <<>>]
    /\ client = [p \in People |-> Offline]

-----------------------------------------------------------------------------
(* Accounts.  The client waits for the verdict and asks again until it is     *)
(* VALID, so an attempt that fails changes nothing.                           *)

\* handleRegister: the user enters the table, but neither the copy of it that
\* the server looks names up in, nor the Player of the connection.
Register(p) ==
    /\ up /\ client[p].menu = "offline" /\ p \notin users
    /\ users' = users \cup {p}
    /\ client' = [client EXCEPT ![p].menu = "main"]
    /\ UNCHANGED <<up, userDatabase, friendRequest, friendList, session, toServer, toClient>>

\* handleLogin looks the password up in the table, so whoever has registered can
\* log in at once, and be one that userDatabase does not know.
Login(p) ==
    /\ up /\ client[p].menu = "offline" /\ p \in users
    /\ session' = [session EXCEPT ![p] = p]
    /\ client' = [client EXCEPT ![p].menu = "main"]
    /\ UNCHANGED <<up, tables, userDatabase, toServer, toClient>>

\* The client ends, in a menu that waits for a key: nothing is on its way then.
\* disconnectClient closes the connection.
Quit(p) ==
    /\ up /\ client[p].menu # "offline" /\ client[p].awaits = "nothing"
    /\ session' = [session EXCEPT ![p] = NoOne]
    /\ client' = [client EXCEPT ![p] = Offline]
    /\ UNCHANGED <<up, tables, userDatabase, toServer, toClient>>

\* The process ended, by an exception or otherwise, and was started again: the
\* tables survive, connections and clients do not.
Restart ==
    /\ up' = TRUE
    /\ userDatabase' = users
    /\ session' = [p \in People |-> NoOne]
    /\ toServer' = [p \in People |-> <<>>] /\ toClient' = [p \in People |-> <<>>]
    /\ client' = [p \in People |-> Offline]
    /\ UNCHANGED tables

-----------------------------------------------------------------------------
(* The menus.  A menu asks for its list each time it is drawn, and takes no   *)
(* key while it waits for an answer.                                          *)

\* Client p sends msgs, shows menu m and waits for an answer of the given type.
Sends(p, msgs, m, answer) ==
    /\ toServer' = [toServer EXCEPT ![p] = @ \o msgs]
    /\ client' = [client EXCEPT ![p].menu = m, ![p].awaits = answer]
    /\ UNCHANGED <<up, tables, userDatabase, session, toClient>>

Msg(type, q) == [type |-> type, who |-> q]
ListOf(type) == Msg(type, NoOne)
At(p, m) == client[p].menu = m /\ client[p].awaits = "nothing"

OpenProfile(p) ==
    At(p, "main") /\ Sends(p, <<ListOf("FRIENDS")>>, "profile", "friends")

OpenInvitations(p) ==
    At(p, "main") /\ Sends(p, <<ListOf("REQUESTS")>>, "invitations", "requests")

\* ESC
Back(p) ==
    /\ At(p, "profile") \/ At(p, "invitations")
    /\ client' = [client EXCEPT ![p].menu = "main"]
    /\ UNCHANGED <<up, tables, userDatabase, session, toServer, toClient>>

\* 'a', then any name is typed in, one nobody has (NoOne) as well.
AddFriend(p, q) ==
    At(p, "profile") /\ Sends(p, <<Msg("INVITE", q)>>, "profile", "status")

\* 'k' and 'd', or 'd' with nobody chosen; the profile is drawn again, with a
\* fresh list.
DeleteFriend(p, q) ==
    /\ At(p, "profile") /\ q \in client[p].friends \cup {NoOne}
    /\ Sends(p, <<Msg("REMOVE", q), ListOf("FRIENDS")>>, "profile", "friends")

\* 'r' in either menu, and any other key that draws it again.
Refresh(p) ==
    \/ At(p, "profile") /\ Sends(p, <<ListOf("FRIENDS")>>, "profile", "friends")
    \/ At(p, "invitations") /\ Sends(p, <<ListOf("REQUESTS")>>, "invitations", "requests")

\* 'a' and ENTER.  Only the first of the list can be accepted, but the query
\* does not say which row comes first.
AcceptInvitation(p, q) ==
    /\ At(p, "invitations") /\ q \in client[p].invitations
    /\ toServer' = [toServer EXCEPT ![p] = @ \o <<Msg("ACCEPT", q), ListOf("REQUESTS")>>]
    /\ client' = [client EXCEPT ![p].awaits = "requests", ![p].invitations = @ \ {q}]
    /\ UNCHANGED <<up, tables, userDatabase, session, toClient>>

\* The client takes the answer it waits for.  The status of an invitation is
\* shown, and the profile is drawn again.
Receive(p) ==
    /\ toClient[p] # <<>>
    /\ toClient' = [toClient EXCEPT ![p] = Tail(@)]
    /\ UNCHANGED <<up, tables, userDatabase, session>>
    /\ LET answer == Head(toClient[p]) IN
       \/ /\ answer.type = "status"
          /\ toServer' = [toServer EXCEPT ![p] = Append(@, ListOf("FRIENDS"))]
          /\ client' = [client EXCEPT ![p].awaits = "friends"]
       \/ /\ answer.type = "friends"
          /\ client' = [client EXCEPT ![p].awaits = "nothing", ![p].friends = answer.rows]
          /\ UNCHANGED toServer
       \/ /\ answer.type = "requests"
          /\ client' = [client EXCEPT ![p].awaits = "nothing", ![p].invitations = answer.rows]
          /\ UNCHANGED toServer

-----------------------------------------------------------------------------
(* The handlers.  A statement that breaks a constraint of a table throws; the *)
(* transaction is rolled back and nothing catches the exception.              *)

Crash ==
    /\ up' = FALSE
    /\ UNCHANGED <<tables, userDatabase, session, toServer, toClient, client>>

\* The main thread reads the next message of p, of this type.
Reads(p, type) ==
    /\ up /\ toServer[p] # <<>> /\ Head(toServer[p]).type = type
Done(p) == toServer' = [toServer EXCEPT ![p] = Tail(@)]
Reply(p, type, rows) ==
    toClient' = [toClient EXCEPT ![p] = Append(@, [type |-> type, rows |-> rows])]
Quiet == UNCHANGED <<up, users, userDatabase, session, client>>

\* Faulty variant: one can ask oneself.
Allowed_Self(s, q) ==
    q \in userDatabase /\ <<s, q>> \notin friendList /\ <<s, q>> \notin friendRequest

\* Faulty variant: the friend list is not looked at.
Allowed_Friend(s, q) == q \in userDatabase /\ s # q /\ <<s, q>> \notin friendRequest

\* inviteFriend asks for a request of s to q.
Allowed(s, q) ==
    /\ q \in userDatabase /\ s # q
    /\ <<s, q>> \notin friendList /\ <<s, q>> \notin friendRequest

\* Faulty variant: a request to oneself returns before the answer is sent.
HandleInvite_SilentForSelf(p) ==
    LET q == Head(toServer[p]).who  s == session[p] IN
    /\ Reads(p, "INVITE")
    /\ Done(p) /\ Quiet /\ UNCHANGED friendList
    /\ IF s = q THEN UNCHANGED toClient ELSE Reply(p, "status", {})
    /\ friendRequest' = friendRequest \cup
         IF Allowed(s, q) /\ s # NoOne THEN {<<s, q>>} ELSE {}

HandleInvite(p) ==
    LET q == Head(toServer[p]).who  s == session[p] IN
    /\ Reads(p, "INVITE")
    /\ \/ /\ Allowed(s, q) /\ s = NoOne   \* FOREIGN KEY (id_player_inviting)
          /\ Crash
       \/ /\ Allowed(s, q) => s # NoOne
          /\ friendRequest' = friendRequest \cup IF Allowed(s, q) THEN {<<s, q>>} ELSE {}
          /\ Done(p) /\ Reply(p, "status", {}) /\ Quiet /\ UNCHANGED friendList

\* The two rows of a friendship, and of requests between two people.
Both(a, b) == {<<a, b>>, <<b, a>>}

\* Faulty variant: only the request that is accepted is deleted.
Settled_OneWay(q, s) == {<<q, s>>}
Settled(q, s) == Both(q, s)

\* acceptFriendinvite does not look whether there is a request.
HandleAccept(p) ==
    LET q == Head(toServer[p]).who  s == session[p] IN
    /\ Reads(p, "ACCEPT")
    /\ \/ /\ s = NoOne \/ Both(q, s) \cap friendList # {}   \* FOREIGN KEY, UNIQUE
          /\ Crash
       \/ /\ s # NoOne /\ Both(q, s) \cap friendList = {}
          /\ friendRequest' = friendRequest \ Settled(q, s)
          /\ friendList' = friendList \cup Both(q, s)
          /\ Done(p) /\ Quiet /\ UNCHANGED toClient

\* Faulty variant: the friend keeps its row.
Dropped_OneWay(q, s) == {<<s, q>>}
Dropped(q, s) == Both(q, s)

HandleRemove(p) ==
    LET q == Head(toServer[p]).who IN
    /\ Reads(p, "REMOVE")
    /\ friendList' = friendList \ Dropped(q, session[p])
    /\ Done(p) /\ Quiet /\ UNCHANGED <<friendRequest, toClient>>

\* The id in the question is the client's own.
HandleFriends(p) ==
    /\ Reads(p, "FRIENDS") /\ Done(p) /\ Quiet /\ UNCHANGED <<friendRequest, friendList>>
    /\ Reply(p, "friends", {q \in People : <<p, q>> \in friendList})

HandleRequests(p) ==
    /\ Reads(p, "REQUESTS") /\ Done(p) /\ Quiet /\ UNCHANGED <<friendRequest, friendList>>
    /\ Reply(p, "requests", {q \in People : <<q, p>> \in friendRequest})

Serve(p) ==
    \/ HandleInvite(p) \/ HandleAccept(p) \/ HandleRemove(p)
    \/ HandleFriends(p) \/ HandleRequests(p)

Next ==
    \/ \E p \in People :
         \/ Register(p) \/ Login(p) \/ Quit(p) \/ OpenProfile(p) \/ OpenInvitations(p)
         \/ Back(p) \/ Refresh(p) \/ Receive(p) \/ Serve(p)
         \/ \E q \in People \cup {NoOne} :
              AddFriend(p, q) \/ DeleteFriend(p, q) \/ AcceptInvitation(p, q)
    \/ Restart

\* The main loop visits every connection with input, and a client that waits
\* does nothing but read.
Fairness == \A p \in People : WF_vars(Serve(p)) /\ WF_vars(Receive(p))

Spec == Init /\ [][Next]_vars /\ Fairness

-----------------------------------------------------------------------------
(* Properties *)

\* Every variable has its type.
TypeOK ==
    /\ up \in BOOLEAN
    /\ users \subseteq People /\ userDatabase \subseteq users
    /\ friendRequest \subseteq Pairs /\ friendList \subseteq Pairs
    /\ session \in [People -> People \cup {NoOne}]
    /\ toServer \in [People -> Seq(Requests)] /\ toClient \in [People -> Seq(Answers)]
    /\ client \in [People -> [menu : Menus, awaits : Awaits, friends : Lists,
                              invitations : Lists]]

\* A friendship is in the table both ways, whatever the two accept, remove and
\* ask at the same time.
Mutual == \A e \in friendList : <<e[2], e[1]>> \in friendList

\* Nobody has an open request to or from a friend: accepting one request of two
\* that crossed settles both (acceptFriendinvite's DELETE), and a friend cannot
\* be asked (processInviteRequest's first query).
NoRequestBetweenFriends == friendRequest \cap friendList = {}

\* Each question of a menu is answered unless the server goes down: every path
\* of inviteFriend and getFriendData ends with an answer.
MenuAnswered ==
    \A p \in People : client[p].awaits # "nothing" ~> client[p].awaits = "nothing" \/ ~up

\* The requests that somebody may still act upon: those of the table, those on
\* their way to a menu, those a menu shows, and those being accepted.
Open ==
    {e \in People \X People :
       LET a == e[1]  b == e[2] IN
       \/ e \in friendRequest
       \/ a \in client[b].invitations
       \/ \E i \in DOMAIN toClient[b] :
            toClient[b][i].type = "requests" /\ a \in toClient[b][i].rows
       \/ \E i \in DOMAIN toServer[b] : toServer[b][i] = Msg("ACCEPT", a)}

\* The tables, streams and menus implement Friendship: people become friends in
\* one step and only while one of them still has a request of the other.
Contract == INSTANCE Friendship
              WITH asked <- Open, friends <- {{e[1], e[2]} : e \in friendList}
Consent == Contract!Spec

\* No legal use of the menus ends the server.  Not so: a person that has just
\* registered and adds a friend does, and so does one that accepts a request
\* that crossed its own and was accepted there.
NeverDies == up
=============================================================================
