-------------------------------- MODULE Chat --------------------------------
(***************************************************************************)
(* The chat of two friends: the chat handlers of message.cpp, the client's *)
(* ChatController with its receiving thread, and the screen of ChatView.   *)
(*                                                                         *)
(* A client owns one stream of answers.  The menus read it themselves and  *)
(* take whatever comes next for the answer they expect; in the chat a      *)
(* thread reads it, which ESC cancels after a second, wherever it is.      *)
(***************************************************************************)
EXTENDS Integers, Sequences, FiniteSets, SequencesExt

CONSTANTS
    People,
    NoOne,             \* no receiver, no message in hand
    Friends,           \* <<p, q>>: p can choose q in its profile
    Texts,             \* what may be typed
    Confirmation,      \* the text "Message sent"
    Saved,             \* chat_messages when the server started
    MAX_CHAT_MESSAGES, \* lines a chat screen keeps
    MaxTyped           \* bound: lines typed by everybody, those of Saved among them

\* A message, numbered by its sender.  Blank is what ENTER shows of no text.
ChatMessages == [from : People, to : People, n : Nat \ {0}, text : Texts]
Blank(p) == [from |-> p, to |-> NoOne, n |-> 0, text |-> NoOne]
Lines == ChatMessages \cup {Blank(p) : p \in People}

\* The messages of p in s.
SentBy(p, s) == {i \in DOMAIN s : s[i].from = p}

ASSUME ChatAssumption ==
    /\ NoOne \notin People
    /\ Friends \subseteq {e \in People \X People : e[1] # e[2]}
    /\ MAX_CHAT_MESSAGES \in Nat \ {0} /\ MaxTyped \in Nat
    /\ Saved \in Seq(ChatMessages)
    /\ \A i \in DOMAIN Saved :
         Saved[i].n = Cardinality({j \in SentBy(Saved[i].from, Saved) : j <= i})

VARIABLES
    player,   \* the server's Player of each connection: isInChatRoom, receiver
    table,    \* chat_messages, in the order of its timestamps
    toServer, toClient, \* the two directions of each connection, FIFO
    at,       \* what the client's main thread is doing
    partner,  \* friendSelected
    screen,   \* the lines of g_lastMsgs the chat shows; none once the profile is drawn
    thread,   \* [pc, hand]: the receiving thread and the message it has read
    chatMutex,\* "free", or "lost" with a thread that ended while it had it
    typed     \* number of lines each person has typed

vars == <<player, table, toServer, toClient, at, partner, screen, thread, chatMutex, typed>>

Places == {"profile", "listing", "opening", "chat", "leaving", "broken"}

Requests ==
    [type : {"INCHATROOM", "GET_MESSAGE"}, who : People]
      \cup [type : {"SEND_MESSAGE"}, m : ChatMessages]
      \cup [type : {"LEAVE_CHAT", "GET_FRIEND_LIST"}]
Answers ==
    [type : {"history"}, rows : Seq(ChatMessages)]
      \cup [type : {"message"}, m : ChatMessages]
      \cup [type : {"confirm", "list"}]

Asleep == [pc |-> "none", hand |-> NoOne]
Waiting == [pc |-> "waiting", hand |-> NoOne]

Init ==
    /\ player = [p \in People |-> [isInChatRoom |-> FALSE, receiver |-> NoOne]]
    /\ table = Saved
    /\ toServer = [p \in People |-> <<>>] /\ toClient = [p \in People |-> <<>>]
    /\ at = [p \in People |-> "profile"]
    /\ partner = [p \in People |-> NoOne]
    /\ screen = [p \in People |-> <<>>]
    /\ thread = [p \in People |-> Asleep]
    /\ chatMutex = [p \in People |-> "free"]
    /\ typed = [p \in People |-> Cardinality(SentBy(p, Saved))]

\* Faulty variant: one line too many.
LastOf_OneMore(s) ==
    IF Len(s) <= MAX_CHAT_MESSAGES + 1 THEN s
    ELSE SubSeq(s, Len(s) - MAX_CHAT_MESSAGES, Len(s))

\* The lines the screen keeps.
LastOf(s) ==
    IF Len(s) <= MAX_CHAT_MESSAGES THEN s
    ELSE SubSeq(s, Len(s) - MAX_CHAT_MESSAGES + 1, Len(s))

Pushed(s, line) == LastOf(Append(s, line))

Send(p, msgs) == toServer' = [toServer EXCEPT ![p] = @ \o msgs]
Goes(p, place) == at' = [at EXCEPT ![p] = place]
Server == <<player, table>>
Streams == <<toServer, toClient>>
Client == <<at, partner, screen, thread, chatMutex, typed>>

-----------------------------------------------------------------------------
(* The client's main thread. *)

\* 'k', then ENTER: joiningChatRoom, and the view asks for the history.  The
\* thread of an earlier chat has met its cancellation long before.
OpenChat(p, q) ==
    /\ at[p] = "profile" /\ <<p, q>> \in Friends /\ thread[p].pc = "none"
    /\ Send(p, <<[type |-> "INCHATROOM", who |-> q], [type |-> "GET_MESSAGE", who |-> q]>>)
    /\ Goes(p, "opening")
    /\ partner' = [partner EXCEPT ![p] = q]
    /\ UNCHANGED <<Server, toClient, screen, thread, chatMutex, typed>>

\* A menu reads the next answer.  Any other than the one it asked for overruns
\* the buffer it reads the count into.
Reads(p, expected) ==
    /\ toClient[p] # <<>>
    /\ toClient' = [toClient EXCEPT ![p] = Tail(@)]
    /\ Head(toClient[p]).type = expected

Misreads(p) ==
    /\ \/ at[p] = "opening" /\ toClient[p] # <<>> /\ Head(toClient[p]).type # "history"
       \/ at[p] = "listing" /\ toClient[p] # <<>> /\ Head(toClient[p]).type # "list"
    /\ Goes(p, "broken")
    /\ UNCHANGED <<Server, Streams, partner, screen, thread, chatMutex, typed>>

\* showHistoryChat, then initChatSession.
ShowHistory(p) ==
    /\ at[p] = "opening" /\ Reads(p, "history")
    /\ screen' = [screen EXCEPT ![p] = LastOf(Head(toClient[p]).rows)]
    /\ thread' = [thread EXCEPT ![p] = Waiting]
    /\ Goes(p, "chat")
    /\ UNCHANGED <<Server, toServer, partner, chatMutex, typed>>

\* ENTER.  The line is shown even when it is empty, and sent when it is not.
\* The loop takes the mutex before it reads any key.
Enter(p, text) ==
    LET m == [from |-> p, to |-> partner[p], n |-> typed[p] + 1, text |-> text] IN
    /\ at[p] = "chat" /\ chatMutex[p] = "free"
    /\ FoldFunction(+, 0, typed) < MaxTyped
    /\ typed' = [typed EXCEPT ![p] = @ + 1]
    /\ \/ /\ text # NoOne
          /\ screen' = [screen EXCEPT ![p] = Pushed(@, m)]
          /\ Send(p, <<[type |-> "SEND_MESSAGE", m |-> m]>>)
       \/ /\ text = NoOne
          /\ screen' = [screen EXCEPT ![p] = Pushed(@, Blank(p))]
          /\ UNCHANGED toServer
    /\ UNCHANGED <<Server, toClient, at, partner, thread, chatMutex>>

\* ESC: LEAVE_CHAT, and a second of waiting for the thread, which nothing ends.
Escape(p) ==
    /\ at[p] = "chat" /\ chatMutex[p] = "free"
    /\ Send(p, <<[type |-> "LEAVE_CHAT"]>>)
    /\ Goes(p, "leaving")
    /\ UNCHANGED <<Server, toClient, partner, screen, thread, chatMutex, typed>>

\* The second is over: the thread is cancelled, and the profile asks for its
\* list.  A thread that waits for input ends there; between the header and the
\* body of an answer too, and what is left of it is misread as the whole would
\* be.  One that has an answer goes on for now.
Cancel(p) ==
    /\ at[p] = "leaving"
    /\ Send(p, <<[type |-> "GET_FRIEND_LIST"]>>)
    /\ Goes(p, "listing")
    /\ screen' = [screen EXCEPT ![p] = <<>>]
    /\ thread' = [thread EXCEPT ![p] =
         IF @.pc = "got" THEN [@ EXCEPT !.pc = "cancelled"] ELSE Asleep]
    /\ UNCHANGED <<Server, toClient, partner, chatMutex, typed>>

\* The profile takes keys again, with nobody chosen.
ShowList(p) ==
    /\ at[p] = "listing" /\ Reads(p, "list")
    /\ Goes(p, "profile")
    /\ partner' = [partner EXCEPT ![p] = NoOne]
    /\ UNCHANGED <<Server, toServer, screen, thread, chatMutex, typed>>

-----------------------------------------------------------------------------
(* The receiving thread: an answer, then mutex and screen. *)

ThreadRead(p) ==
    /\ thread[p].pc = "waiting" /\ toClient[p] # <<>>
    /\ thread' = [thread EXCEPT ![p] = [pc |-> "got", hand |-> Head(toClient[p])]]
    /\ toClient' = [toClient EXCEPT ![p] = Tail(@)]
    /\ UNCHANGED <<Server, toServer, at, partner, screen, chatMutex, typed>>

\* What showReceiveChatMessage makes of an answer: a confirmation, or a friend's
\* message that reads like one, is no line of its own.
Shown(p, answer) ==
    IF answer.type = "message" /\ answer.m.text # Confirmation
      THEN Pushed(screen[p], answer.m) ELSE screen[p]

\* A cancelled thread draws over the profile.  It releases the lock, unless it
\* ends in the output of refresh(), which is a cancellation point.
ThreadShow(p) ==
    /\ chatMutex[p] = "free"
    /\ \/ /\ thread[p].pc = "got"
          /\ screen' = [screen EXCEPT ![p] = Shown(p, thread[p].hand)]
          /\ thread' = [thread EXCEPT ![p] = Waiting]
          /\ UNCHANGED chatMutex
       \/ /\ thread[p].pc = "cancelled"
          /\ thread' = [thread EXCEPT ![p] = Asleep]
          /\ \E m \in {"free", "lost"} : chatMutex' = [chatMutex EXCEPT ![p] = m]
          /\ UNCHANGED screen
    /\ UNCHANGED <<Server, Streams, at, partner, typed>>

-----------------------------------------------------------------------------
(* The server's main thread, one message at a time. *)

Takes(p, type) ==
    /\ toServer[p] # <<>> /\ Head(toServer[p]).type = type
    /\ toServer' = [toServer EXCEPT ![p] = Tail(@)]
    /\ UNCHANGED Client

Answer(p, answer) == toClient' = [toClient EXCEPT ![p] = Append(@, answer)]

\* Faulty variant: the flag is left as it was.
InChatRoom_NoFlag(p) ==
    /\ Takes(p, "INCHATROOM")
    /\ player' = [player EXCEPT ![p].receiver = Head(toServer[p]).who]
    /\ UNCHANGED <<table, toClient>>

InChatRoom(p) ==
    /\ Takes(p, "INCHATROOM")
    /\ player' = [player EXCEPT ![p] =
         [isInChatRoom |-> TRUE, receiver |-> Head(toServer[p]).who]]
    /\ UNCHANGED <<table, toClient>>

LeaveChat(p) ==
    /\ Takes(p, "LEAVE_CHAT")
    /\ player' = [player EXCEPT ![p] = [isInChatRoom |-> FALSE, receiver |-> NoOne]]
    /\ UNCHANGED <<table, toClient>>

\* Faulty variant: only the rows somebody sent the requester.
Between_OneWay(p, q, m) == m.from = q /\ m.to = p
Between(p, q, m) == {m.from, m.to} = {p, q}

\* Faulty variant: the newest message first.
History_NewestFirst(p, q) == Reverse(SelectSeq(table, LAMBDA m : Between(p, q, m)))

\* loadMessageHistory
History(p, q) ==
    LET rows[i \in 0..Len(table)] ==
          IF i = 0 THEN <<>>
          ELSE IF Between(p, q, table[i]) THEN Append(rows[i - 1], table[i])
          ELSE rows[i - 1]
    IN  rows[Len(table)]

GetMessages(p) ==
    /\ Takes(p, "GET_MESSAGE")
    /\ Answer(p, [type |-> "history", rows |-> History(p, Head(toServer[p]).who)])
    /\ UNCHANGED Server

\* The connection of q is sent what p writes.
Hears(q, p) ==
    /\ player[q].receiver = p /\ player[p].receiver = q
    /\ player[q].isInChatRoom /\ player[p].isInChatRoom

\* sendMessages forwards, confirms and saves.
SendMessages(p) ==
    LET m == Head(toServer[p]).m IN
    /\ Takes(p, "SEND_MESSAGE")
    /\ toClient' = [q \in People |->
         toClient[q]
           \o (IF Hears(q, p) THEN <<[type |-> "message", m |-> m]>> ELSE <<>>)
           \o (IF q = p THEN <<[type |-> "confirm"]>> ELSE <<>>)]
    /\ table' = Append(table, m)
    /\ UNCHANGED player

\* Faulty variant: an empty list is not sent.
GetFriendList_Silent(p) == Takes(p, "GET_FRIEND_LIST") /\ UNCHANGED <<Server, toClient>>

GetFriendList(p) ==
    Takes(p, "GET_FRIEND_LIST") /\ Answer(p, [type |-> "list"]) /\ UNCHANGED Server

Serve(p) ==
    \/ InChatRoom(p) \/ LeaveChat(p) \/ GetMessages(p) \/ SendMessages(p)
    \/ GetFriendList(p)
Thread(p) == ThreadRead(p) \/ ThreadShow(p)
Menu(p) == ShowHistory(p) \/ Misreads(p) \/ Cancel(p) \/ ShowList(p)

Next ==
    \E p \in People :
      \/ \E q \in People : OpenChat(p, q)
      \/ \E text \in Texts \cup {NoOne} : Enter(p, text)
      \/ Escape(p) \/ Menu(p) \/ Thread(p) \/ Serve(p)

\* The main loop serves every connection, a menu that waits for an answer only
\* reads, and the thread is scheduled.  Nobody has to type or to leave.
Fairness ==
    \A p \in People : WF_vars(Serve(p)) /\ WF_vars(Menu(p)) /\ WF_vars(Thread(p))

Spec == Init /\ [][Next]_vars /\ Fairness

-----------------------------------------------------------------------------
(* Properties *)

\* Every variable has its type.
TypeOK ==
    /\ player \in [People -> [isInChatRoom : BOOLEAN, receiver : People \cup {NoOne}]]
    /\ table \in Seq(ChatMessages)
    /\ toServer \in [People -> Seq(Requests)]
    /\ toClient \in [People -> Seq(Answers)]
    /\ screen \in [People -> Seq(Lines)]
    /\ \A p \in People : Len(screen[p]) <= MAX_CHAT_MESSAGES
    /\ thread \in [People -> [pc : {"none", "waiting", "got", "cancelled"},
                             hand : Answers \cup {NoOne}]]
    /\ at \in [People -> Places]
    /\ partner \in [People -> People \cup {NoOne}]
    /\ chatMutex \in [People -> {"free", "lost"}]
    /\ typed \in [People -> Nat]

InChat(p) == at[p] = "chat" /\ chatMutex[p] = "free"

\* Nothing is under way between p and the friend it chats with.
Drained(p) ==
    /\ toClient[p] = <<>> /\ thread[p].pc = "waiting"
    /\ \A q \in {p, partner[p]} : \A i \in DOMAIN toServer[q] :
         toServer[q][i].type # "SEND_MESSAGE" \/ toServer[q][i].m.to \notin {p, partner[p]}

\* A chat screen and the table agree when nothing is under way: every message
\* of the two is on the screen once, if all of them fit, and nothing else is.
\* A friend's text "Message sent" may be missing: the client took it for the
\* server's confirmation.
ScreenIsHistory ==
    \A p \in People : at[p] = "chat" /\ Drained(p) =>
      LET rows == ToSet(History(p, partner[p]))
          shown(m) == {i \in DOMAIN screen[p] : screen[p][i] = m} IN
      /\ ToSet(screen[p]) \subseteq rows \cup {Blank(p)}
      /\ Len(screen[p]) < MAX_CHAT_MESSAGES =>
           \A m \in rows : m.from = p \/ m.text # Confirmation =>
             \E i \in DOMAIN screen[p] : shown(m) = {i}

\* Messages of one sender keep their order and come once: on a screen, and in
\* the table.
InOrder ==
    \A s \in {table} \cup {screen[p] : p \in People} :
      \A i, j \in DOMAIN s :
        i < j /\ s[i].from = s[j].from /\ s[i].n # 0 /\ s[j].n # 0 => s[i].n < s[j].n

\* The server sends a message on to nobody but the two people it is between,
\* whoever else has a chat open with one of them, and however fast the writer
\* left that chat and opened another one.
Private ==
    \A p \in People : \A i \in DOMAIN toClient[p] :
      toClient[p][i].type = "message" =>
        p \in {toClient[p][i].m.from, toClient[p][i].m.to}

\* While both are in their chat, what one sends reaches the other's screen.
Delivered ==
    \A p \in People : \A n \in 1..MaxTyped :
      /\ InChat(p)
      /\ \E i \in DOMAIN toServer[partner[p]] :
           LET r == toServer[partner[p]][i] IN
           r.type = "SEND_MESSAGE" /\ r.m.to = p /\ r.m.n = n /\ r.m.text # Confirmation
      ~> \/ ~InChat(p)
         \/ \E i \in DOMAIN screen[p] : screen[p][i].from = partner[p] /\ screen[p][i].n = n

\* Whoever leaves the chat gets back to the profile, unless the client broke.
GetsBack ==
    \A p \in People : at[p] \in {"leaving", "listing"} ~> at[p] \in {"profile", "broken"}

\* A chat that is opened shows its history and takes keys (setupChatRoomLayout:
\* "Load last messages (max 5) and render").  Not so.
Opens == \A p \in People : at[p] # "broken" /\ (at[p] = "chat" => chatMutex[p] = "free")
=============================================================================
