------------------------- MODULE WaitingRoom_proofs -------------------------
(***************************************************************************)
(* The waiting room, for any number of people, invitations and keys: who    *)
(* waits with nothing left to read is in the lobby, who plays was started   *)
(* by the leader, and the lists on a screen fit the room once what is under *)
(* way to it has been read.                                                 *)
(***************************************************************************)
EXTENDS WaitingRoom, TLAPS

-----------------------------------------------------------------------------
(* Sequences.                                                                *)

LEMMA SeqIs ==
    ASSUME NEW M, NEW s \in Seq(M), NEW S
    PROVE  s \in Seq(S) <=> \A i \in 1..Len(s) : s[i] \in S
<1>1. Len(s) \in Nat /\ DOMAIN s = 1..Len(s) /\ s = [i \in 1..Len(s) |-> s[i]]
  OBVIOUS
<1>2. ASSUME \A i \in 1..Len(s) : s[i] \in S PROVE s \in Seq(S)
  BY <1>1, <1>2
<1>3. ASSUME s \in Seq(S) PROVE \A i \in 1..Len(s) : s[i] \in S
  BY <1>3
<1> QED
  BY <1>2, <1>3

LEMMA SeqHead ==
    ASSUME NEW M, NEW s \in Seq(M), s # <<>>, NEW S
    PROVE  /\ Head(s) \in M /\ Tail(s) \in Seq(M)
           /\ s \in Seq(S) <=> Head(s) \in S /\ Tail(s) \in Seq(S)
<1>1. Head(s) \in M /\ Tail(s) \in Seq(M)
  OBVIOUS
<1>2. s \in Seq(S) => Head(s) \in S /\ Tail(s) \in Seq(S)
  OBVIOUS
<1>3. ASSUME Head(s) \in S, Tail(s) \in Seq(S) PROVE s \in Seq(S)
  <2>1. /\ Len(s) \in Nat \ {0} /\ Len(Tail(s)) = Len(s) - 1 /\ s[1] = Head(s)
        /\ \A i \in 1..Len(s) - 1 : Tail(s)[i] = s[i + 1]
    OBVIOUS
  <2>2. ASSUME NEW i \in 1..Len(s) PROVE s[i] \in S
    <3>1. CASE i = 1
      BY <1>3, <2>1, <3>1
    <3>2. CASE i # 1
      <4>1. i - 1 \in 1..Len(s) - 1 /\ (i - 1) + 1 = i
        BY <2>1, <3>2
      <4>2. Tail(s)[i - 1] \in S
        BY <1>3, <2>1, <4>1
      <4> QED
        BY <2>1, <4>1, <4>2
    <3> QED
      BY <3>1, <3>2
  <2> QED
    BY <2>2, SeqIs
<1> QED
  BY <1>1, <1>2, <1>3

LEMMA SeqConcat ==
    ASSUME NEW M, NEW s \in Seq(M), NEW t \in Seq(M), NEW S
    PROVE  s \o t \in Seq(M) /\ (s \o t \in Seq(S) <=> s \in Seq(S) /\ t \in Seq(S))
<1>1. /\ s \o t \in Seq(M) /\ Len(s) \in Nat /\ Len(t) \in Nat /\ Len(s \o t) = Len(s) + Len(t)
      /\ \A i \in 1..Len(s) : (s \o t)[i] = s[i]
      /\ \A i \in Len(s) + 1..Len(s) + Len(t) : (s \o t)[i] = t[i - Len(s)]
  OBVIOUS
<1>2. ASSUME s \in Seq(S), t \in Seq(S) PROVE s \o t \in Seq(S)
  BY <1>2
<1>3. ASSUME s \o t \in Seq(S) PROVE s \in Seq(S) /\ t \in Seq(S)
  <2>1. \A i \in 1..Len(s) + Len(t) : (s \o t)[i] \in S
    BY <1>1, <1>3, SeqIs
  <2>2. \A i \in 1..Len(s) : s[i] \in S
    BY <1>1, <2>1
  <2>3. ASSUME NEW i \in 1..Len(t) PROVE t[i] \in S
    <3>1. Len(s) + i \in Len(s) + 1..Len(s) + Len(t) /\ (Len(s) + i) - Len(s) = i
      BY <1>1
    <3>2. (s \o t)[Len(s) + i] = t[i]
      BY <1>1, <3>1
    <3> QED
      BY <1>1, <2>1, <3>1, <3>2
  <2> QED
    BY <2>2, <2>3, SeqIs
<1> QED
  BY <1>1, <1>2, <1>3

LEMMA SeqOne == \A A, x : x \in A => <<x>> \in Seq(A) /\ <<>> \in Seq(A)
OBVIOUS

LEMMA SeqAppend ==
    ASSUME NEW M, NEW s \in Seq(M), NEW m \in M, NEW S
    PROVE  /\ Append(s, m) \in Seq(M) /\ Append(s, m) # <<>>
           /\ Append(s, m) \in Seq(S) <=> s \in Seq(S) /\ m \in S
           /\ s # <<>> => Head(Append(s, m)) = Head(s) /\ Tail(Append(s, m)) = Append(Tail(s), m)
           /\ s = <<>> => Head(Append(s, m)) = m /\ Tail(Append(s, m)) = <<>>
<1>1. Append(s, m) = s \o <<m>> /\ <<m>> \in Seq(M) /\ (<<m>> \in Seq(S) <=> m \in S)
  OBVIOUS
<1>2. Append(s, m) \in Seq(M) /\ (Append(s, m) \in Seq(S) <=> s \in Seq(S) /\ m \in S)
  BY <1>1, SeqConcat
<1>3. Append(s, m) # <<>>
  <2>1. Len(Append(s, m)) = Len(s) + 1 /\ Len(s) \in Nat /\ Len(<<>>) = 0
    OBVIOUS
  <2> QED
    BY <2>1
<1>4. s = <<>> => Head(Append(s, m)) = m /\ Tail(Append(s, m)) = <<>>
  OBVIOUS
<1>5. s # <<>> => Head(Append(s, m)) = Head(s) /\ Tail(Append(s, m)) = Append(Tail(s), m)
  OBVIOUS
<1> QED
  BY <1>2, <1>3, <1>4, <1>5

-----------------------------------------------------------------------------
(* Types.                                                                    *)

Rooms == [phase : {"none", "open", "closing", "gone"}, playing : BOOLEAN,
          size : Nat, members : SUBSET People, gamers : [People -> Nat]]
Counts == [Columns -> Nat]
Rosters == [Columns -> [People -> Nat]]

\* What the steps have in common.
LEMMA SendsType ==
    ASSUME TypeOK, NEW seq \in [People -> Seq(Answers)], Sends(seq)
    PROVE  /\ toClient' \in [People -> Seq(Answers)]
           /\ \A q \in People : toClient'[q] = toClient[q] \o seq[q]
BY SeqConcat DEF TypeOK, Sends

LEMMA RequestType ==
    ASSUME TypeOK, NEW p \in People, NEW m \in Requests, Request(p, m)
    PROVE  /\ toServer' \in [People -> Seq(Requests)]
           /\ \A q \in People : toServer'[q] = IF q = p THEN Append(toServer[q], m) ELSE toServer[q]
BY DEF TypeOK, Request

LEMMA TakesType ==
    ASSUME TypeOK, NEW p \in People, NEW type, Takes(p, type)
    PROVE  /\ toServer' \in [People -> Seq(Requests)]
           /\ toServer[p] # <<>> /\ Head(toServer[p]) \in Requests
           /\ Head(toServer[p]).type = type
           /\ \A q \in People : toServer'[q] = IF q = p THEN Tail(toServer[q]) ELSE toServer[q]
BY DEF TypeOK, Takes

LEMMA ReadsType ==
    ASSUME TypeOK, NEW p \in People, Reads(p)
    PROVE  /\ toClient' \in [People -> Seq(Answers)]
           /\ toClient[p] # <<>> /\ Head(toClient[p]) \in Answers
           /\ \A q \in People : toClient'[q] = IF q = p THEN Tail(toClient[q]) ELSE toClient[q]
BY DEF TypeOK, Reads

LEMMA PressType ==
    ASSUME TypeOK, NEW p \in People, Press(p)
    PROVE  keys' \in [People -> Nat]
BY DEF TypeOK, Press, Pressed

\* The vector of gamers.
LEMMA NobodySits == Nobody \in [People -> Nat] /\ \A q \in People : Nobody[q] = 0
BY DEF Nobody

LEMMA SeatedType ==
    ASSUME NEW g \in [People -> Nat], NEW p \in People, NEW as
    PROVE  Seated(g, p, as) \in [People -> Nat]
<1>1. [g EXCEPT ![p] = @ + 1] \in [People -> Nat]
  BY g[p] \in Nat
<1>2. Seated(g, p, as) = [g EXCEPT ![p] = @ + 1] \/ Seated(g, p, as) = g
  BY DEF Seated
<1> QED
  BY <1>1, <1>2

LEMMA SeatedAt ==
    ASSUME NEW g \in [People -> Nat], NEW p \in People, NEW as, NEW q \in People
    PROVE  Seated(g, p, as)[q] = IF as = "gamer" /\ q = p THEN g[q] + 1 ELSE g[q]
BY DEF Seated

LEMMA UnseatedAt ==
    ASSUME NEW g \in [People -> Nat], NEW gone, NEW q \in People
    PROVE  Unseated(g, gone)[q] = IF q \in gone /\ g[q] > 0 THEN g[q] - 1 ELSE g[q]
BY DEF Unseated

LEMMA UnseatedType ==
    ASSUME NEW g \in [People -> Nat], NEW gone
    PROVE  Unseated(g, gone) \in [People -> Nat]
<1>1. ASSUME NEW q \in People PROVE (IF q \in gone /\ g[q] > 0 THEN g[q] - 1 ELSE g[q]) \in Nat
  BY g[q] \in Nat
<1> QED
  BY <1>1 DEF Unseated

LEMMA RequestsMade ==
    /\ \A n \in Nat : /\ [type |-> "CREATE", size |-> n] \in Requests
                      /\ [type |-> "MODIFY", size |-> n] \in Requests
    /\ \A q \in People, c \in Columns : [type |-> "INVITE", who |-> q, as |-> c] \in Requests
    /\ \A c \in Columns \cup {"junk"} : [type |-> "JOIN", as |-> c] \in Requests
    /\ \A b \in BOOLEAN : [type |-> "LEAVE", known |-> b] \in Requests
    /\ Says("START") \in Requests /\ Says("GET_LOBBY_INVITE") \in Requests
    /\ Says("CREATE_AGAIN") \in Requests
BY DEF Requests, Says

LEMMA RequestsRead ==
    \A m \in Requests :
        /\ m.type \in {"CREATE", "CREATE_AGAIN", "MODIFY", "INVITE", "JOIN", "LEAVE", "START",
                     "GET_LOBBY_INVITE"}
        /\ m.type \in {"CREATE", "MODIFY"} => m.size \in Nat
        /\ m.type = "INVITE" => m.who \in People /\ m.as \in Columns
        /\ m.type = "JOIN" => m.as \in Columns \cup {"junk"}
        /\ m.type = "LEAVE" => m.known \in BOOLEAN
BY DEF Requests

LEMMA AnswersMade ==
    /\ \A type \in {"created", "another", "update", "error", "started", "end", "overrun"} : Says(type) \in Answers
    /\ \A rows \in SUBSET (People \X Columns), added \in BOOLEAN : PlayerRows(rows, added) \in Answers
    /\ \A rows \in Counts : [type |-> "invitations", rows |-> rows] \in Answers
BY DEF Answers, Says, PlayerRows, Counts

LEMMA AnswersRead ==
    \A m \in Answers :
        /\ m.type \in {"created", "another", "update", "error", "started", "end", "overrun", "player",
                     "invitations"}
        /\ m.type = "player" => m.rows \in SUBSET (People \X Columns) /\ m.added \in BOOLEAN
        /\ m.type = "invitations" => m.rows \in Counts
BY DEF Answers, Counts

LEMMA ItselfType ==
    ASSUME NEW p \in People, NEW c \in Columns
    PROVE  Empty \in Rosters /\ Itself(p, c) \in Rosters
BY DEF Empty, Itself, Rosters, Columns

LEMMA AppliedType ==
    ASSUME NEW r \in Rosters, NEW m \in Answers, m.type = "player"
    PROVE  Applied(r, m) \in Rosters
<1>1. m.added \in BOOLEAN
  BY AnswersRead
<1>2. ASSUME NEW c \in Columns, NEW q \in People PROVE Applied(r, m)[c][q] \in Nat
  <2>1. r[c][q] \in Nat
    BY DEF Rosters
  <2>2. Applied(r, m)[c][q] = CASE <<q, c>> \in m.rows /\ m.added -> r[c][q] + 1
                                [] <<q, c>> \in m.rows /\ ~m.added /\ r[c][q] > 0 -> r[c][q] - 1
                                [] OTHER -> r[c][q]
    BY DEF Applied
  <2> QED
    BY <1>1, <2>1, <2>2
<1> QED
  BY <1>2 DEF Applied, Rosters

\* The list a client is sent is a message.
LEMMA ListsType ==
    ASSUME TypeOK, NEW q, NEW list \in Lists(q)
    PROVE  list \in Answers
<1>1. CASE list = Says("overrun")
  BY <1>1, AnswersMade
<1>2. ASSUME NEW rows \in SUBSET {<<o, ColumnOf(o)>> : o \in room.members \ {q}},
             list = PlayerRows(rows, TRUE)
      PROVE  list \in Answers
  <2>1. rows \in SUBSET (People \X Columns)
    BY DEF TypeOK, ColumnOf, Columns
  <2> QED
    BY <1>2, <2>1, AnswersMade
<1> QED
  BY <1>1, <1>2 DEF Lists

\* What a person does at its keyboard.
LEMMA KeysType ==
    ASSUME TypeOK, NEW p \in People, Keys(p)
    PROVE  TypeOK'
<1> USE DEF serverVars, streams, clientVars, history
<1>1. ASSUME NEW n \in Sizes, Create(p, n) PROVE TypeOK'
  <2>1. n \in Nat
    BY WaitingAssumption
  <2>2. toServer' \in [People -> Seq(Requests)] /\ keys' \in [People -> Nat]
    BY <1>1, <2>1, RequestsMade, RequestType, PressType DEF Create
  <2> QED
    BY <1>1, <2>1, <2>2 DEF Create, Goes, TypeOK, Screens
<1>2. ASSUME NEW n \in Sizes, Confirm(p, n) PROVE TypeOK'
  <2>1. n \in Nat
    BY WaitingAssumption
  <2>2. toServer' \in [People -> Seq(Requests)] /\ keys' \in [People -> Nat]
    BY <1>2, <2>1, RequestsMade, RequestType, PressType DEF Confirm
  <2> QED
    BY <1>2, <2>1, <2>2 DEF Confirm, Goes, TypeOK, Screens
<1>3. ASSUME NEW q \in People \ {Leader}, NEW c \in Columns, Invite(p, q, c) PROVE TypeOK'
  <2>2. [type |-> "INVITE", who |-> q, as |-> c] \in Requests
    BY RequestsMade
  <2>3. toServer' \in [People -> Seq(Requests)]
    BY <1>3, <2>2, RequestType DEF Invite
  <2> QED
    BY <1>3, <2>3 DEF Invite, TypeOK
<1>4. CASE Start(p)
  <2>1. toServer' \in [People -> Seq(Requests)] /\ keys' \in [People -> Nat]
    BY <1>4, RequestsMade, RequestType, PressType DEF Start
  <2> QED
    BY <1>4, <2>1 DEF Start, TypeOK
<1>5. CASE OpenSettings(p)
  BY <1>5 DEF OpenSettings, Goes, TypeOK, Screens
<1>11. CASE CreateAgain(p)
  <2>1. toServer' \in [People -> Seq(Requests)] /\ keys' \in [People -> Nat]
    BY <1>11, RequestsMade, RequestType, PressType DEF CreateAgain
  <2> QED
    BY <1>11, <2>1 DEF CreateAgain, Goes, TypeOK, Screens
<1>6. CASE Cancel(p)
  <2>1. [type |-> "MODIFY", size |-> number] \in Requests
    BY RequestsMade DEF TypeOK
  <2>2. toServer' \in [People -> Seq(Requests)] /\ keys' \in [People -> Nat]
    BY <1>6, <2>1, RequestType, PressType DEF Cancel
  <2> QED
    BY <1>6, <2>2 DEF Cancel, Goes, TypeOK, Screens
<1>7. CASE Leave(p)
  <2> DEFINE b == column[p] # "junk"
  <2>1. b \in BOOLEAN
    OBVIOUS
  <2>2. Request(p, [type |-> "LEAVE", known |-> b])
    BY <1>7 DEF Leave
  <2> HIDE DEF b
  <2>3. [type |-> "LEAVE", known |-> b] \in Requests
    BY <2>1, RequestsMade
  <2>4. toServer' \in [People -> Seq(Requests)] /\ keys' \in [People -> Nat]
    BY <1>7, <2>2, <2>3, RequestType, PressType DEF Leave
  <2>5. roster' \in [People -> Rosters]
    BY <1>7, ItselfType DEF Leave, TypeOK, Rosters, Empty
  <2> QED
    BY <1>7, <2>4, <2>5 DEF Leave, Goes, TypeOK, Screens, Rosters
<1>8. CASE Fetch(p)
  <2>1. toServer' \in [People -> Seq(Requests)] /\ keys' \in [People -> Nat]
    BY <1>8, RequestsMade, RequestType, PressType DEF Fetch
  <2> QED
    BY <1>8, <2>1 DEF Fetch, Goes, TypeOK, Screens
<1>9. CASE Back(p)
  BY <1>9 DEF Back, Goes, TypeOK, Screens
<1>10. ASSUME NEW c \in Columns \cup {"junk"}, Join(p, c) PROVE TypeOK'
  <2>1. [type |-> "JOIN", as |-> c] \in Requests
    BY RequestsMade
  <2>2. toServer' \in [People -> Seq(Requests)] /\ keys' \in [People -> Nat]
    BY <1>10, <2>1, RequestType, PressType DEF Join
  <2>3. (IF c = "junk" THEN Empty ELSE Itself(p, c)) \in Rosters
    <3>1. CASE c = "junk"
      BY <3>1 DEF Empty, Rosters
    <3>2. CASE c # "junk"
      BY <3>2, ItselfType
    <3> QED
      BY <3>1, <3>2
  <2>4. roster' \in [People -> Rosters]
    BY <1>10, <2>3 DEF Join, TypeOK, Rosters
  <2>5. at' \in [People -> Screens] /\ column' \in [People -> Columns \cup {"junk"}]
        /\ stay' \in [People -> {"out", "in", "late"}]
    BY <1>10 DEF Join, Goes, TypeOK, Screens
  <2>6. UNCHANGED <<serverVars, toClient, menu, number, newer, astray, misled>>
    BY <1>10 DEF Join
  <2> QED
    BY <2>2, <2>4, <2>5, <2>6 DEF TypeOK, Rosters
<1> QED
  BY <1>1, <1>2, <1>3, <1>4, <1>5, <1>6, <1>7, <1>8, <1>9, <1>10, <1>11 DEF Keys

\* What its client reads.
LEMMA ReadingType ==
    ASSUME TypeOK, NEW p \in People, Reading(p)
    PROVE  TypeOK'
<1> USE DEF serverVars, streams, clientVars, history
<1>1. Reads(p)
  BY DEF Reading, ReadCreated, ReadCreatedAgain, ReadInvitations, ReadWaiting
<1>2. toClient' \in [People -> Seq(Answers)] /\ Head(toClient[p]) \in Answers
  BY <1>1, ReadsType
<1>6. CASE ReadCreatedAgain(p)
  BY <1>2, <1>6 DEF ReadCreatedAgain, Goes, TypeOK, Screens
<1>3. CASE ReadCreated(p)
  <2>1. CASE Head(toClient[p]).type = "created"
    <3>1. roster' \in [People -> Rosters]
      BY <1>3, <2>1, ItselfType DEF ReadCreated, Columns, TypeOK, Rosters
    <3> QED
      BY <1>2, <1>3, <2>1, <3>1 DEF ReadCreated, Goes, TypeOK, Rosters, Screens, Columns
  <2>2. CASE Head(toClient[p]).type # "created"
    BY <1>2, <1>3, <2>2 DEF ReadCreated, TypeOK
  <2> QED
    BY <2>1, <2>2
<1>4. CASE ReadInvitations(p)
  <2>1. menu' \in [People -> SUBSET (Columns \cup {"junk"})]
    <3>1. ASSUME NEW offers \in SUBSET (Columns \cup {"junk"}), menu' = [menu EXCEPT ![p] = offers]
          PROVE  menu' \in [People -> SUBSET (Columns \cup {"junk"})]
      BY <3>1 DEF TypeOK
    <3>2. CASE Head(toClient[p]).type = "invitations"
      <4>1. {c \in Columns : Head(toClient[p]).rows[c] > 0} \in SUBSET (Columns \cup {"junk"})
        OBVIOUS
      <4> QED
        BY <1>4, <3>1, <3>2, <4>1 DEF ReadInvitations
    <3>3. CASE Head(toClient[p]).type # "invitations"
      BY <1>4, <3>1, <3>3 DEF ReadInvitations
    <3> QED
      BY <3>2, <3>3
  <2>2. at' \in [People -> Screens]
    <3>1. at' = [at EXCEPT ![p] = "menu"] \/ at' = [at EXCEPT ![p] = "choosing"]
      BY <1>4 DEF ReadInvitations, Goes
    <3> QED
      BY <3>1 DEF TypeOK, Screens
  <2>3. astray' \subseteq People /\ misled' \subseteq astray'
    BY <1>4 DEF ReadInvitations, TypeOK
  <2> QED
    BY <1>2, <1>4, <2>1, <2>2, <2>3 DEF ReadInvitations, TypeOK
<1>5. CASE ReadWaiting(p)
  <2> DEFINE m == Head(toClient[p])
             meaning == Meaning(m)
  <2>1. at' \in [People -> Screens]
    <3>1. PICK screen \in Screens : at' = [at EXCEPT ![p] = screen]
      <4>1. at[p] \in Screens /\ at' = [at EXCEPT ![p] = CASE meaning = "end" -> "menu"
                                          [] meaning = "started" -> "playing"
                                          [] meaning = "overrun" -> "broken"
                                          [] OTHER -> at[p]]
        BY <1>5 DEF ReadWaiting, TypeOK
      <4> HIDE DEF meaning
      <4> QED
        BY <4>1 DEF Screens
    <3> QED
      BY <3>1 DEF TypeOK
  <2>2. roster' \in [People -> Rosters]
    <3>1. ASSUME NEW r \in Rosters, roster' = [roster EXCEPT ![p] = r] PROVE roster' \in [People -> Rosters]
      BY <3>1 DEF TypeOK, Rosters
    <3>2. roster[p] \in Rosters /\ Empty \in Rosters
      BY DEF TypeOK, Rosters, Empty
    <3>3. CASE meaning \in {"end", "started"}
      BY <1>5, <3>1, <3>2, <3>3 DEF ReadWaiting
    <3>4. CASE meaning = "player"
      <4>1. m.type = "player"
        BY <3>4 DEF Meaning
      <4>2. Applied(roster[p], m) \in Rosters
        BY <1>2, <3>2, <4>1, AppliedType
      <4>3. roster' = [roster EXCEPT ![p] = Applied(roster[p], m)]
        BY <1>5, <3>4 DEF ReadWaiting
      <4> QED
        BY <3>1, <4>2, <4>3
    <3>5. CASE meaning \notin {"end", "started", "player"}
      BY <1>5, <3>1, <3>2, <3>5 DEF ReadWaiting
    <3> QED
      BY <3>3, <3>4, <3>5
  <2>3. number' \in Nat /\ astray' \subseteq People /\ misled' \subseteq astray'
    BY <1>5 DEF ReadWaiting, TypeOK
  <2>4. UNCHANGED <<serverVars, toServer, column, menu, keys, stay, newer>>
    BY <1>5 DEF ReadWaiting
  <2> QED
    BY <1>2, <2>1, <2>2, <2>3, <2>4 DEF TypeOK, Rosters
<1> QED
  BY <1>3, <1>4, <1>5, <1>6 DEF Reading

LEMMA LetInType ==
    ASSUME TypeOK, NEW p \in People, LetIn(p)
    PROVE  stay' \in [People -> {"out", "in", "late"}] /\ newer' \in [People -> SUBSET People]
<1>1. stay' \in [People -> {"out", "in", "late"}]
  BY DEF TypeOK, LetIn
<1>2. ASSUME NEW q \in People PROVE newer'[q] \in SUBSET People
  BY DEF TypeOK, LetIn
<1> QED
  BY <1>1, <1>2 DEF LetIn

\* What the server does.
LEMMA ServeType ==
    ASSUME TypeOK, NEW p \in People, Serve(p)
    PROVE  TypeOK'
<1> USE DEF serverVars, clientVars, history
<1>1. room \in Rooms /\ invitations \in [People -> Counts]
  BY DEF TypeOK, Rooms, Counts
<1> DEFINE m == Head(toServer[p])
           Nothing == [q \in People |-> <<>>]
<1>2. ASSUME NEW type, Takes(p, type) PROVE toServer' \in [People -> Seq(Requests)] /\ m \in Requests /\ m.type = type
  BY <1>2, TakesType
<1>3. CASE HandleCreate(p)
  <2>1. toServer' \in [People -> Seq(Requests)] /\ m.size \in Nat
    BY <1>2, <1>3, RequestsRead DEF HandleCreate
  <2>2. room' \in Rooms
    <3>1. PICK g \in [People -> Nat] : g = Seated(Nobody, p, "gamer")
      BY NobodySits, SeatedType
    <3> QED
      BY <1>3, <2>1, <3>1 DEF HandleCreate, Rooms
  <2>3. toClient' \in [People -> Seq(Answers)]
    <3>1. [q \in People |-> IF q = p THEN <<Says("created")>> ELSE <<>>] \in [People -> Seq(Answers)]
      BY AnswersMade
    <3> QED
      BY <1>3, <3>1, SendsType DEF HandleCreate
  <2>4. stay' \in [People -> {"out", "in", "late"}] /\ newer' \in [People -> SUBSET People]
    BY <1>3, LetInType DEF HandleCreate
  <2> QED
    BY <1>3, <2>1, <2>2, <2>3, <2>4 DEF HandleCreate, TypeOK, Rooms
<1>10. CASE HandleCreateAgain(p)
  <2>1. toServer' \in [People -> Seq(Requests)]
    BY <1>2, <1>10 DEF HandleCreateAgain
  <2>2. [q \in People |-> IF q = p THEN <<Says("another")>> ELSE <<>>] \in [People -> Seq(Answers)]
    BY AnswersMade
  <2>3. toClient' \in [People -> Seq(Answers)]
    BY <1>10, <2>2, SendsType DEF HandleCreateAgain
  <2> QED
    BY <1>10, <2>1, <2>3 DEF HandleCreateAgain, TypeOK
<1>4. CASE HandleInvite(p)
  <2>1. toServer' \in [People -> Seq(Requests)] /\ m.who \in People /\ m.as \in Columns
    BY <1>2, <1>4, RequestsRead DEF HandleInvite
  <2>2. invitations' \in [People -> Counts]
    <3>1. PICK q \in People, c \in Columns : m.who = q /\ m.as = c
      BY <2>1
    <3>2. invitations' = [invitations EXCEPT ![q][c] = @ + 1]
      BY <1>4, <3>1 DEF HandleInvite
    <3> QED
      BY <1>1, <3>2 DEF Counts
  <2> QED
    BY <1>4, <2>1, <2>2 DEF HandleInvite, TypeOK, Counts
<1>5. CASE HandleModify(p)
  <2>1. toServer' \in [People -> Seq(Requests)] /\ m.size \in Nat
    BY <1>2, <1>5, RequestsRead DEF HandleModify
  <2>2. CASE Exists
    <3>1. room' = [room EXCEPT !.size = m.size]
      BY <1>5, <2>2 DEF HandleModify
    <3>2. room' \in Rooms
      BY <1>1, <2>1, <3>1 DEF Rooms
    <3>3. [q \in People |-> IF q \in room.members THEN <<Says("update")>> ELSE <<>>] \in [People -> Seq(Answers)]
      BY AnswersMade
    <3>4. toClient' \in [People -> Seq(Answers)]
      BY <1>5, <2>2, <3>3, SendsType DEF HandleModify
    <3> QED
      BY <1>5, <2>1, <3>2, <3>4 DEF HandleModify, TypeOK, Rooms
  <2>3. CASE ~Exists
    BY <1>5, <2>1, <2>3 DEF HandleModify, TypeOK
  <2> QED
    BY <2>2, <2>3
<1>6. CASE HandleJoin(p)
  <2> DEFINE as == m.as
             news == PlayerRows({<<p, as>>}, TRUE)
             told(list) == [q \in People |-> (IF q \in Hearers(p) THEN <<news>> ELSE <<>>)
                                             \o (IF q = p THEN <<list>> ELSE <<>>)]
  <2>1. toServer' \in [People -> Seq(Requests)] /\ as \in Columns \cup {"junk"}
    BY <1>2, <1>6, RequestsRead DEF HandleJoin
  <2>2. UNCHANGED <<invitations, clientVars, astray, misled>>
    BY <1>6 DEF HandleJoin
  <2>3. CASE UNCHANGED <<room, deaf, toClient, stay, newer>>
    BY <2>1, <2>2, <2>3 DEF TypeOK
  <2>4. ASSUME deaf' = deaf \cup ({p} \ room.members),
               \E list \in Lists(p) : Sends([q \in People |-> IF q = p THEN <<list>> ELSE <<>>]),
               UNCHANGED <<room, stay, newer>>
        PROVE  TypeOK'
    <3>1. PICK list \in Lists(p) : Sends([q \in People |-> IF q = p THEN <<list>> ELSE <<>>])
      BY <2>4
    <3>2. [q \in People |-> IF q = p THEN <<list>> ELSE <<>>] \in [People -> Seq(Answers)]
      BY ListsType
    <3>3. toClient' \in [People -> Seq(Answers)]
      BY <3>1, <3>2, SendsType
    <3> QED
      BY <2>1, <2>2, <2>4, <3>3 DEF TypeOK
  <2>5. ASSUME as # "junk",
               room' = [room EXCEPT !.members = @ \cup {p},
                          !.gamers = Seated(@, p, as)],
               \E list \in Lists(p) : Sends(told(list)), LetIn(p), UNCHANGED deaf
        PROVE  TypeOK'
    <3>1. PICK list \in Lists(p) : Sends(told(list))
      BY <2>5
    <3>2. news \in Answers /\ list \in Answers
      <4>1. {<<p, as>>} \in SUBSET (People \X Columns)
        BY <2>1, <2>5
      <4> QED
        BY <4>1, AnswersMade, ListsType
    <3> HIDE DEF news
    <3>3. told(list) \in [People -> Seq(Answers)]
      <4>1. ASSUME NEW q \in People
            PROVE  (IF q \in Hearers(p) THEN <<news>> ELSE <<>>) \o (IF q = p THEN <<list>> ELSE <<>>) \in Seq(Answers)
        <5>1. (IF q \in Hearers(p) THEN <<news>> ELSE <<>>) \in Seq(Answers)
          BY <3>2
        <5>2. (IF q = p THEN <<list>> ELSE <<>>) \in Seq(Answers)
          BY <3>2
        <5> QED
          BY <5>1, <5>2, SeqConcat
      <4> QED
        BY <4>1
    <3> HIDE DEF told
    <3>4. toClient' \in [People -> Seq(Answers)]
      BY <3>1, <3>3, SendsType
    <3>5. room' \in Rooms
      <4>1. PICK g \in [People -> Nat] : g = Seated(room.gamers, p, as)
        BY <1>1, SeatedType DEF Rooms
      <4>2. room' = [room EXCEPT !.members = @ \cup {p}, !.gamers = g]
        BY <2>5, <4>1
      <4> QED
        BY <1>1, <4>2 DEF Rooms
    <3>6. stay' \in [People -> {"out", "in", "late"}] /\ newer' \in [People -> SUBSET People]
      BY <2>5, LetInType
    <3> QED
      BY <2>1, <2>2, <2>5, <3>4, <3>5, <3>6 DEF TypeOK, Rooms
  <2> HIDE DEF told, news
  <2>6. \/ UNCHANGED <<room, deaf, toClient, stay, newer>>
        \/ /\ deaf' = deaf \cup ({p} \ room.members)
           /\ \E list \in Lists(p) : Sends([q \in People |-> IF q = p THEN <<list>> ELSE <<>>])
           /\ UNCHANGED <<room, stay, newer>>
        \/ /\ as # "junk"
           /\ room' = [room EXCEPT !.members = @ \cup {p},
                         !.gamers = Seated(@, p, as)]
           /\ \E list \in Lists(p) : Sends(told(list))
           /\ LetIn(p) /\ UNCHANGED deaf
    BY <1>6 DEF HandleJoin, told, news
  <2> QED
    BY <2>3, <2>4, <2>5, <2>6
<1>7. CASE HandleLeave(p)
  <2> DEFINE row == PlayerRows({LeavingRow(p)}, FALSE)
             news == <<row>> \o Farewell(p)
  <2>1. toServer' \in [People -> Seq(Requests)]
    BY <1>2, <1>7 DEF HandleLeave
  <2>2. CASE Exists /\ m.known
    <3>1. room' \in Rooms
      <4>3. ASSUME NEW gone PROVE Unseated(room.gamers, gone) \in [People -> Nat]
        BY <1>1, UnseatedType DEF Rooms
      <4>1. CASE room' = [room EXCEPT !.phase = "closing", !.members = {},
                                      !.gamers = Unseated(@, room.members \cup {p})]
        <5>1. PICK g \in [People -> Nat] : g = Unseated(room.gamers, room.members \cup {p})
          BY <4>3
        <5>2. room' = [room EXCEPT !.phase = "closing", !.members = {}, !.gamers = g]
          BY <4>1, <5>1
        <5> QED
          BY <1>1, <5>2 DEF Rooms
      <4>2. CASE room' = [room EXCEPT !.members = @ \ {p}, !.gamers = Unseated(@, {p})]
        <5>1. PICK g \in [People -> Nat] : g = Unseated(room.gamers, {p})
          BY <4>3
        <5>2. room' = [room EXCEPT !.members = room.members \ {p}, !.gamers = g]
          BY <4>2, <5>1
        <5> QED
          BY <1>1, <5>2 DEF Rooms
      <4> QED
        BY <1>7, <2>2, <4>1, <4>2 DEF HandleLeave
    <3>2. news \in Seq(Answers)
      <4>1. {LeavingRow(p)} \in SUBSET (People \X Columns)
        BY DEF LeavingRow, ColumnOf, Columns
      <4>2. row \in Answers
        <5>1. \A rows \in SUBSET (People \X Columns) : PlayerRows(rows, FALSE) \in Answers
          BY AnswersMade
        <5> QED
          BY <4>1, <5>1
      <4> HIDE DEF row
      <4>3. Farewell(p) \in Seq(Answers)
        BY AnswersMade DEF Farewell
      <4> QED
        BY <4>2, <4>3, SeqConcat
    <3>3. Sends([q \in People |-> IF q \in Hearers(p) THEN news ELSE <<>>])
      BY <1>7, <2>2 DEF HandleLeave
    <3> HIDE DEF news
    <3>4. [q \in People |-> IF q \in Hearers(p) THEN news ELSE <<>>] \in [People -> Seq(Answers)]
      BY <3>2
    <3>5. toClient' \in [People -> Seq(Answers)]
      BY <3>3, <3>4, SendsType
    <3> QED
      BY <1>7, <2>1, <3>1, <3>5 DEF HandleLeave, TypeOK, Rooms
  <2>3. CASE ~(Exists /\ m.known)
    BY <1>7, <2>1, <2>3 DEF HandleLeave, TypeOK
  <2> QED
    BY <2>2, <2>3
<1>8. CASE HandleStart(p)
  <2>1. toServer' \in [People -> Seq(Requests)]
    BY <1>2, <1>8 DEF HandleStart
  <2>2. room' \in Rooms
    <3>1. PICK b \in BOOLEAN : b = Playing(p)
      BY <1>1 DEF Playing, StartAccepted, Rooms
    <3>2. room' = [room EXCEPT !.playing = b]
      BY <1>8, <3>1 DEF HandleStart
    <3> QED
      BY <1>1, <3>2 DEF Rooms
  <2>3. toClient' \in [People -> Seq(Answers)]
    <3>1. PICK answer \in Answers, told \in SUBSET People :
            Sends([q \in People |-> IF q \in told THEN <<answer>> ELSE <<>>])
      <4> DEFINE told == CASE StartAccepted(p) -> Started(p) [] Exists /\ ~StartAccepted(p) -> {p} [] OTHER -> {}
                 answer == Says(IF StartAccepted(p) THEN "started" ELSE "error")
      <4>1. told \in SUBSET People
        BY <1>1 DEF Started, Rooms
      <4>2. answer \in Answers
        BY AnswersMade
      <4>3. Sends([q \in People |-> IF q \in told THEN <<answer>> ELSE <<>>])
        BY <1>8 DEF HandleStart
      <4> HIDE DEF told, answer
      <4> QED
        BY <4>1, <4>2, <4>3
    <3>2. [q \in People |-> IF q \in told THEN <<answer>> ELSE <<>>] \in [People -> Seq(Answers)]
      OBVIOUS
    <3> QED
      BY <3>1, <3>2, SendsType
  <2> QED
    BY <1>8, <2>1, <2>2, <2>3 DEF HandleStart, TypeOK, Rooms
<1>9. CASE HandleGetLobbyInvite(p)
  <2>1. toServer' \in [People -> Seq(Requests)]
    BY <1>2, <1>9 DEF HandleGetLobbyInvite
  <2>2. [type |-> "invitations", rows |-> invitations[p]] \in Answers
    BY <1>1, AnswersMade
  <2>3. [q \in People |-> IF q = p /\ q \notin room.members
           THEN <<[type |-> "invitations", rows |-> invitations[p]]>> ELSE <<>>] \in [People -> Seq(Answers)]
    BY <2>2
  <2>4. toClient' \in [People -> Seq(Answers)]
    BY <1>9, <2>3, SendsType DEF HandleGetLobbyInvite
  <2> QED
    BY <1>9, <2>1, <2>4 DEF HandleGetLobbyInvite, TypeOK
<1> QED
  BY <1>3, <1>4, <1>5, <1>6, <1>7, <1>8, <1>9, <1>10 DEF Serve

LEMMA InitType == Init => TypeOK
<1> SUFFICES ASSUME Init PROVE TypeOK
  OBVIOUS
<1>1. room \in Rooms
  BY DEF Init, NoRoom, Nobody, Rooms
<1>2. roster \in [People -> Rosters]
  BY DEF Init, Empty, Rosters
<1> QED
  BY <1>1, <1>2 DEF Init, TypeOK, Rooms, Rosters, Screens

LEMMA TypeNext == TypeOK /\ [Next]_vars => TypeOK'
<1> SUFFICES ASSUME TypeOK, [Next]_vars PROVE TypeOK'
  OBVIOUS
<1>1. CASE UNCHANGED vars
  BY <1>1 DEF vars, serverVars, streams, clientVars, history, TypeOK
<1>2. CASE Close
  BY <1>2, WaitingAssumption, NobodySits DEF Close, streams, clientVars, history, TypeOK
<1>3. ASSUME NEW p \in People, Keys(p) \/ Reading(p) \/ Serve(p) PROVE TypeOK'
  BY <1>3, KeysType, ReadingType, ServeType
<1> QED
  BY <1>1, <1>2, <1>3 DEF Next

\* Everything has its type, what travels on the connections included
\* (gameServer.h, Lobby.h, message.h).
THEOREM Types == Spec => []TypeOK
BY InitType, TypeNext, PTL DEF Spec

-----------------------------------------------------------------------------
(* The invariant.                                                            *)

But(T) == {m \in Requests : m.type \notin T}
Untold(T) == {m \in Answers : m.type \notin T}
Invitations == {m \in Answers : m.type = "invitations"}
NoInvitations == {m \in Invitations : \A c \in Columns : m.rows[c] = 0}

\* A sequence over N, with at most one message of T after it.
Closed(s, N, T) == s \in Seq(N) \/ \E t \in Seq(N), m \in T : s = Append(t, m)

\* Before the leader has created the room.
Unopened ==
    room.phase = "none" =>
        /\ ~room.playing /\ room.members = {} /\ room.gamers = Nobody /\ astray = {}
        /\ \A p \in People :
             /\ stay[p] = "out" /\ at[p] \in {"menu", "creating", "fetching"}
             /\ toClient[p] \in Seq(NoInvitations)
             /\ \A c \in Columns : invitations[p][c] = 0
             /\ toServer[p] \in Seq({m \in Requests : m.type \in {"CREATE", "GET_LOBBY_INVITE"}})

\* The room is created once, by the leader, who reads CREATED first.
Created ==
    \A p \in People :
        /\ \/ toServer[p] \in Seq(But({"CREATE"}))
           \/ /\ p = Leader /\ room.phase = "none" /\ at[p] = "creating"
              /\ Closed(toServer[p], But({"CREATE"}), Requests)
        /\ at[p] = "creating" =>
             /\ p = Leader /\ p \notin astray
             /\ IF room.phase = "none" THEN toClient[p] = <<>>
                ELSE toClient[p] # <<>> /\ Head(toClient[p]).type = "created"

\* The leader is not invited.
LeaderUninvited ==
    /\ \A c \in Columns : invitations[Leader][c] = 0
    /\ \A p \in People :
         toServer[p] \in Seq({m \in Requests : m.type = "INVITE" => m.who # Leader})
    /\ toClient[Leader] \in Seq({m \in Answers : m.type = "invitations" => m \in NoInvitations})

\* What is under way to and from a client that never took a message for another
\* one: it is told by its screen.
Fetching(p) ==
    /\ Closed(toServer[p], But({"GET_LOBBY_INVITE"}), Requests)
    /\ \/ toClient[p] \in Seq(Untold({"invitations"}))
       \/ /\ toServer[p] = <<>> /\ p \notin room.members
          /\ Closed(toClient[p], Untold({"invitations"}), Invitations)

Orderly(p) ==
    /\ at[p] = "fetching" => Fetching(p)
    /\ at[p] # "fetching" => /\ toServer[p] \in Seq(But({"GET_LOBBY_INVITE"}))
                             /\ toClient[p] \in Seq(Untold({"invitations"}))
    /\ at[p] = "choosing" => toServer[p] = <<>> /\ toClient[p] = <<>> /\ p \notin room.members
    /\ at[p] \in {"creating", "waiting", "settings"} => toServer[p] \in Seq(But({"LEAVE"}))
    /\ at[p] = "waiting" /\ p # Leader =>
         \/ toServer[p] = <<>>
         \/ /\ \E m \in Requests : m.type = "JOIN" /\ toServer[p] = <<m>>
            /\ stay[p] = "out" /\ p \notin room.members /\ toClient[p] = <<>>
    /\ at[p] = "settings" => p = Leader
    /\ p = Leader => at[p] # "choosing" /\ toServer[p] \in Seq(But({"JOIN"}))

AllOrderly == \A p \in People \ astray : Orderly(p)

\* STARTED is under way only when the game is.
StartedTold == \A p \in People : room.playing \/ toClient[p] \in Seq(Untold({"started"}))

\* Who is handed back when the room closes entered too late.
ClosingLate == room.phase = "closing" => \A p \in room.members : stay[p] # "in"

\* Who was let in and is no more there will be told.
Kept(p) ==
    at[p] \in {"creating", "waiting", "settings"} /\ stay[p] = "in" =>
        p \in room.members \/ toClient[p] \notin Seq(Untold({"end"}))

AllKept == \A p \in People \ astray : Kept(p)

Inductive ==
    /\ TypeOK /\ Unopened /\ Created /\ LeaderUninvited /\ AllOrderly
    /\ StartedTold /\ StartedByLeader /\ ClosingLate /\ AllKept

-----------------------------------------------------------------------------
(* The queues.                                                               *)

LEMMA ClosedTail ==
    ASSUME NEW M, NEW s \in Seq(M), s # <<>>, NEW N \in SUBSET M, NEW T \in SUBSET M, Closed(s, N, T)
    PROVE  /\ Closed(Tail(s), N, T)
           /\ Head(s) \notin N => Tail(s) = <<>>
<1>1. CASE s \in Seq(N)
  <2>1. Head(s) \in N /\ Tail(s) \in Seq(N)
    BY <1>1
  <2> QED
    BY <2>1 DEF Closed
<1>2. ASSUME NEW t \in Seq(N), NEW m \in T, s = Append(t, m)
      PROVE  Closed(Tail(s), N, T) /\ (Head(s) \notin N => Tail(s) = <<>>)
  <2>1. t \in Seq(M) /\ m \in M
    OBVIOUS
  <2>2. CASE t = <<>>
    <3>1. Tail(s) = <<>>
      BY <1>2, <2>1, <2>2, SeqAppend
    <3>2. <<>> \in Seq(N)
      OBVIOUS
    <3> QED
      BY <3>1, <3>2 DEF Closed
  <2>3. CASE t # <<>>
    <3>1. Tail(s) = Append(Tail(t), m) /\ Head(s) = Head(t)
      BY <1>2, <2>1, <2>3, SeqAppend
    <3>2. Head(t) \in N /\ Tail(t) \in Seq(N)
      BY <2>3
    <3> QED
      BY <3>1, <3>2 DEF Closed
  <2> QED
    BY <2>2, <2>3
<1> QED
  BY <1>1, <1>2 DEF Closed

LEMMA Subtypes ==
    /\ \A T : But(T) \subseteq Requests /\ Untold(T) \subseteq Answers
    /\ Invitations \subseteq Answers /\ NoInvitations \subseteq Invitations
BY DEF But, Untold, Invitations, NoInvitations

-----------------------------------------------------------------------------
(* The bystanders of a step.                                                 *)

\* What a step of somebody else may change for q.
Bystander(q) ==
    /\ at'[q] = at[q] /\ stay'[q] = stay[q] /\ toServer'[q] = toServer[q]
    /\ q \in astray' <=> q \in astray
    /\ q \in room'.members => q \in room.members
    /\ \/ toClient'[q] = toClient[q]
       \/ q \in room.members /\ \E u \in Seq(Untold({"invitations"})) : toClient'[q] = toClient[q] \o u

LEMMA BystanderOrderly ==
    ASSUME TypeOK, TypeOK', NEW q \in People, Orderly(q), Bystander(q)
    PROVE  Orderly(q)'
<1>1. toClient[q] \in Seq(Answers) /\ toServer[q] \in Seq(Requests)
  BY DEF TypeOK
<1>2. toClient[q] \in Seq(Untold({"invitations"})) => toClient'[q] \in Seq(Untold({"invitations"}))
  <2>1. ASSUME NEW u \in Seq(Untold({"invitations"})), toClient'[q] = toClient[q] \o u,
               toClient[q] \in Seq(Untold({"invitations"}))
        PROVE  toClient'[q] \in Seq(Untold({"invitations"}))
    BY <2>1, SeqConcat
  <2> QED
    BY <2>1 DEF Bystander
<1>3. q \notin room.members => toClient'[q] = toClient[q] /\ q \notin room'.members
  BY DEF Bystander
<1>4. at'[q] = at[q] /\ stay'[q] = stay[q] /\ toServer'[q] = toServer[q]
  BY DEF Bystander
<1>5. Fetching(q) => Fetching(q)'
  BY <1>2, <1>3, <1>4 DEF Fetching, Closed, But, Untold, Invitations
<1> QED
  BY <1>2, <1>3, <1>4, <1>5 DEF Orderly, But, Untold

LEMMA KeysUnmoved ==
    ASSUME NEW p \in People, Keys(p)
    PROVE  toClient' = toClient /\ room' = room /\ invitations' = invitations /\ astray' = astray
BY DEF Keys, Create, CreateAgain, Confirm, Invite, Start, OpenSettings, Cancel, Leave, Fetch, Back, Join,
       serverVars, streams, clientVars, history

LEMMA KeysBystander ==
    ASSUME TypeOK, NEW p \in People, Keys(p), NEW q \in People \ {p}
    PROVE  Bystander(q)
<1> USE DEF serverVars, streams, clientVars, history
<1>1. toClient' = toClient /\ room' = room /\ astray' = astray
  BY KeysUnmoved
<1>2. at'[q] = at[q]
  BY DEF Keys, Create, CreateAgain, Confirm, Invite, Start, OpenSettings, Cancel, Leave, Fetch, Back, Join,
         Goes, TypeOK
<1>3. stay'[q] = stay[q]
  BY DEF Keys, Create, CreateAgain, Confirm, Invite, Start, OpenSettings, Cancel, Leave, Fetch, Back, Join, TypeOK
<1>4. toServer'[q] = toServer[q]
  BY DEF Keys, Create, CreateAgain, Confirm, Invite, Start, OpenSettings, Cancel, Leave, Fetch, Back, Join,
         Request, TypeOK
<1> QED
  BY <1>1, <1>2, <1>3, <1>4 DEF Bystander

LEMMA ReadingUnmoved ==
    ASSUME NEW p \in People, Reading(p)
    PROVE  room' = room /\ invitations' = invitations /\ stay' = stay /\ toServer' = toServer
BY DEF Reading, ReadCreated, ReadCreatedAgain, ReadInvitations, ReadWaiting, serverVars, streams, clientVars, history

LEMMA ReadingBystander ==
    ASSUME TypeOK, NEW p \in People, Reading(p), NEW q \in People \ {p}
    PROVE  Bystander(q) /\ toClient'[q] = toClient[q]
<1> USE DEF serverVars, streams, clientVars, history
<1>1. room' = room /\ stay' = stay /\ toServer' = toServer
  BY ReadingUnmoved
<1>2. at'[q] = at[q]
  BY DEF Reading, ReadCreated, ReadCreatedAgain, ReadInvitations, ReadWaiting, Goes, TypeOK
<1>3. q \in astray' <=> q \in astray
  BY DEF Reading, ReadCreated, ReadCreatedAgain, ReadInvitations, ReadWaiting
<1>4. toClient'[q] = toClient[q]
  BY DEF Reading, ReadCreated, ReadCreatedAgain, ReadInvitations, ReadWaiting, Reads, TypeOK
<1> QED
  BY <1>1, <1>2, <1>3, <1>4 DEF Bystander

\* What the server sends in one step: STARTED only with the game, the answer of
\* the invitation menu only to who asked for it from outside the room, and END
\* to whom it takes out of the room.
Plain == Untold({"invitations"})
Ordinary == Untold({"invitations", "started"})

Told(p, q, u) ==
    /\ u \in Seq(Answers) /\ toClient'[q] = toClient[q] \o u
    /\ \/ u \in Seq(Ordinary)
       \/ room'.playing /\ u \in Seq(Plain)
       \/ /\ HandleGetLobbyInvite(p) /\ q = p /\ q \notin room.members
          /\ u = <<[type |-> "invitations", rows |-> invitations[p]]>>
    /\ q \notin room.members \cup {p} => u = <<>>
    /\ HandleCreate(p) => u = IF q = p THEN <<Says("created")>> ELSE <<>>
    /\ HandleGetLobbyInvite(p) /\ q # p => u = <<>>
    /\ q \in room.members /\ q \notin room'.members /\ q # p /\ ~HandleCreate(p) =>
         u \notin Seq(Untold({"end"}))

LEMMA SentMade ==
    /\ \A type \in {"created", "another", "update", "error", "end", "overrun"} : Says(type) \in Ordinary
    /\ \A rows \in SUBSET (People \X Columns), added \in BOOLEAN : PlayerRows(rows, added) \in Ordinary
    /\ Says("started") \in Plain /\ Says("end") \notin Untold({"end"})
    /\ Ordinary \subseteq Plain /\ Plain \subseteq Answers
BY AnswersMade DEF Plain, Ordinary, Untold, Says, PlayerRows

LEMMA SeqWider == \A A, B : A \subseteq B => Seq(A) \subseteq Seq(B)
<1> SUFFICES ASSUME NEW A, NEW B, A \subseteq B, NEW s \in Seq(A) PROVE s \in Seq(B)
  OBVIOUS
<1> QED
  OBVIOUS

LEMMA PlainLists ==
    ASSUME TypeOK, NEW q, NEW list \in Lists(q)
    PROVE  list \in Ordinary
<1>1. list \in Answers
  BY ListsType
<1>2. list.type = "player" \/ list.type = "overrun"
  BY DEF Lists, Says, PlayerRows
<1> QED
  BY <1>1, <1>2 DEF Ordinary, Untold

LEMMA ServeTells ==
    ASSUME TypeOK, NEW p \in People, Serve(p), NEW q \in People
    PROVE  \E u : Told(p, q, u)
<1> USE DEF serverVars, clientVars, history
<1> DEFINE m == Head(toServer[p])
<1>1. /\ room \in Rooms /\ toClient[q] \in Seq(Answers)
      /\ Seq(Ordinary) \subseteq Seq(Answers) /\ Seq(Plain) \subseteq Seq(Answers)
  BY SentMade, SeqWider DEF TypeOK, Rooms
<1>2. m.type = "CREATE" \/ ~HandleCreate(p)
  BY DEF HandleCreate, Takes
<1>3. m.type = "GET_LOBBY_INVITE" \/ ~HandleGetLobbyInvite(p)
  BY DEF HandleGetLobbyInvite, Takes
<1>4. ASSUME toClient' = toClient, room'.members = room.members,
             ~HandleCreate(p)
      PROVE  Told(p, q, <<>>)
  <2>1. <<>> \in Seq(Answers) /\ <<>> \in Seq(Ordinary) /\ toClient[q] = toClient[q] \o <<>>
    BY <1>1
  <2> QED
    BY <1>4, <2>1 DEF Told
<1>5. ASSUME NEW seq \in [People -> Seq(Plain)], Sends(seq), ~HandleCreate(p), ~HandleGetLobbyInvite(p),
             room'.playing \/ seq[q] \in Seq(Ordinary),
             q \notin room.members \cup {p} => seq[q] = <<>>,
             q \in room.members /\ q \notin room'.members /\ q # p => seq[q] \notin Seq(Untold({"end"}))
      PROVE  Told(p, q, seq[q])
  <2>1. seq \in [People -> Seq(Answers)] /\ seq[q] \in Seq(Plain)
    BY <1>1, <1>5
  <2>2. toClient'[q] = toClient[q] \o seq[q]
    BY <1>5, <2>1, SendsType
  <2> QED
    BY <1>1, <1>5, <2>1, <2>2 DEF Told
<1>6. CASE HandleCreate(p)
  <2> DEFINE c == Says("created")
             seq == [r \in People |-> IF r = p THEN <<c>> ELSE <<>>]
  <2>1. c \in Answers /\ c \in Ordinary
    BY SentMade, AnswersMade
  <2>2. Sends(seq)
    BY <1>6 DEF HandleCreate
  <2>3. ~HandleGetLobbyInvite(p)
    BY <1>3, <1>6 DEF HandleCreate, Takes
  <2>4. q \notin room.members \cup {p} => q # p
    OBVIOUS
  <2> HIDE DEF c
  <2>5. seq \in [People -> Seq(Answers)]
    BY <2>1
  <2>6. seq[q] \in Seq(Ordinary) /\ seq[q] = IF q = p THEN <<c>> ELSE <<>>
    BY <2>1, SeqOne
  <2>7. toClient'[q] = toClient[q] \o seq[q] /\ seq[q] \in Seq(Answers)
    BY <2>2, <2>5, SendsType
  <2> HIDE DEF seq
  <2>8. Told(p, q, seq[q])
    BY <1>6, <2>3, <2>4, <2>6, <2>7 DEF Told, c
  <2> QED
    BY <2>8
<1>7. CASE HandleInvite(p)
  <2>1. ~HandleCreate(p)
    BY <1>2, <1>7 DEF HandleInvite, Takes
  <2> QED
    BY <1>4, <1>7, <2>1 DEF HandleInvite
<1>8. CASE HandleModify(p)
  <2> DEFINE c == Says("update")
             seq == [r \in People |-> IF r \in room.members THEN <<c>> ELSE <<>>]
  <2>1. c \in Ordinary /\ c \in Plain
    BY SentMade
  <2>2. room'.members = room.members
    BY <1>1, <1>8 DEF HandleModify, Rooms
  <2>3. Sends(seq) \/ toClient' = toClient
    BY <1>8 DEF HandleModify
  <2>4. ~HandleCreate(p) /\ ~HandleGetLobbyInvite(p)
    BY <1>2, <1>3, <1>8 DEF HandleModify, Takes
  <2> HIDE DEF c
  <2>5. seq \in [People -> Seq(Plain)] /\ seq[q] \in Seq(Ordinary) /\ (q \notin room.members => seq[q] = <<>>)
    <3>1. seq \in [People -> Seq(Plain)]
      BY <2>1
    <3>2. seq[q] \in Seq(Ordinary)
      BY <2>1, SeqOne
    <3> QED
      BY <3>1, <3>2
  <2> HIDE DEF seq
  <2>6. CASE Sends(seq)
    <3>1. Told(p, q, seq[q])
      BY <1>5, <2>2, <2>4, <2>5, <2>6
    <3> QED
      BY <3>1
  <2> QED
    BY <1>4, <2>2, <2>3, <2>4, <2>6
<1>9. CASE HandleJoin(p)
  <2> DEFINE news == PlayerRows({<<p, m.as>>}, TRUE)
             told(list) == [r \in People |-> (IF r \in Hearers(p) THEN <<news>> ELSE <<>>)
                                             \o (IF r = p THEN <<list>> ELSE <<>>)]
             alone(list) == [r \in People |-> IF r = p THEN <<list>> ELSE <<>>]
  <2>1. m \in Requests /\ m.as \in Columns \cup {"junk"}
    BY <1>9, TakesType, RequestsRead DEF HandleJoin
  <2>2. \/ room' = room /\ toClient' = toClient
        \/ room' = room /\ \E list \in Lists(p) : Sends(alone(list))
        \/ /\ m.as # "junk" /\ \E list \in Lists(p) : Sends(told(list))
           /\ room' = [room EXCEPT !.members = @ \cup {p},
                         !.gamers = Seated(@, p, m.as)]
    BY <1>9 DEF HandleJoin
  <2>3. ~HandleCreate(p) /\ ~HandleGetLobbyInvite(p)
    BY <1>2, <1>3, <1>9 DEF HandleJoin, Takes
  <2>4. \A list \in Lists(p) : list \in Ordinary /\ list \in Plain
    BY PlainLists, SentMade
  <2>5. ASSUME NEW list \in Lists(p), Sends(alone(list)), room' = room PROVE \E u : Told(p, q, u)
    <3>1. alone(list) \in [People -> Seq(Plain)]
      BY <2>4
    <3>2. alone(list)[q] \in Seq(Ordinary)
      BY <2>4, SeqOne
    <3>3. q \notin room.members \cup {p} => alone(list)[q] = <<>>
      OBVIOUS
    <3> HIDE DEF alone
    <3>4. Told(p, q, alone(list)[q])
      BY <1>5, <2>3, <2>5, <3>1, <3>2, <3>3
    <3> QED
      BY <3>4
  <2>6. ASSUME m.as # "junk", NEW list \in Lists(p), Sends(told(list)), room.members \subseteq room'.members
        PROVE  \E u : Told(p, q, u)
    <3>1. news \in Ordinary
      <4>1. {<<p, m.as>>} \in SUBSET (People \X Columns)
        BY <2>1, <2>6
      <4> QED
        BY <4>1, SentMade
    <3> HIDE DEF news
    <3>2. ASSUME NEW r \in People PROVE told(list)[r] \in Seq(Ordinary)
      <4>1. (IF r \in Hearers(p) THEN <<news>> ELSE <<>>) \in Seq(Ordinary)
        BY <3>1, SeqOne
      <4>2. (IF r = p THEN <<list>> ELSE <<>>) \in Seq(Ordinary)
        BY <2>4, SeqOne
      <4> QED
        BY <4>1, <4>2, SeqConcat
    <3>3. told(list) \in [People -> Seq(Plain)]
      <4>1. \A r \in People : told(list)[r] \in Seq(Plain)
        BY <3>2, SentMade, SeqWider
      <4> QED
        BY <4>1
    <3>4. q \notin room.members \cup {p} => told(list)[q] = <<>>
      BY DEF Hearers
    <3> HIDE DEF told
    <3>5. Told(p, q, told(list)[q])
      BY <1>5, <2>3, <2>6, <3>2, <3>3, <3>4
    <3> QED
      BY <3>5
  <2>7. room' = [room EXCEPT !.members = @ \cup {p}, !.gamers = Seated(@, p, m.as)]
          => room.members \subseteq room'.members
    BY <1>1 DEF Rooms
  <2> HIDE DEF told, alone, news
  <2> QED
    BY <1>4, <2>2, <2>3, <2>5, <2>6, <2>7
<1>10. CASE HandleLeave(p)
  <2> DEFINE row == PlayerRows({LeavingRow(p)}, FALSE)
             news == <<row>> \o Farewell(p)
             seq == [r \in People |-> IF r \in Hearers(p) THEN news ELSE <<>>]
  <2>1. row \in Ordinary
    <3>1. {LeavingRow(p)} \in SUBSET (People \X Columns)
      BY DEF LeavingRow, ColumnOf, Columns
    <3>2. \A rows \in SUBSET (People \X Columns) : PlayerRows(rows, FALSE) \in Ordinary
      BY SentMade
    <3> QED
      BY <3>1, <3>2
  <2>2. ~HandleCreate(p) /\ ~HandleGetLobbyInvite(p)
    BY <1>2, <1>3, <1>10 DEF HandleLeave, Takes
  <2> HIDE DEF row
  <2>3. Farewell(p) \in Seq(Ordinary) /\ (Dissolves(p) => Farewell(p) \notin Seq(Untold({"end"})))
    <3>1. PICK e : e = Says("end") /\ e \in Ordinary /\ e \notin Untold({"end"})
      BY SentMade
    <3>2. <<e>> \in Seq(Ordinary) /\ <<e>> \notin Seq(Untold({"end"}))
      BY <3>1
    <3> QED
      BY <3>1, <3>2, SeqOne DEF Farewell
  <2>4. news \in Seq(Ordinary) /\ (Dissolves(p) => news \notin Seq(Untold({"end"})))
    <3>1. <<row>> \in Seq(Ordinary)
      BY <2>1, SeqOne
    <3> QED
      BY <2>3, <3>1, SeqConcat
  <2>5. CASE Exists /\ m.known
    <3>1. Sends(seq)
      BY <1>10, <2>5 DEF HandleLeave, row
    <3>2. room' = IF Dissolves(p)
                    THEN [room EXCEPT !.phase = "closing", !.members = {},
                  !.gamers = Unseated(@, room.members \cup {p})]
                    ELSE [room EXCEPT !.members = @ \ {p}, !.gamers = Unseated(@, {p})]
      BY <1>10, <2>5 DEF HandleLeave
    <3>3. ~Dissolves(p) => room'.members = room.members \ {p}
      BY <1>1, <3>2 DEF Rooms
    <3> HIDE DEF news
    <3>4. seq \in [People -> Seq(Plain)] /\ seq[q] \in Seq(Ordinary)
      <4>1. news \in Seq(Plain) /\ <<>> \in Seq(Ordinary)
        BY <2>4, SentMade, SeqWider
      <4>2. seq \in [People -> Seq(Plain)]
        BY <4>1
      <4>3. seq[q] \in Seq(Ordinary)
        BY <2>4, <4>1
      <4> QED
        BY <4>2, <4>3
    <3>5. q \in room.members /\ q \notin room'.members /\ q # p => seq[q] \notin Seq(Untold({"end"}))
      BY <2>4, <3>3 DEF Hearers
    <3>6. q \notin room.members \cup {p} => seq[q] = <<>>
      BY DEF Hearers
    <3> HIDE DEF seq
    <3>7. Told(p, q, seq[q])
      BY <1>5, <2>2, <3>1, <3>4, <3>5, <3>6
    <3> QED
      BY <3>7
  <2>6. CASE ~(Exists /\ m.known)
    BY <1>4, <1>10, <2>2, <2>6 DEF HandleLeave
  <2> QED
    BY <2>5, <2>6
<1>11. CASE HandleStart(p)
  <2> DEFINE told == CASE StartAccepted(p) -> Started(p) [] Exists /\ ~StartAccepted(p) -> {p} [] OTHER -> {}
             answer == Says(IF StartAccepted(p) THEN "started" ELSE "error")
             seq == [r \in People |-> IF r \in told THEN <<answer>> ELSE <<>>]
  <2>1. answer \in Plain
    BY SentMade
  <2>2. ~StartAccepted(p) => answer \in Ordinary
    BY SentMade
  <2>3. Sends(seq) /\ room' = [room EXCEPT !.playing = Playing(p)]
    BY <1>11 DEF HandleStart
  <2>4. room'.members = room.members /\ (StartAccepted(p) => room'.playing)
    BY <1>1, <2>3 DEF Rooms, Playing
  <2>5. ~HandleCreate(p) /\ ~HandleGetLobbyInvite(p)
    BY <1>2, <1>3, <1>11 DEF HandleStart, Takes
  <2>6. q \notin room.members \cup {p} => q \notin told
    BY DEF Started
  <2> HIDE DEF told, answer
  <2>7. seq \in [People -> Seq(Plain)]
    BY <2>1
  <2>8. ~StartAccepted(p) => seq[q] \in Seq(Ordinary)
    BY <2>2, SeqOne
  <2>9. q \notin room.members \cup {p} => seq[q] = <<>>
    BY <2>6
  <2> HIDE DEF seq
  <2>10. Told(p, q, seq[q])
    BY <1>5, <2>3, <2>4, <2>5, <2>7, <2>8, <2>9
  <2> QED
    BY <2>10
<1>13. CASE HandleCreateAgain(p)
  <2> DEFINE seq == [r \in People |-> IF r = p THEN <<Says("another")>> ELSE <<>>]
  <2>1. Sends(seq) /\ room' = room
    BY <1>13 DEF HandleCreateAgain
  <2>2. ~HandleCreate(p) /\ ~HandleGetLobbyInvite(p)
    BY <1>2, <1>3, <1>13 DEF HandleCreateAgain, Takes
  <2>3. seq \in [People -> Seq(Plain)] /\ seq[q] \in Seq(Ordinary)
    BY SentMade
  <2>4. q \notin room.members \cup {p} => seq[q] = <<>>
    OBVIOUS
  <2> HIDE DEF seq
  <2>5. Told(p, q, seq[q])
    BY <1>5, <2>1, <2>2, <2>3, <2>4
  <2> QED
    BY <2>5
<1>12. CASE HandleGetLobbyInvite(p)
  <2> DEFINE answer == [type |-> "invitations", rows |-> invitations[p]]
             seq == [r \in People |-> IF r = p /\ r \notin room.members THEN <<answer>> ELSE <<>>]
  <2>1. answer \in Answers
    BY AnswersMade DEF TypeOK, Counts
  <2>2. Sends(seq) /\ room' = room
    BY <1>12 DEF HandleGetLobbyInvite
  <2>3. ~HandleCreate(p)
    BY <1>2, <1>12 DEF HandleGetLobbyInvite, Takes
  <2> HIDE DEF answer
  <2>4. seq \in [People -> Seq(Answers)] /\ <<>> \in Seq(Ordinary)
    BY <2>1
  <2>5. /\ toClient'[q] = toClient[q] \o seq[q] /\ seq[q] \in Seq(Answers)
        /\ seq[q] = IF q = p /\ q \notin room.members THEN <<answer>> ELSE <<>>
    BY <2>2, <2>4, SendsType
  <2> HIDE DEF seq
  <2>6. Told(p, q, seq[q])
    BY <1>12, <2>2, <2>3, <2>4, <2>5 DEF Told, answer
  <2> QED
    BY <2>6
<1> QED
  BY <1>6, <1>7, <1>8, <1>9, <1>10, <1>11, <1>12, <1>13 DEF Serve

\* What a step of the server does to who stands by.
LEMMA LetInOthers ==
    ASSUME TypeOK, NEW p \in People, LetIn(p), NEW q \in People
    PROVE  stay'[q] = IF q # p THEN stay[q]
                      ELSE IF room.phase = "closing" \/ room.playing THEN "late" ELSE "in"
BY DEF LetIn, TypeOK

LEMMA ServeKeeps ==
    ASSUME TypeOK, NEW p \in People, Serve(p)
    PROVE  /\ at' = at /\ astray' = astray
           /\ toServer[p] # <<>> /\ Head(toServer[p]) \in Requests
           /\ \A q \in People : toServer'[q] = IF q = p THEN Tail(toServer[q]) ELSE toServer[q]
           /\ \A q \in People \ {p} : stay'[q] = stay[q]
BY TakesType, LetInOthers
   DEF Serve, HandleCreate, HandleCreateAgain, HandleInvite, HandleModify, HandleJoin, HandleLeave, HandleStart,
       HandleGetLobbyInvite, clientVars, history

\* The room in a step of the server other than its creation.
LEMMA ServeRoom ==
    ASSUME TypeOK, NEW p \in People, Serve(p), ~HandleCreate(p)
    PROVE  /\ room.playing => room'.playing
           /\ room'.phase = room.phase \/ (room'.phase = "closing" /\ room'.members = {})
           /\ room'.members \subseteq room.members \cup {p}
           /\ p \in room.members => room.phase = "open"
           /\ p \in room.members /\ ~HandleLeave(p) => p \in room'.members
           /\ ~HandleLeave(p) => room'.phase = room.phase
           /\ p \in room'.members /\ p \notin room.members => LetIn(p)
           /\ stay'[p] = stay[p] \/ p \in room'.members
<1> USE DEF serverVars, clientVars, history
<1>1. room \in Rooms
  BY DEF TypeOK, Rooms
<1>2. p \in room.members => room.phase = "open"
  BY DEF Serve, HandleCreateAgain, HandleInvite, HandleModify, HandleJoin, HandleLeave,
         HandleStart, HandleGetLobbyInvite, Takes
<1>3. CASE HandleInvite(p) \/ HandleGetLobbyInvite(p) \/ HandleCreateAgain(p)
  BY <1>2, <1>3 DEF HandleInvite, HandleGetLobbyInvite, HandleCreateAgain
<1>4. CASE HandleModify(p)
  BY <1>1, <1>2, <1>4 DEF HandleModify, Rooms
<1>5. CASE HandleJoin(p)
  <2> DEFINE as == Head(toServer[p]).as
  <2>1. \/ UNCHANGED <<room, stay>>
        \/ /\ room' = [room EXCEPT !.members = @ \cup {p},
                         !.gamers = Seated(@, p, as)]
           /\ LetIn(p)
    BY <1>5 DEF HandleJoin
  <2> HIDE DEF as
  <2>2. CASE UNCHANGED <<room, stay>>
    BY <1>2, <2>2
  <2>3. CASE /\ room' = [room EXCEPT !.members = @ \cup {p},
                           !.gamers = Seated(@, p, as)]
             /\ LetIn(p)
    BY <1>1, <1>2, <2>3 DEF Rooms
  <2> QED
    BY <2>1, <2>2, <2>3
<1>6. CASE HandleLeave(p)
  <2>1. CASE room' = [room EXCEPT !.phase = "closing", !.members = {},
                  !.gamers = Unseated(@, room.members \cup {p})]
    BY <1>1, <1>2, <1>6, <2>1 DEF HandleLeave, Rooms
  <2>2. CASE room' = [room EXCEPT !.members = @ \ {p}, !.gamers = Unseated(@, {p})]
    BY <1>1, <1>2, <1>6, <2>2 DEF HandleLeave, Rooms
  <2>3. CASE room' = room
    BY <1>2, <1>6, <2>3 DEF HandleLeave
  <2> QED
    BY <1>6, <2>1, <2>2, <2>3 DEF HandleLeave
<1>7. CASE HandleStart(p)
  <2>1. PICK b \in BOOLEAN : b = Playing(p) /\ (room.playing => b)
    BY <1>1 DEF Playing, StartAccepted, Rooms
  <2>2. room' = [room EXCEPT !.playing = b] /\ stay' = stay
    BY <1>7, <2>1 DEF HandleStart
  <2> QED
    BY <1>1, <1>2, <2>1, <2>2 DEF Rooms
<1> QED
  BY <1>3, <1>4, <1>5, <1>6, <1>7 DEF Serve

\* CREATE is the last the leader asked for.
LEMMA ServeCreate ==
    ASSUME TypeOK, Unopened, Created, NEW p \in People, HandleCreate(p)
    PROVE  /\ p = Leader /\ room.phase = "none" /\ at[p] = "creating"
           /\ Tail(toServer[p]) = <<>> /\ toClient[p] = <<>>
           /\ room.members = {} /\ ~room.playing
           /\ room'.phase = "open" /\ room'.members = {p} /\ LetIn(p)
<1> USE DEF history
<1>1. toServer[p] # <<>> /\ Head(toServer[p]) \in Requests /\ Head(toServer[p]).type = "CREATE"
      /\ toServer[p] \in Seq(Requests)
  BY TakesType DEF HandleCreate, TypeOK
<1>2. Head(toServer[p]) \notin But({"CREATE"}) /\ But({"CREATE"}) \in SUBSET Requests
  BY <1>1 DEF But
<1>3. toServer[p] \notin Seq(But({"CREATE"}))
  BY <1>1, <1>2, SeqHead
<1>4. /\ p = Leader /\ room.phase = "none" /\ at[p] = "creating"
      /\ Closed(toServer[p], But({"CREATE"}), Requests) /\ toClient[p] = <<>>
  BY <1>3 DEF Created
<1>5. Tail(toServer[p]) = <<>>
  BY <1>1, <1>2, <1>4, ClosedTail
<1> QED
  BY <1>4, <1>5 DEF Unopened, HandleCreate

LEMMA ServeBystander ==
    ASSUME TypeOK, Unopened, Created, NEW p \in People, Serve(p), NEW q \in People \ {p}
    PROVE  Bystander(q)
<1>1. at'[q] = at[q] /\ stay'[q] = stay[q] /\ toServer'[q] = toServer[q] /\ (q \in astray' <=> q \in astray)
  BY ServeKeeps
<1>2. q \in room'.members => q \in room.members
  BY ServeRoom, ServeCreate
<1>3. PICK u : Told(p, q, u)
  BY ServeTells
<1>4. toClient[q] \in Seq(Answers) /\ toClient[q] \o <<>> = toClient[q]
  BY DEF TypeOK
<1>5. q \notin room.members => toClient'[q] = toClient[q]
  BY <1>3, <1>4 DEF Told
<1>6. u \in Seq(Plain) /\ toClient'[q] = toClient[q] \o u
  BY <1>3, SentMade, SeqWider DEF Told
<1> QED
  BY <1>1, <1>2, <1>5, <1>6 DEF Bystander, Plain

-----------------------------------------------------------------------------
(* The keys.                                                                 *)

\* The keys that send r, by the screen they are pressed on and the next.
Sent(p, r) ==
    /\ r \in Requests /\ toServer'[p] = Append(toServer[p], r)
    /\ r.type # "JOIN" => column'[p] = column[p]
    /\ r.type \notin {"JOIN", "LEAVE"} => roster'[p] = roster[p]
    /\ \/ r.type = "CREATE" /\ p = Leader /\ room.phase = "none" /\ at[p] = "menu" /\ at'[p] = "creating"
       \/ r.type = "CREATE_AGAIN" /\ p = Leader /\ room.phase # "none" /\ at[p] = "menu" /\ at'[p] = "again"
       \/ r.type = "INVITE" /\ r.who # Leader /\ p = Leader /\ at[p] = "waiting" /\ at'[p] = "waiting"
       \/ r.type = "START" /\ p = Leader /\ at[p] = "waiting" /\ at'[p] = "waiting"
       \/ r.type = "MODIFY" /\ at[p] = "settings" /\ at'[p] \in {"waiting", "menu"}
       \/ r.type = "LEAVE" /\ at[p] = "waiting" /\ at'[p] = "menu" /\ (r.known <=> column[p] # "junk")
       \/ r.type = "GET_LOBBY_INVITE" /\ at[p] = "menu" /\ at'[p] = "fetching"
       \/ /\ r.type = "JOIN" /\ at[p] = "choosing" /\ at'[p] = "waiting" /\ stay'[p] = "out"
          /\ column'[p] = r.as /\ (r.as \in Columns => roster'[p] = Itself(p, r.as))

LEMMA KeysSend ==
    ASSUME TypeOK, NEW p \in People, Keys(p)
    PROVE  /\ astray' = astray
           /\ stay'[p] = stay[p] \/ stay'[p] = "out"
           /\ \/ \E r : Sent(p, r)
              \/ /\ toServer'[p] = toServer[p] /\ stay'[p] = stay[p]
                 /\ column'[p] = column[p] /\ roster'[p] = roster[p]
                 /\ \/ p = Leader /\ at[p] = "waiting" /\ at'[p] = "settings"
                    \/ at[p] = "choosing" /\ at'[p] = "menu"
<1> USE DEF serverVars, streams, clientVars, history
<1>1. /\ astray' = astray
      /\ stay'[p] = stay[p] \/ stay'[p] = "out"
  BY DEF Keys, Create, CreateAgain, Confirm, Invite, Start, OpenSettings, Cancel, Leave, Fetch, Back, Join, TypeOK
<1>2. ASSUME NEW r \in Requests, Request(p, r) PROVE toServer'[p] = Append(toServer[p], r)
  BY <1>2, RequestType
<1>3. ASSUME NEW screen, Goes(p, screen) PROVE at'[p] = screen
  BY <1>3 DEF Goes, TypeOK
<1>4. ASSUME NEW n \in Sizes, Create(p, n) PROVE \E r : Sent(p, r)
  <2>1. PICK r \in Requests : r = [type |-> "CREATE", size |-> n]
    BY WaitingAssumption, RequestsMade
  <2>2. Sent(p, r)
    BY <1>2, <1>3, <1>4, <2>1 DEF Create, Sent
  <2> QED
    BY <2>2
<1>5. ASSUME NEW n \in Sizes, Confirm(p, n) PROVE \E r : Sent(p, r)
  <2>1. PICK r \in Requests : r = [type |-> "MODIFY", size |-> n]
    BY WaitingAssumption, RequestsMade
  <2>2. Sent(p, r)
    BY <1>2, <1>3, <1>5, <2>1 DEF Confirm, Sent
  <2> QED
    BY <2>2
<1>6. ASSUME NEW q \in People \ {Leader}, NEW c \in Columns, Invite(p, q, c) PROVE \E r : Sent(p, r)
  <2>1. PICK r \in Requests : r = [type |-> "INVITE", who |-> q, as |-> c]
    BY RequestsMade
  <2>2. r.type = "INVITE" /\ r.who = q
    BY <2>1
  <2>3. Sent(p, r)
    BY <1>2, <1>6, <2>1, <2>2 DEF Invite, Sent
  <2> QED
    BY <2>3
<1>7. CASE Start(p)
  <2>1. PICK r \in Requests : r = Says("START") /\ r.type = "START"
    BY RequestsMade DEF Says
  <2>2. Sent(p, r)
    BY <1>2, <1>7, <2>1 DEF Start, Sent
  <2> QED
    BY <1>1, <2>2
<1>14. CASE CreateAgain(p)
  <2>1. PICK r \in Requests : r = Says("CREATE_AGAIN") /\ r.type = "CREATE_AGAIN"
    BY RequestsMade DEF Says
  <2>2. Sent(p, r)
    BY <1>2, <1>3, <1>14, <2>1 DEF CreateAgain, Sent
  <2> QED
    BY <1>1, <2>2
<1>8. CASE OpenSettings(p)
  BY <1>1, <1>3, <1>8 DEF OpenSettings
<1>9. CASE Cancel(p)
  <2>1. PICK r \in Requests : r = [type |-> "MODIFY", size |-> number]
    BY RequestsMade DEF TypeOK
  <2>2. Sent(p, r)
    BY <1>2, <1>3, <1>9, <2>1 DEF Cancel, Sent
  <2> QED
    BY <1>1, <2>2
<1>10. CASE Leave(p)
  <2> DEFINE b == column[p] # "junk"
  <2>1. Request(p, [type |-> "LEAVE", known |-> b]) /\ b \in BOOLEAN
    BY <1>10 DEF Leave
  <2> HIDE DEF b
  <2>2. PICK r \in Requests : r = [type |-> "LEAVE", known |-> b]
    BY <2>1, RequestsMade
  <2>4. r.type = "LEAVE" /\ (r.known <=> column[p] # "junk")
    BY <2>2 DEF b
  <2>5. toServer'[p] = Append(toServer[p], r) /\ at[p] = "waiting" /\ at'[p] = "menu" /\ column' = column
    BY <1>2, <1>3, <1>10, <2>1, <2>2 DEF Leave
  <2>3. Sent(p, r)
    BY <2>4, <2>5 DEF Sent
  <2> QED
    BY <1>1, <2>3
<1>11. CASE Fetch(p)
  <2>1. PICK r \in Requests : r = Says("GET_LOBBY_INVITE") /\ r.type = "GET_LOBBY_INVITE"
    BY RequestsMade DEF Says
  <2>2. Sent(p, r)
    BY <1>2, <1>3, <1>11, <2>1 DEF Fetch, Sent
  <2> QED
    BY <1>1, <2>2
<1>12. CASE Back(p)
  BY <1>1, <1>3, <1>12 DEF Back
<1>13. ASSUME NEW c \in Columns \cup {"junk"}, Join(p, c) PROVE \E r : Sent(p, r)
  <2>1. PICK r \in Requests : r = [type |-> "JOIN", as |-> c]
    BY RequestsMade
  <2>2. stay'[p] = "out" /\ column'[p] = c
    BY <1>13 DEF Join, TypeOK
  <2>4. c \in Columns => roster'[p] = Itself(p, c)
    BY <1>13 DEF Join, TypeOK, Columns
  <2>3. Sent(p, r)
    BY <1>2, <1>3, <1>13, <2>1, <2>2, <2>4 DEF Join, Sent
  <2> QED
    BY <2>3
<1> QED
  BY <1>1, <1>4, <1>5, <1>6, <1>7, <1>8, <1>9, <1>10, <1>11, <1>12, <1>13, <1>14 DEF Keys

\* A request at the end of those under way.
LEMMA SentLast ==
    ASSUME TypeOK, NEW p \in People, NEW r, Sent(p, r)
    PROVE  /\ \A S : toServer'[p] \in Seq(S) <=> toServer[p] \in Seq(S) /\ r \in S
           /\ toServer'[p] # <<>>
           /\ \A S, T : toServer[p] \in Seq(S) /\ r \in T => Closed(toServer'[p], S, T)
           /\ toServer[p] = <<>> => toServer'[p] = <<r>>
<1>1. toServer[p] \in Seq(Requests) /\ r \in Requests /\ toServer'[p] = Append(toServer[p], r)
  BY DEF TypeOK, Sent
<1>2. toServer[p] = <<>> => toServer'[p] = <<r>>
  BY <1>1
<1> QED
  BY <1>1, <1>2, SeqAppend DEF Closed

LEMMA KeysOrderly ==
    ASSUME TypeOK, Unopened, Created, NEW p \in People, Keys(p), Orderly(p)
    PROVE  Orderly(p)'
<1>1. toClient' = toClient /\ room' = room
  BY KeysUnmoved
<1>2. CASE /\ toServer'[p] = toServer[p] /\ stay'[p] = stay[p]
           /\ \/ p = Leader /\ at[p] = "waiting" /\ at'[p] = "settings"
              \/ at[p] = "choosing" /\ at'[p] = "menu"
  BY <1>1, <1>2 DEF Orderly
<1>3. ASSUME NEW r, Sent(p, r) PROVE Orderly(p)'
  <2>1. toServer[p] \in Seq(Requests) /\ toClient'[p] = toClient[p]
    BY <1>1 DEF TypeOK
  <2>2. at'[p] # "fetching" => /\ toServer'[p] \in Seq(But({"GET_LOBBY_INVITE"}))
                               /\ toClient'[p] \in Seq(Untold({"invitations"}))
    <3> SUFFICES ASSUME at'[p] # "fetching"
                 PROVE  /\ toServer'[p] \in Seq(But({"GET_LOBBY_INVITE"}))
                        /\ toClient'[p] \in Seq(Untold({"invitations"}))
      OBVIOUS
    <3>1. at[p] # "fetching" /\ r \in But({"GET_LOBBY_INVITE"})
      BY <1>3 DEF Sent, But
    <3>2. toServer[p] \in Seq(But({"GET_LOBBY_INVITE"})) /\ toClient[p] \in Seq(Untold({"invitations"}))
      BY <3>1 DEF Orderly
    <3> QED
      BY <1>3, <2>1, <3>1, <3>2, SentLast
  <2>3. at'[p] \in {"creating", "waiting", "settings"} => toServer'[p] \in Seq(But({"LEAVE"}))
    <3> SUFFICES ASSUME at'[p] \in {"creating", "waiting", "settings"}
                 PROVE  toServer'[p] \in Seq(But({"LEAVE"}))
      OBVIOUS
    <3>1. r \in But({"LEAVE"})
      BY <1>3 DEF Sent, But
    <3>2. toServer[p] \in Seq(But({"LEAVE"}))
      <4>1. CASE at[p] \in {"waiting", "settings"}
        BY <4>1 DEF Orderly
      <4>2. CASE at[p] = "choosing"
        <5>1. toServer[p] = <<>>
          BY <4>2 DEF Orderly
        <5> QED
          BY <5>1
      <4>3. CASE at[p] = "menu"
        <5>1. toServer[p] \in Seq({m \in Requests : m.type \in {"CREATE", "GET_LOBBY_INVITE"}})
          BY <1>3, <4>3 DEF Sent, Unopened
        <5>2. {m \in Requests : m.type \in {"CREATE", "GET_LOBBY_INVITE"}} \subseteq But({"LEAVE"})
          BY DEF But
        <5> QED
          BY <5>1, <5>2, SeqWider
      <4> QED
        BY <1>3, <4>1, <4>2, <4>3 DEF Sent
    <3> QED
      BY <1>3, <3>1, <3>2, SentLast
  <2>4. at'[p] = "waiting" /\ p # Leader =>
          /\ \E m \in Requests : m.type = "JOIN" /\ toServer'[p] = <<m>>
          /\ stay'[p] = "out" /\ p \notin room'.members /\ toClient'[p] = <<>>
    <3> SUFFICES ASSUME at'[p] = "waiting", p # Leader
                 PROVE  /\ \E m \in Requests : m.type = "JOIN" /\ toServer'[p] = <<m>>
                        /\ stay'[p] = "out" /\ p \notin room'.members /\ toClient'[p] = <<>>
      OBVIOUS
    <3>1. r \in Requests /\ r.type = "JOIN" /\ at[p] = "choosing" /\ stay'[p] = "out"
      BY <1>3 DEF Sent, Orderly
    <3>2. toServer[p] = <<>> /\ toClient[p] = <<>> /\ p \notin room.members
      BY <3>1 DEF Orderly
    <3>3. toServer'[p] = <<r>>
      BY <1>3, <3>2, SentLast
    <3> QED
      BY <1>1, <2>1, <3>1, <3>2, <3>3
  <2>5. p = Leader => at'[p] # "choosing" /\ toServer'[p] \in Seq(But({"JOIN"}))
    <3> SUFFICES ASSUME p = Leader PROVE at'[p] # "choosing" /\ toServer'[p] \in Seq(But({"JOIN"}))
      OBVIOUS
    <3>1. at[p] # "choosing" /\ toServer[p] \in Seq(But({"JOIN"}))
      BY DEF Orderly
    <3>2. at'[p] # "choosing" /\ r \in But({"JOIN"})
      BY <1>3, <3>1 DEF Sent, But
    <3> QED
      BY <1>3, <3>1, <3>2, SentLast
  <2>6. at'[p] = "fetching" => Fetching(p)'
    <3> SUFFICES ASSUME at'[p] = "fetching" PROVE Fetching(p)'
      OBVIOUS
    <3>1. at[p] = "menu" /\ r \in Requests
      BY <1>3 DEF Sent
    <3>2. toServer[p] \in Seq(But({"GET_LOBBY_INVITE"})) /\ toClient[p] \in Seq(Untold({"invitations"}))
      BY <3>1 DEF Orderly
    <3>3. Closed(toServer'[p], But({"GET_LOBBY_INVITE"}), Requests)
      BY <1>3, <3>1, <3>2, SentLast
    <3> QED
      BY <1>1, <3>2, <3>3 DEF Fetching, But, Untold, Closed
  <2>7. at'[p] # "choosing" /\ at'[p] # "settings"
    BY <1>3 DEF Sent
  <2> QED
    BY <2>2, <2>3, <2>4, <2>5, <2>6, <2>7 DEF Orderly, But, Untold
<1> QED
  BY <1>2, <1>3, KeysSend

LEMMA KeysKept ==
    ASSUME TypeOK, Unopened, NEW p \in People, Keys(p), Kept(p)
    PROVE  Kept(p)'
<1>1. toClient' = toClient /\ room' = room
  BY KeysUnmoved
<1>2. at'[p] \in {"creating", "waiting", "settings"} /\ stay'[p] = "in" =>
        at[p] \in {"creating", "waiting", "settings"} /\ stay[p] = "in"
  BY KeysSend DEF Sent, Unopened
<1> QED
  BY <1>1, <1>2 DEF Kept, Untold

LEMMA KeysCreated ==
    ASSUME TypeOK, Unopened, Created, AllOrderly, NEW p \in People, Keys(p)
    PROVE  Created'
<1>1. /\ toClient' = toClient /\ room' = room /\ astray' = astray
      /\ \A q \in People \ {p} : toServer'[q] = toServer[q] /\ at'[q] = at[q]
  BY KeysUnmoved, KeysBystander, KeysSend DEF Bystander
<1>2. CASE toServer'[p] = toServer[p] /\ at[p] # "creating" /\ at'[p] # "creating"
  BY <1>1, <1>2 DEF Created, But, Closed
<1>3. ASSUME NEW r, Sent(p, r) PROVE Created'
  <2>1. toServer[p] \in Seq(But({"CREATE"})) /\ at[p] # "creating"
    BY <1>3 DEF Sent, Created
  <2>2. CASE r.type = "CREATE"
    <3>1. p = Leader /\ room.phase = "none" /\ at[p] = "menu" /\ at'[p] = "creating" /\ r \in Requests
      BY <1>3, <2>2 DEF Sent
    <3>2. Closed(toServer'[p], But({"CREATE"}), Requests)
      BY <1>3, <2>1, <3>1, SentLast
    <3>3. p \notin astray /\ toClient[p] \in Seq(NoInvitations) /\ toClient[p] \in Seq(Untold({"invitations"}))
      BY <3>1 DEF Unopened, AllOrderly, Orderly
    <3>4. toClient[p] = <<>>
      <4>1. NoInvitations \cap Untold({"invitations"}) = {}
        BY DEF NoInvitations, Invitations, Untold
      <4> QED
        BY <3>3, <4>1
    <3> QED
      BY <1>1, <3>1, <3>2, <3>3, <3>4 DEF Created, But, Closed
  <2>3. CASE r.type # "CREATE"
    <3>1. r \in But({"CREATE"}) /\ at'[p] # "creating"
      BY <1>3, <2>3 DEF Sent, But
    <3>2. toServer'[p] \in Seq(But({"CREATE"}))
      BY <1>3, <2>1, <3>1, SentLast
    <3> QED
      BY <1>1, <3>1, <3>2 DEF Created, But, Closed
  <2> QED
    BY <2>2, <2>3
<1> QED
  BY <1>2, <1>3, KeysSend

LEMMA KeysUnopened ==
    ASSUME TypeOK, Unopened, NEW p \in People, Keys(p)
    PROVE  Unopened'
<1> SUFFICES ASSUME room.phase = "none" PROVE Unopened'
  BY KeysUnmoved DEF Unopened
<1>1. /\ toClient' = toClient /\ room' = room /\ astray' = astray /\ invitations' = invitations
      /\ \A q \in People \ {p} : toServer'[q] = toServer[q] /\ at'[q] = at[q] /\ stay'[q] = stay[q]
  BY KeysUnmoved, KeysBystander, KeysSend DEF Bystander
<1>2. stay'[p] = "out"
  BY KeysSend DEF Unopened
<1>3. at[p] \in {"menu", "creating", "fetching"}
  BY DEF Unopened
<1>4. PICK r : Sent(p, r)
  BY <1>3, KeysSend
<1>5. at'[p] \in {"creating", "fetching"} /\ r.type \in {"CREATE", "GET_LOBBY_INVITE"} /\ r \in Requests
  BY <1>3, <1>4 DEF Sent
<1>6. toServer'[p] \in Seq({m \in Requests : m.type \in {"CREATE", "GET_LOBBY_INVITE"}})
  BY <1>4, <1>5, SentLast DEF Unopened
<1> QED
  BY <1>1, <1>2, <1>5, <1>6 DEF Unopened, NoInvitations, Invitations

LEMMA KeysInductive ==
    ASSUME Inductive, NEW p \in People, Keys(p)
    PROVE  Inductive'
<1> USE DEF Inductive
<1>1. /\ TypeOK' /\ Unopened' /\ Created'
      /\ toClient' = toClient /\ room' = room /\ astray' = astray /\ invitations' = invitations
      /\ \A q \in People \ {p} : Bystander(q)
  BY KeysType, KeysUnopened, KeysCreated, KeysUnmoved, KeysBystander, KeysSend
<1>2. LeaderUninvited'
  <2>1. ASSUME NEW q \in People
        PROVE  toServer'[q] \in Seq({m \in Requests : m.type = "INVITE" => m.who # Leader})
    <3>1. toServer[q] \in Seq({m \in Requests : m.type = "INVITE" => m.who # Leader})
      BY DEF LeaderUninvited
    <3>2. CASE toServer'[q] = toServer[q]
      BY <3>1, <3>2
    <3>3. ASSUME NEW r, Sent(q, r)
          PROVE  toServer'[q] \in Seq({m \in Requests : m.type = "INVITE" => m.who # Leader})
      <4>1. r \in Requests /\ (r.type = "INVITE" => r.who # Leader)
        BY <3>3 DEF Sent
      <4> QED
        BY <3>1, <3>3, <4>1, SentLast
    <3> QED
      BY <1>1, <3>2, <3>3, KeysSend DEF Bystander
  <2> QED
    BY <1>1, <2>1 DEF LeaderUninvited, NoInvitations, Invitations
<1>3. AllOrderly'
  <2>1. ASSUME NEW q \in People \ astray' PROVE Orderly(q)'
    <3>1. Orderly(q)
      BY <1>1, <2>1 DEF AllOrderly
    <3>2. CASE q = p
      BY <3>1, <3>2, KeysOrderly
    <3>3. CASE q # p
      BY <1>1, <3>1, <3>3, BystanderOrderly
    <3> QED
      BY <3>2, <3>3
  <2> QED
    BY <2>1 DEF AllOrderly
<1>4. AllKept'
  <2>1. ASSUME NEW q \in People \ astray' PROVE Kept(q)'
    <3>1. Kept(q)
      BY <1>1, <2>1 DEF AllKept
    <3>2. CASE q = p
      BY <3>1, <3>2, KeysKept
    <3>3. CASE q # p
      BY <1>1, <3>1, <3>3 DEF Bystander, Kept, Untold
    <3> QED
      BY <3>2, <3>3
  <2> QED
    BY <2>1 DEF AllKept
<1>5. StartedTold' /\ ClosingLate'
  <2>1. \A q \in People : stay'[q] = "in" => stay[q] = "in"
    BY <1>1, KeysSend DEF Bystander
  <2>2. room.members \subseteq People
    BY DEF TypeOK
  <2> QED
    BY <1>1, <2>1, <2>2 DEF StartedTold, ClosingLate, Untold
<1>6. StartedByLeader'
  <2>1. \A q \in People : at'[q] = "playing" => at[q] = "playing"
    BY <1>1, KeysSend DEF Bystander, Sent
  <2> QED
    BY <1>1, <2>1 DEF StartedByLeader
<1> QED
  BY <1>1, <1>2, <1>3, <1>4, <1>5, <1>6

-----------------------------------------------------------------------------
(* The reading.                                                              *)

\* What a client does with the next message, by the screen it reads it on.
Consumed(p, m) ==
    /\ toClient[p] # <<>> /\ m = Head(toClient[p]) /\ m \in Answers
    /\ toClient'[p] = Tail(toClient[p])
    /\ \/ /\ at[p] = "creating" /\ astray' = astray
          /\ at'[p] = IF m.type = "created" THEN "waiting" ELSE "creating"
       \/ /\ at[p] = "again" /\ at'[p] \in {"again", "elsewhere"} /\ astray' = astray
       \/ /\ at[p] = "fetching" /\ at'[p] \in {"menu", "choosing"}
          /\ m \in NoInvitations => at'[p] = "menu"
          /\ astray' = IF m.type = "invitations" THEN astray ELSE astray \cup {p}
       \/ /\ at[p] = "waiting" /\ at'[p] \in {"waiting", "menu", "playing", "broken"}
          /\ astray' = IF m.type = "invitations" THEN astray \cup {p} ELSE astray
          /\ m.type = "end" => at'[p] = "menu"
          /\ at'[p] = "playing" /\ m.type # "invitations" => m.type = "started"

LEMMA ReadingConsumes ==
    ASSUME TypeOK, NEW p \in People, Reading(p)
    PROVE  \E m : Consumed(p, m)
<1> DEFINE m == Head(toClient[p])
<1>1. Reads(p)
  BY DEF Reading, ReadCreated, ReadCreatedAgain, ReadInvitations, ReadWaiting
<1>2. toClient[p] # <<>> /\ m \in Answers /\ toClient'[p] = Tail(toClient[p])
  BY <1>1, ReadsType
<1>3. ASSUME NEW screen, at' = [at EXCEPT ![p] = screen] PROVE at'[p] = screen
  BY <1>3 DEF TypeOK
<1>4. CASE ReadCreated(p)
  <2>1. Consumed(p, m)
    BY <1>2, <1>3, <1>4 DEF ReadCreated, Goes, Consumed, history
  <2> QED
    BY <2>1
<1>7. CASE ReadCreatedAgain(p)
  <2>1. at[p] = "again" /\ at'[p] \in {"again", "elsewhere"} /\ astray' = astray
    BY <1>3, <1>7 DEF ReadCreatedAgain, Goes, history
  <2>2. Consumed(p, m)
    BY <1>2, <2>1 DEF Consumed
  <2> QED
    BY <2>2
<1>5. CASE ReadInvitations(p)
  <2> DEFINE offers == IF m.type = "invitations" THEN {c \in Columns : m.rows[c] > 0} ELSE {"junk"}
  <2>1. /\ at[p] = "fetching" /\ at'[p] = IF offers = {} THEN "menu" ELSE "choosing"
        /\ astray' = IF m.type = "invitations" THEN astray ELSE astray \cup {p}
    BY <1>3, <1>5 DEF ReadInvitations, Goes
  <2>2. m \in NoInvitations => offers = {}
    BY DEF NoInvitations, Invitations
  <2> HIDE DEF offers
  <2>3. Consumed(p, m)
    BY <1>2, <2>1, <2>2 DEF Consumed
  <2> QED
    BY <2>3
<1>6. CASE ReadWaiting(p)
  <2> DEFINE screen == CASE Meaning(m) = "end" -> "menu"
                         [] Meaning(m) = "started" -> "playing"
                         [] Meaning(m) = "overrun" -> "broken"
                         [] OTHER -> at[p]
  <2>1. at' = [at EXCEPT ![p] = screen]
    BY <1>6 DEF ReadWaiting
  <2>2. m.type # "invitations" => Meaning(m) = m.type
    BY DEF Meaning
  <2>3. at[p] = "waiting" /\ astray' = IF m.type = "invitations" THEN astray \cup {p} ELSE astray
    BY <1>6 DEF ReadWaiting
  <2>4. /\ screen \in {"waiting", "menu", "playing", "broken"}
        /\ m.type = "end" => screen = "menu"
        /\ screen = "playing" /\ m.type # "invitations" => m.type = "started"
    BY <2>2, <2>3
  <2> HIDE DEF screen
  <2>5. Consumed(p, m)
    BY <1>2, <1>3, <2>1, <2>3, <2>4 DEF Consumed
  <2> QED
    BY <2>5
<1> QED
  BY <1>4, <1>5, <1>6, <1>7 DEF Reading

\* A message at the head of those under way.
LEMMA ConsumedFirst ==
    ASSUME TypeOK, NEW p \in People, NEW m, Consumed(p, m)
    PROVE  \A S : toClient[p] \in Seq(S) <=> m \in S /\ toClient'[p] \in Seq(S)
BY SeqHead DEF TypeOK, Consumed

LEMMA ReadingOrderly ==
    ASSUME TypeOK, Unopened, Created, LeaderUninvited, NEW p \in People, Reading(p), Orderly(p),
           p \notin astray'
    PROVE  Orderly(p)'
<1>1. PICK m : Consumed(p, m)
  BY ReadingConsumes
<1>2. room' = room /\ stay' = stay /\ toServer' = toServer
  BY ReadingUnmoved
<1>3. toClient[p] # <<>> /\ m \in Answers /\ toClient[p] \in Seq(Answers)
      /\ toClient'[p] = Tail(toClient[p]) /\ m = Head(toClient[p])
  BY <1>1 DEF Consumed, TypeOK
<1>4. CASE at[p] = "creating"
  <2>1. p = Leader /\ at'[p] \in {"creating", "waiting"}
    BY <1>1, <1>4 DEF Consumed, Created
  <2>2. toClient'[p] \in Seq(Untold({"invitations"}))
    BY <1>1, <1>4, ConsumedFirst DEF Orderly
  <2> QED
    BY <1>2, <1>4, <2>1, <2>2 DEF Orderly, But, Untold
<1>5. CASE at[p] = "fetching"
  <2>1. m.type = "invitations" /\ at'[p] \in {"menu", "choosing"} /\ (m \in NoInvitations => at'[p] = "menu")
    BY <1>1, <1>5 DEF Consumed
  <2>2. m \notin Untold({"invitations"})
    BY <2>1 DEF Untold
  <2>3. toClient[p] \notin Seq(Untold({"invitations"}))
    BY <1>1, <2>2, ConsumedFirst
  <2>4. toServer[p] = <<>> /\ p \notin room.members /\ Closed(toClient[p], Untold({"invitations"}), Invitations)
    BY <1>5, <2>3 DEF Orderly, Fetching
  <2>5. Untold({"invitations"}) \in SUBSET Answers /\ Invitations \in SUBSET Answers
    BY Subtypes
  <2>6. toClient'[p] = <<>>
    BY <1>3, <2>2, <2>4, <2>5, ClosedTail
  <2>7. p = Leader => at'[p] = "menu"
    <3>1. p = Leader => m \in {n \in Answers : n.type = "invitations" => n \in NoInvitations}
      BY <1>1, ConsumedFirst DEF LeaderUninvited
    <3> QED
      BY <2>1, <3>1
  <2> QED
    BY <1>2, <1>5, <2>1, <2>4, <2>6, <2>7 DEF Orderly, But, Untold
<1>6. CASE at[p] = "waiting"
  <2>1. at'[p] \in {"waiting", "menu", "playing", "broken"}
    BY <1>1, <1>6 DEF Consumed
  <2>2. toClient'[p] \in Seq(Untold({"invitations"}))
    BY <1>1, <1>6, ConsumedFirst DEF Orderly
  <2>3. p = Leader \/ toServer[p] = <<>>
    BY <1>3, <1>6 DEF Orderly
  <2> QED
    BY <1>2, <1>6, <2>1, <2>2, <2>3 DEF Orderly, But, Untold
<1>7. CASE at[p] = "again"
  <2>1. at'[p] \in {"again", "elsewhere"}
    BY <1>1, <1>7 DEF Consumed
  <2>2. toClient'[p] \in Seq(Untold({"invitations"}))
    BY <1>1, <1>7, ConsumedFirst DEF Orderly
  <2> QED
    BY <1>2, <1>7, <2>1, <2>2 DEF Orderly, But, Untold
<1> QED
  BY <1>1, <1>4, <1>5, <1>6, <1>7 DEF Consumed

LEMMA ReadingKept ==
    ASSUME TypeOK, Created, NEW p \in People, Reading(p), Kept(p), p \notin astray'
    PROVE  Kept(p)'
<1>1. PICK m : Consumed(p, m)
  BY ReadingConsumes
<1>2. room' = room /\ stay' = stay
  BY ReadingUnmoved
<1>3. CASE at'[p] \in {"creating", "waiting", "settings"}
  <2>1. at[p] \in {"creating", "waiting"} /\ m.type # "end" /\ m \in Answers
    <3>1. CASE at[p] = "creating"
      <4>1. toClient[p] # <<>> /\ m = Head(toClient[p]) /\ m \in Answers
        BY <1>1 DEF Consumed
      <4>2. m.type = "created"
        BY <3>1, <4>1 DEF Created
      <4> QED
        BY <3>1, <4>1, <4>2
    <3>2. CASE at[p] # "creating"
      BY <1>1, <1>3, <3>2 DEF Consumed
    <3> QED
      BY <3>1, <3>2
  <2>2. m \in Untold({"end"})
    BY <2>1 DEF Untold
  <2>3. toClient'[p] \in Seq(Untold({"end"})) => toClient[p] \in Seq(Untold({"end"}))
    BY <1>1, <2>2, ConsumedFirst
  <2> QED
    BY <1>2, <2>1, <2>3 DEF Kept, Untold
<1> QED
  BY <1>3 DEF Kept

LEMMA ReadingUnopened ==
    ASSUME TypeOK, Unopened, Created, NEW p \in People, Reading(p)
    PROVE  Unopened'
<1> SUFFICES ASSUME room.phase = "none" PROVE Unopened'
  BY ReadingUnmoved DEF Unopened
<1>1. PICK m : Consumed(p, m)
  BY ReadingConsumes
<1>2. /\ room' = room /\ stay' = stay /\ toServer' = toServer /\ invitations' = invitations
      /\ \A q \in People \ {p} : toClient'[q] = toClient[q] /\ at'[q] = at[q]
  BY ReadingUnmoved, ReadingBystander DEF Bystander
<1>3. at[p] = "fetching"
  BY <1>1 DEF Consumed, Unopened, Created
<1>4. m \in NoInvitations /\ toClient'[p] \in Seq(NoInvitations)
  BY <1>1, ConsumedFirst DEF Unopened
<1>5. at'[p] = "menu" /\ astray' = astray
  BY <1>1, <1>3, <1>4 DEF Consumed, NoInvitations, Invitations
<1> QED
  BY <1>2, <1>4, <1>5 DEF Unopened, NoInvitations, Invitations

LEMMA ReadingCreated ==
    ASSUME TypeOK, Unopened, Created, NEW p \in People, Reading(p)
    PROVE  Created'
<1>1. PICK m : Consumed(p, m)
  BY ReadingConsumes
<1>2. /\ room' = room /\ toServer' = toServer
      /\ \A q \in People \ {p} : toClient'[q] = toClient[q] /\ at'[q] = at[q] /\ (q \in astray' <=> q \in astray)
  BY ReadingUnmoved, ReadingBystander DEF Bystander
<1>3. at[p] = "creating" => room.phase # "none" /\ m.type = "created"
  BY <1>1 DEF Consumed, Created
<1>4. at'[p] # "creating"
  BY <1>1, <1>3 DEF Consumed
<1>5. toServer[p] \in Seq(But({"CREATE"})) \/ at[p] # "creating" \/ room.phase # "none"
  BY <1>3
<1>6. ASSUME NEW q \in People
      PROVE  \/ toServer[q] \in Seq(But({"CREATE"}))
             \/ /\ q = Leader /\ room.phase = "none" /\ at'[q] = "creating"
                /\ Closed(toServer[q], But({"CREATE"}), Requests)
  BY <1>2, <1>3 DEF Created
<1>7. ASSUME NEW q \in People, at'[q] = "creating"
      PROVE  /\ q = Leader /\ q \notin astray'
             /\ IF room.phase = "none" THEN toClient'[q] = <<>>
                ELSE toClient'[q] # <<>> /\ Head(toClient'[q]).type = "created"
  BY <1>2, <1>4, <1>7 DEF Created
<1> QED
  BY <1>2, <1>6, <1>7 DEF Created, But, Closed

LEMMA ReadingInductive ==
    ASSUME Inductive, NEW p \in People, Reading(p)
    PROVE  Inductive'
<1> USE DEF Inductive
<1>1. PICK m : Consumed(p, m)
  BY ReadingConsumes
<1>2. /\ TypeOK' /\ Unopened' /\ Created'
      /\ room' = room /\ invitations' = invitations /\ stay' = stay /\ toServer' = toServer
      /\ \A q \in People \ {p} : Bystander(q) /\ toClient'[q] = toClient[q]
  BY ReadingType, ReadingUnopened, ReadingCreated, ReadingUnmoved, ReadingBystander
<1>3. \A S : \A q \in People : toClient[q] \in Seq(S) => toClient'[q] \in Seq(S)
  BY <1>1, <1>2, ConsumedFirst
<1>4. LeaderUninvited'
  <2>1. Leader \in People
    BY WaitingAssumption
  <2>2. toClient'[Leader] \in Seq({n \in Answers : n.type = "invitations" => n \in NoInvitations})
    BY <1>3, <2>1 DEF LeaderUninvited
  <2> QED
    BY <1>2, <2>2 DEF LeaderUninvited, NoInvitations, Invitations
<1>5. astray \subseteq astray'
  BY <1>1 DEF Consumed
<1>6. AllOrderly'
  <2>1. ASSUME NEW q \in People \ astray' PROVE Orderly(q)'
    <3>1. Orderly(q)
      BY <1>5, <2>1 DEF AllOrderly
    <3>2. CASE q = p
      BY <2>1, <3>1, <3>2, ReadingOrderly
    <3>3. CASE q # p
      BY <1>2, <3>1, <3>3, BystanderOrderly
    <3> QED
      BY <3>2, <3>3
  <2> QED
    BY <2>1 DEF AllOrderly
<1>7. AllKept'
  <2>1. ASSUME NEW q \in People \ astray' PROVE Kept(q)'
    <3>1. Kept(q)
      BY <1>5, <2>1 DEF AllKept
    <3>2. CASE q = p
      BY <2>1, <3>1, <3>2, ReadingKept
    <3>3. CASE q # p
      BY <1>2, <3>1, <3>3 DEF Bystander, Kept, Untold
    <3> QED
      BY <3>2, <3>3
  <2> QED
    BY <2>1 DEF AllKept
<1>8. StartedTold' /\ ClosingLate'
  <2>1. StartedTold'
    BY <1>2, <1>3 DEF StartedTold, Untold
  <2>2. ClosingLate'
    BY <1>2 DEF ClosingLate
  <2> QED
    BY <2>1, <2>2
<1>9. StartedByLeader'
  <2> SUFFICES ASSUME NEW q \in People \ astray', at'[q] = "playing" PROVE room.playing
    BY <1>2 DEF StartedByLeader
  <2>1. CASE at[q] = "playing"
    BY <1>5, <2>1 DEF StartedByLeader
  <2>2. CASE at[q] # "playing"
    <3>1. q = p
      BY <1>2, <2>2 DEF Bystander
    <3>2. m.type = "started"
      BY <1>1, <2>2, <3>1 DEF Consumed
    <3>3. m \notin Untold({"started"})
      BY <3>2 DEF Untold
    <3> QED
      BY <1>1, <3>3, ConsumedFirst DEF StartedTold
  <2> QED
    BY <2>1, <2>2
<1> QED
  BY <1>2, <1>4, <1>6, <1>7, <1>8, <1>9

-----------------------------------------------------------------------------
(* The server.                                                               *)

\* What is sent to q behind what is under way to it.
LEMMA ToldLast ==
    ASSUME TypeOK, NEW p \in People, NEW q \in People, NEW u, Told(p, q, u)
    PROVE  /\ \A S : toClient'[q] \in Seq(S) <=> toClient[q] \in Seq(S) /\ u \in Seq(S)
           /\ toClient[q] # <<>> => toClient'[q] # <<>> /\ Head(toClient'[q]) = Head(toClient[q])
           /\ toClient[q] = <<>> => toClient'[q] = u
           /\ u = <<>> => toClient'[q] = toClient[q]
<1>1. toClient[q] \in Seq(Answers) /\ u \in Seq(Answers) /\ toClient'[q] = toClient[q] \o u
  BY DEF TypeOK, Told
<1>2. toClient[q] # <<>> => toClient'[q] # <<>> /\ Head(toClient'[q]) = Head(toClient[q])
  BY <1>1
<1>3. toClient[q] = <<>> => toClient'[q] = u
  BY <1>1
<1>4. u = <<>> => toClient'[q] = toClient[q]
  BY <1>1
<1> QED
  BY <1>1, <1>2, <1>3, <1>4, SeqConcat

\* The request the server took.
LEMMA ServedFirst ==
    ASSUME TypeOK, NEW p \in People, Serve(p)
    PROVE  /\ toServer[p] # <<>> /\ toServer[p] \in Seq(Requests) /\ Head(toServer[p]) \in Requests
           /\ toServer'[p] = Tail(toServer[p])
           /\ \A S : toServer[p] \in Seq(S) => Head(toServer[p]) \in S /\ toServer'[p] \in Seq(S)
           /\ HandleGetLobbyInvite(p) => Head(toServer[p]).type = "GET_LOBBY_INVITE"
           /\ HandleLeave(p) => Head(toServer[p]).type = "LEAVE"
           /\ HandleInvite(p) => Head(toServer[p]).type = "INVITE"
<1>1. /\ toServer[p] # <<>> /\ toServer[p] \in Seq(Requests) /\ Head(toServer[p]) \in Requests
      /\ toServer'[p] = Tail(toServer[p])
  BY ServeKeeps DEF TypeOK
<1>2. \A S : toServer[p] \in Seq(S) => Head(toServer[p]) \in S /\ toServer'[p] \in Seq(S)
  BY <1>1, SeqHead
<1> QED
  BY <1>1, <1>2 DEF HandleGetLobbyInvite, HandleLeave, HandleInvite, Takes

\* Before there is a room.
LEMMA UnopenedHead ==
    ASSUME TypeOK, Unopened, room.phase = "none", NEW p \in People, Serve(p)
    PROVE  Head(toServer[p]).type \in {"CREATE", "GET_LOBBY_INVITE"}
<1>1. toServer[p] \in Seq({m \in Requests : m.type \in {"CREATE", "GET_LOBBY_INVITE"}})
  BY DEF Unopened
<1>2. Head(toServer[p]) \in {m \in Requests : m.type \in {"CREATE", "GET_LOBBY_INVITE"}}
  BY <1>1, ServedFirst
<1> QED
  BY <1>2

LEMMA ServeUnopened ==
    ASSUME TypeOK, Unopened, Created, NEW p \in People, Serve(p)
    PROVE  Unopened'
<1> SUFFICES ASSUME room'.phase = "none" PROVE Unopened'
  BY DEF Unopened
<1>1. room.phase = "none" /\ ~HandleCreate(p)
  BY ServeRoom, ServeCreate
<1>2. Head(toServer[p]).type \in {"CREATE", "GET_LOBBY_INVITE"}
  BY <1>1, UnopenedHead
<1>3. HandleGetLobbyInvite(p)
  BY <1>1, <1>2 DEF Serve, HandleCreateAgain, HandleInvite, HandleModify, HandleJoin, HandleLeave,
                    HandleStart, Takes
<1>4. room' = room /\ invitations' = invitations /\ at' = at /\ astray' = astray /\ stay' = stay
  BY <1>3 DEF HandleGetLobbyInvite, serverVars, clientVars, history
<1>5. ASSUME NEW q \in People
      PROVE  toServer'[q] \in Seq({m \in Requests : m.type \in {"CREATE", "GET_LOBBY_INVITE"}})
  BY <1>1, ServeKeeps, ServedFirst DEF Unopened
<1>6. ASSUME NEW q \in People PROVE toClient'[q] \in Seq(NoInvitations)
  <2>1. PICK u : Told(p, q, u)
    BY ServeTells
  <2>2. CASE u = <<>>
    BY <1>1, <2>1, <2>2, ToldLast DEF Unopened
  <2>3. CASE u # <<>>
    <3>1. q = p /\ q \notin room.members
      BY <1>1, <1>3, <2>1, <2>3 DEF Told, Unopened
    <3> DEFINE answer == [type |-> "invitations", rows |-> invitations[p]]
    <3>2. answer \in NoInvitations
      <4>1. invitations[p] \in Counts /\ \A c \in Columns : invitations[p][c] = 0
        BY <1>1 DEF Unopened, TypeOK, Counts
      <4>2. answer \in Answers
        BY <4>1, AnswersMade
      <4> QED
        BY <4>1, <4>2 DEF NoInvitations, Invitations
    <3>3. toClient'[q] = toClient[q] \o (IF q = p /\ q \notin room.members THEN <<answer>> ELSE <<>>)
      <4> DEFINE seq == [r \in People |-> IF r = p /\ r \notin room.members THEN <<answer>> ELSE <<>>]
      <4>1. Sends(seq) /\ answer \in Answers
        BY <1>3, <3>2 DEF HandleGetLobbyInvite, NoInvitations, Invitations
      <4> HIDE DEF answer
      <4>2. seq \in [People -> Seq(Answers)]
        BY <4>1
      <4>3. seq[q] = IF q = p /\ q \notin room.members THEN <<answer>> ELSE <<>>
        OBVIOUS
      <4> HIDE DEF seq
      <4> QED
        BY <4>1, <4>2, <4>3, SendsType
    <3> HIDE DEF answer
    <3>4. toClient[q] \in Seq(NoInvitations)
      BY <1>1 DEF Unopened
    <3>5. <<answer>> \in Seq(NoInvitations)
      BY <3>2
    <3> QED
      BY <3>1, <3>3, <3>4, <3>5, SeqConcat
  <2> QED
    BY <2>2, <2>3
<1> QED
  BY <1>1, <1>4, <1>5, <1>6 DEF Unopened, NoInvitations, Invitations

LEMMA ServeCreated ==
    ASSUME TypeOK, Unopened, Created, AllOrderly, NEW p \in People, Serve(p)
    PROVE  Created'
<1>1. /\ at' = at /\ astray' = astray
      /\ \A q \in People \ {p} : toServer'[q] = toServer[q]
  BY ServeKeeps
<1>2. But({"CREATE"}) \in SUBSET Requests
  BY Subtypes
<1>3. CASE HandleCreate(p)
  <2>1. p = Leader /\ toServer'[p] = <<>> /\ toClient[p] = <<>> /\ room'.phase # "none"
    BY <1>3, ServeCreate, ServedFirst
  <2>2. ASSUME NEW q \in People PROVE toServer'[q] \in Seq(But({"CREATE"}))
    <3>1. CASE q = p
      <4>1. <<>> \in Seq(But({"CREATE"}))
        OBVIOUS
      <4> QED
        BY <2>1, <3>1, <4>1
    <3>2. CASE q # p
      <4>1. toServer[q] \in Seq(But({"CREATE"}))
        BY <2>1, <3>2 DEF Created
      <4> QED
        BY <1>1, <3>2, <4>1
    <3> QED
      BY <3>1, <3>2
  <2>3. ASSUME NEW q \in People, at[q] = "creating"
        PROVE  q = Leader /\ q \notin astray /\ toClient'[q] # <<>> /\ Head(toClient'[q]).type = "created"
    <3>1. q = Leader /\ q \notin astray
      BY <2>3 DEF Created
    <3>2. PICK u : Told(p, p, u)
      BY ServeTells
    <3>3. toClient'[p] = <<Says("created")>>
      BY <1>3, <2>1, <3>2, ToldLast DEF Told
    <3> QED
      BY <2>1, <3>1, <3>3 DEF Says
  <2> QED
    BY <1>1, <2>1, <2>2, <2>3 DEF Created, But
<1>4. CASE ~HandleCreate(p)
  <2>1. room'.phase = "none" <=> room.phase = "none"
    <3>1. CASE room.phase = "none"
      <4>1. Head(toServer[p]).type # "LEAVE"
        BY <3>1, UnopenedHead
      <4> QED
        BY <1>4, <4>1, ServeRoom, ServedFirst
    <3> QED
      BY <1>4, <3>1, ServeRoom
  <2>2. ASSUME NEW q \in People
        PROVE  \/ toServer'[q] \in Seq(But({"CREATE"}))
               \/ /\ q = Leader /\ room.phase = "none" /\ at[q] = "creating"
                  /\ Closed(toServer'[q], But({"CREATE"}), Requests)
    <3>1. CASE q # p
      <4>1. toServer'[q] = toServer[q]
        BY <1>1, <3>1
      <4> QED
        BY <4>1 DEF Created
    <3>2. CASE q = p
      <4>1. CASE toServer[p] \in Seq(But({"CREATE"}))
        BY <3>2, <4>1, ServedFirst
      <4>2. CASE toServer[p] \notin Seq(But({"CREATE"}))
        <5>1. /\ p = Leader /\ room.phase = "none" /\ at[p] = "creating"
              /\ Closed(toServer[p], But({"CREATE"}), Requests)
          BY <4>2 DEF Created
        <5>2. Closed(toServer'[p], But({"CREATE"}), Requests)
          <6>1. toServer'[p] = Tail(toServer[p]) /\ toServer[p] # <<>> /\ toServer[p] \in Seq(Requests)
            BY ServedFirst
          <6> QED
            BY <1>2, <5>1, <6>1, ClosedTail
        <5> QED
          BY <3>2, <5>1, <5>2
      <4> QED
        BY <4>1, <4>2
    <3> QED
      BY <3>1, <3>2
  <2>3. ASSUME NEW q \in People, at[q] = "creating"
        PROVE  /\ q = Leader /\ q \notin astray
               /\ IF room.phase = "none" THEN toClient'[q] = <<>>
                  ELSE toClient'[q] # <<>> /\ Head(toClient'[q]).type = "created"
    <3>1. q = Leader /\ q \notin astray
      BY <2>3 DEF Created
    <3>2. PICK u : Told(p, q, u)
      BY ServeTells
    <3>3. CASE room.phase # "none"
      BY <2>3, <3>1, <3>2, <3>3, ToldLast DEF Created
    <3>4. CASE room.phase = "none"
      <4>1. toClient[q] = <<>> /\ q \notin room.members
        BY <2>3, <3>4 DEF Created, Unopened
      <4>2. u = <<>>
        <5>1. CASE q # p
          BY <3>2, <4>1, <5>1 DEF Told
        <5>2. CASE q = p
          <6>1. toServer[p] \in Seq(But({"GET_LOBBY_INVITE"}))
            BY <2>3, <3>1, <5>2 DEF AllOrderly, Orderly
          <6>2. Head(toServer[p]) \in But({"GET_LOBBY_INVITE"})
            BY <6>1, ServedFirst
          <6>3. Head(toServer[p]).type \in {"CREATE", "GET_LOBBY_INVITE"}
            BY <3>4, UnopenedHead
          <6>4. Head(toServer[p]).type = "CREATE"
            BY <6>2, <6>3 DEF But
          <6> QED
            BY <1>4, <6>4 DEF Serve, HandleCreateAgain, HandleInvite, HandleModify, HandleJoin,
                              HandleLeave, HandleStart, HandleGetLobbyInvite, Takes
        <5> QED
          BY <5>1, <5>2
      <4> QED
        BY <3>1, <3>2, <3>4, <4>1, <4>2, ToldLast
    <3> QED
      BY <3>3, <3>4
  <2> QED
    BY <1>1, <2>1, <2>2, <2>3 DEF Created, But, Closed
<1> QED
  BY <1>3, <1>4

LEMMA ServeLeaderUninvited ==
    ASSUME TypeOK, LeaderUninvited, NEW p \in People, Serve(p)
    PROVE  LeaderUninvited'
<1>1. Leader \in People
  BY WaitingAssumption
<1>2. ASSUME NEW q \in People
      PROVE  toServer'[q] \in Seq({m \in Requests : m.type = "INVITE" => m.who # Leader})
  BY ServeKeeps, ServedFirst DEF LeaderUninvited
<1>3. invitations'[Leader] = invitations[Leader]
  <2>1. CASE HandleInvite(p)
    <3> DEFINE m == Head(toServer[p])
    <3>1. m.who # Leader
      <4>1. toServer[p] \in Seq({n \in Requests : n.type = "INVITE" => n.who # Leader})
        BY DEF LeaderUninvited
      <4>2. m \in {n \in Requests : n.type = "INVITE" => n.who # Leader} /\ m.type = "INVITE"
        BY <2>1, <4>1, ServedFirst
      <4> QED
        BY <4>2
    <3>2. invitations' = [invitations EXCEPT ![m.who][m.as] = @ + 1]
      BY <2>1 DEF HandleInvite
    <3> HIDE DEF m
    <3> QED
      BY <1>1, <3>1, <3>2 DEF TypeOK
  <2>2. CASE ~HandleInvite(p)
    BY <2>2 DEF Serve, HandleCreate, HandleCreateAgain, HandleModify, HandleJoin, HandleLeave,
                HandleStart, HandleGetLobbyInvite, serverVars
  <2> QED
    BY <2>1, <2>2
<1>4. toClient'[Leader] \in Seq({m \in Answers : m.type = "invitations" => m \in NoInvitations})
  <2> DEFINE S == {m \in Answers : m.type = "invitations" => m \in NoInvitations}
  <2>1. PICK u : Told(p, Leader, u)
    BY <1>1, ServeTells
  <2>2. toClient[Leader] \in Seq(S)
    BY DEF LeaderUninvited
  <2>3. Plain \subseteq S /\ Ordinary \subseteq S
    BY SentMade DEF Plain, Untold
  <2>4. CASE u \in Seq(Ordinary) \/ u \in Seq(Plain)
    <3>1. u \in Seq(S)
      BY <2>3, <2>4, SeqWider
    <3> QED
      BY <1>1, <2>1, <2>2, <3>1, ToldLast
  <2>5. CASE Leader = p /\ u = <<[type |-> "invitations", rows |-> invitations[p]]>>
    <3> DEFINE answer == [type |-> "invitations", rows |-> invitations[p]]
    <3>1. answer \in S
      BY <2>5, AnswersMade DEF NoInvitations, Invitations, LeaderUninvited, TypeOK, Counts
    <3>2. u = <<answer>>
      BY <2>5
    <3> HIDE DEF answer, S
    <3>3. u \in Seq(S)
      BY <3>1, <3>2
    <3>4. toClient'[Leader] \in Seq(S)
      BY <1>1, <2>1, <2>2, <3>3, ToldLast
    <3> QED
      BY <3>4 DEF S
  <2> QED
    BY <2>1, <2>4, <2>5 DEF Told
<1> QED
  BY <1>2, <1>3, <1>4 DEF LeaderUninvited, NoInvitations, Invitations

\* At the invitation menu.
LEMMA OrderlyFetching ==
    ASSUME NEW p \in People, at'[p] = "fetching",
           Closed(toServer'[p], But({"GET_LOBBY_INVITE"}), Requests),
           \/ toClient'[p] \in Seq(Plain)
           \/ toServer'[p] = <<>> /\ p \notin room'.members /\ Closed(toClient'[p], Plain, Invitations),
           p = Leader => toServer'[p] \in Seq(But({"JOIN"}))
    PROVE  Orderly(p)'
BY DEF Orderly, Fetching, Closed, But, Untold, Plain, Invitations

LEMMA ServeOrderly ==
    ASSUME TypeOK, Unopened, Created, NEW p \in People, Serve(p), Orderly(p), p \notin astray
    PROVE  Orderly(p)'
<1>1. at'[p] = at[p]
  BY ServeKeeps
<1>2. /\ toServer[p] # <<>> /\ toServer[p] \in Seq(Requests) /\ toServer'[p] = Tail(toServer[p])
      /\ Head(toServer[p]) \in Requests
  BY ServedFirst
<1>3. PICK u : Told(p, p, u)
  BY ServeTells
<1>4. \/ u \in Seq(Plain)
      \/ /\ HandleGetLobbyInvite(p) /\ p \notin room.members
         /\ u = <<[type |-> "invitations", rows |-> invitations[p]]>>
  BY <1>3, SentMade, SeqWider DEF Told
<1>5. CASE at[p] = "fetching"
  <2>1. Closed(toServer[p], But({"GET_LOBBY_INVITE"}), Requests) /\ toClient[p] \in Seq(Plain)
    BY <1>2, <1>5 DEF Orderly, Fetching, Plain
  <2>2. But({"GET_LOBBY_INVITE"}) \in SUBSET Requests
    BY Subtypes
  <2>3. Closed(toServer'[p], But({"GET_LOBBY_INVITE"}), Requests)
    BY <1>2, <2>1, <2>2, ClosedTail
  <2>6. p = Leader => toServer'[p] \in Seq(But({"JOIN"}))
    BY ServedFirst DEF Orderly
  <2>4. CASE u \in Seq(Plain)
    <3>1. toClient'[p] \in Seq(Plain)
      BY <1>3, <2>1, <2>4, ToldLast
    <3> QED
      BY <1>1, <1>5, <2>3, <3>1, <2>6, OrderlyFetching
  <2>5. CASE /\ HandleGetLobbyInvite(p) /\ p \notin room.members
             /\ u = <<[type |-> "invitations", rows |-> invitations[p]]>>
    <3> DEFINE answer == [type |-> "invitations", rows |-> invitations[p]]
    <3>1. answer \in Invitations
      BY AnswersMade DEF Invitations, TypeOK, Counts
    <3>2. Head(toServer[p]) \notin But({"GET_LOBBY_INVITE"})
      BY <2>5, ServedFirst DEF But
    <3>3. toServer'[p] = <<>>
      BY <1>2, <2>1, <2>2, <3>2, ClosedTail
    <3>4. p \notin room'.members
      BY <2>5 DEF HandleGetLobbyInvite, serverVars
    <3>5. toClient'[p] = toClient[p] \o <<answer>>
      BY <1>3, <2>5 DEF Told
    <3> HIDE DEF answer
    <3>6. toClient'[p] = Append(toClient[p], answer)
      BY <2>1, <3>5
    <3>7. Closed(toClient'[p], Plain, Invitations)
      BY <2>1, <3>1, <3>6 DEF Closed
    <3> QED
      BY <1>1, <1>5, <2>3, <3>3, <3>4, <3>7, <2>6, OrderlyFetching
  <2> QED
    BY <1>4, <2>4, <2>5
<1>6. CASE at[p] # "fetching"
  <2>1. toServer[p] \in Seq(But({"GET_LOBBY_INVITE"})) /\ toClient[p] \in Seq(Plain)
    BY <1>6 DEF Orderly, Plain
  <2>2. Head(toServer[p]) \in But({"GET_LOBBY_INVITE"}) /\ toServer'[p] \in Seq(But({"GET_LOBBY_INVITE"}))
    BY <2>1, ServedFirst
  <2>3. u \in Seq(Plain)
    BY <1>4, <2>2, ServedFirst DEF But
  <2>4. toClient'[p] \in Seq(Plain)
    BY <1>3, <2>1, <2>3, ToldLast
  <2>5. at[p] \in {"creating", "waiting", "settings"} => toServer'[p] \in Seq(But({"LEAVE"}))
    BY ServedFirst DEF Orderly
  <2>6. at[p] # "choosing"
    BY <1>2 DEF Orderly
  <2>7. at[p] = "waiting" /\ p # Leader => toServer'[p] = <<>>
    <3> SUFFICES ASSUME at[p] = "waiting", p # Leader PROVE toServer'[p] = <<>>
      OBVIOUS
    <3>1. PICK m \in Requests : toServer[p] = <<m>>
      BY <1>2 DEF Orderly
    <3>2. Tail(<<m>>) = <<>>
      OBVIOUS
    <3> QED
      BY <1>2, <3>1, <3>2
  <2>8. p = Leader => toServer'[p] \in Seq(But({"JOIN"}))
    BY ServedFirst DEF Orderly
  <2>9. at[p] = "settings" => p = Leader
    BY DEF Orderly
  <2> QED
    BY <1>1, <1>6, <2>2, <2>4, <2>5, <2>6, <2>7, <2>8, <2>9 DEF Orderly, But, Plain, Untold
<1> QED
  BY <1>5, <1>6

LEMMA ServeKept ==
    ASSUME TypeOK, Unopened, Created, NEW p \in People, Serve(p), Orderly(p), Kept(p)
    PROVE  Kept(p)'
<1> SUFFICES ASSUME at'[p] \in {"creating", "waiting", "settings"}, stay'[p] = "in", p \notin room'.members
             PROVE  toClient'[p] \notin Seq(Untold({"end"}))
  BY DEF Kept, Untold
<1>1. at[p] \in {"creating", "waiting", "settings"}
  BY ServeKeeps
<1>2. ~HandleCreate(p)
  BY ServeCreate
<1>3. Head(toServer[p]) \in But({"LEAVE"})
  BY <1>1, ServedFirst DEF Orderly
<1>4. ~HandleLeave(p)
  BY <1>3, ServedFirst DEF But
<1>5. stay[p] = "in" /\ p \notin room.members
  BY <1>2, <1>4, ServeRoom
<1>6. toClient[p] \notin Seq(Untold({"end"}))
  BY <1>1, <1>5 DEF Kept
<1>7. PICK u : Told(p, p, u)
  BY ServeTells
<1> QED
  BY <1>6, <1>7, ToldLast

LEMMA ServeKeptOthers ==
    ASSUME TypeOK, Unopened, Created, NEW p \in People, Serve(p), NEW q \in People \ {p}, Kept(q)
    PROVE  Kept(q)'
<1> SUFFICES ASSUME at'[q] \in {"creating", "waiting", "settings"}, stay'[q] = "in", q \notin room'.members
             PROVE  toClient'[q] \notin Seq(Untold({"end"}))
  BY DEF Kept, Untold
<1>1. at[q] \in {"creating", "waiting", "settings"} /\ stay[q] = "in"
  BY ServeKeeps
<1>2. PICK u : Told(p, q, u)
  BY ServeTells
<1>3. CASE q \in room.members
  <2>1. u \notin Seq(Untold({"end"}))
    BY <1>2, <1>3, ServeCreate DEF Told
  <2> QED
    BY <1>2, <2>1, ToldLast
<1>4. CASE q \notin room.members
  BY <1>1, <1>2, <1>4, ToldLast DEF Kept
<1> QED
  BY <1>3, <1>4

LEMMA ServeInductive ==
    ASSUME Inductive, NEW p \in People, Serve(p)
    PROVE  Inductive'
<1> USE DEF Inductive
<1>1. /\ TypeOK' /\ Unopened' /\ Created' /\ LeaderUninvited'
      /\ at' = at /\ astray' = astray
      /\ \A q \in People \ {p} : Bystander(q)
  BY ServeType, ServeUnopened, ServeCreated, ServeLeaderUninvited, ServeKeeps, ServeBystander
<1>2. room.playing => room'.playing
  BY ServeRoom, ServeCreate
<1>3. AllOrderly'
  <2>1. ASSUME NEW q \in People \ astray' PROVE Orderly(q)'
    <3>1. Orderly(q)
      BY <1>1, <2>1 DEF AllOrderly
    <3>2. CASE q = p
      BY <1>1, <2>1, <3>1, <3>2, ServeOrderly
    <3>3. CASE q # p
      BY <1>1, <3>1, <3>3, BystanderOrderly
    <3> QED
      BY <3>2, <3>3
  <2> QED
    BY <2>1 DEF AllOrderly
<1>4. AllKept'
  <2>1. ASSUME NEW q \in People \ astray' PROVE Kept(q)'
    <3>1. Kept(q)
      BY <1>1, <2>1 DEF AllKept
    <3>2. CASE q = p
      <4>1. Orderly(p)
        BY <1>1, <2>1, <3>2 DEF AllOrderly
      <4> QED
        BY <3>1, <3>2, <4>1, ServeKept
    <3>3. CASE q # p
      BY <3>1, <3>3, ServeKeptOthers
    <3> QED
      BY <3>2, <3>3
  <2> QED
    BY <2>1 DEF AllKept
<1>5. StartedTold'
  <2>1. ASSUME NEW q \in People PROVE room'.playing \/ toClient'[q] \in Seq(Untold({"started"}))
    <3> SUFFICES ASSUME ~room'.playing PROVE toClient'[q] \in Seq(Untold({"started"}))
      OBVIOUS
    <3>1. toClient[q] \in Seq(Untold({"started"}))
      BY <1>2 DEF StartedTold
    <3>2. PICK u : Told(p, q, u)
      BY ServeTells
    <3>3. Ordinary \subseteq Untold({"started"})
      BY DEF Ordinary, Untold
    <3>4. CASE u \in Seq(Ordinary)
      <4>1. u \in Seq(Untold({"started"}))
        BY <3>3, <3>4, SeqWider
      <4> QED
        BY <3>1, <3>2, <4>1, ToldLast
    <3>5. CASE u = <<[type |-> "invitations", rows |-> invitations[p]]>>
      <4> DEFINE answer == [type |-> "invitations", rows |-> invitations[p]]
      <4>1. answer \in Untold({"started"}) /\ u = <<answer>>
        BY <3>5, AnswersMade DEF Untold, TypeOK, Counts
      <4> HIDE DEF answer
      <4>2. u \in Seq(Untold({"started"}))
        BY <4>1, SeqOne
      <4> QED
        BY <3>1, <3>2, <4>2, ToldLast
    <3> QED
      BY <3>2, <3>4, <3>5 DEF Told
  <2> QED
    BY <2>1 DEF StartedTold, Untold
<1>6. StartedByLeader'
  BY <1>1, <1>2 DEF StartedByLeader
<1>7. ClosingLate'
  <2> SUFFICES ASSUME room'.phase = "closing", NEW q \in room'.members PROVE stay'[q] # "in"
    BY DEF ClosingLate
  <2>1. ~HandleCreate(p)
    BY ServeCreate
  <2>2. room.phase = "closing" /\ p \notin room.members /\ q \in room.members \cup {p} /\ room.members \subseteq People
    BY <2>1, ServeRoom DEF TypeOK
  <2>3. CASE q = p
    <3>1. LetIn(p)
      BY <2>1, <2>2, <2>3, ServeRoom
    <3> QED
      BY <2>2, <2>3, <3>1, LetInOthers
  <2>4. CASE q # p
    BY <2>2, <2>4, ServeKeeps DEF ClosingLate
  <2> QED
    BY <2>3, <2>4
<1> QED
  BY <1>1, <1>3, <1>4, <1>5, <1>6, <1>7

-----------------------------------------------------------------------------
(* The theorems.                                                             *)

\* The end of the room's loop.
LEMMA CloseInductive ==
    ASSUME Inductive, Close
    PROVE  Inductive'
<1> USE DEF Inductive, streams, clientVars, history
<1>1. /\ room'.phase = "gone" /\ room'.members = {} /\ room'.playing = room.playing
      /\ \A p \in People, c \in Columns : invitations'[p][c] = 0
      /\ UNCHANGED <<toServer, toClient, at, stay, astray>>
      /\ room.phase = "closing"
  BY DEF Close, TypeOK
<1>2. TypeOK'
  BY TypeNext DEF Next
<1>3. Unopened' /\ Created' /\ LeaderUninvited'
  <2>1. Leader \in People
    BY WaitingAssumption
  <2> QED
    BY <1>1, <2>1 DEF Unopened, Created, LeaderUninvited, But, Closed, NoInvitations, Invitations
<1>4. AllOrderly'
  <2>1. ASSUME NEW q \in People \ astray' PROVE Orderly(q)'
    <3>1. Orderly(q) /\ Bystander(q)
      BY <1>1, <2>1 DEF AllOrderly, Bystander
    <3> QED
      BY <1>2, <3>1, BystanderOrderly
  <2> QED
    BY <2>1 DEF AllOrderly
<1>5. AllKept'
  <2>1. ASSUME NEW q \in People \ astray' PROVE Kept(q)'
    BY <1>1, <2>1 DEF AllKept, Kept, ClosingLate, Untold
  <2> QED
    BY <2>1 DEF AllKept
<1>6. StartedTold' /\ StartedByLeader' /\ ClosingLate'
  BY <1>1 DEF StartedTold, StartedByLeader, ClosingLate, Untold
<1> QED
  BY <1>2, <1>3, <1>4, <1>5, <1>6

LEMMA InitInductive == Init => Inductive
<1> SUFFICES ASSUME Init PROVE Inductive
  OBVIOUS
<1>1. TypeOK
  BY InitType
<1>2. /\ \A p \in People : /\ toServer[p] = <<>> /\ toClient[p] = <<>> /\ at[p] = "menu" /\ stay[p] = "out"
                           /\ \A c \in Columns : invitations[p][c] = 0
      /\ room.phase = "none" /\ ~room.playing /\ room.members = {} /\ room.gamers = Nobody /\ astray = {}
  BY DEF Init, NoRoom
<1>3. Leader \in People
  BY WaitingAssumption
<1>4. \A S : <<>> \in Seq(S)
  OBVIOUS
<1>5. Unopened /\ Created /\ LeaderUninvited
  BY <1>2, <1>3, <1>4 DEF Unopened, Created, LeaderUninvited
<1>6. AllOrderly /\ AllKept
  BY <1>2, <1>4 DEF AllOrderly, Orderly, AllKept, Kept
<1>7. StartedTold /\ StartedByLeader /\ ClosingLate
  BY <1>2, <1>4 DEF StartedTold, StartedByLeader, ClosingLate
<1> QED
  BY <1>1, <1>5, <1>6, <1>7 DEF Inductive

LEMMA InductiveNext == Inductive /\ [Next]_vars => Inductive'
<1> SUFFICES ASSUME Inductive, [Next]_vars PROVE Inductive'
  OBVIOUS
<1>1. CASE UNCHANGED vars
  <2>1. /\ UNCHANGED <<room, invitations, toServer, toClient, at, stay, astray>>
        /\ TypeOK'
    BY <1>1, TypeNext DEF vars, serverVars, streams, clientVars, history, Inductive
  <2>2. Unopened' /\ Created' /\ LeaderUninvited'
    BY <2>1 DEF Inductive, Unopened, Created, LeaderUninvited, Closed, But, Invitations, NoInvitations
  <2>3. AllOrderly' /\ AllKept'
    <3>1. ASSUME NEW q \in People \ astray' PROVE Orderly(q)'
      BY <2>1, <3>1, BystanderOrderly DEF Inductive, AllOrderly, Bystander
    <3>2. ASSUME NEW q \in People \ astray' PROVE Kept(q)'
      BY <2>1, <3>2 DEF Inductive, AllKept, Kept, Untold
    <3> QED
      BY <3>1, <3>2 DEF AllOrderly, AllKept
  <2>4. StartedTold' /\ StartedByLeader' /\ ClosingLate'
    BY <2>1 DEF Inductive, StartedTold, StartedByLeader, ClosingLate, Untold
  <2> QED
    BY <2>1, <2>2, <2>3, <2>4 DEF Inductive
<1>2. CASE Next
  BY <1>2, CloseInductive, KeysInductive, ReadingInductive, ServeInductive DEF Next
<1> QED
  BY <1>1, <1>2

LEMMA Invariant == Spec => []Inductive
BY InitInductive, InductiveNext, PTL DEF Spec

\* Who plays and never took a message for another one was started by the leader
\* (handleStartRequest, handleWaitingRoom).
THEOREM PlayersWereStarted == Spec => []StartedByLeader
<1>1. Inductive => StartedByLeader
  BY DEF Inductive
<1> QED
  BY <1>1, Invariant, PTL

\* Who was let into the lobby and waits with nothing left to read is in it
\* (playerLeaves, loop, handleWaitingRoom).
THEOREM NobodyIsLeft == Spec => []NobodyLeftBehind
<1>1. Inductive => NobodyLeftBehind
  <2> SUFFICES ASSUME Inductive, NEW p \in People, Settled(p), stay[p] = "in" PROVE p \in room.members
    BY DEF NobodyLeftBehind
  <2>1. Kept(p) /\ at[p] = "waiting" /\ toClient[p] = <<>>
    BY DEF Inductive, AllKept, Settled
  <2>2. <<>> \in Seq(Untold({"end"}))
    OBVIOUS
  <2> QED
    BY <2>1, <2>2 DEF Kept
<1> QED
  BY <1>1, Invariant, PTL

-----------------------------------------------------------------------------
(* Paths: from a to b by the steps of T that the elements of s label.        *)

Path(T, a, s, b) ==
    \E h : h[0] = a /\ h[Len(s)] = b /\ \A i \in 1..Len(s) : <<h[i - 1], s[i], h[i]>> \in T

LEMMA PathNone ==
    ASSUME NEW T, NEW a, NEW b
    PROVE  Path(T, a, <<>>, b) <=> a = b
<1> DEFINE h == [i \in {0} |-> a]
<1>1. Len(<<>>) = 0 /\ 1..0 = {} /\ h[0] = a
  OBVIOUS
<1>2. ASSUME Path(T, a, <<>>, b) PROVE a = b
  BY <1>1, <1>2 DEF Path
<1>3. ASSUME a = b PROVE Path(T, a, <<>>, b)
  <2> HIDE DEF h
  <2> QED
    BY <1>1, <1>3 DEF Path
<1> QED
  BY <1>2, <1>3

LEMMA PathAppend ==
    ASSUME NEW T, NEW M, NEW s \in Seq(M), NEW m \in M, NEW a, NEW b, NEW c,
           Path(T, a, s, b), <<b, m, c>> \in T
    PROVE  Path(T, a, Append(s, m), c)
<1>1. PICK h : h[0] = a /\ h[Len(s)] = b /\ \A i \in 1..Len(s) : <<h[i - 1], s[i], h[i]>> \in T
  BY DEF Path
<1>2. PICK n \in Nat : n = Len(s)
  OBVIOUS
<1> DEFINE g == [i \in 0..n + 1 |-> IF i = n + 1 THEN c ELSE h[i]]
           t == Append(s, m)
<1>3. Len(t) = n + 1 /\ t[n + 1] = m /\ \A i \in 1..n : t[i] = s[i]
  BY <1>2
<1>4. g[n + 1] = c /\ \A i \in 0..n : g[i] = h[i]
  BY <1>2
<1> HIDE DEF g, t
<1>5. ASSUME NEW i \in 1..n + 1 PROVE <<g[i - 1], t[i], g[i]>> \in T
  <2>1. CASE i = n + 1
    <3>1. i - 1 \in 0..n /\ i - 1 = n
      BY <1>2, <2>1
    <3> QED
      BY <1>1, <1>2, <1>3, <1>4, <2>1, <3>1
  <2>2. CASE i # n + 1
    <3>1. i \in 1..n /\ i \in 0..n /\ i - 1 \in 0..n
      BY <1>2, <2>2
    <3> QED
      BY <1>1, <1>2, <1>3, <1>4, <3>1
  <2> QED
    BY <2>1, <2>2
<1>6. g[0] = a
  BY <1>1, <1>2, <1>4
<1>7. Path(T, a, t, c)
  BY <1>3, <1>4, <1>5, <1>6 DEF Path
<1> QED
  BY <1>7 DEF t

LEMMA PathTail ==
    ASSUME NEW T, NEW M, NEW s \in Seq(M), s # <<>>, NEW a, NEW c, Path(T, a, s, c)
    PROVE  \E b : <<a, Head(s), b>> \in T /\ Path(T, b, Tail(s), c)
<1>1. PICK h : h[0] = a /\ h[Len(s)] = c /\ \A i \in 1..Len(s) : <<h[i - 1], s[i], h[i]>> \in T
  BY DEF Path
<1>2. PICK n \in Nat : Len(s) = n + 1
  <2>1. Len(s) \in Nat \ {0}
    OBVIOUS
  <2>2. Len(s) - 1 \in Nat /\ Len(s) = (Len(s) - 1) + 1
    BY <2>1
  <2> QED
    BY <2>2
<1> DEFINE g == [i \in 0..n |-> h[i + 1]]
           t == Tail(s)
<1>3. Len(t) = n /\ Head(s) = s[1] /\ \A i \in 1..n : t[i] = s[i + 1]
  BY <1>2
<1>4. \A i \in 0..n : g[i] = h[i + 1]
  OBVIOUS
<1> HIDE DEF g, t
<1>5. <<a, Head(s), h[1]>> \in T
  <2>1. 1 \in 1..Len(s) /\ 1 - 1 = 0
    BY <1>2
  <2> QED
    BY <1>1, <1>3, <2>1
<1>6. g[0] = h[1] /\ g[n] = c
  <2>1. 0 \in 0..n /\ n \in 0..n /\ 0 + 1 = 1
    BY <1>2
  <2> QED
    BY <1>1, <1>2, <1>4, <2>1
<1>7. ASSUME NEW i \in 1..n PROVE <<g[i - 1], t[i], g[i]>> \in T
  <2>1. i - 1 \in 0..n /\ i \in 0..n /\ (i - 1) + 1 = i /\ (i + 1) - 1 = i /\ i + 1 \in 1..Len(s)
    BY <1>2
  <2>2. <<h[(i + 1) - 1], s[i + 1], h[i + 1]>> \in T
    BY <1>1, <2>1
  <2>3. g[i - 1] = h[i] /\ g[i] = h[i + 1] /\ t[i] = s[i + 1]
    BY <1>3, <1>4, <2>1
  <2> QED
    BY <2>1, <2>2, <2>3
<1>8. Path(T, h[1], t, c)
  BY <1>3, <1>6, <1>7 DEF Path
<1> QED
  BY <1>5, <1>8 DEF t

-----------------------------------------------------------------------------
(* What each client shows of the room.                                       *)

\* The rows of one player, as the client counts them, after one more message.
Shown(r, m) == IF m.type = "player" THEN Applied(r, m) ELSE r
Showing == {t \in Rosters \X Answers \X Rosters : t[3] = Shown(t[1], t[2])}

\* What p's lists should be: itself and who came after it, and nobody else who is
\* not in the room, but for the rows of who was misled.
Fits(p, r) ==
    \A q \in People \ misled, c \in Columns :
        LET here == q \in room.members /\ ColumnOf(q) = c
        IN  /\ r[c][q] <= IF here THEN 1 ELSE 0
            /\ q \in newer[p] \cup {p} /\ here => r[c][q] = 1

Begun(p) == IF at[p] = "creating" THEN Itself(p, "gamer") ELSE roster[p]

\* What is under way makes p's lists fit the room.
Mirrored(p) == \E r \in Rosters : Path(Showing, Begun(p), toClient[p], r) /\ Fits(p, r)

Mirrors ==
    \A p \in room.members \ astray : at[p] \in {"creating", "waiting", "settings"} => Mirrored(p)

\* Who asks to enter has itself in its list.
Entering ==
    \A p \in People \ (astray \cup {Leader}) :
        at[p] = "waiting" /\ toServer[p] # <<>> /\ Head(toServer[p]).as \in Columns =>
            roster[p] = Itself(p, Head(toServer[p]).as)

\* Being in the room, as the requests under way make it: JOIN comes from who is
\* out, and only LEAVE takes out who is in.
Enters(m) == m.type = "JOIN" /\ m.as # "junk"
Quits(m) == m.type = "LEAVE" /\ m.known
Moving ==
    {t \in {"in", "out"} \X Requests \X {"in", "out"} :
        /\ Enters(t[2]) => t[1] = "out" /\ t[3] = "in"
        /\ t[1] = "in" /\ ~Quits(t[2]) => t[3] = "in"}

\* The screens from which JOIN can be sent, or that can only lead to them.
Outside(q) == at[q] \in {"menu", "fetching", "choosing"} \/ (at[q] = "waiting" /\ column[q] = "junk")

OneStay(q) ==
    \E b, e \in {"in", "out"} :
        /\ q \in room.members => b = "in"
        /\ Path(Moving, b, toServer[q], e)
        /\ Outside(q) => e = "out"

OneStays == room.phase = "open" => \A q \in People \ (misled \cup {Leader}) : OneStay(q)

\* END is under way only when the lobby is over.
EndLate == room.phase \in {"none", "open"} => \A p \in People : toClient[p] \in Seq(Untold({"end"}))

\* Who plays is in the room and sits once, but for who was misled.
GamersIn == \A q \in People \ misled : room.gamers[q] <= IF q \in room.members THEN 1 ELSE 0

\* The settings screen is the leader's.
OnlyLeader == \A p \in People \ {Leader} : at[p] \notin {"creating", "settings"}

-----------------------------------------------------------------------------
(* What the server does to the room, and what it tells whom.                 *)

\* q is told at most one thing, which is in S.
Hears(q, S) == toClient'[q] = toClient[q] \/ \E m \in S : toClient'[q] = Append(toClient[q], m)

\* Neither the room's people nor what is said of them changes.
Stable(p) ==
    /\ room'.members = room.members /\ room'.gamers = room.gamers /\ room'.phase = room.phase
    /\ newer' = newer
    /\ \A q \in People : Hears(q, Untold({"player", "end"}))

\* p is let in, as a gamer or to watch.
Enlisted(p, as) ==
    /\ room.phase \in {"open", "closing"} /\ Invited(p)
    /\ room'.members = room.members \cup {p} /\ room'.phase = room.phase
    /\ room'.gamers = Seated(room.gamers, p, as)
    /\ \E list \in Lists(p) : toClient'[p] = Append(toClient[p], list)
    /\ \A q \in People \ {p} :
         toClient'[q] = IF q \in room.members THEN Append(toClient[q], PlayerRows({<<p, as>>}, TRUE)) ELSE toClient[q]
    /\ \A q \in People : newer'[q] = CASE q = p -> {}
                                       [] q \in room.members \ {p} -> newer[q] \cup {p}
                                       [] OTHER -> newer[q]

\* p leaves, and the room goes on or is dissolved.
Departs(p) ==
    /\ room.phase \in {"open", "closing"} /\ newer' = newer
    /\ \/ /\ room'.phase = "closing" /\ room'.members = {}
          /\ room'.gamers = Unseated(room.gamers, room.members \cup {p})
       \/ /\ room'.phase = room.phase
          /\ room'.members = room.members \ {p} /\ room'.gamers = Unseated(room.gamers, {p})
          /\ \A q \in People :
               toClient'[q] = IF q \in room.members \ {p} THEN Append(toClient[q], PlayerRows({<<p, ColumnOf(p)>>}, FALSE))
                              ELSE toClient[q]

LEMMA TellsOne ==
    ASSUME TypeOK, NEW q \in People, NEW m \in Answers, NEW D \in SUBSET People,
           Sends([o \in People |-> IF o \in D THEN <<m>> ELSE <<>>])
    PROVE  toClient'[q] = IF q \in D THEN Append(toClient[q], m) ELSE toClient[q]
<1>1. toClient[q] \in Seq(Answers) /\ toClient[q] \o <<>> = toClient[q]
      /\ toClient[q] \o <<m>> = Append(toClient[q], m)
  BY DEF TypeOK
<1>2. toClient'[q] = toClient[q] \o (IF q \in D THEN <<m>> ELSE <<>>)
  BY DEF Sends
<1> QED
  BY <1>1, <1>2

LEMMA TellsStable ==
    ASSUME TypeOK, NEW p \in People, NEW m \in Untold({"player", "end"}), NEW D \in SUBSET People,
           Sends([o \in People |-> IF o \in D THEN <<m>> ELSE <<>>]),
           room'.members = room.members, room'.gamers = room.gamers, room'.phase = room.phase,
           newer' = newer
    PROVE  Stable(p)
<1>1. m \in Answers
  BY DEF Untold
<1>2. ASSUME NEW q \in People PROVE Hears(q, Untold({"player", "end"}))
  <2>1. toClient'[q] = IF q \in D THEN Append(toClient[q], m) ELSE toClient[q]
    BY <1>1, TellsOne
  <2> QED
    BY <2>1 DEF Hears
<1> QED
  BY <1>2 DEF Stable

LEMMA ServeRefuses ==
    ASSUME TypeOK, NEW p \in People, HandleJoin(p)
    PROVE  \/ Stable(p)
           \/ \E list \in Lists(p) :
                /\ room' = room /\ newer' = newer
                /\ \A q \in People : toClient'[q] = IF q = p THEN Append(toClient[q], list) ELSE toClient[q]
           \/ \E as \in Columns :
                /\ Head(toServer[p]).type = "JOIN" /\ Head(toServer[p]).as = as
                /\ Enlisted(p, as)
<1> USE DEF serverVars, clientVars, history
<1> DEFINE as == Head(toServer[p]).as
           news == PlayerRows({<<p, as>>}, TRUE)
           told(list) == [q \in People |-> (IF q \in Hearers(p) THEN <<news>> ELSE <<>>)
                                           \o (IF q = p THEN <<list>> ELSE <<>>)]
<1>1. as \in Columns \cup {"junk"} /\ Head(toServer[p]).type = "JOIN"
  BY TakesType, RequestsRead DEF HandleJoin
<1>2. \/ UNCHANGED <<room, deaf, toClient, stay, newer>>
      \/ /\ \E list \in Lists(p) : Sends([q \in People |-> IF q = p THEN <<list>> ELSE <<>>])
         /\ UNCHANGED <<room, stay, newer>>
      \/ /\ Exists /\ as # "junk" /\ Invited(p)
         /\ room' = [room EXCEPT !.members = @ \cup {p},
                       !.gamers = Seated(@, p, as)]
         /\ \E list \in Lists(p) : Sends(told(list))
         /\ LetIn(p)
  BY DEF HandleJoin
<1>3. CASE UNCHANGED <<room, deaf, toClient, stay, newer>>
  BY <1>3 DEF Stable, Hears
<1>4. ASSUME NEW list \in Lists(p), Sends([q \in People |-> IF q = p THEN <<list>> ELSE <<>>]),
             UNCHANGED <<room, stay, newer>>
      PROVE  \E l \in Lists(p) :
                /\ room' = room /\ newer' = newer
                /\ \A q \in People : toClient'[q] = IF q = p THEN Append(toClient[q], l) ELSE toClient[q]
  <2>1. list \in Answers
    BY ListsType
  <2>2. ASSUME NEW q \in People PROVE toClient'[q] = IF q = p THEN Append(toClient[q], list) ELSE toClient[q]
    <3>1. toClient[q] \in Seq(Answers) /\ toClient[q] \o <<>> = toClient[q]
          /\ toClient[q] \o <<list>> = Append(toClient[q], list)
      BY <2>1 DEF TypeOK
    <3>2. toClient'[q] = toClient[q] \o (IF q = p THEN <<list>> ELSE <<>>)
      BY <1>4 DEF Sends
    <3> QED
      BY <3>1, <3>2
  <2> QED
    BY <1>4, <2>2
<1>5. ASSUME Exists, as # "junk", Invited(p),
             room' = [room EXCEPT !.members = @ \cup {p},
                        !.gamers = Seated(@, p, as)],
             NEW list \in Lists(p), Sends(told(list)), LetIn(p)
      PROVE  Enlisted(p, as)
  <2>1. list \in Answers /\ as \in Columns
    BY <1>1, <1>5, ListsType
  <2>2. news \in Answers
    <3>1. {<<p, as>>} \in SUBSET (People \X Columns)
      BY <2>1
    <3> QED
      BY <3>1, AnswersMade
  <2>3. room \in Rooms
    BY DEF TypeOK, Rooms
  <2>4. room'.members = room.members \cup {p} /\ room'.phase = room.phase
        /\ room'.gamers = Seated(room.gamers, p, as)
    <3>1. PICK g : g = Seated(room.gamers, p, as)
      OBVIOUS
    <3>2. room' = [room EXCEPT !.members = room.members \cup {p}, !.gamers = g]
      BY <1>5, <3>1
    <3> QED
      BY <2>3, <3>1, <3>2 DEF Rooms
  <2>5. ASSUME NEW q \in People
        PROVE  toClient'[q] = toClient[q] \o ((IF q \in Hearers(p) THEN <<news>> ELSE <<>>)
                                              \o (IF q = p THEN <<list>> ELSE <<>>))
    BY <1>5 DEF Sends
  <2> HIDE DEF news
  <2>6. ASSUME NEW q \in People \ {p}
        PROVE  toClient'[q] = IF q \in room.members THEN Append(toClient[q], news) ELSE toClient[q]
    <3>1. toClient[q] \in Seq(Answers) /\ toClient[q] \o <<>> = toClient[q]
          /\ toClient[q] \o <<news>> = Append(toClient[q], news)
          /\ <<news>> \o <<>> = <<news>> /\ <<>> \o <<>> = <<>>
      BY <2>2 DEF TypeOK
    <3> QED
      BY <2>5, <3>1 DEF Hearers
  <2>7. toClient'[p] = Append(toClient[p], list)
    <3>1. toClient[p] \in Seq(Answers) /\ toClient[p] \o <<list>> = Append(toClient[p], list)
          /\ <<>> \o <<list>> = <<list>>
      BY <2>1 DEF TypeOK
    <3> QED
      BY <2>5, <3>1 DEF Hearers
  <2>8. \A q \in People : newer'[q] = CASE q = p -> {}
                                       [] q \in room.members \ {p} -> newer[q] \cup {p}
                                       [] OTHER -> newer[q]
    BY <1>5 DEF LetIn
  <2> HIDE DEF as
  <2> QED
    BY <1>5, <2>4, <2>6, <2>7, <2>8 DEF Enlisted, Exists, news
<1>6. as # "junk" => as \in Columns
  BY <1>1
<1> HIDE DEF told
<1> QED
  BY <1>1, <1>2, <1>3, <1>4, <1>5, <1>6

LEMMA ServeDeparts ==
    ASSUME TypeOK, NEW p \in People, HandleLeave(p)
    PROVE  /\ Head(toServer[p]).type = "LEAVE"
           /\ \/ Stable(p) /\ (Exists => ~Head(toServer[p]).known)
              \/ Head(toServer[p]).known /\ Departs(p)
<1> USE DEF clientVars, history
<1> DEFINE row == PlayerRows({LeavingRow(p)}, FALSE)
           news == <<row>> \o Farewell(p)
<1>1. room \in Rooms /\ Head(toServer[p]).type = "LEAVE" /\ newer' = newer
  BY TakesType DEF TypeOK, Rooms, HandleLeave
<1>2. CASE ~(Exists /\ Head(toServer[p]).known)
  BY <1>1, <1>2 DEF HandleLeave, Stable, Hears
<1>3. CASE Exists /\ Head(toServer[p]).known
  <2>1. /\ room' = IF Dissolves(p)
                     THEN [room EXCEPT !.phase = "closing", !.members = {},
                  !.gamers = Unseated(@, room.members \cup {p})]
                     ELSE [room EXCEPT !.members = @ \ {p}, !.gamers = Unseated(@, {p})]
        /\ Sends([q \in People |-> IF q \in Hearers(p) THEN news ELSE <<>>])
    BY <1>3 DEF HandleLeave
  <2>2. CASE Dissolves(p)
    <3>1. /\ room'.phase = "closing" /\ room'.members = {}
          /\ room'.gamers = Unseated(room.gamers, room.members \cup {p})
      <4>1. PICK g : g = Unseated(room.gamers, room.members \cup {p})
        OBVIOUS
      <4>2. room' = [room EXCEPT !.phase = "closing", !.members = {}, !.gamers = g]
        BY <2>1, <2>2, <4>1
      <4> QED
        BY <1>1, <4>1, <4>2 DEF Rooms
    <3> QED
      BY <1>1, <1>3, <3>1 DEF Departs, Exists
  <2>3. CASE ~Dissolves(p)
    <3>1. row \in Answers
      <4>1. {LeavingRow(p)} \in SUBSET (People \X Columns)
        BY DEF LeavingRow, ColumnOf, Columns
      <4> QED
        BY <4>1, AnswersMade
    <3>2. news = <<row>>
      <4>1. Farewell(p) = <<>>
        BY <2>3 DEF Farewell
      <4> HIDE DEF row
      <4>2. <<row>> \o <<>> = <<row>>
        BY <3>1
      <4> QED
        BY <4>1, <4>2
    <3> HIDE DEF news, row
    <3>3. Hearers(p) \in SUBSET People
      BY <1>1 DEF Hearers, Rooms
    <3>4. ASSUME NEW q \in People
          PROVE  toClient'[q] = IF q \in Hearers(p) THEN Append(toClient[q], row) ELSE toClient[q]
      BY <2>1, <3>1, <3>2, <3>3, TellsOne
    <3>5. /\ room'.phase = room.phase /\ room'.members = room.members \ {p}
          /\ room'.gamers = Unseated(room.gamers, {p})
      <4>1. PICK g : g = Unseated(room.gamers, {p})
        OBVIOUS
      <4>2. room' = [room EXCEPT !.members = room.members \ {p}, !.gamers = g]
        BY <2>1, <2>3, <4>1
      <4> QED
        BY <1>1, <4>1, <4>2 DEF Rooms
    <3> QED
      BY <1>1, <1>3, <3>4, <3>5 DEF Departs, Exists, Hearers, row, LeavingRow
  <2> QED
    BY <2>2, <2>3
<1> QED
  BY <1>2, <1>3

LEMMA ServeStable ==
    ASSUME TypeOK, NEW p \in People,
           \/ HandleCreateAgain(p) \/ HandleInvite(p) \/ HandleModify(p)
           \/ HandleStart(p) \/ HandleGetLobbyInvite(p)
    PROVE  Stable(p)
<1> USE DEF serverVars, clientVars, history
<1>1. room \in Rooms /\ invitations \in [People -> Counts]
  BY DEF TypeOK, Rooms, Counts
<1>2. CASE HandleInvite(p)
  BY <1>2 DEF HandleInvite, Stable, Hears
<1>3. CASE HandleModify(p)
  <2>1. CASE Exists
    <3>1. Sends([q \in People |-> IF q \in room.members THEN <<Says("update")>> ELSE <<>>]) /\ newer' = newer
          /\ room' = [room EXCEPT !.size = Head(toServer[p]).size]
      BY <1>3, <2>1 DEF HandleModify
    <3>2. Says("update") \in Untold({"player", "end"}) /\ room.members \in SUBSET People
      BY <1>1, AnswersMade DEF Says, Untold, Rooms
    <3>3. room'.members = room.members /\ room'.gamers = room.gamers /\ room'.phase = room.phase
      BY <1>1, <3>1 DEF Rooms
    <3> QED
      BY <3>1, <3>2, <3>3, TellsStable
  <2>2. CASE ~Exists
    BY <1>3, <2>2 DEF HandleModify, Stable, Hears
  <2> QED
    BY <2>1, <2>2
<1>4. CASE HandleStart(p)
  <2> DEFINE accepted == StartAccepted(p)
             told == CASE accepted -> Started(p) [] Exists /\ ~accepted -> {p} [] OTHER -> {}
             answer == Says(IF accepted THEN "started" ELSE "error")
  <2>1. room' = [room EXCEPT !.playing = Playing(p)] /\ newer' = newer
        /\ Sends([q \in People |-> IF q \in told THEN <<answer>> ELSE <<>>])
    BY <1>4 DEF HandleStart
  <2>2. answer \in Untold({"player", "end"})
    BY AnswersMade DEF Says, Untold
  <2>3. told \in SUBSET People
    BY <1>1 DEF Rooms, Started
  <2>4. room'.members = room.members /\ room'.gamers = room.gamers /\ room'.phase = room.phase
    BY <1>1, <2>1 DEF Rooms
  <2> HIDE DEF told, answer
  <2> QED
    BY <2>1, <2>2, <2>3, <2>4, TellsStable
<1>6. CASE HandleCreateAgain(p)
  <2>1. PICK D \in SUBSET People : D = {p}
    OBVIOUS
  <2>2. Says("another") \in Untold({"player", "end"})
    BY AnswersMade DEF Says, Untold
  <2>3. Sends([q \in People |-> IF q \in D THEN <<Says("another")>> ELSE <<>>])
    <3>1. \A q \in People : q = p <=> q \in D
      BY <2>1
    <3> QED
      BY <1>6, <3>1 DEF HandleCreateAgain, Sends
  <2>4. room' = room /\ newer' = newer
    BY <1>6 DEF HandleCreateAgain
  <2> QED
    BY <2>2, <2>3, <2>4, TellsStable
<1>5. CASE HandleGetLobbyInvite(p)
  <2> DEFINE answer == [type |-> "invitations", rows |-> invitations[p]]
             told == {q \in {p} : q \notin room.members}
  <2>1. answer \in Untold({"player", "end"}) /\ told \in SUBSET People
    BY <1>1, AnswersMade DEF Untold
  <2>2. Sends([q \in People |-> IF q \in told THEN <<answer>> ELSE <<>>])
    <3>1. \A q \in People : (q = p /\ q \notin room.members) <=> q \in told
      OBVIOUS
    <3> HIDE DEF told
    <3> QED
      BY <1>5, <3>1 DEF HandleGetLobbyInvite, Sends
  <2>3. room' = room /\ newer' = newer
    BY <1>5 DEF HandleGetLobbyInvite
  <2> HIDE DEF answer, told
  <2> QED
    BY <2>1, <2>2, <2>3, TellsStable
<1> QED
  BY <1>2, <1>3, <1>4, <1>5, <1>6

-----------------------------------------------------------------------------
(* The server, by what it does to the room's people.                         *)

LEMMA RowMade == \A q \in People, c \in Columns : {<<q, c>>} \in SUBSET (People \X Columns)
OBVIOUS

\* What is heard, as a set of messages.
LEMMA HearsMore ==
    ASSUME TypeOK, NEW q \in People, NEW S \in SUBSET Answers, NEW T, S \subseteq T, Hears(q, S),
           toClient[q] \in Seq(T)
    PROVE  toClient'[q] \in Seq(T)
<1>1. toClient[q] \in Seq(Answers)
  BY DEF TypeOK
<1> QED
  BY <1>1, SeqAppend DEF Hears

LEMMA ServeKinds ==
    ASSUME TypeOK, NEW p \in People, Serve(p), ~HandleCreate(p)
    PROVE  \/ /\ Stable(p)
              /\ Exists => Head(toServer[p]).type # "LEAVE" \/ ~Head(toServer[p]).known
           \/ \E list \in Lists(p) :
                /\ Head(toServer[p]).type = "JOIN" /\ room' = room /\ newer' = newer
                /\ \A q \in People : toClient'[q] = IF q = p THEN Append(toClient[q], list) ELSE toClient[q]
           \/ \E as \in Columns :
                /\ Head(toServer[p]).type = "JOIN" /\ Head(toServer[p]).as = as
                /\ Enlisted(p, as)
           \/ Head(toServer[p]).type = "LEAVE" /\ Head(toServer[p]).known /\ Departs(p)
<1>1. CASE \/ HandleCreateAgain(p) \/ HandleInvite(p) \/ HandleModify(p)
           \/ HandleStart(p) \/ HandleGetLobbyInvite(p)
  <2>1. Head(toServer[p]).type # "LEAVE"
    BY <1>1, TakesType DEF HandleCreateAgain, HandleInvite, HandleModify, HandleStart, HandleGetLobbyInvite
  <2> QED
    BY <1>1, <2>1, ServeStable
<1>2. CASE HandleJoin(p)
  <2>1. Head(toServer[p]).type = "JOIN"
    BY <1>2, TakesType DEF HandleJoin
  <2> QED
    BY <1>2, <2>1, ServeRefuses
<1>3. CASE HandleLeave(p)
  BY <1>3, ServeDeparts
<1> QED
  BY <1>1, <1>2, <1>3 DEF Serve

LEMMA ServeEndLate ==
    ASSUME TypeOK, Unopened, Created, EndLate, NEW p \in People, Serve(p)
    PROVE  EndLate'
<1> SUFFICES ASSUME room'.phase \in {"none", "open"}, NEW q \in People
             PROVE  toClient'[q] \in Seq(Untold({"end"}))
  BY DEF EndLate, Untold
<1> DEFINE S == Untold({"end"})
<1>1. toClient[q] \in Seq(Answers) /\ S \subseteq Answers
  BY DEF TypeOK, Untold
<1>2. CASE HandleCreate(p)
  <2>1. toClient[q] \in Seq(S)
    BY <1>2, ServeCreate DEF EndLate
  <2>2. PICK u : Told(p, q, u)
    BY ServeTells
  <2>3. Says("created") \in S
    BY AnswersMade DEF Says, Untold
  <2> HIDE DEF S
  <2>4. u \in Seq(S) /\ u \in Seq(Answers) /\ toClient'[q] = toClient[q] \o u
    BY <1>2, <2>2, <2>3 DEF Told
  <2> QED
    BY <1>1, <2>1, <2>4, SeqConcat DEF S
<1>3. CASE ~HandleCreate(p)
  <2>1. CASE room.phase \notin {"none", "open"}
    <3>1. room'.phase \notin {"none", "open"}
      BY <1>3, <2>1, ServeRoom
    <3> QED
      BY <3>1
  <2>2. CASE room.phase \in {"none", "open"}
    <3>1. toClient[q] \in Seq(S)
      BY <2>2 DEF EndLate
    <3>2. ASSUME Hears(q, S) PROVE toClient'[q] \in Seq(S)
      BY <1>1, <3>1, <3>2, HearsMore
    <3>3. CASE Stable(p)
      <4>1. Untold({"player", "end"}) \subseteq S /\ Untold({"player", "end"}) \subseteq Answers
        BY DEF Untold
      <4> HIDE DEF S
      <4> QED
        BY <1>1, <3>1, <3>3, <4>1, HearsMore DEF Stable, S
    <3>4. ASSUME NEW list \in Lists(p) PROVE list \in S
      <4>1. list \in Answers
        BY <3>4, ListsType
      <4>2. list.type = "player" \/ list.type = "overrun"
        BY <3>4 DEF Lists, Says, PlayerRows
      <4> QED
        BY <4>1, <4>2 DEF Untold
    <3>5. \A rows \in SUBSET (People \X Columns), added \in BOOLEAN : PlayerRows(rows, added) \in S
      BY AnswersMade DEF PlayerRows, Untold
    <3> HIDE DEF S
    <3>6. ASSUME NEW list \in Lists(p),
                 \A o \in People : toClient'[o] = IF o = p THEN Append(toClient[o], list) ELSE toClient[o]
          PROVE  Hears(q, S)
      BY <3>4, <3>6 DEF Hears
    <3>7. ASSUME NEW as \in Columns, Enlisted(p, as) PROVE Hears(q, S)
      <4>1. {<<p, as>>} \in SUBSET (People \X Columns)
        BY RowMade
      <4>2. PlayerRows({<<p, as>>}, TRUE) \in S
        BY <3>5, <4>1
      <4>3. PICK list \in Lists(p) : toClient'[p] = Append(toClient[p], list)
        BY <3>7 DEF Enlisted
      <4>4. q # p => toClient'[q] = IF q \in room.members THEN Append(toClient[q], PlayerRows({<<p, as>>}, TRUE)) ELSE toClient[q]
        BY <3>7 DEF Enlisted
      <4> QED
        BY <3>4, <4>2, <4>3, <4>4 DEF Hears
    <3>8. ASSUME Departs(p) PROVE Hears(q, S)
      <4>1. {<<p, ColumnOf(p)>>} \in SUBSET (People \X Columns)
        BY DEF ColumnOf, Columns
      <4>2. PlayerRows({<<p, ColumnOf(p)>>}, FALSE) \in S
        BY <3>5, <4>1
      <4>3. toClient'[q] = IF q \in room.members \ {p} THEN Append(toClient[q], PlayerRows({<<p, ColumnOf(p)>>}, FALSE))
                           ELSE toClient[q]
        BY <3>8 DEF Departs
      <4> QED
        BY <4>2, <4>3 DEF Hears
    <3> QED
      BY <1>3, <3>2, <3>3, <3>6, <3>7, <3>8, ServeKinds DEF S
  <2> QED
    BY <2>1, <2>2
<1> QED
  BY <1>2, <1>3

-----------------------------------------------------------------------------
(* Nobody enters twice.                                                      *)

\* A path that stays where it is.
LEMMA PathStays ==
    ASSUME NEW T, NEW s, NEW a, Len(s) \in Nat, \A i \in 1..Len(s) : <<a, s[i], a>> \in T
    PROVE  Path(T, a, s, a)
<1>1. PICK n \in Nat : n = Len(s)
  OBVIOUS
<1>2. PICK h : h = [i \in 0..n |-> a]
  OBVIOUS
<1>3. h[0] = a /\ h[n] = a /\ \A i \in 1..n : h[i] = a /\ h[i - 1] = a
  BY <1>1, <1>2
<1> QED
  BY <1>1, <1>3 DEF Path

\* A request moves one who is in or out.
LEMMA Moves ==
    ASSUME NEW m \in Requests
    PROVE  /\ \A b, e \in {"in", "out"} :
                <<b, m, e>> \in Moving <=>
                  /\ Enters(m) => b = "out" /\ e = "in"
                  /\ b = "in" /\ ~Quits(m) => e = "in"
           /\ m.type # "JOIN" => ~Enters(m)
           /\ m.type # "LEAVE" => ~Quits(m)
           /\ m.type = "JOIN" => (Enters(m) <=> m.as # "junk")
           /\ m.type = "LEAVE" => (Quits(m) <=> m.known)
<1>1. ASSUME NEW b \in {"in", "out"}, NEW e \in {"in", "out"}
      PROVE  <<b, m, e>> \in Moving <=>
                  /\ Enters(m) => b = "out" /\ e = "in"
                  /\ b = "in" /\ ~Quits(m) => e = "in"
  <2>1. PICK t : t = <<b, m, e>>
    OBVIOUS
  <2>2. t \in {"in", "out"} \X Requests \X {"in", "out"} /\ t[1] = b /\ t[2] = m /\ t[3] = e
    BY <2>1
  <2>3. t \in Moving <=> /\ Enters(m) => b = "out" /\ e = "in"
                         /\ b = "in" /\ ~Quits(m) => e = "in"
    BY <2>2 DEF Moving
  <2> QED
    BY <2>1, <2>3
<1>2. m.type = "LEAVE" => m.known \in BOOLEAN
  BY RequestsRead
<1> QED
  BY <1>1, <1>2 DEF Enters, Quits

\* What others do leaves q where it is.
LEMMA StayUnmoved ==
    ASSUME NEW q \in People, OneStay(q), at'[q] = at[q], column'[q] = column[q], toServer'[q] = toServer[q],
           q \in room'.members => q \in room.members
    PROVE  OneStay(q)'
<1>1. PICK b \in {"in", "out"}, e \in {"in", "out"} :
        /\ q \in room.members => b = "in"
        /\ Path(Moving, b, toServer[q], e)
        /\ Outside(q) => e = "out"
  BY DEF OneStay
<1>2. PICK T : T = Moving
  OBVIOUS
<1>3. Moving' = T
  BY <1>2 DEF Moving, Enters, Quits, Requests
<1>4. Path(Moving, b, toServer[q], e)' <=> Path(T, b, toServer'[q], e)
  BY <1>3 DEF Path
<1>5. Outside(q)' <=> Outside(q)
  BY DEF Outside
<1> QED
  BY <1>1, <1>2, <1>4, <1>5 DEF OneStay

LEMMA StayNext ==
    ASSUME NEW q \in People, NEW b \in {"in", "out"}, NEW e \in {"in", "out"},
           q \in room'.members => b = "in", Path(Moving, b, toServer'[q], e), Outside(q)' => e = "out"
    PROVE  OneStay(q)'
<1>1. PICK T : T = Moving
  OBVIOUS
<1>2. Moving' = T
  BY <1>1 DEF Moving, Enters, Quits, Requests
<1>3. Path(Moving, b, toServer[q], e)' <=> Path(T, b, toServer'[q], e)
  BY <1>2 DEF Path
<1>4. Path(Moving, b, toServer[q], e)'
  BY <1>1, <1>3
<1> QED
  BY <1>4 DEF OneStay

LEMMA ColumnKept ==
    ASSUME TypeOK, NEW p \in People, NEW q \in People
    PROVE  /\ Keys(p) /\ q # p => column'[q] = column[q] /\ roster'[q] = roster[q] /\ newer' = newer
           /\ Keys(p) => newer' = newer
           /\ Reading(p) => /\ newer' = newer
                            /\ q # p => column'[q] = column[q] /\ roster'[q] = roster[q]
                            /\ at[p] # "creating" => column' = column
           /\ Serve(p) => column' = column /\ roster' = roster
<1> USE DEF serverVars, streams, clientVars, history
<1>1. ASSUME Keys(p), q # p PROVE column'[q] = column[q] /\ roster'[q] = roster[q]
  BY <1>1 DEF Keys, Create, CreateAgain, Confirm, Invite, Start, OpenSettings, Cancel, Leave, Fetch, Back, Join, TypeOK
<1>2. Keys(p) => newer' = newer
  BY DEF Keys, Create, CreateAgain, Confirm, Invite, Start, OpenSettings, Cancel, Leave, Fetch, Back, Join
<1>3. ASSUME Reading(p) PROVE newer' = newer /\ (at[p] # "creating" => column' = column)
  BY <1>3 DEF Reading, ReadCreated, ReadCreatedAgain, ReadInvitations, ReadWaiting
<1>4. ASSUME Reading(p), q # p PROVE column'[q] = column[q] /\ roster'[q] = roster[q]
  BY <1>4 DEF Reading, ReadCreated, ReadCreatedAgain, ReadInvitations, ReadWaiting, TypeOK
<1>5. Serve(p) => column' = column /\ roster' = roster
  BY DEF Serve, HandleCreate, HandleCreateAgain, HandleInvite, HandleModify, HandleJoin, HandleLeave, HandleStart,
         HandleGetLobbyInvite
<1> QED
  BY <1>1, <1>2, <1>3, <1>4, <1>5

LEMMA MisledKept ==
    ASSUME NEW p \in People
    PROVE  /\ Keys(p) \/ Serve(p) => misled' = misled
           /\ Reading(p) => misled \subseteq misled'
           /\ ReadWaiting(p) /\ Head(toClient[p]).type = "invitations" /\ Meaning(Head(toClient[p])) = "end"
                => p \in misled'
<1> USE DEF serverVars, streams, clientVars, history
<1>1. Keys(p) => misled' = misled
  BY DEF Keys, Create, CreateAgain, Confirm, Invite, Start, OpenSettings, Cancel, Leave, Fetch, Back, Join
<1>2. Serve(p) => misled' = misled
  BY DEF Serve, HandleCreate, HandleCreateAgain, HandleInvite, HandleModify, HandleJoin, HandleLeave, HandleStart,
         HandleGetLobbyInvite
<1>3. Reading(p) => misled \subseteq misled'
  BY DEF Reading, ReadCreated, ReadCreatedAgain, ReadInvitations, ReadWaiting
<1>4. ReadWaiting(p) /\ Head(toClient[p]).type = "invitations" /\ Meaning(Head(toClient[p])) = "end"
        => p \in misled'
  BY DEF ReadWaiting
<1> QED
  BY <1>1, <1>2, <1>3, <1>4

LEMMA KeysOneStay ==
    ASSUME TypeOK, OnlyLeader, NEW p \in People \ {Leader}, Keys(p), OneStay(p)
    PROVE  OneStay(p)'
<1>1. PICK b \in {"in", "out"}, e \in {"in", "out"} :
        /\ p \in room.members => b = "in"
        /\ Path(Moving, b, toServer[p], e)
        /\ Outside(p) => e = "out"
  BY DEF OneStay
<1>2. room' = room /\ toServer[p] \in Seq(Requests)
  BY KeysUnmoved DEF TypeOK
<1>3. at[p] \notin {"creating", "settings"}
  BY DEF OnlyLeader
<1>4. ASSUME NEW f \in {"in", "out"}, Path(Moving, b, toServer'[p], f), Outside(p)' => f = "out"
      PROVE  OneStay(p)'
  BY <1>1, <1>2, <1>4, StayNext
<1>5. ASSUME NEW r, Sent(p, r), NEW f \in {"in", "out"}, <<e, r, f>> \in Moving, Outside(p)' => f = "out"
      PROVE  OneStay(p)'
  <2>1. r \in Requests /\ toServer'[p] = Append(toServer[p], r)
    BY <1>5 DEF Sent
  <2>2. Path(Moving, b, toServer'[p], f)
    BY <1>1, <1>2, <1>5, <2>1, PathAppend
  <2> QED
    BY <1>4, <1>5, <2>2
<1>6. ASSUME NEW r, Sent(p, r) PROVE OneStay(p)'
  <2>1. r \in Requests
    BY <1>6 DEF Sent
  <2>2. CASE r.type = "LEAVE"
    <3>1. r.known <=> column[p] # "junk"
      BY <1>6, <2>2 DEF Sent
    <3>2. at[p] = "waiting"
      BY <1>6, <2>2 DEF Sent
    <3>3. ~r.known => e = "out"
      BY <1>1, <3>1, <3>2 DEF Outside
    <3>4. <<e, r, "out">> \in Moving
      BY <2>1, <2>2, <3>3, Moves
    <3> QED
      BY <1>5, <1>6, <3>4
  <2>3. CASE r.type = "GET_LOBBY_INVITE"
    <3>1. at[p] = "menu"
      BY <1>6, <2>3 DEF Sent
    <3>2. e = "out"
      BY <1>1, <3>1 DEF Outside
    <3>3. <<e, r, "out">> \in Moving
      BY <2>1, <2>3, <3>2, Moves
    <3> QED
      BY <1>5, <1>6, <3>3
  <2>4. CASE r.type = "JOIN"
    <3>1. at[p] = "choosing" /\ at'[p] = "waiting" /\ column'[p] = r.as
      BY <1>6, <2>4 DEF Sent
    <3>2. e = "out"
      BY <1>1, <3>1 DEF Outside
    <3>3. CASE r.as = "junk"
      <4>1. <<e, r, "out">> \in Moving
        BY <2>1, <2>4, <3>2, <3>3, Moves
      <4> QED
        BY <1>5, <1>6, <4>1
    <3>4. CASE r.as # "junk"
      <4>1. <<e, r, "in">> \in Moving
        BY <2>1, <2>4, <3>2, <3>4, Moves
      <4>2. ~Outside(p)'
        BY <3>1, <3>4 DEF Outside
      <4> QED
        BY <1>5, <1>6, <4>1, <4>2
    <3> QED
      BY <3>3, <3>4
  <2> QED
    BY <1>3, <1>6, <2>2, <2>3, <2>4 DEF Sent
<1>7. ASSUME toServer'[p] = toServer[p], column'[p] = column[p], at[p] = "choosing", at'[p] = "menu"
      PROVE  OneStay(p)'
  <2>1. e = "out" /\ Path(Moving, b, toServer'[p], e)
    BY <1>1, <1>7 DEF Outside
  <2> QED
    BY <1>4, <2>1
<1> QED
  BY <1>6, <1>7, KeysSend

LEMMA ReadingOneStay ==
    ASSUME TypeOK, OnlyLeader, NEW p \in People \ {Leader}, Reading(p), OneStay(p), p \notin misled',
           toClient[p] \in Seq(Untold({"end"}))
    PROVE  OneStay(p)'
<1>1. room' = room /\ toServer' = toServer
  BY ReadingUnmoved
<1>2. at[p] \notin {"creating", "settings"}
  BY DEF OnlyLeader
<1>3. column'[p] = column[p]
  BY <1>2, ColumnKept
<1>4. Outside(p)' => Outside(p)
  <2>1. CASE ReadCreated(p)
    BY <1>2, <2>1 DEF ReadCreated
  <2>4. CASE ReadCreatedAgain(p)
    <3>1. at'[p] \in {"again", "elsewhere"}
      BY <2>4 DEF ReadCreatedAgain, Goes, TypeOK
    <3> QED
      BY <3>1 DEF Outside
  <2>2. CASE ReadInvitations(p)
    BY <2>2 DEF ReadInvitations, Outside
  <2>3. CASE ReadWaiting(p)
    <3> DEFINE m == Head(toClient[p])
    <3>1. m \in Untold({"end"}) /\ m \in Answers
      <4>1. toClient[p] # <<>> /\ toClient[p] \in Seq(Answers)
        BY <2>3 DEF ReadWaiting, Reads, TypeOK
      <4> QED
        BY <4>1, SeqHead
    <3>2. Meaning(m) # "end"
      <4>1. m.type # "invitations" => Meaning(m) = m.type
        BY DEF Meaning
      <4>2. m.type # "end"
        BY <3>1 DEF Untold
      <4> QED
        BY <2>3, <4>1, <4>2, MisledKept
    <3>3. at' = [at EXCEPT ![p] = CASE Meaning(m) = "end" -> "menu"
                                     [] Meaning(m) = "started" -> "playing"
                                     [] Meaning(m) = "overrun" -> "broken"
                                     [] OTHER -> @] /\ at[p] = "waiting"
      BY <2>3 DEF ReadWaiting
    <3>4. at'[p] = "waiting" \/ at'[p] = "playing" \/ at'[p] = "broken"
      BY <3>2, <3>3 DEF TypeOK
    <3> QED
      BY <1>3, <3>3, <3>4 DEF Outside
  <2> QED
    BY <2>1, <2>2, <2>3, <2>4 DEF Reading
<1> QED
  BY <1>1, <1>4 DEF OneStay, Path, Moving, Enters, Quits, Requests

\* Who is let in was not in the room, unless it was misled.
LEMMA EntersFromOutside ==
    ASSUME TypeOK, LeaderUninvited, OneStays, NEW p \in People, Serve(p), NEW as \in Columns,
           Head(toServer[p]).type = "JOIN", Head(toServer[p]).as = as, Enlisted(p, as)
    PROVE  p \notin room.members \ misled /\ p # Leader
<1>1. toServer[p] # <<>> /\ Head(toServer[p]) \in Requests /\ toServer[p] \in Seq(Requests)
  BY ServeKeeps DEF TypeOK
<1>2. p # Leader
  <2>1. PICK c \in Columns : invitations[p][c] > 0
    BY DEF Enlisted, Invited
  <2>2. invitations[p][c] \in Nat
    BY DEF TypeOK
  <2> QED
    BY <2>1, <2>2 DEF LeaderUninvited
<1>3. CASE room.phase = "open" /\ p \notin misled
  <2>1. PICK b \in {"in", "out"}, e \in {"in", "out"} :
          (p \in room.members => b = "in") /\ Path(Moving, b, toServer[p], e)
    BY <1>2, <1>3 DEF OneStays, OneStay
  <2>2. PICK f : <<b, Head(toServer[p]), f>> \in Moving
    BY <1>1, <2>1, PathTail
  <2>3. f \in {"in", "out"}
    BY <2>2 DEF Moving
  <2>4. as # "junk"
    BY DEF Columns
  <2>5. b = "out"
    BY <1>1, <2>2, <2>3, <2>4, Moves
  <2> QED
    BY <1>2, <2>1, <2>5
<1>4. CASE room.phase # "open" \/ p \in misled
  <2>1. p \in room.members => room.phase = "open"
    BY DEF Serve, HandleCreate, HandleCreateAgain, HandleInvite, HandleModify, HandleJoin, HandleLeave, HandleStart,
           HandleGetLobbyInvite, Takes
  <2> QED
    BY <1>2, <1>4, <2>1
<1> QED
  BY <1>3, <1>4

LEMMA ServeGamersIn ==
    ASSUME TypeOK, Unopened, Created, LeaderUninvited, OneStays, GamersIn, NEW p \in People, Serve(p)
    PROVE  GamersIn'
<1> SUFFICES ASSUME NEW q \in People, q \notin misled'
             PROVE  room'.gamers[q] <= IF q \in room'.members THEN 1 ELSE 0
  BY DEF GamersIn
<1>1. /\ room.gamers \in [People -> Nat] /\ room.gamers[q] \in Nat /\ q \notin misled
      /\ room.gamers[q] <= IF q \in room.members THEN 1 ELSE 0
  BY MisledKept DEF GamersIn, TypeOK
<1>2. CASE HandleCreate(p)
  <2>1. room'.members = {p} /\ room'.gamers = Seated(Nobody, p, "gamer")
    BY <1>2 DEF HandleCreate
  <2>2. Seated(Nobody, p, "gamer")[q] = IF q = p THEN 1 ELSE 0
    BY <1>1, NobodySits, SeatedAt
  <2> QED
    BY <2>1, <2>2
<1>3. CASE Stable(p)
  BY <1>1, <1>3 DEF Stable
<1>4. CASE room' = room
  BY <1>1, <1>4
<1>5. ASSUME NEW as \in Columns, Head(toServer[p]).type = "JOIN", Head(toServer[p]).as = as, Enlisted(p, as)
      PROVE  room'.gamers[q] <= IF q \in room'.members THEN 1 ELSE 0
  <2>1. q = p => q \notin room.members
    BY <1>1, <1>5, EntersFromOutside
  <2>2. room'.gamers[q] = IF as = "gamer" /\ q = p THEN room.gamers[q] + 1 ELSE room.gamers[q]
    <3>1. Seated(room.gamers, p, as)[q] = IF as = "gamer" /\ q = p THEN room.gamers[q] + 1 ELSE room.gamers[q]
      BY <1>1 DEF Seated
    <3> QED
      BY <1>5, <3>1 DEF Enlisted
  <2>3. room'.members = room.members \cup {p}
    BY <1>5 DEF Enlisted
  <2>4. CASE q = p
    <3>1. room.gamers[q] = 0 /\ q \in room'.members
      BY <1>1, <2>1, <2>3, <2>4
    <3>2. room'.gamers[q] = 1 \/ room'.gamers[q] = 0
      BY <2>2, <3>1
    <3> QED
      BY <3>1, <3>2
  <2>5. CASE q # p
    BY <1>1, <2>2, <2>3, <2>5
  <2> QED
    BY <2>4, <2>5
<1>6. CASE Departs(p)
  <2>1. ASSUME NEW gone, room'.gamers = Unseated(room.gamers, gone)
        PROVE  room'.gamers[q] = IF q \in gone /\ room.gamers[q] > 0 THEN room.gamers[q] - 1 ELSE room.gamers[q]
    BY <1>1, <2>1, UnseatedAt
  <2>2. CASE room'.members = {} /\ room'.gamers = Unseated(room.gamers, room.members \cup {p})
    <3>1. room'.gamers[q] = 0
      BY <1>1, <2>1, <2>2
    <3> QED
      BY <3>1
  <2>3. CASE room'.members = room.members \ {p} /\ room'.gamers = Unseated(room.gamers, {p})
    BY <1>1, <2>1, <2>3
  <2> QED
    BY <1>6, <2>2, <2>3 DEF Departs
<1> QED
  BY <1>2, <1>3, <1>4, <1>5, <1>6, ServeKinds

LEMMA ServeOneStays ==
    ASSUME TypeOK, Unopened, Created, OneStays, NEW p \in People, Serve(p)
    PROVE  OneStays'
<1> SUFFICES ASSUME room'.phase = "open", NEW q \in People \ {Leader}, q \notin misled' PROVE OneStay(q)'
  BY DEF OneStays
<1>1. /\ at' = at /\ column' = column
      /\ toServer[p] # <<>> /\ Head(toServer[p]) \in Requests /\ toServer[p] \in Seq(Requests)
      /\ \A o \in People : toServer'[o] = IF o = p THEN Tail(toServer[o]) ELSE toServer[o]
  BY ServeKeeps, ColumnKept DEF TypeOK
<1>2. (Outside(q)' <=> Outside(q)) /\ q \notin misled
  BY <1>1, MisledKept DEF Outside
<1>3. CASE HandleCreate(p)
  <2>1. p = Leader /\ room.phase = "none" /\ room'.members = {p} /\ q # p
    BY <1>3, ServeCreate
  <2>2. toServer[q] \in Seq({m \in Requests : m.type \in {"CREATE", "GET_LOBBY_INVITE"}}) /\ toServer[q] \in Seq(Requests)
    BY <2>1 DEF Unopened, TypeOK
  <2>3. ASSUME NEW i \in 1..Len(toServer[q]) PROVE <<"out", toServer[q][i], "out">> \in Moving
    <3>1. toServer[q][i] \in Requests /\ toServer[q][i].type \in {"CREATE", "GET_LOBBY_INVITE"}
      BY <2>2, SeqIs
    <3> QED
      BY <3>1, Moves
  <2>4. Path(Moving, "out", toServer[q], "out")
    BY <2>2, <2>3, PathStays
  <2> QED
    BY <1>1, <2>1, <2>4, StayNext
<1>4. CASE ~HandleCreate(p)
  <2>1. room.phase = "open"
    BY <1>4, ServeRoom
  <2>2. PICK b \in {"in", "out"}, e \in {"in", "out"} :
          /\ q \in room.members => b = "in"
          /\ Path(Moving, b, toServer[q], e)
          /\ Outside(q) => e = "out"
    BY <1>2, <2>1 DEF OneStays, OneStay
  <2>3. CASE q # p
    <3>1. q \in room'.members => q \in room.members
      BY <2>3, ServeBystander DEF Bystander
    <3> QED
      BY <1>1, <1>2, <2>2, <2>3, <3>1, StayNext
  <2>4. CASE q = p
    <3>1. PICK f : <<b, Head(toServer[p]), f>> \in Moving /\ Path(Moving, f, Tail(toServer[p]), e)
      BY <1>1, <2>2, <2>4, PathTail
    <3>2. f \in {"in", "out"}
      BY <3>1 DEF Moving
    <3>3. p \in room'.members => f = "in"
      <4> SUFFICES ASSUME p \in room'.members PROVE f = "in"
        OBVIOUS
      <4>1. CASE Stable(p) /\ (Exists => Head(toServer[p]).type # "LEAVE" \/ ~Head(toServer[p]).known)
        <5>1. b = "in"
          BY <2>2, <2>4, <4>1 DEF Stable
        <5>2. ~Quits(Head(toServer[p]))
          BY <2>1, <4>1 DEF Exists, Quits
        <5> QED
          BY <1>1, <3>1, <3>2, <5>1, <5>2, Moves
      <4>2. CASE Head(toServer[p]).type = "JOIN" /\ room' = room
        <5>1. b = "in"
          BY <2>2, <2>4, <4>2
        <5> QED
          BY <1>1, <3>1, <3>2, <4>2, <5>1, Moves
      <4>3. ASSUME NEW as \in Columns, Head(toServer[p]).type = "JOIN", Head(toServer[p]).as = as
            PROVE  f = "in"
        <5>1. as # "junk"
          BY DEF Columns
        <5> QED
          BY <1>1, <3>1, <3>2, <4>3, <5>1, Moves
      <4>4. CASE Departs(p)
        BY <2>1, <4>4 DEF Departs
      <4> QED
        BY <1>4, <4>1, <4>2, <4>3, <4>4, ServeKinds
    <3> QED
      BY <1>1, <1>2, <2>2, <2>4, <3>1, <3>2, <3>3, StayNext
  <2> QED
    BY <2>3, <2>4
<1> QED
  BY <1>3, <1>4

LEMMA KeysOneStays ==
    ASSUME TypeOK, OnlyLeader, OneStays, NEW p \in People, Keys(p)
    PROVE  OneStays'
<1> SUFFICES ASSUME room'.phase = "open", NEW q \in People \ {Leader}, q \notin misled' PROVE OneStay(q)'
  BY DEF OneStays
<1>1. room' = room /\ OneStay(q)
  BY KeysUnmoved, MisledKept DEF OneStays
<1>2. CASE q = p
  BY <1>1, <1>2, KeysOneStay
<1>3. CASE q # p
  <2>1. at'[q] = at[q] /\ toServer'[q] = toServer[q] /\ column'[q] = column[q]
    BY <1>3, KeysBystander, ColumnKept DEF Bystander
  <2> QED
    BY <1>1, <2>1, StayUnmoved
<1> QED
  BY <1>2, <1>3

LEMMA ReadingOneStays ==
    ASSUME TypeOK, OnlyLeader, EndLate, OneStays, NEW p \in People, Reading(p)
    PROVE  OneStays'
<1> SUFFICES ASSUME room'.phase = "open", NEW q \in People \ {Leader}, q \notin misled' PROVE OneStay(q)'
  BY DEF OneStays
<1>1. room' = room /\ OneStay(q) /\ toClient[q] \in Seq(Untold({"end"}))
  BY ReadingUnmoved, MisledKept DEF OneStays, EndLate
<1>2. CASE q = p
  BY <1>1, <1>2, ReadingOneStay
<1>3. CASE q # p
  <2>1. at'[q] = at[q] /\ toServer'[q] = toServer[q] /\ column'[q] = column[q]
    BY <1>3, ReadingBystander, ColumnKept DEF Bystander
  <2> QED
    BY <1>1, <2>1, StayUnmoved
<1> QED
  BY <1>2, <1>3

-----------------------------------------------------------------------------
(* The lists of who asks to enter, and the leader's screens.                 *)

LEMMA KeysEntering ==
    ASSUME TypeOK, OnlyLeader, AllOrderly, Entering, NEW p \in People, Keys(p)
    PROVE  Entering'
<1> SUFFICES ASSUME NEW q \in People \ {Leader}, q \notin astray', at'[q] = "waiting", toServer'[q] # <<>>,
                    Head(toServer'[q]).as \in Columns
             PROVE  roster'[q] = Itself(q, Head(toServer'[q]).as)
  BY DEF Entering
<1>1. astray' = astray /\ Orderly(q) /\ toServer[q] \in Seq(Requests)
  BY KeysUnmoved DEF AllOrderly, TypeOK
<1>2. CASE q # p
  <2>1. at'[q] = at[q] /\ toServer'[q] = toServer[q] /\ roster'[q] = roster[q]
    BY <1>2, KeysBystander, ColumnKept DEF Bystander
  <2> QED
    BY <1>1, <2>1 DEF Entering
<1>3. CASE q = p
  <2>1. at[q] \notin {"creating", "settings"}
    BY DEF OnlyLeader
  <2>2. PICK r : Sent(p, r)
    BY <1>3, KeysSend
  <2>3. r.type = "JOIN" /\ at[p] = "choosing" /\ (r.as \in Columns => roster'[p] = Itself(p, r.as))
        /\ r \in Requests /\ toServer'[p] = Append(toServer[p], r)
    BY <1>3, <2>1, <2>2 DEF Sent
  <2>4. toServer[p] = <<>>
    BY <1>1, <1>3, <2>3 DEF Orderly
  <2>5. Head(toServer'[p]) = r
    BY <2>3, <2>4
  <2> QED
    BY <1>3, <2>3, <2>5
<1> QED
  BY <1>2, <1>3

LEMMA ReadingEntering ==
    ASSUME TypeOK, OnlyLeader, AllOrderly, Entering, NEW p \in People, Reading(p)
    PROVE  Entering'
<1> SUFFICES ASSUME NEW q \in People \ {Leader}, q \notin astray', at'[q] = "waiting", toServer'[q] # <<>>,
                    Head(toServer'[q]).as \in Columns
             PROVE  roster'[q] = Itself(q, Head(toServer'[q]).as)
  BY DEF Entering
<1>1. toServer' = toServer
  BY ReadingUnmoved
<1>2. CASE q # p
  <2>1. at'[q] = at[q] /\ roster'[q] = roster[q] /\ q \notin astray
    BY <1>2, ReadingBystander, ColumnKept DEF Bystander
  <2> QED
    BY <1>1, <2>1 DEF Entering
<1>3. CASE q = p
  <2>1. PICK m : Consumed(p, m)
    BY ReadingConsumes
  <2>2. p \notin astray /\ at[p] = "waiting" /\ toClient[p] # <<>>
    <3>1. at[p] # "creating"
      BY <1>3 DEF OnlyLeader
    <3> QED
      BY <1>3, <2>1, <3>1 DEF Consumed
  <2>3. toServer[p] = <<>>
    BY <1>3, <2>2 DEF AllOrderly, Orderly
  <2> QED
    BY <1>1, <1>3, <2>3
<1> QED
  BY <1>2, <1>3

LEMMA ServeEntering ==
    ASSUME TypeOK, AllOrderly, Entering, NEW p \in People, Serve(p)
    PROVE  Entering'
<1> SUFFICES ASSUME NEW q \in People \ {Leader}, q \notin astray', at'[q] = "waiting", toServer'[q] # <<>>,
                    Head(toServer'[q]).as \in Columns
             PROVE  roster'[q] = Itself(q, Head(toServer'[q]).as)
  BY DEF Entering
<1>1. /\ at' = at /\ astray' = astray /\ roster' = roster
      /\ \A o \in People : toServer'[o] = IF o = p THEN Tail(toServer[o]) ELSE toServer[o]
  BY ServeKeeps, ColumnKept
<1>2. CASE q # p
  BY <1>1, <1>2 DEF Entering
<1>3. CASE q = p
  <2>1. Orderly(p)
    BY <1>1, <1>3 DEF AllOrderly
  <2>2. toServer[p] = <<>> \/ \E m \in Requests : toServer[p] = <<m>>
    BY <1>1, <1>3, <2>1 DEF Orderly
  <2>3. Tail(toServer[p]) = <<>>
    <3>1. toServer[p] # <<>>
      BY ServeKeeps
    <3>2. \A m : Tail(<<m>>) = <<>>
      OBVIOUS
    <3> QED
      BY <2>2, <3>1, <3>2
  <2> QED
    BY <1>1, <1>3, <2>3
<1> QED
  BY <1>2, <1>3

LEMMA LeaderScreens ==
    ASSUME TypeOK, Created, OnlyLeader, NEW p \in People
    PROVE  /\ Keys(p) => OnlyLeader'
           /\ Reading(p) => OnlyLeader'
           /\ Serve(p) => OnlyLeader'
<1>1. ASSUME Keys(p), NEW q \in People \ {Leader} PROVE at'[q] \notin {"creating", "settings"}
  <2>1. CASE q # p
    BY <1>1, <2>1, KeysBystander DEF Bystander, OnlyLeader
  <2>2. CASE q = p
    BY <1>1, <2>2, KeysSend DEF Sent
  <2> QED
    BY <2>1, <2>2
<1>2. ASSUME Reading(p), NEW q \in People \ {Leader} PROVE at'[q] \notin {"creating", "settings"}
  <2>1. CASE q # p
    BY <1>2, <2>1, ReadingBystander DEF Bystander, OnlyLeader
  <2>2. CASE q = p
    <3>1. PICK m : Consumed(p, m)
      BY <1>2, ReadingConsumes
    <3>2. at[p] # "creating"
      BY <2>2 DEF OnlyLeader
    <3> QED
      BY <2>2, <3>1, <3>2 DEF Consumed
  <2> QED
    BY <2>1, <2>2
<1>3. Serve(p) => at' = at
  BY ServeKeeps
<1> QED
  BY <1>1, <1>2, <1>3 DEF OnlyLeader

-----------------------------------------------------------------------------
(* The lists and what is under way to them.                                  *)

LEMMA ShownStep ==
    ASSUME NEW r \in Rosters, NEW m \in Answers
    PROVE  /\ Shown(r, m) \in Rosters
           /\ \A b : <<r, m, b>> \in Showing <=> b = Shown(r, m)
<1>1. Shown(r, m) \in Rosters
  BY AppliedType DEF Shown
<1>2. ASSUME NEW b PROVE <<r, m, b>> \in Showing <=> b = Shown(r, m)
  <2>1. PICK t : t = <<r, m, b>>
    OBVIOUS
  <2>2. t[1] = r /\ t[2] = m /\ t[3] = b /\ (t \in Rosters \X Answers \X Rosters <=> b \in Rosters)
    BY <2>1
  <2>3. t \in Showing <=> b \in Rosters /\ b = Shown(r, m)
    BY <2>2 DEF Showing
  <2> QED
    BY <1>1, <2>1, <2>3
<1> QED
  BY <1>1, <1>2

LEMMA BegunType ==
    ASSUME TypeOK, NEW p \in People
    PROVE  Begun(p) \in Rosters
BY ItselfType DEF TypeOK, Begun, Rosters, Columns

LEMMA MirroredNext ==
    ASSUME NEW q \in People, NEW r \in Rosters, Path(Showing, Begun(q)', toClient'[q], r), Fits(q, r)'
    PROVE  Mirrored(q)'
<1>1. PICK T, R : T = Showing /\ R = Rosters
  OBVIOUS
<1>2. Showing' = T /\ Rosters' = R
  BY <1>1 DEF Showing, Shown, Applied, Rosters, Answers
<1>3. PICK a : a = Begun(q)'
  OBVIOUS
<1>4. Path(Showing, Begun(q), toClient[q], r)' <=> Path(T, a, toClient'[q], r)
  BY <1>2, <1>3 DEF Path
<1>5. Path(Showing, Begun(q), toClient[q], r)' /\ r \in Rosters'
  BY <1>1, <1>2, <1>3, <1>4
<1> QED
  BY <1>5 DEF Mirrored

\* Nothing is told, or one thing after which the lists fit.
LEMMA MirrorStill ==
    ASSUME NEW q \in People, Mirrored(q), Begun(q)' = Begun(q), toClient'[q] = toClient[q],
           \A r \in Rosters : Fits(q, r) => Fits(q, r)'
    PROVE  Mirrored(q)'
<1>1. PICK r \in Rosters : Path(Showing, Begun(q), toClient[q], r) /\ Fits(q, r)
  BY DEF Mirrored
<1> QED
  BY <1>1, MirroredNext

LEMMA MirrorTold ==
    ASSUME TypeOK, NEW q \in People, Mirrored(q), Begun(q)' = Begun(q),
           NEW m \in Answers, toClient'[q] = Append(toClient[q], m),
           \A r \in Rosters : Fits(q, r) => Fits(q, Shown(r, m))'
    PROVE  Mirrored(q)'
<1>1. PICK r \in Rosters : Path(Showing, Begun(q), toClient[q], r) /\ Fits(q, r)
  BY DEF Mirrored
<1>2. Shown(r, m) \in Rosters /\ <<r, m, Shown(r, m)>> \in Showing
  BY ShownStep
<1>3. toClient[q] \in Seq(Answers)
  BY DEF TypeOK
<1>4. Path(Showing, Begun(q), toClient'[q], Shown(r, m))
  BY <1>1, <1>2, <1>3, PathAppend
<1>5. Fits(q, Shown(r, m))'
  BY <1>1
<1>6. PICK s \in Rosters : s = Shown(r, m)
  BY <1>2
<1>7. Shown(r, m)' = s
  BY <1>6 DEF Shown, Applied
<1> QED
  BY <1>4, <1>5, <1>6, <1>7, MirroredNext

-----------------------------------------------------------------------------
(* Rows and the room.                                                        *)

Here(q, c) == q \in room.members /\ ColumnOf(q) = c

LEMMA FitsRow ==
    ASSUME NEW p \in People, NEW r
    PROVE  Fits(p, r) <=>
             \A q \in People \ misled, c \in Columns :
                 /\ r[c][q] <= IF Here(q, c) THEN 1 ELSE 0
                 /\ q \in newer[p] \cup {p} /\ Here(q, c) => r[c][q] = 1
BY DEF Fits, Here

\* The room after the step.
There(q, c) == q \in room'.members /\ (IF room'.gamers[q] > 0 THEN "gamer" ELSE "spectator") = c

LEMMA FitsNext ==
    ASSUME NEW p \in People, NEW r,
           \A q \in People \ misled', c \in Columns :
              /\ r[c][q] <= IF There(q, c) THEN 1 ELSE 0
              /\ q \in newer'[p] \cup {p} /\ There(q, c) => r[c][q] = 1
    PROVE  Fits(p, r)'
BY DEF Fits, ColumnOf, There

\* A row of one message.
LEMMA ShownAdded ==
    ASSUME NEW r \in Rosters, NEW m, m.type = "player", m.added
    PROVE  \A q \in People, c \in Columns :
             Shown(r, m)[c][q] = IF <<q, c>> \in m.rows THEN r[c][q] + 1 ELSE r[c][q]
BY DEF Shown, Applied

LEMMA ShownRemoved ==
    ASSUME NEW r \in Rosters, NEW m, m.type = "player", ~m.added
    PROVE  \A q \in People, c \in Columns :
             Shown(r, m)[c][q] = IF <<q, c>> \in m.rows /\ r[c][q] > 0 THEN r[c][q] - 1 ELSE r[c][q]
BY DEF Shown, Applied

\* The room is as it was.
LEMMA FitsStable ==
    ASSUME TypeOK, NEW q \in People, NEW r \in Rosters, Fits(q, r),
           room'.members = room.members, room'.gamers = room.gamers, newer' = newer, misled \subseteq misled'
    PROVE  Fits(q, r)'
BY DEF Fits, ColumnOf

\* q hears that p entered.
LEMMA FitsEnters ==
    ASSUME TypeOK, GamersIn, NEW p \in People, NEW as \in Columns, Enlisted(p, as),
           p \notin room.members \ misled, misled' = misled,
           NEW q \in room.members, q # p, q \in People, NEW r \in Rosters, Fits(q, r)
    PROVE  Fits(q, Shown(r, PlayerRows({<<p, as>>}, TRUE)))'
<1>1. PICK s \in Rosters : s = Shown(r, PlayerRows({<<p, as>>}, TRUE))
  BY RowMade, AnswersMade, ShownStep
<1>2. Shown(r, PlayerRows({<<p, as>>}, TRUE))' = s
  BY <1>1 DEF Shown, Applied, PlayerRows
<1>3. q # p /\ newer'[q] = newer[q] \cup {p}
  BY DEF Enlisted
<1>4. \A o \in People, c \in Columns : s[c][o] = IF o = p /\ c = as THEN r[c][o] + 1 ELSE r[c][o]
  <2> TAKE o \in People, c \in Columns
  <2>1. PICK rows \in SUBSET (People \X Columns) : rows = {<<p, as>>}
    BY RowMade
  <2>2. PICK m : m = PlayerRows(rows, TRUE)
    OBVIOUS
  <2>5. m.type = "player" /\ m.added /\ m.rows = rows /\ s = Shown(r, m)
    BY <1>1, <2>1, <2>2 DEF PlayerRows
  <2>3. <<o, c>> \in rows <=> o = p /\ c = as
    BY <2>1
  <2>4. s[c][o] = IF <<o, c>> \in rows THEN r[c][o] + 1 ELSE r[c][o]
    BY <2>5, ShownAdded
  <2> QED
    BY <2>3, <2>4
<1>5. \A o \in People \ misled, c \in Columns :
        IF o = p THEN There(o, c) <=> c = as ELSE There(o, c) <=> Here(o, c)
  <2> TAKE o \in People \ misled, c \in Columns
  <2>1. CASE o = p
    <3>1. o \in room'.members /\ (room'.gamers[o] > 0 <=> as = "gamer")
      <4>1. room.gamers \in [People -> Nat] /\ room.gamers[o] \in Nat /\ room.gamers[o] <= 0
        BY <2>1 DEF GamersIn, TypeOK
      <4>2. room'.gamers[o] = IF as = "gamer" THEN room.gamers[o] + 1 ELSE room.gamers[o]
        <5>1. Seated(room.gamers, p, as)[o] = IF as = "gamer" /\ o = p THEN room.gamers[o] + 1 ELSE room.gamers[o]
          BY <4>1 DEF Seated
        <5> QED
          BY <2>1, <5>1 DEF Enlisted
      <4>3. room.gamers[o] = 0 /\ o \in room'.members
        BY <2>1, <4>1 DEF Enlisted
      <4>4. CASE as = "gamer"
        <5>1. room'.gamers[o] = 1
          BY <4>2, <4>3, <4>4
        <5> QED
          BY <4>3, <4>4, <5>1
      <4>5. CASE as # "gamer"
        <5>1. PICK n \in Nat : n = room'.gamers[o] /\ n = 0
          BY <4>2, <4>3, <4>5
        <5>2. ~(n > 0)
          BY <5>1
        <5>3. ~(room'.gamers[o] > 0)
          BY <5>1, <5>2
        <5> QED
          BY <4>3, <4>5, <5>3
      <4> QED
        BY <4>4, <4>5
    <3>2. as \in {"gamer", "spectator"} /\ c \in {"gamer", "spectator"}
      BY DEF Columns
    <3> QED
      BY <2>1, <3>1, <3>2 DEF Here, There, ColumnOf
  <2>2. CASE o # p
    <3>1. (o \in room'.members <=> o \in room.members) /\ room'.gamers[o] = room.gamers[o]
      <4>1. room.gamers \in [People -> Nat]
        BY DEF TypeOK
      <4>2. Seated(room.gamers, p, as)[o] = room.gamers[o]
        BY <2>2, <4>1 DEF Seated
      <4> QED
        BY <2>2, <4>2 DEF Enlisted
    <3> QED
      BY <2>2, <3>1 DEF Here, There, ColumnOf
  <2> QED
    BY <2>1, <2>2
<1>6. ASSUME NEW o \in People \ misled, NEW c \in Columns
      PROVE  /\ s[c][o] <= IF There(o, c) THEN 1 ELSE 0
             /\ o \in newer'[q] \cup {q} /\ There(o, c) => s[c][o] = 1
  <2>1. /\ r[c][o] \in Nat /\ r[c][o] <= IF Here(o, c) THEN 1 ELSE 0
        /\ o \in newer[q] \cup {q} /\ Here(o, c) => r[c][o] = 1
    BY FitsRow DEF Rosters
  <2>2. CASE o = p
    <3>1. ~Here(o, c)
      BY <2>2 DEF Here
    <3>2. r[c][o] = 0
      BY <2>1, <3>1
    <3>3. CASE c = as
      <4>1. s[c][o] = r[c][o] + 1
        BY <1>4, <2>2, <3>3
      <4>2. s[c][o] = 1
        BY <3>2, <4>1
      <4>3. There(o, c)
        BY <1>5, <2>2, <3>3
      <4> QED
        BY <4>2, <4>3
    <3>4. CASE c # as
      <4>1. s[c][o] = 0 /\ ~There(o, c)
        BY <1>4, <1>5, <2>2, <3>2, <3>4
      <4> QED
        BY <4>1
    <3> QED
      BY <3>3, <3>4
  <2>3. CASE o # p
    BY <1>3, <1>4, <1>5, <2>1, <2>3
  <2> QED
    BY <2>2, <2>3
<1>7. Fits(q, s)'
  BY <1>6, FitsNext
<1> QED
  BY <1>2, <1>7

\* q hears that p left.
LEMMA FitsLeaves ==
    ASSUME TypeOK, NEW p \in People, NEW q \in room.members, q # p, q \in People, newer' = newer, misled' = misled,
           room'.members = room.members \ {p}, room'.gamers = Unseated(room.gamers, {p}),
           NEW k \in Columns, k = ColumnOf(p), NEW r \in Rosters, Fits(q, r)
    PROVE  Fits(q, Shown(r, PlayerRows({<<p, k>>}, FALSE)))'
<1>1. PICK s \in Rosters : s = Shown(r, PlayerRows({<<p, k>>}, FALSE))
  BY RowMade, AnswersMade, ShownStep
<1>2. Shown(r, PlayerRows({<<p, k>>}, FALSE))' = s
  BY <1>1 DEF Shown, Applied, PlayerRows
<1>4. \A o \in People, c \in Columns :
        s[c][o] = IF o = p /\ c = k /\ r[c][o] > 0 THEN r[c][o] - 1 ELSE r[c][o]
  <2> TAKE o \in People, c \in Columns
  <2>1. PICK rows \in SUBSET (People \X Columns) : rows = {<<p, k>>}
    BY RowMade
  <2>2. PICK m : m = PlayerRows(rows, FALSE)
    OBVIOUS
  <2>5. m.type = "player" /\ ~m.added /\ m.rows = rows /\ s = Shown(r, m)
    BY <1>1, <2>1, <2>2 DEF PlayerRows
  <2>3. <<o, c>> \in rows <=> o = p /\ c = k
    BY <2>1
  <2>4. s[c][o] = IF <<o, c>> \in rows /\ r[c][o] > 0 THEN r[c][o] - 1 ELSE r[c][o]
    BY <2>5, ShownRemoved
  <2> QED
    BY <2>3, <2>4
<1>5. \A o \in People, c \in Columns : There(o, c) <=> o # p /\ Here(o, c)
  <2> TAKE o \in People, c \in Columns
  <2>1. CASE o = p
    <3>1. o \notin room'.members
      BY <2>1
    <3> QED
      BY <2>1, <3>1 DEF There
  <2>2. CASE o # p
    <3>1. (o \in room'.members <=> o \in room.members) /\ room'.gamers[o] = room.gamers[o]
      <4>1. room.gamers \in [People -> Nat]
        BY DEF TypeOK
      <4>2. Unseated(room.gamers, {p})[o] = room.gamers[o]
        BY <2>2, <4>1, UnseatedAt
      <4> QED
        BY <2>2, <4>2
    <3> QED
      BY <2>2, <3>1 DEF Here, There, ColumnOf
  <2> QED
    BY <2>1, <2>2
<1>6. ASSUME NEW o \in People \ misled, NEW c \in Columns
      PROVE  /\ s[c][o] <= IF There(o, c) THEN 1 ELSE 0
             /\ o \in newer'[q] \cup {q} /\ There(o, c) => s[c][o] = 1
  <2>1. /\ r[c][o] \in Nat /\ r[c][o] <= IF Here(o, c) THEN 1 ELSE 0
        /\ o \in newer[q] \cup {q} /\ Here(o, c) => r[c][o] = 1
    BY FitsRow DEF Rosters
  <2>2. CASE o = p
    <3>1. c # k => ~Here(o, c)
      BY <2>2 DEF Here
    <3>2. s[c][o] = 0
      BY <1>4, <2>1, <2>2, <3>1
    <3>3. ~There(o, c)
      BY <2>2 DEF There
    <3> QED
      BY <3>2, <3>3
  <2>3. CASE o # p
    BY <1>4, <1>5, <2>1, <2>3
  <2> QED
    BY <2>2, <2>3
<1>7. Fits(q, s)'
  BY <1>6, FitsNext
<1> QED
  BY <1>2, <1>7

\* Who is let in is sent some of the others, and has itself in its list.
LEMMA FitsEntered ==
    ASSUME TypeOK, GamersIn, NEW p \in People, NEW as \in Columns, Enlisted(p, as),
           p \notin room.members, p \notin misled, misled' = misled, NEW list \in Lists(p)
    PROVE  Fits(p, Shown(Itself(p, as), list))'
<1> DEFINE r == Itself(p, as)
<1>1. r \in Rosters /\ list \in Answers
  BY ItselfType, ListsType
<1>2. PICK s \in Rosters : s = Shown(r, list)
  BY <1>1, ShownStep
<1>3. PICK l : l = list /\ l \in Answers
  BY <1>1
<1>4. \A o \in People, c \in Columns : r[c][o] = IF o = p /\ c = as THEN 1 ELSE 0
  BY DEF Itself, Empty
<1> HIDE DEF r
<1>5. \A o \in People, c \in Columns :
        IF o = p THEN There(o, c) <=> c = as ELSE There(o, c) <=> Here(o, c)
  <2> TAKE o \in People, c \in Columns
  <2>1. CASE o = p
    <3>1. o \in room'.members /\ (room'.gamers[o] > 0 <=> as = "gamer")
      <4>1. room.gamers \in [People -> Nat] /\ room.gamers[o] \in Nat /\ room.gamers[o] <= 0
        BY <2>1 DEF GamersIn, TypeOK
      <4>2. room'.gamers[o] = IF as = "gamer" THEN room.gamers[o] + 1 ELSE room.gamers[o]
        <5>1. Seated(room.gamers, p, as)[o] = IF as = "gamer" /\ o = p THEN room.gamers[o] + 1 ELSE room.gamers[o]
          BY <4>1 DEF Seated
        <5> QED
          BY <2>1, <5>1 DEF Enlisted
      <4>3. room.gamers[o] = 0 /\ o \in room'.members
        BY <2>1, <4>1 DEF Enlisted
      <4>4. CASE as = "gamer"
        <5>1. room'.gamers[o] = 1
          BY <4>2, <4>3, <4>4
        <5> QED
          BY <4>3, <4>4, <5>1
      <4>5. CASE as # "gamer"
        <5>1. PICK n \in Nat : n = room'.gamers[o] /\ n = 0
          BY <4>2, <4>3, <4>5
        <5>2. ~(n > 0)
          BY <5>1
        <5>3. ~(room'.gamers[o] > 0)
          BY <5>1, <5>2
        <5> QED
          BY <4>3, <4>5, <5>3
      <4> QED
        BY <4>4, <4>5
    <3>2. as \in {"gamer", "spectator"} /\ c \in {"gamer", "spectator"}
      BY DEF Columns
    <3> QED
      BY <2>1, <3>1, <3>2 DEF Here, There, ColumnOf
  <2>2. CASE o # p
    <3>1. (o \in room'.members <=> o \in room.members) /\ room'.gamers[o] = room.gamers[o]
      <4>1. room.gamers \in [People -> Nat]
        BY DEF TypeOK
      <4>2. Seated(room.gamers, p, as)[o] = room.gamers[o]
        BY <2>2, <4>1 DEF Seated
      <4> QED
        BY <2>2, <4>2 DEF Enlisted
    <3> QED
      BY <2>2, <3>1 DEF Here, There, ColumnOf
  <2> QED
    BY <2>1, <2>2
<1>6. newer'[p] = {}
  BY DEF Enlisted
<1>7. ASSUME NEW o \in People, NEW c \in Columns
      PROVE  s[c][o] = r[c][o] \/ (o # p /\ Here(o, c) /\ s[c][o] = r[c][o] + 1)
  <2>1. CASE list = Says("overrun")
    BY <1>2, <2>1 DEF Shown, Says
  <2>2. ASSUME NEW rows \in SUBSET {<<x, ColumnOf(x)>> : x \in room.members \ {p}}, list = PlayerRows(rows, TRUE)
        PROVE  s[c][o] = r[c][o] \/ (o # p /\ Here(o, c) /\ s[c][o] = r[c][o] + 1)
    <3>1. rows \in SUBSET (People \X Columns) 
      BY DEF TypeOK, ColumnOf, Columns
    <3>2. s[c][o] = IF <<o, c>> \in rows THEN r[c][o] + 1 ELSE r[c][o]
      <4>1. list.type = "player" /\ list.added /\ list.rows = rows /\ s = Shown(r, list)
        BY <1>2, <2>2 DEF PlayerRows
      <4> QED
        BY <1>1, <4>1, ShownAdded
    <3>3. <<o, c>> \in rows => o # p /\ Here(o, c)
      BY DEF Here
    <3> QED
      BY <3>2, <3>3
  <2> QED
    BY <2>1, <2>2 DEF Lists
<1>8. ASSUME NEW o \in People, NEW c \in Columns
      PROVE  /\ s[c][o] <= IF There(o, c) THEN 1 ELSE 0
             /\ o \in newer'[p] \cup {p} /\ There(o, c) => s[c][o] = 1
  <2>1. s[c][o] = r[c][o] \/ (o # p /\ Here(o, c) /\ s[c][o] = r[c][o] + 1)
    BY <1>7
  <2>2. CASE o = p /\ c = as
    <3>1. s[c][o] = 1 /\ There(o, c)
      BY <1>4, <1>5, <2>1, <2>2
    <3> QED
      BY <3>1
  <2>3. CASE o = p /\ c # as
    <3>1. s[c][o] = 0 /\ ~There(o, c)
      BY <1>4, <1>5, <2>1, <2>3
    <3> QED
      BY <3>1
  <2>4. CASE o # p
    <3>1. r[c][o] = 0 /\ (There(o, c) <=> Here(o, c)) /\ o \notin newer'[p] \cup {p}
      BY <1>4, <1>5, <1>6, <2>4
    <3>2. s[c][o] = 0 \/ (Here(o, c) /\ s[c][o] = 1)
      BY <2>1, <3>1
    <3> QED
      BY <3>1, <3>2
  <2> QED
    BY <2>2, <2>3, <2>4
<1>9. Fits(p, s)'
  BY <1>8, FitsNext
<1>10. Shown(Itself(p, as), list)' = s
  BY <1>2 DEF r, Shown, Applied, Itself, Empty
<1> QED
  BY <1>9, <1>10

-----------------------------------------------------------------------------
(* The steps and the lists.                                                  *)

Attending(p) == at[p] \in {"creating", "waiting", "settings"}

LEMMA BegunKept ==
    ASSUME NEW q \in People, at'[q] = at[q], roster'[q] = roster[q]
    PROVE  Begun(q)' = Begun(q)
BY DEF Begun, Itself, Empty

LEMMA KeysMirrors ==
    ASSUME TypeOK, Unopened, AllOrderly, Mirrors, NEW p \in People, Keys(p)
    PROVE  Mirrors'
<1> SUFFICES ASSUME NEW q \in People, q \in room'.members, q \notin astray', Attending(q)' PROVE Mirrored(q)'
  <2>1. room'.members \subseteq People
    BY KeysUnmoved DEF TypeOK
  <2> QED
    BY <2>1 DEF Mirrors, Attending
<1>1. room' = room /\ toClient' = toClient /\ astray' = astray /\ newer' = newer
  BY KeysUnmoved, ColumnKept
<1>2. \A r \in Rosters : Fits(q, r) => Fits(q, r)'
  BY <1>1, MisledKept, FitsStable
<1>3. q \in room.members /\ q \notin astray
  BY <1>1
<1>4. CASE q # p
  <2>1. at'[q] = at[q] /\ roster'[q] = roster[q]
    BY <1>4, KeysBystander, ColumnKept DEF Bystander
  <2>2. Mirrored(q)
    BY <1>3, <2>1 DEF Mirrors, Attending
  <2> QED
    BY <1>1, <1>2, <2>1, <2>2, BegunKept, MirrorStill
<1>5. CASE q = p
  <2>1. at[p] # "choosing"
    BY <1>3, <1>5 DEF AllOrderly, Orderly
  <2>2. room.phase # "none"
    BY <1>3 DEF Unopened
  <2>3. /\ at[p] \in {"waiting", "settings"} /\ at'[p] \in {"waiting", "settings"}
        /\ roster'[p] = roster[p]
    BY <1>5, <2>1, <2>2, KeysSend DEF Sent, Attending
  <2>4. Begun(p)' = Begun(p) /\ Mirrored(p)
    BY <1>3, <1>5, <2>3 DEF Begun, Mirrors
  <2> QED
    BY <1>1, <1>2, <1>5, <2>4, MirrorStill
<1> QED
  BY <1>4, <1>5

LEMMA ReadingMirrors ==
    ASSUME TypeOK, Unopened, Created, Mirrors, NEW p \in People, Reading(p)
    PROVE  Mirrors'
<1> SUFFICES ASSUME NEW q \in People, q \in room'.members, q \notin astray', Attending(q)' PROVE Mirrored(q)'
  <2>1. room'.members \subseteq People
    BY ReadingUnmoved DEF TypeOK
  <2> QED
    BY <2>1 DEF Mirrors, Attending
<1>1. room' = room /\ newer' = newer
  BY ReadingUnmoved, ColumnKept
<1>2. \A r \in Rosters : Fits(q, r) => Fits(q, r)'
  BY <1>1, MisledKept, FitsStable
<1>3. CASE q # p
  <2>1. at'[q] = at[q] /\ roster'[q] = roster[q] /\ toClient'[q] = toClient[q] /\ q \notin astray
    BY <1>3, ReadingBystander, ColumnKept DEF Bystander
  <2>2. Mirrored(q)
    BY <1>1, <2>1 DEF Mirrors, Attending
  <2> QED
    BY <1>2, <2>1, <2>2, BegunKept, MirrorStill
<1>4. CASE q = p
  <2>1. PICK m : Consumed(p, m)
    BY ReadingConsumes
  <2>2. /\ toClient[p] # <<>> /\ m = Head(toClient[p]) /\ m \in Answers /\ toClient'[p] = Tail(toClient[p])
        /\ toClient[p] \in Seq(Answers)
    BY <2>1 DEF Consumed, TypeOK
  <2>3. p \notin astray /\ Attending(p) /\ at[p] # "settings" /\ at[p] # "fetching"
    BY <1>4, <2>1 DEF Consumed, Attending
  <2>4. PICK r \in Rosters : Path(Showing, Begun(p), toClient[p], r) /\ Fits(p, r)
    BY <1>1, <1>4, <2>3 DEF Mirrors, Attending, Mirrored
  <2>5. PICK b : <<Begun(p), m, b>> \in Showing /\ Path(Showing, b, Tail(toClient[p]), r)
    BY <2>2, <2>4, PathTail
  <2>6. b = Shown(Begun(p), m)
    BY <2>2, <2>5, BegunType, ShownStep
  <2>7. CASE at[p] = "creating"
    <3>1. room.phase # "none"
      BY <1>1, <1>4 DEF Unopened
    <3>2. m.type = "created"
      BY <2>2, <2>7, <3>1 DEF Created
    <3>3. ReadCreated(p)
      BY <2>7 DEF Reading, ReadCreatedAgain, ReadInvitations, ReadWaiting
    <3>4. at'[p] = "waiting" /\ roster'[p] = Itself(p, "gamer")
      BY <2>2, <3>2, <3>3 DEF ReadCreated, Goes, TypeOK
    <3>5. b = Begun(p) /\ Begun(p)' = Begun(p)
      BY <2>6, <2>7, <3>2, <3>4 DEF Shown, Begun
    <3>6. Path(Showing, Begun(p)', toClient'[p], r)
      BY <2>2, <2>5, <3>5
    <3> QED
      BY <1>2, <1>4, <2>4, <3>6, MirroredNext
  <2>8. CASE at[p] = "waiting"
    <3>1. ReadWaiting(p)
      BY <2>8 DEF Reading, ReadCreated, ReadCreatedAgain, ReadInvitations
    <3>2. m.type # "invitations" /\ Meaning(m) = m.type /\ at'[p] = "waiting"
      <4>1. m.type # "invitations"
        BY <1>4, <2>2, <3>1 DEF ReadWaiting
      <4>2. at'[p] = "waiting"
        BY <1>4, <2>1, <2>8 DEF Consumed, Attending
      <4> QED
        BY <4>1, <4>2 DEF Meaning
    <3>3. Meaning(m) \notin {"end", "started"}
      BY <2>2, <2>8, <3>1, <3>2 DEF ReadWaiting, TypeOK
    <3>4. roster'[p] = Shown(roster[p], m)
      <4>1. CASE m.type = "player"
        BY <2>2, <3>1, <3>2, <3>3, <4>1 DEF ReadWaiting, TypeOK, Shown
      <4>2. CASE m.type # "player"
        BY <2>2, <3>1, <3>2, <3>3, <4>2 DEF ReadWaiting, TypeOK, Shown
      <4> QED
        BY <4>1, <4>2
    <3>5. Begun(p) = roster[p] /\ Begun(p)' = roster'[p]
      BY <2>8, <3>2 DEF Begun
    <3>6. Path(Showing, Begun(p)', toClient'[p], r)
      BY <2>2, <2>5, <2>6, <3>4, <3>5
    <3> QED
      BY <1>2, <1>4, <2>4, <3>6, MirroredNext
  <2> QED
    BY <2>3, <2>7, <2>8 DEF Attending
<1> QED
  BY <1>3, <1>4

\* The room's people ask to enter only when they are out.
LEMMA JoinsFromOutside ==
    ASSUME TypeOK, OnlyLeader, AllOrderly, NEW p \in People, p \notin astray, Attending(p), Serve(p),
           Head(toServer[p]).type = "JOIN"
    PROVE  p # Leader /\ p \notin room.members /\ at[p] = "waiting" /\ toClient[p] = <<>>
<1>1. Orderly(p) /\ toServer[p] # <<>> /\ toServer[p] \in Seq(Requests)
  BY ServeKeeps DEF AllOrderly, TypeOK
<1>2. p # Leader
  <2>1. Head(toServer[p]) \notin But({"JOIN"})
    BY DEF But
  <2>2. toServer[p] \notin Seq(But({"JOIN"}))
    BY <1>1, <2>1, SeqHead
  <2> QED
    BY <1>1, <2>2 DEF Orderly
<1>3. at[p] = "waiting"
  BY <1>2 DEF OnlyLeader, Attending
<1> QED
  BY <1>1, <1>2, <1>3 DEF Orderly

LEMMA ServeMirrors ==
    ASSUME TypeOK, Unopened, Created, LeaderUninvited, AllOrderly, GamersIn, OnlyLeader, OneStays, Entering,
           Mirrors, NEW p \in People, Serve(p)
    PROVE  Mirrors'
<1>0. TypeOK'
  BY ServeType
<1> SUFFICES ASSUME NEW q \in People, q \in room'.members, q \notin astray', Attending(q)' PROVE Mirrored(q)'
  BY <1>0 DEF Mirrors, Attending, TypeOK
<1>1. at' = at /\ astray' = astray /\ roster' = roster /\ misled' = misled /\ misled \subseteq astray
  BY ServeKeeps, ColumnKept, MisledKept DEF TypeOK
<1>2. q \notin astray /\ Attending(q) /\ Begun(q)' = Begun(q)
  BY <1>1 DEF Attending, Begun, Itself, Empty
<1>3. q \in room.members => Mirrored(q)
  BY <1>2 DEF Mirrors, Attending
<1>4. CASE HandleCreate(p)
  <2>1. /\ p = Leader /\ at[p] = "creating" /\ toClient[p] = <<>> /\ room'.members = {p} /\ q = p
        /\ room'.gamers = Seated(Nobody, p, "gamer") /\ room.members = {} /\ LetIn(p)
    BY <1>4, ServeCreate DEF HandleCreate
  <2>2. newer'[p] = {}
    BY <2>1 DEF LetIn
  <2>3. PICK m \in Answers : m = Says("created") /\ m.type = "created"
    BY AnswersMade DEF Says
  <2>4. toClient'[p] = Append(toClient[p], m)
    <3>1. PICK u : Told(p, p, u)
      BY ServeTells
    <3>2. toClient'[p] = toClient[p] \o <<m>>
      BY <1>4, <2>3, <3>1 DEF Told
    <3> QED
      BY <2>1, <3>2
  <2>5. PICK r \in Rosters : r = Begun(p) /\ r = Itself(p, "gamer")
    BY <2>1, BegunType DEF Begun
  <2>6. Path(Showing, r, toClient[p], r)
    BY <2>1, PathNone
  <2>7. <<r, m, r>> \in Showing
    BY <2>3, <2>5, ShownStep DEF Shown
  <2>8. Path(Showing, Begun(p)', toClient'[p], r)
    <3>1. toClient[p] \in Seq(Answers)
      BY DEF TypeOK
    <3>2. Path(Showing, r, Append(toClient[p], m), r)
      BY <2>6, <2>7, <3>1, PathAppend
    <3>3. Begun(p)' = r
      BY <1>2, <2>1, <2>5
    <3> QED
      BY <2>4, <3>2, <3>3
  <2>9. Fits(p, r)'
    <3>1. ASSUME NEW o \in People, NEW c \in Columns
          PROVE  /\ r[c][o] <= IF There(o, c) THEN 1 ELSE 0
                 /\ o \in newer'[p] \cup {p} /\ There(o, c) => r[c][o] = 1
      <4>1. r[c][o] = IF o = p /\ c = "gamer" THEN 1 ELSE 0
        BY <2>5 DEF Itself, Empty
      <4>2. There(o, c) <=> o = p /\ c = "gamer"
        <5>1. room'.gamers[o] = IF o = p THEN 1 ELSE 0
          BY <2>1, NobodySits, SeatedAt
        <5> QED
          BY <2>1, <5>1 DEF There
      <4>3. CASE o = p /\ c = "gamer"
        <5>1. r[c][o] = 1 /\ There(o, c)
          BY <4>1, <4>2, <4>3
        <5> QED
          BY <5>1
      <4>4. CASE ~(o = p /\ c = "gamer")
        <5>1. r[c][o] = 0 /\ ~There(o, c)
          BY <4>1, <4>2, <4>4
        <5> QED
          BY <5>1
      <4> QED
        BY <4>3, <4>4
    <3> QED
      BY <3>1, FitsNext
  <2> QED
    BY <2>1, <2>5, <2>8, <2>9, MirroredNext
<1>5. CASE Stable(p)
  <2>1. q \in room.members /\ room'.members = room.members /\ room'.gamers = room.gamers /\ newer' = newer
    BY <1>5 DEF Stable
  <2>2. \A r \in Rosters : Fits(q, r) => Fits(q, r)'
    BY <1>1, <2>1, FitsStable
  <2>3. CASE toClient'[q] = toClient[q]
    BY <1>2, <1>3, <2>1, <2>2, <2>3, MirrorStill
  <2>4. ASSUME NEW m \in Untold({"player", "end"}), toClient'[q] = Append(toClient[q], m)
        PROVE  Mirrored(q)'
    <3>1. m \in Answers /\ m.type # "player"
      BY DEF Untold
    <3>2. ASSUME NEW r \in Rosters, Fits(q, r) PROVE Fits(q, Shown(r, m))'
      <4>1. Fits(q, r)'
        BY <2>2, <3>2
      <4>2. PICK s : s = Shown(r, m)
        OBVIOUS
      <4>3. s = r /\ Shown(r, m)' = s
        BY <3>1, <4>2 DEF Shown
      <4> QED
        BY <4>1, <4>3
    <3> QED
      BY <1>2, <1>3, <2>1, <2>4, <3>1, <3>2, MirrorTold
  <2> QED
    BY <1>5, <2>3, <2>4 DEF Stable, Hears
<1>6. ASSUME NEW list \in Lists(p), Head(toServer[p]).type = "JOIN", room' = room, newer' = newer,
             \A o \in People : toClient'[o] = IF o = p THEN Append(toClient[o], list) ELSE toClient[o]
      PROVE  Mirrored(q)'
  <2>1. q # p
    BY <1>2, <1>6, JoinsFromOutside
  <2>2. \A r \in Rosters : Fits(q, r) => Fits(q, r)'
    BY <1>1, <1>6, FitsStable
  <2> QED
    BY <1>2, <1>3, <1>6, <2>1, <2>2, MirrorStill
<1>7. ASSUME NEW as \in Columns, Head(toServer[p]).type = "JOIN", Head(toServer[p]).as = as, Enlisted(p, as)
      PROVE  Mirrored(q)'
  <2>1. p \notin room.members \ misled /\ p # Leader
    BY <1>7, EntersFromOutside
  <2>2. CASE q # p
    <3>1. q \in room.members
      BY <1>7, <2>2 DEF Enlisted
    <3>2. PICK m \in Answers : m = PlayerRows({<<p, as>>}, TRUE)
      BY RowMade, AnswersMade
    <3>3. toClient'[q] = Append(toClient[q], m)
      BY <1>7, <2>2, <3>1, <3>2 DEF Enlisted
    <3>4. ASSUME NEW r \in Rosters, Fits(q, r) PROVE Fits(q, Shown(r, m))'
      <4>1. Fits(q, Shown(r, PlayerRows({<<p, as>>}, TRUE)))'
        BY <1>1, <1>7, <2>1, <2>2, <3>1, <3>4, FitsEnters
      <4> QED
        BY <3>2, <4>1
    <3> QED
      BY <1>2, <1>3, <3>1, <3>3, <3>4, MirrorTold
  <2>3. CASE q = p
    <3>1. at[p] = "waiting" /\ toClient[p] = <<>> /\ toServer[p] # <<>>
      BY <1>2, <1>7, <2>3, JoinsFromOutside, ServeKeeps
    <3>2. roster[p] = Itself(p, as)
      BY <1>2, <1>7, <2>1, <2>3, <3>1 DEF Entering
    <3>3. PICK list \in Lists(p) : toClient'[p] = Append(toClient[p], list)
      BY <1>7 DEF Enlisted
    <3>4. list \in Answers /\ Itself(p, as) \in Rosters /\ Begun(p) = Itself(p, as)
      BY <3>1, <3>2, ListsType, ItselfType DEF Begun
    <3>5. PICK s \in Rosters : s = Shown(Itself(p, as), list) /\ <<Itself(p, as), list, s>> \in Showing
      BY <3>4, ShownStep
    <3>6. Path(Showing, Begun(p), toClient'[p], s)
      <4>1. Path(Showing, Begun(p), toClient[p], Begun(p)) /\ toClient[p] \in Seq(Answers)
        BY <3>1, PathNone
      <4> QED
        BY <3>3, <3>4, <3>5, <4>1, PathAppend
    <3>7. Fits(p, Shown(Itself(p, as), list))'
      BY <1>1, <1>2, <1>7, <2>1, <2>3, FitsEntered
    <3>8. Shown(Itself(p, as), list)' = s
      BY <3>5 DEF Shown, Applied, Itself, Empty
    <3> QED
      BY <1>2, <2>3, <3>6, <3>7, <3>8, MirroredNext
  <2> QED
    BY <2>2, <2>3
<1>8. CASE Departs(p)
  <2>1. /\ room'.members = room.members \ {p} /\ room'.gamers = Unseated(room.gamers, {p}) /\ newer' = newer
        /\ toClient'[q] = IF q \in room.members \ {p} THEN Append(toClient[q], PlayerRows({<<p, ColumnOf(p)>>}, FALSE))
                          ELSE toClient[q]
    BY <1>8 DEF Departs
  <2>2. q \in room.members /\ q # p
    BY <2>1
  <2>3. PICK k \in Columns : k = ColumnOf(p)
    BY DEF ColumnOf, Columns
  <2>4. PICK m \in Answers : m = PlayerRows({<<p, k>>}, FALSE)
    BY RowMade, AnswersMade
  <2>5. ASSUME NEW r \in Rosters, Fits(q, r) PROVE Fits(q, Shown(r, m))'
    <3>1. Fits(q, Shown(r, PlayerRows({<<p, k>>}, FALSE)))'
      BY <1>1, <2>1, <2>2, <2>3, <2>5, FitsLeaves
    <3> QED
      BY <2>4, <3>1
  <2>6. toClient'[q] = Append(toClient[q], m)
    BY <2>1, <2>2, <2>3, <2>4
  <2> QED
    BY <1>2, <1>3, <2>2, <2>5, <2>6, MirrorTold
<1> QED
  BY <1>4, <1>5, <1>6, <1>7, <1>8, ServeKinds

-----------------------------------------------------------------------------
(* The invariant of the lists.                                               *)

Listed ==
    /\ Inductive /\ EndLate /\ GamersIn /\ OnlyLeader
    /\ OneStays /\ Entering /\ Mirrors

LEMMA KeysListed ==
    ASSUME Listed, NEW p \in People, Keys(p)
    PROVE  Listed'
<1> USE DEF Listed
<1>1. Inductive' /\ OnlyLeader' /\ OneStays' /\ Entering' /\ Mirrors'
  BY InductiveNext, LeaderScreens, KeysOneStays, KeysEntering, KeysMirrors DEF Inductive, Next
<1>2. EndLate' /\ GamersIn'
  BY KeysUnmoved, MisledKept DEF EndLate, GamersIn, Untold, Answers
<1> QED
  BY <1>1, <1>2

LEMMA ReadingListed ==
    ASSUME Listed, NEW p \in People, Reading(p)
    PROVE  Listed'
<1> USE DEF Listed
<1>1. Inductive' /\ OnlyLeader' /\ OneStays' /\ Entering' /\ Mirrors'
  BY InductiveNext, LeaderScreens, ReadingOneStays, ReadingEntering, ReadingMirrors
     DEF Inductive, Next
<1>2. GamersIn'
  BY ReadingUnmoved, MisledKept DEF GamersIn
<1>3. EndLate'
  <2> SUFFICES ASSUME room'.phase \in {"none", "open"}, NEW q \in People PROVE toClient'[q] \in Seq(Untold({"end"}))
    BY DEF EndLate, Untold, Answers
  <2>1. toClient[q] \in Seq(Untold({"end"}))
    BY ReadingUnmoved DEF EndLate
  <2>2. CASE q = p
    <3>1. PICK m : Consumed(p, m)
      BY ReadingConsumes DEF Inductive
    <3> QED
      BY <2>1, <2>2, <3>1, ConsumedFirst DEF Inductive
  <2>3. CASE q # p
    BY <2>1, <2>3, ReadingBystander DEF Inductive
  <2> QED
    BY <2>2, <2>3
<1> QED
  BY <1>1, <1>2, <1>3

LEMMA ServeListed ==
    ASSUME Listed, NEW p \in People, Serve(p)
    PROVE  Listed'
<1> USE DEF Listed
<1>1. Inductive' /\ EndLate' /\ GamersIn'
  BY InductiveNext, ServeEndLate, ServeGamersIn DEF Inductive, Next
<1>2. OnlyLeader' /\ OneStays' /\ Entering'
  BY LeaderScreens, ServeOneStays, ServeEntering DEF Inductive
<1>3. Mirrors'
  BY ServeMirrors DEF Inductive
<1> QED
  BY <1>1, <1>2, <1>3

LEMMA CloseListed ==
    ASSUME Listed, Close
    PROVE  Listed'
<1> USE DEF Listed, streams, clientVars, history
<1>1. /\ room'.phase = "gone" /\ room'.members = {} /\ \A q \in People : room'.gamers[q] = 0
      /\ \A p \in People, c \in Columns : invitations'[p][c] = 0
      /\ UNCHANGED <<toServer, toClient, at, roster, astray, misled>>
  BY NobodySits, WaitingAssumption DEF Close, Inductive, TypeOK, Nobody
<1>2. Inductive'
  BY InductiveNext DEF Next
<1>4. EndLate' /\ GamersIn' /\ OnlyLeader' /\ OneStays' /\ Entering' /\ Mirrors'
  BY <1>1 DEF EndLate, GamersIn, OnlyLeader, OneStays, Entering, Mirrors, Itself, Empty
<1> QED
  BY <1>2, <1>4

LEMMA InitListed == Init => Listed
<1> SUFFICES ASSUME Init PROVE Listed
  OBVIOUS
<1>1. /\ \A p \in People : toServer[p] = <<>> /\ toClient[p] = <<>> /\ at[p] = "menu"
      /\ \A p \in People, c \in Columns : invitations[p][c] = 0
      /\ room.phase = "none" /\ room.members = {} /\ (\A q \in People : room.gamers[q] = 0) /\ Leader \in People
  BY WaitingAssumption DEF Init, NoRoom, Nobody
<1>2. \A S : <<>> \in Seq(S)
  OBVIOUS
<1>3. Len(<<>>) = 0 /\ 1..0 = {}
  OBVIOUS
<1>5. EndLate /\ OnlyLeader /\ OneStays /\ Entering /\ Mirrors
  BY <1>1, <1>2 DEF EndLate, OnlyLeader, OneStays, Entering, Mirrors
<1>6. GamersIn
  BY <1>1 DEF GamersIn
<1> QED
  BY <1>5, <1>6, InitInductive DEF Listed

LEMMA ListedNext == Listed /\ [Next]_vars => Listed'
<1> SUFFICES ASSUME Listed, [Next]_vars PROVE Listed'
  OBVIOUS
<1>1. CASE UNCHANGED vars
  <2>1. UNCHANGED <<room, invitations, toServer, toClient, at, column, roster, newer, astray, misled>>
    BY <1>1 DEF vars, serverVars, streams, clientVars, history
  <2>2. Inductive'
    BY <1>1, InductiveNext DEF Listed
  <2>3. EndLate' /\ GamersIn' /\ OnlyLeader' /\ Entering'
    BY <2>1 DEF Listed, EndLate, GamersIn, OnlyLeader, Entering, But, Untold,
                Requests, Answers, Itself, Empty
  <2>4. OneStays'
    BY <2>1, StayUnmoved DEF Listed, OneStays
  <2>5. Mirrors'
    <3>1. ASSUME NEW p \in room.members \ astray, at[p] \in {"creating", "waiting", "settings"}
          PROVE  Mirrored(p)'
      <4>1. p \in People /\ TypeOK
        BY <3>1 DEF Listed, Inductive, TypeOK
      <4>2. Mirrored(p)
        BY <3>1 DEF Listed, Mirrors
      <4>3. \A r \in Rosters : Fits(p, r) => Fits(p, r)'
        BY <2>1, <4>1, FitsStable
      <4> QED
        BY <2>1, <4>1, <4>2, <4>3, BegunKept, MirrorStill
    <3> QED
      BY <2>1, <3>1 DEF Mirrors
  <2> QED
    BY <2>2, <2>3, <2>4, <2>5 DEF Listed
<1>2. CASE Next
  BY <1>2, CloseListed, KeysListed, ReadingListed, ServeListed DEF Next
<1> QED
  BY <1>1, <1>2

LEMMA ListsInvariant == Spec => []Listed
BY InitListed, ListedNext, PTL DEF Spec

\* Who is in the room and has read everything shows itself and everybody who came
\* after it once, in the right column, and nobody who is not in the room, unless
\* it is somebody who was misled
\* (addPlayer, removePlayer, sendParticipantList, handleUPDATE_PLAYER).
THEOREM ListsAreRight == Spec => []Roster
<1>1. Listed => Roster
  <2> SUFFICES ASSUME Listed, NEW p \in People, Settled(p), p \in room.members
               PROVE  Fits(p, roster[p])
    BY DEF Roster, Fits
  <2>1. Mirrored(p) /\ at[p] = "waiting" /\ toClient[p] = <<>>
    BY DEF Listed, Mirrors, Settled
  <2>2. PICK r \in Rosters : Path(Showing, Begun(p), toClient[p], r) /\ Fits(p, r)
    BY <2>1 DEF Mirrored
  <2>3. Begun(p) = r /\ Begun(p) = roster[p]
    BY <2>1, <2>2, PathNone DEF Begun
  <2> QED
    BY <2>2, <2>3
<1> QED
  BY <1>1, ListsInvariant, PTL

=============================================================================
