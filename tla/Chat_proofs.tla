---------------------------- MODULE Chat_proofs ----------------------------
(***************************************************************************)
(* The chat of Chat, for any number of people, friends and texts:          *)
(*  - Private: the receiver the server has in mind for a writer, and the   *)
(*    friend the writer had chosen when it typed, are the same whenever a  *)
(*    message is read (Inductive);                                         *)
(*  - TypeOK (Typed);                                                      *)
(*  - InOrder: what one person types is numbered in its order in its       *)
(*    stream, in the table, in every answer under way and on the screens   *)
(*    (Ordered);                                                           *)
(*  - ScreenIsHistory: every row of two friends is on a chat screen, or on *)
(*    its way there, once (Staged, which needs the first and the third).   *)
(***************************************************************************)
EXTENDS Chat, Induction, SequenceTheorems, TLAPS

-----------------------------------------------------------------------------
(* Sequences, whatever they hold. *)

Listy(s) == s \in Seq(ToSet(s))

LEMMA ListyIs ==
    ASSUME NEW S, NEW s \in Seq(S)
    PROVE  /\ Listy(s) /\ Len(s) \in Nat /\ DOMAIN s = 1..Len(s)
           /\ \A i \in 1..Len(s) : s[i] \in ToSet(s)
<1>1. Len(s) \in Nat /\ DOMAIN s = 1..Len(s)
  OBVIOUS
<1>2. \A i \in 1..Len(s) : s[i] \in ToSet(s)
  BY <1>1 DEF ToSet
<1>3. s = [i \in 1..Len(s) |-> s[i]]
  BY <1>1
<1>4. s \in Seq(ToSet(s))
  BY <1>1, <1>2, <1>3
<1> QED
  BY <1>1, <1>2, <1>4 DEF Listy

LEMMA ListyTail ==
    ASSUME NEW s, Listy(s), s # <<>>
    PROVE  /\ Listy(Tail(s)) /\ Len(s) \in Nat \ {0} /\ Len(Tail(s)) = Len(s) - 1
           /\ \A i \in 1..Len(s) - 1 : Tail(s)[i] = s[i + 1]
           /\ Head(s) = s[1] /\ ToSet(Tail(s)) \subseteq ToSet(s) /\ Head(s) \in ToSet(s)
<1>1. /\ s \in Seq(ToSet(s)) /\ Len(s) \in Nat \ {0} /\ DOMAIN s = 1..Len(s)
      /\ Head(s) = s[1]
  BY DEF Listy
<1>2. /\ Tail(s) \in Seq(ToSet(s)) /\ Len(Tail(s)) = Len(s) - 1
      /\ \A i \in 1..Len(s) - 1 : Tail(s)[i] = s[i + 1]
  BY <1>1
<1>3. Listy(Tail(s)) /\ DOMAIN Tail(s) = 1..Len(Tail(s))
  BY <1>2, ListyIs
<1>4. ToSet(Tail(s)) \subseteq ToSet(s)
  BY <1>1, <1>2, <1>3 DEF ToSet
<1>5. Head(s) \in ToSet(s)
  BY <1>1 DEF ToSet
<1> QED
  BY <1>1, <1>2, <1>3, <1>4, <1>5

LEMMA ListyConcat ==
    ASSUME NEW s, NEW t, Listy(s), Listy(t)
    PROVE  /\ Listy(s \o t) /\ Len(s) \in Nat /\ Len(t) \in Nat
           /\ Len(s \o t) = Len(s) + Len(t)
           /\ \A i \in 1..Len(s) : (s \o t)[i] = s[i]
           /\ \A i \in Len(s) + 1..Len(s) + Len(t) : (s \o t)[i] = t[i - Len(s)]
           /\ ToSet(s \o t) = ToSet(s) \cup ToSet(t)
<1> DEFINE S == ToSet(s) \cup ToSet(t)
<1>1. s \in Seq(ToSet(s)) /\ t \in Seq(ToSet(t))
  BY DEF Listy
<1>2. /\ s \in Seq(S) /\ Len(s) \in Nat /\ DOMAIN s = 1..Len(s)
      /\ t \in Seq(S) /\ Len(t) \in Nat /\ DOMAIN t = 1..Len(t)
  <2> HIDE DEF S
  <2>1. ToSet(s) \subseteq S /\ ToSet(t) \subseteq S
    BY DEF S
  <2> QED
    BY <1>1, <2>1
<1> HIDE DEF S
<1>3. /\ s \o t \in Seq(S) /\ Len(s \o t) = Len(s) + Len(t)
      /\ \A i \in 1..Len(s) : (s \o t)[i] = s[i]
      /\ \A i \in Len(s) + 1..Len(s) + Len(t) : (s \o t)[i] = t[i - Len(s)]
  BY <1>2
<1>4. Listy(s \o t) /\ DOMAIN (s \o t) = 1..Len(s) + Len(t)
  BY <1>3, ListyIs
<1>5. ASSUME NEW i \in 1..Len(s) + Len(t) PROVE (s \o t)[i] \in ToSet(s) \cup ToSet(t)
  <2>1. CASE i <= Len(s)
    BY <1>2, <1>3, <2>1 DEF ToSet
  <2>2. CASE i > Len(s)
    <3>1. i - Len(s) \in DOMAIN t /\ (s \o t)[i] = t[i - Len(s)]
      BY <1>2, <1>3, <2>2
    <3> QED
      BY <3>1 DEF ToSet
  <2> QED
    BY <1>2, <2>1, <2>2
<1>6. ASSUME NEW i \in DOMAIN s PROVE s[i] \in ToSet(s \o t)
  BY <1>2, <1>3, <1>4 DEF ToSet
<1>7. ASSUME NEW i \in DOMAIN t PROVE t[i] \in ToSet(s \o t)
  <2>1. Len(s) + i \in DOMAIN (s \o t) /\ (s \o t)[Len(s) + i] = t[i]
    BY <1>2, <1>3, <1>4
  <2> QED
    BY <2>1 DEF ToSet
<1>8. ToSet(s \o t) = ToSet(s) \cup ToSet(t)
  BY <1>4, <1>5, <1>6, <1>7 DEF ToSet
<1> QED
  BY <1>2, <1>3, <1>4, <1>8

LEMMA ListyShort ==
    ASSUME NEW m, NEW n
    PROVE  /\ Listy(<<>>) /\ Listy(<<m>>) /\ Listy(<<m, n>>)
           /\ Len(<<m>>) = 1 /\ Len(<<m, n>>) = 2
           /\ ToSet(<<>>) = {} /\ ToSet(<<m>>) = {m} /\ ToSet(<<m, n>>) = {m, n}
BY DEF Listy, ToSet

-----------------------------------------------------------------------------
(* Whom the server will have in mind.                                         *)

Turns == {"INCHATROOM", "LEAVE_CHAT"}

\* A server that has now in mind, and reads the messages of s before the i-th,
\* has q in mind then.
Faces(s, now, i, q) ==
    \/ /\ now = q
       /\ \A k \in 1..i - 1 : s[k].type \notin Turns
    \/ \E j \in 1..i - 1 :
         /\ s[j].type = "INCHATROOM" /\ s[j].who = q
         /\ \A k \in j + 1..i - 1 : s[k].type \notin Turns

\* It reads the first message.
LEMMA FacesTail ==
    ASSUME NEW s, Listy(s), s # <<>>, NEW now, NEW next, NEW q, NEW i \in 2..Len(s) + 1,
           Faces(s, now, i, q),
           s[1].type = "INCHATROOM" => next = s[1].who,
           s[1].type \notin Turns => next = now
    PROVE  Faces(Tail(s), next, i - 1, q)
<1>1. Len(s) \in Nat \ {0} /\ \A k \in 1..Len(s) - 1 : Tail(s)[k] = s[k + 1]
  BY ListyTail
<1>2. ASSUME NEW j \in 0..i - 1, \A k \in j + 1..i - 1 : s[k].type \notin Turns
      PROVE  \A k \in j..i - 2 : k > 0 => Tail(s)[k].type \notin Turns
  <2>1. ASSUME NEW k \in j..i - 2, k > 0 PROVE Tail(s)[k].type \notin Turns
    <3>1. k \in 1..Len(s) - 1 /\ k + 1 \in j + 1..i - 1
      BY <1>1, <2>1
    <3> QED
      BY <1>1, <1>2, <3>1
  <2> QED
    BY <2>1
<1>3. CASE now = q /\ \A k \in 1..i - 1 : s[k].type \notin Turns
  <2>1. \A k \in 0..i - 2 : k > 0 => Tail(s)[k].type \notin Turns
    BY <1>1, <1>2, <1>3
  <2>2. next = q
    <3>1. 1 \in 1..i - 1
      BY <1>1
    <3> QED
      BY <1>3, <3>1
  <2> DEFINE u == Tail(s)
  <2>3. \A k \in 1..(i - 1) - 1 : u[k].type \notin Turns
    BY <1>1, <2>1
  <2> HIDE DEF u
  <2>4. Faces(u, next, i - 1, q)
    BY <2>2, <2>3 DEF Faces
  <2> QED
    BY <2>4 DEF u
<1>4. ASSUME NEW j \in 1..i - 1, s[j].type = "INCHATROOM", s[j].who = q,
             \A k \in j + 1..i - 1 : s[k].type \notin Turns
      PROVE  Faces(Tail(s), next, i - 1, q)
  <2>1. \A k \in j..i - 2 : k > 0 => Tail(s)[k].type \notin Turns
    BY <1>1, <1>2, <1>4
  <2>2. CASE j = 1
    BY <1>1, <1>4, <2>1, <2>2 DEF Faces
  <2>3. CASE j > 1
    <3>1. j - 1 \in 1..i - 2 /\ Tail(s)[j - 1] = s[j]
      BY <1>1, <2>3
    <3> DEFINE u == Tail(s)
               h == j - 1
    <3>2. \A k \in h + 1..(i - 1) - 1 : u[k].type \notin Turns
      BY <1>1, <2>1
    <3>3. h \in 1..(i - 1) - 1 /\ u[h].type = "INCHATROOM" /\ u[h].who = q
      BY <1>1, <1>4, <3>1
    <3> HIDE DEF u, h
    <3>4. Faces(u, next, i - 1, q)
      BY <3>2, <3>3 DEF Faces
    <3> QED
      BY <3>4 DEF u
  <2> QED
    BY <2>2, <2>3
<1> QED
  BY <1>3, <1>4 DEF Faces

\* More messages come behind.
LEMMA FacesConcat ==
    ASSUME NEW s, NEW t, Listy(s), Listy(t), NEW now, NEW q, NEW i \in 1..Len(s) + 1,
           Faces(s, now, i, q)
    PROVE  Faces(s \o t, now, i, q)
<1>1. Len(s) \in Nat /\ \A k \in 1..Len(s) : (s \o t)[k] = s[k]
  BY ListyConcat
<1>2. \A k \in 1..i - 1 : (s \o t)[k] = s[k]
  BY <1>1
<1>3. CASE now = q /\ \A k \in 1..i - 1 : s[k].type \notin Turns
  BY <1>2, <1>3 DEF Faces
<1>4. ASSUME NEW j \in 1..i - 1, s[j].type = "INCHATROOM", s[j].who = q,
             \A k \in j + 1..i - 1 : s[k].type \notin Turns
      PROVE  Faces(s \o t, now, i, q)
  <2>1. \A k \in j + 1..i - 1 : (s \o t)[k].type \notin Turns
    BY <1>1, <1>2, <1>4
  <2> QED
    BY <1>2, <1>4, <2>1 DEF Faces
<1> QED
  BY <1>3, <1>4 DEF Faces

\* A message that turns to nobody comes behind.
LEMMA FacesOn ==
    ASSUME NEW s, Listy(s), NEW m, m.type \notin Turns, NEW now, NEW q,
           Faces(s, now, Len(s) + 1, q)
    PROVE  Faces(s \o <<m>>, now, Len(s) + 2, q)
<1> DEFINE t == s \o <<m>>
<1>1. Listy(<<m>>) /\ Len(<<m>>) = 1 /\ <<m>>[1] = m
  BY ListyShort
<1>2. Len(s) \in Nat
  BY <1>1, ListyConcat
<1>3. Faces(t, now, Len(s) + 1, q)
  BY <1>1, <1>2, FacesConcat
<1>4. t[Len(s) + 1] = m
  <2>1. t[Len(s) + 1] = <<m>>[(Len(s) + 1) - Len(s)]
    BY <1>1, <1>2, ListyConcat
  <2> QED
    BY <1>1, <1>2, <2>1
<1> HIDE DEF t
<1>5. CASE now = q /\ \A k \in 1..(Len(s) + 1) - 1 : t[k].type \notin Turns
  <2>1. \A k \in 1..(Len(s) + 2) - 1 : t[k].type \notin Turns
    BY <1>2, <1>4, <1>5
  <2> QED
    BY <1>5, <2>1 DEF Faces, t
<1>6. ASSUME NEW j \in 1..(Len(s) + 1) - 1, t[j].type = "INCHATROOM", t[j].who = q,
             \A k \in j + 1..(Len(s) + 1) - 1 : t[k].type \notin Turns
      PROVE  Faces(t, now, Len(s) + 2, q)
  <2>1. \A k \in j + 1..(Len(s) + 2) - 1 : t[k].type \notin Turns
    BY <1>2, <1>4, <1>6
  <2>2. j \in 1..(Len(s) + 2) - 1
    BY <1>2
  <2> QED
    BY <1>6, <2>1, <2>2 DEF Faces
<1> QED
  BY <1>3, <1>5, <1>6 DEF Faces, t

\* A chat with q is opened behind everything else.
LEMMA FacesOpened ==
    ASSUME NEW s, Listy(s), NEW m, NEW n, NEW now,
           m.type = "INCHATROOM", n.type \notin Turns
    PROVE  Faces(s \o <<m, n>>, now, Len(s) + 3, m.who)
<1> DEFINE t == s \o <<m, n>>
<1>1. /\ Listy(<<m, n>>) /\ Len(<<m, n>>) = 2
      /\ <<m, n>>[1] = m /\ <<m, n>>[2] = n
  BY ListyShort
<1>2. /\ Len(s) \in Nat
      /\ \A i \in Len(s) + 1..Len(s) + 2 : t[i] = <<m, n>>[i - Len(s)]
  BY <1>1, ListyConcat
<1>3. t[Len(s) + 1] = m /\ t[Len(s) + 2] = n
  <2>1. /\ t[Len(s) + 1] = <<m, n>>[(Len(s) + 1) - Len(s)]
        /\ t[Len(s) + 2] = <<m, n>>[(Len(s) + 2) - Len(s)]
    BY <1>2
  <2>2. (Len(s) + 1) - Len(s) = 1 /\ (Len(s) + 2) - Len(s) = 2
    BY <1>2
  <2> QED
    BY <1>1, <2>1, <2>2
<1> HIDE DEF t
<1>4. Len(s) + 1 \in 1..(Len(s) + 3) - 1
  BY <1>2
<1>5. \A k \in (Len(s) + 1) + 1..(Len(s) + 3) - 1 : t[k].type \notin Turns
  BY <1>2, <1>3
<1> QED
  BY <1>3, <1>4, <1>5 DEF Faces, t

-----------------------------------------------------------------------------
(* The invariant.  Private says nothing of messages that the server has yet to *)
(* read; by then the writer may have left the chat and opened another one.     *)

Receiver(p) == player[p].receiver

\* Each message waiting to be read will find its receiver in the server's mind,
\* and so will the next one that p types.
Addressed(p) ==
    /\ Listy(toServer[p])
    /\ \A i \in 1..Len(toServer[p]) :
         toServer[p][i].type = "SEND_MESSAGE" =>
           /\ toServer[p][i].m.from = p
           /\ Faces(toServer[p], Receiver(p), i, toServer[p][i].m.to)
    /\ at[p] \in {"opening", "chat"} =>
         Faces(toServer[p], Receiver(p), Len(toServer[p]) + 1, partner[p])

Concerns(p, answer) == answer.type = "message" => p \in {answer.m.from, answer.m.to}
Told(p) == Listy(toClient[p]) /\ \A answer \in ToSet(toClient[p]) : Concerns(p, answer)

PerPerson(f) == f = [p \in People |-> f[p]]
Shaped ==
    PerPerson(player) /\ PerPerson(toServer) /\ PerPerson(toClient) /\ PerPerson(at)
      /\ PerPerson(partner)

Inductive == Shaped /\ \A p \in People : Addressed(p) /\ Told(p)

LEMMA InitInductive == Init => Inductive
<1> SUFFICES ASSUME Init PROVE Inductive
  OBVIOUS
<1>1. Shaped
  BY DEF Init, Shaped, PerPerson
<1>2. ASSUME NEW p \in People PROVE Addressed(p) /\ Told(p)
  <2>1. toServer[p] = <<>> /\ toClient[p] = <<>> /\ at[p] = "profile"
    BY DEF Init
  <2>2. Listy(<<>>) /\ ToSet(<<>>) = {} /\ Len(<<>>) = 0
    BY ListyShort
  <2> QED
    BY <2>1, <2>2 DEF Addressed, Told
<1> QED
  BY <1>1, <1>2 DEF Inductive

-----------------------------------------------------------------------------
(* What happens to one person's messages. *)

\* The client adds messages: none of them is typed text unless it is in the
\* chat, and to the friend it faces there.
LEMMA AddressedSent ==
    ASSUME Inductive, NEW p \in People, NEW m, m.type \notin Turns,
           m.type = "SEND_MESSAGE" =>
             m.m.from = p /\ m.m.to = partner[p] /\ at[p] \in {"opening", "chat"},
           Send(p, <<m>>), UNCHANGED <<player, at, partner>>
    PROVE  Addressed(p)'
<1> DEFINE s == toServer[p]
           t == s \o <<m>>
<1>1. Listy(s) /\ Listy(<<m>>) /\ Len(<<m>>) = 1 /\ <<m>>[1] = m
  BY ListyShort DEF Inductive, Addressed
<1>2. /\ Listy(t) /\ Len(s) \in Nat /\ Len(t) = Len(s) + 1
      /\ \A i \in 1..Len(s) : t[i] = s[i]
  BY <1>1, ListyConcat
<1>3. t[Len(s) + 1] = m
  <2>1. t[Len(s) + 1] = <<m>>[(Len(s) + 1) - Len(s)]
    BY <1>1, <1>2, ListyConcat
  <2> QED
    BY <1>1, <1>2, <2>1
<1>4. at[p] \in {"opening", "chat"} => Faces(s, Receiver(p), Len(s) + 1, partner[p])
  BY DEF Inductive, Addressed
<1>5. ASSUME NEW i \in 1..Len(t), t[i].type = "SEND_MESSAGE"
      PROVE  t[i].m.from = p /\ Faces(t, Receiver(p), i, t[i].m.to)
  <2>1. CASE i \in 1..Len(s)
    <3>1. s[i].m.from = p /\ Faces(s, Receiver(p), i, s[i].m.to) /\ t[i] = s[i]
      BY <1>2, <1>5, <2>1 DEF Inductive, Addressed
    <3>2. i \in 1..Len(s) + 1
      BY <1>2, <2>1
    <3>3. Faces(t, Receiver(p), i, s[i].m.to)
      BY <1>1, <3>1, <3>2, FacesConcat
    <3> QED
      BY <3>1, <3>3
  <2>2. CASE i = Len(s) + 1
    <3>1. Len(s) + 1 \in 1..Len(s) + 1
      BY <1>2
    <3>2. m.m.from = p /\ Faces(t, Receiver(p), i, m.m.to)
      BY <1>1, <1>3, <1>4, <1>5, <2>2, <3>1, FacesConcat
    <3> QED
      BY <1>3, <2>2, <3>2
  <2> QED
    BY <1>2, <2>1, <2>2
<1>6. at[p] \in {"opening", "chat"} => Faces(t, Receiver(p), Len(t) + 1, partner[p])
  <2>1. Len(t) + 1 = Len(s) + 2
    BY <1>2
  <2> QED
    BY <1>1, <1>4, <2>1, FacesOn
<1>7. toServer'[p] = t /\ Receiver(p)' = Receiver(p) /\ at'[p] = at[p] /\ partner'[p] = partner[p]
  BY DEF Send, Receiver, Inductive, Shaped, PerPerson
<1> HIDE DEF s, t
<1> QED
  BY <1>2, <1>5, <1>6, <1>7 DEF Addressed

\* Out of the chat nothing is promised of what comes next.
LEMMA AddressedAway ==
    ASSUME Inductive, NEW p \in People, NEW m, m.type # "SEND_MESSAGE",
           Send(p, <<m>>), UNCHANGED player, at'[p] \notin {"opening", "chat"}
    PROVE  Addressed(p)'
<1> DEFINE s == toServer[p]
           t == s \o <<m>>
<1>1. Listy(s) /\ Listy(<<m>>) /\ Len(<<m>>) = 1 /\ <<m>>[1] = m
  BY ListyShort DEF Inductive, Addressed
<1>2. /\ Listy(t) /\ Len(s) \in Nat /\ Len(t) = Len(s) + 1
      /\ \A i \in 1..Len(s) : t[i] = s[i]
  BY <1>1, ListyConcat
<1>3. t[Len(s) + 1] = m
  <2>1. t[Len(s) + 1] = <<m>>[(Len(s) + 1) - Len(s)]
    BY <1>1, <1>2, ListyConcat
  <2> QED
    BY <1>1, <1>2, <2>1
<1>4. ASSUME NEW i \in 1..Len(t), t[i].type = "SEND_MESSAGE"
      PROVE  t[i].m.from = p /\ Faces(t, Receiver(p), i, t[i].m.to)
  <2>1. i # Len(s) + 1
    BY <1>3, <1>4
  <2>2. i \in 1..Len(s) /\ i \in 1..Len(s) + 1
    BY <1>2, <2>1
  <2>3. s[i].m.from = p /\ Faces(s, Receiver(p), i, s[i].m.to) /\ t[i] = s[i]
    BY <1>2, <1>4, <2>2 DEF Inductive, Addressed
  <2>4. Faces(t, Receiver(p), i, s[i].m.to)
    BY <1>1, <2>2, <2>3, FacesConcat
  <2> QED
    BY <2>3, <2>4
<1>5. toServer'[p] = t /\ Receiver(p)' = Receiver(p)
  BY DEF Send, Receiver, Inductive, Shaped, PerPerson
<1> HIDE DEF s, t
<1> QED
  BY <1>2, <1>4, <1>5 DEF Addressed

LEMMA AddressedOpened ==
    ASSUME Inductive, NEW p \in People, NEW q \in People, OpenChat(p, q)
    PROVE  Addressed(p)'
<1> DEFINE s == toServer[p]
           m == [type |-> "INCHATROOM", who |-> q]
           n == [type |-> "GET_MESSAGE", who |-> q]
           t == s \o <<m, n>>
<1>0. m.type = "INCHATROOM" /\ m.who = q /\ n.type = "GET_MESSAGE"
  OBVIOUS
<1> HIDE DEF m, n
<1>1. /\ Listy(s) /\ Listy(<<m, n>>) /\ Len(<<m, n>>) = 2
      /\ <<m, n>>[1] = m /\ <<m, n>>[2] = n
  BY ListyShort DEF Inductive, Addressed
<1>2. /\ Listy(t) /\ Len(s) \in Nat /\ Len(t) = Len(s) + 2
      /\ \A i \in 1..Len(s) : t[i] = s[i]
      /\ \A i \in Len(s) + 1..Len(s) + 2 : t[i] = <<m, n>>[i - Len(s)]
  BY <1>1, ListyConcat
<1>3. t[Len(s) + 1] = m /\ t[Len(s) + 2] = n
  <2>1. /\ t[Len(s) + 1] = <<m, n>>[(Len(s) + 1) - Len(s)]
        /\ t[Len(s) + 2] = <<m, n>>[(Len(s) + 2) - Len(s)]
    BY <1>2
  <2>2. (Len(s) + 1) - Len(s) = 1 /\ (Len(s) + 2) - Len(s) = 2
    BY <1>2
  <2> QED
    BY <1>1, <2>1, <2>2
<1>4. ASSUME NEW i \in 1..Len(t), t[i].type = "SEND_MESSAGE"
      PROVE  t[i].m.from = p /\ Faces(t, Receiver(p), i, t[i].m.to)
  <2>1. i # Len(s) + 1 /\ i # Len(s) + 2
    BY <1>0, <1>3, <1>4
  <2>2. i \in 1..Len(s) /\ i \in 1..Len(s) + 1
    BY <1>2, <2>1
  <2>3. s[i].m.from = p /\ Faces(s, Receiver(p), i, s[i].m.to) /\ t[i] = s[i]
    BY <1>2, <1>4, <2>2 DEF Inductive, Addressed
  <2>4. Faces(t, Receiver(p), i, s[i].m.to)
    BY <1>1, <2>2, <2>3, FacesConcat
  <2> QED
    BY <2>3, <2>4
<1>5. Faces(t, Receiver(p), Len(t) + 1, q)
  <2>1. Len(t) + 1 = Len(s) + 3
    BY <1>2
  <2>2. n.type \notin Turns
    BY <1>0 DEF Turns
  <2>3. Faces(t, Receiver(p), Len(s) + 3, m.who)
    BY <1>0, <1>1, <2>2, FacesOpened
  <2> QED
    BY <1>0, <2>1, <2>3
<1>6. toServer'[p] = t /\ Receiver(p)' = Receiver(p) /\ partner'[p] = q
  BY DEF OpenChat, Send, Server, Receiver, Inductive, Shaped, PerPerson, m, n
<1> HIDE DEF s, t
<1> QED
  BY <1>2, <1>4, <1>5, <1>6 DEF Addressed

\* The server reads a message, and turns to whom it says.
LEMMA AddressedRead ==
    ASSUME Inductive, NEW p \in People, NEW type, Takes(p, type),
           type = "INCHATROOM" => Receiver(p)' = Head(toServer[p]).who,
           type \notin Turns => Receiver(p)' = Receiver(p)
    PROVE  Addressed(p)'
<1> DEFINE s == toServer[p]
           t == Tail(s)
           next == Receiver(p)'
<1>1. Listy(s) /\ s # <<>> /\ Head(s).type = type
  BY DEF Takes, Inductive, Addressed
<1>2. /\ Listy(t) /\ Len(s) \in Nat \ {0} /\ Len(t) = Len(s) - 1 /\ Head(s) = s[1]
      /\ \A i \in 1..Len(s) - 1 : t[i] = s[i + 1]
  BY <1>1, ListyTail
<1>3. /\ s[1].type = "INCHATROOM" => next = s[1].who
      /\ s[1].type \notin Turns => next = Receiver(p)
  BY <1>1, <1>2
<1>4. ASSUME NEW i \in 2..Len(s) + 1, NEW q, Faces(s, Receiver(p), i, q)
      PROVE  Faces(t, next, i - 1, q)
  BY <1>1, <1>3, <1>4, FacesTail
<1>5. ASSUME NEW i \in 1..Len(t), t[i].type = "SEND_MESSAGE"
      PROVE  t[i].m.from = p /\ Faces(t, next, i, t[i].m.to)
  <2>1. i + 1 \in 2..Len(s) + 1 /\ i + 1 \in 1..Len(s) /\ t[i] = s[i + 1] /\ (i + 1) - 1 = i
    BY <1>2
  <2>2. s[i + 1].m.from = p /\ Faces(s, Receiver(p), i + 1, s[i + 1].m.to)
    BY <1>5, <2>1 DEF Inductive, Addressed
  <2>3. Faces(t, next, (i + 1) - 1, s[i + 1].m.to)
    BY <1>4, <2>1, <2>2
  <2> QED
    BY <2>1, <2>2, <2>3
<1>6. at[p] \in {"opening", "chat"} => Faces(t, next, Len(t) + 1, partner[p])
  <2>1. Len(s) + 1 \in 2..Len(s) + 1 /\ (Len(s) + 1) - 1 = Len(t) + 1
    BY <1>2
  <2>2. at[p] \in {"opening", "chat"} => Faces(s, Receiver(p), Len(s) + 1, partner[p])
    BY DEF Inductive, Addressed
  <2> QED
    BY <1>4, <2>1, <2>2
<1>7. toServer'[p] = t /\ at'[p] = at[p] /\ partner'[p] = partner[p]
  BY DEF Takes, Client, Inductive, Shaped, PerPerson
<1> QED
  <2> HIDE DEF s, t
  <2> QED
    BY <1>2, <1>5, <1>6, <1>7 DEF Addressed

\* Nobody else is concerned.
LEMMA AddressedStill ==
    ASSUME Inductive, NEW p \in People, UNCHANGED <<toServer[p], Receiver(p)>>,
           \/ at'[p] \notin {"opening", "chat"}
           \/ at[p] \in {"opening", "chat"} /\ UNCHANGED partner[p]
    PROVE  Addressed(p)'
<1>1. Addressed(p)
  BY DEF Inductive
<1> QED
  BY <1>1 DEF Addressed

\* What the client is sent, and what it reads.
LEMMA ToldRead ==
    ASSUME Inductive, NEW p \in People, toClient[p] # <<>>,
           toClient' = [toClient EXCEPT ![p] = Tail(@)]
    PROVE  \A x \in People : Told(x)'
<1>1. Listy(Tail(toClient[p])) /\ ToSet(Tail(toClient[p])) \subseteq ToSet(toClient[p])
  BY ListyTail DEF Inductive, Told
<1>2. ASSUME NEW x \in People PROVE Told(x)'
  <2>1. toClient'[x] = IF x = p THEN Tail(toClient[x]) ELSE toClient[x]
    BY DEF Inductive, Shaped, PerPerson
  <2>2. Told(x)
    BY DEF Inductive
  <2> QED
    BY <1>1, <2>1, <2>2 DEF Told
<1> QED
  BY <1>2

LEMMA ToldMore ==
    ASSUME Inductive, NEW p \in People, NEW answers, Listy(answers),
           \A answer \in ToSet(answers) : Concerns(p, answer),
           toClient'[p] = toClient[p] \o answers
    PROVE  Told(p)'
<1>1. Told(p)
  BY DEF Inductive
<1>2. /\ Listy(toClient[p] \o answers)
      /\ ToSet(toClient[p] \o answers) = ToSet(toClient[p]) \cup ToSet(answers)
  BY <1>1, ListyConcat DEF Told
<1> QED
  BY <1>1, <1>2 DEF Told

LEMMA ToldStill == ASSUME Inductive, NEW p \in People, toClient'[p] = toClient[p] PROVE Told(p)'
BY DEF Inductive, Told

-----------------------------------------------------------------------------
(* The client's steps. *)

LEMMA Others ==
    ASSUME Inductive, NEW p \in People, NEW msgs, Send(p, msgs), UNCHANGED player,
           NEW x \in People, x # p, at'[x] = at[x], partner'[x] = partner[x]
    PROVE  Addressed(x)'
<1>1. UNCHANGED <<toServer[x], Receiver(x)>>
  BY DEF Send, Receiver, Inductive, Shaped, PerPerson
<1> QED
  BY <1>1, AddressedStill

LEMMA TypingInductive ==
    ASSUME Inductive, NEW p \in People,
           \/ \E q \in People : OpenChat(p, q)
           \/ \E text \in Texts \cup {NoOne} : Enter(p, text)
           \/ Escape(p) \/ Cancel(p)
    PROVE  Inductive'
<1>1. UNCHANGED <<player, toClient>>
  BY DEF OpenChat, Enter, Escape, Cancel, Server
<1>2. Shaped'
  <2>1. /\ toServer' = toServer \/ \E msgs : Send(p, msgs)
        /\ at' = at \/ \E place : Goes(p, place)
        /\ partner' = partner \/ \E q : partner' = [partner EXCEPT ![p] = q]
    BY DEF OpenChat, Enter, Escape, Cancel
  <2> QED
    BY <1>1, <2>1 DEF Send, Goes, Inductive, Shaped, PerPerson
<1>3. \A x \in People : Told(x)'
  BY <1>1, ToldStill
<1>4. Addressed(p)'
  <2>1. ASSUME NEW q \in People, OpenChat(p, q) PROVE Addressed(p)'
    BY <2>1, AddressedOpened
  <2>2. ASSUME NEW text \in Texts \cup {NoOne}, Enter(p, text) PROVE Addressed(p)'
    <3> DEFINE m == [from |-> p, to |-> partner[p], n |-> typed[p] + 1, text |-> text]
               msg == [type |-> "SEND_MESSAGE", m |-> m]
    <3>1. /\ at[p] = "chat" /\ UNCHANGED <<at, partner>>
          /\ Send(p, <<msg>>) \/ UNCHANGED toServer
      BY <2>2 DEF Enter
    <3>2. CASE Send(p, <<msg>>)
      <4>1. /\ msg.type = "SEND_MESSAGE" /\ msg.m.from = p /\ msg.m.to = partner[p]
            /\ msg.type \notin Turns
        BY DEF Turns
      <4> HIDE DEF m, msg
      <4>2. PICK c : c = msg
        OBVIOUS
      <4>3. Send(p, <<c>>)
        BY <3>2, <4>2 DEF Send
      <4> QED
        BY <1>1, <3>1, <4>1, <4>2, <4>3, AddressedSent
    <3>3. CASE UNCHANGED toServer
      <4>1. UNCHANGED <<toServer[p], Receiver(p)>> /\ UNCHANGED partner[p]
        BY <1>1, <3>1, <3>3 DEF Receiver
      <4> QED
        BY <3>1, <4>1, AddressedStill
    <3> QED
      BY <3>1, <3>2, <3>3
  <2>3. CASE Escape(p)
    <3>1. at'[p] = "leaving" /\ Send(p, <<[type |-> "LEAVE_CHAT"]>>)
      BY <2>3 DEF Escape, Goes, Inductive, Shaped, PerPerson
    <3> QED
      BY <1>1, <3>1, AddressedAway
  <2>4. CASE Cancel(p)
    <3>1. at'[p] = "listing" /\ Send(p, <<[type |-> "GET_FRIEND_LIST"]>>)
      BY <2>4 DEF Cancel, Goes, Inductive, Shaped, PerPerson
    <3> QED
      BY <1>1, <3>1, AddressedAway
  <2> QED
    BY <2>1, <2>2, <2>3, <2>4
<1>5. ASSUME NEW x \in People, x # p PROVE Addressed(x)'
  <2>1. at'[x] = at[x] /\ partner'[x] = partner[x]
    BY <1>5 DEF OpenChat, Enter, Escape, Cancel, Goes, Inductive, Shaped, PerPerson
  <2>2. UNCHANGED toServer \/ \E msgs : Send(p, msgs)
    BY DEF OpenChat, Enter, Escape, Cancel
  <2>3. CASE UNCHANGED toServer
    BY <1>1, <2>1, <2>3, AddressedStill DEF Receiver
  <2> QED
    BY <1>1, <1>5, <2>1, <2>2, <2>3, Others
<1> QED
  BY <1>2, <1>3, <1>4, <1>5 DEF Inductive

LEMMA ReadingInductive ==
    ASSUME Inductive, NEW p \in People,
           ShowHistory(p) \/ Misreads(p) \/ ShowList(p) \/ Thread(p)
    PROVE  Inductive'
<1>1. UNCHANGED <<player, toServer>>
  BY DEF ShowHistory, Misreads, ShowList, Thread, ThreadRead, ThreadShow, Server, Streams
<1>2. \/ UNCHANGED toClient
      \/ toClient[p] # <<>> /\ toClient' = [toClient EXCEPT ![p] = Tail(@)]
  BY DEF ShowHistory, Misreads, ShowList, Thread, ThreadRead, ThreadShow, Reads, Streams
<1>3. \/ UNCHANGED <<at, partner>>
      \/ at[p] = "opening" /\ Goes(p, "chat") /\ UNCHANGED partner
      \/ Goes(p, "broken") /\ UNCHANGED partner
      \/ Goes(p, "profile") /\ partner' = [partner EXCEPT ![p] = NoOne]
  BY DEF ShowHistory, Misreads, ShowList, Thread, ThreadRead, ThreadShow
<1>4. Shaped'
  BY <1>1, <1>2, <1>3 DEF Goes, Inductive, Shaped, PerPerson
<1>5. \A x \in People : Told(x)'
  BY <1>2, ToldRead, ToldStill
<1>6. ASSUME NEW x \in People PROVE Addressed(x)'
  <2>1. \/ at'[x] = at[x] /\ partner'[x] = partner[x]
        \/ at[x] = "opening" /\ at'[x] = "chat" /\ partner'[x] = partner[x]
        \/ at'[x] \in {"broken", "profile"}
    BY <1>3 DEF Goes, Inductive, Shaped, PerPerson
  <2> QED
    BY <1>1, <2>1, AddressedStill DEF Receiver
<1> QED
  BY <1>4, <1>5, <1>6 DEF Inductive

-----------------------------------------------------------------------------
(* The server's steps. *)

\* p's message is read, and nobody else is turned to anybody.
LEMMA ServedAddressed ==
    ASSUME Inductive, NEW p \in People, NEW type, Takes(p, type),
           PerPerson(player)', \A x \in People : x # p => player'[x] = player[x],
           type = "INCHATROOM" => Receiver(p)' = Head(toServer[p]).who,
           type \notin Turns => Receiver(p)' = Receiver(p)
    PROVE  \A x \in People : Addressed(x)'
<1>1. Addressed(p)'
  BY AddressedRead
<1>2. ASSUME NEW x \in People, x # p PROVE Addressed(x)'
  <2>1. /\ UNCHANGED <<toServer[x], Receiver(x)>>
        /\ at'[x] = at[x] /\ partner'[x] = partner[x]
    BY <1>2 DEF Takes, Client, Receiver, Inductive, Shaped, PerPerson
  <2> QED
    BY <2>1, AddressedStill
<1> QED
  BY <1>1, <1>2

LEMMA TakesShaped ==
    ASSUME Inductive, NEW p \in People, NEW type, Takes(p, type),
           PerPerson(player)', PerPerson(toClient)'
    PROVE  Shaped'
BY DEF Takes, Client, Inductive, Shaped, PerPerson

\* An answer to p itself.
LEMMA AnswerTold ==
    ASSUME Inductive, NEW p \in People, NEW answer, answer.type # "message",
           Answer(p, answer)
    PROVE  PerPerson(toClient)' /\ \A x \in People : Told(x)'
<1>1. PerPerson(toClient)'
  BY DEF Answer, Inductive, Shaped, PerPerson
<1>2. Listy(<<answer>>) /\ ToSet(<<answer>>) = {answer}
  BY ListyShort
<1>3. toClient'[p] = toClient[p] \o <<answer>>
  <2>1. toClient[p] \in Seq(ToSet(toClient[p]))
    BY DEF Inductive, Told, Listy
  <2>2. toClient'[p] = Append(toClient[p], answer)
    BY DEF Answer, Inductive, Shaped, PerPerson
  <2> QED
    BY <2>1, <2>2
<1>4. Told(p)'
  BY <1>2, <1>3, ToldMore DEF Concerns
<1>5. ASSUME NEW x \in People, x # p PROVE Told(x)'
  BY <1>5, ToldStill DEF Answer, Inductive, Shaped, PerPerson
<1> QED
  BY <1>1, <1>4, <1>5

LEMMA TurnInductive ==
    ASSUME Inductive, NEW p \in People, InChatRoom(p) \/ LeaveChat(p)
    PROVE  Inductive'
<1>1. \A x \in People : Told(x)'
  BY ToldStill DEF InChatRoom, LeaveChat
<1>2. PerPerson(player)' /\ PerPerson(toClient)'
  BY DEF InChatRoom, LeaveChat, Inductive, Shaped, PerPerson
<1>3. \A x \in People : x # p => player'[x] = player[x]
  BY DEF InChatRoom, LeaveChat, Inductive, Shaped, PerPerson
<1>4. CASE InChatRoom(p)
  <2>1. Takes(p, "INCHATROOM") /\ Receiver(p)' = Head(toServer[p]).who
    BY <1>4 DEF InChatRoom, Receiver, Inductive, Shaped, PerPerson
  <2>2. \A x \in People : Addressed(x)'
    BY <1>2, <1>3, <2>1, ServedAddressed DEF Turns
  <2> QED
    BY <1>1, <1>2, <2>1, <2>2, TakesShaped DEF Inductive
<1>5. CASE LeaveChat(p)
  <2>1. Takes(p, "LEAVE_CHAT")
    BY <1>5 DEF LeaveChat
  <2>2. \A x \in People : Addressed(x)'
    BY <1>2, <1>3, <2>1, ServedAddressed DEF Turns
  <2> QED
    BY <1>1, <1>2, <2>1, <2>2, TakesShaped DEF Inductive
<1> QED
  BY <1>4, <1>5

LEMMA AnswerInductive ==
    ASSUME Inductive, NEW p \in People, GetMessages(p) \/ GetFriendList(p)
    PROVE  Inductive'
<1>1. PICK type, answer :
        /\ type \in {"GET_MESSAGE", "GET_FRIEND_LIST"} /\ Takes(p, type)
        /\ Answer(p, answer) /\ answer.type # "message" /\ UNCHANGED player
  <2>1. CASE GetMessages(p)
    BY <2>1 DEF GetMessages, Server
  <2>2. CASE GetFriendList(p)
    BY <2>2 DEF GetFriendList, Server
  <2> QED
    BY <2>1, <2>2
<1>2. PerPerson(toClient)' /\ \A x \in People : Told(x)'
  BY <1>1, AnswerTold
<1>3. PerPerson(player)' /\ UNCHANGED Receiver(p)
  BY <1>1 DEF Inductive, Shaped, PerPerson, Receiver
<1>4. \A x \in People : Addressed(x)'
  BY <1>1, <1>3, ServedAddressed DEF Turns
<1> QED
  BY <1>1, <1>2, <1>3, <1>4, TakesShaped DEF Inductive

\* The receiver the server has in mind when it reads m is whom m is for.
\* The message the server reads is to the person it has in mind.
LEMMA ReadsAddressed ==
    ASSUME Inductive, NEW p \in People, Takes(p, "SEND_MESSAGE")
    PROVE  Head(toServer[p]).m.from = p /\ Head(toServer[p]).m.to = player[p].receiver
<1> DEFINE s == toServer[p]
<1>1. Listy(s) /\ s # <<>> /\ Head(s).type = "SEND_MESSAGE"
  BY DEF Takes, Inductive, Addressed
<1>2. Head(s) = s[1] /\ 1 \in 1..Len(s)
  BY <1>1, ListyTail
<1>3. s[1].m.from = p /\ Faces(s, Receiver(p), 1, s[1].m.to)
  BY <1>1, <1>2 DEF Inductive, Addressed
<1> HIDE DEF s
<1>4. Receiver(p) = s[1].m.to
  BY <1>3 DEF Faces
<1> QED
  BY <1>2, <1>3, <1>4 DEF s, Receiver

LEMMA SendMessagesInductive ==
    ASSUME Inductive, NEW p \in People, SendMessages(p)
    PROVE  Inductive'
<1> DEFINE m == Head(toServer[p]).m
           forward == [type |-> "message", m |-> m]
           confirm == [type |-> "confirm"]
           f(q) == IF Hears(q, p) THEN <<forward>> ELSE <<>>
           c(q) == IF q = p THEN <<confirm>> ELSE <<>>
<1>1. Takes(p, "SEND_MESSAGE") /\ UNCHANGED player
  BY DEF SendMessages
<1>2. m.from = p /\ m.to = Receiver(p)
  BY <1>1, ReadsAddressed DEF Receiver
<1>3. ASSUME NEW q \in People
      PROVE  /\ Listy(f(q)) /\ Listy(c(q))
             /\ \A answer \in ToSet(f(q)) \cup ToSet(c(q)) : Concerns(q, answer)
  <2>1. forward.type = "message" /\ forward.m = m /\ confirm.type = "confirm"
    OBVIOUS
  <2> HIDE DEF m, forward, confirm
  <2>2. Hears(q, p) => Concerns(q, forward)
    BY <1>2, <2>1 DEF Hears, Concerns, Receiver
  <2>3. Concerns(q, confirm)
    BY <2>1 DEF Concerns
  <2>4. /\ Listy(<<forward>>) /\ Listy(<<confirm>>) /\ Listy(<<>>) /\ ToSet(<<>>) = {}
        /\ ToSet(<<forward>>) = {forward} /\ ToSet(<<confirm>>) = {confirm}
    BY ListyShort
  <2>5. Listy(f(q)) /\ \A answer \in ToSet(f(q)) : Concerns(q, answer)
    BY <2>2, <2>4
  <2>6. Listy(c(q)) /\ \A answer \in ToSet(c(q)) : Concerns(q, answer)
    BY <2>3, <2>4
  <2> QED
    BY <2>5, <2>6
<1>4. toClient' = [q \in People |-> (toClient[q] \o f(q)) \o c(q)]
  BY DEF SendMessages
<1>5. ASSUME NEW q \in People PROVE Told(q)'
  <2> DEFINE t == toClient[q] \o f(q)
  <2>1. Listy(toClient[q]) /\ \A answer \in ToSet(toClient[q]) : Concerns(q, answer)
    BY DEF Inductive, Told
  <2>2. toClient'[q] = t \o c(q)
    BY <1>4
  <2> HIDE DEF f, c
  <2>3. Listy(t) /\ ToSet(t) = ToSet(toClient[q]) \cup ToSet(f(q))
    BY <1>3, <2>1, ListyConcat
  <2> HIDE DEF t
  <2>4. Listy(t \o c(q)) /\ ToSet(t \o c(q)) = ToSet(t) \cup ToSet(c(q))
    BY <1>3, <2>3, ListyConcat
  <2> QED
    BY <1>3, <2>1, <2>2, <2>3, <2>4 DEF Told
<1>6. PerPerson(toClient)' /\ PerPerson(player)' /\ UNCHANGED Receiver(p)
  BY <1>1, <1>4 DEF PerPerson, Receiver, Inductive, Shaped
<1>7. \A x \in People : Addressed(x)'
  BY <1>1, <1>6, ServedAddressed DEF Turns
<1> QED
  BY <1>1, <1>5, <1>6, <1>7, TakesShaped DEF Inductive

-----------------------------------------------------------------------------
(* The theorem. *)

LEMMA StepInductive == ASSUME Inductive, [Next]_vars PROVE Inductive'
<1>1. CASE UNCHANGED vars
  BY <1>1 DEF vars, Inductive, Shaped, PerPerson, Addressed, Told, Receiver
<1>2. ASSUME NEW p \in People,
             \/ \E q \in People : OpenChat(p, q)
             \/ \E text \in Texts \cup {NoOne} : Enter(p, text)
             \/ Escape(p) \/ Cancel(p)
      PROVE  Inductive'
  BY <1>2, TypingInductive
<1>3. ASSUME NEW p \in People, ShowHistory(p) \/ Misreads(p) \/ ShowList(p) \/ Thread(p)
      PROVE  Inductive'
  BY <1>3, ReadingInductive
<1>4. ASSUME NEW p \in People, Serve(p) PROVE Inductive'
  BY <1>4, TurnInductive, AnswerInductive, SendMessagesInductive DEF Serve
<1> QED
  BY <1>1, <1>2, <1>3, <1>4 DEF Next, Menu

\* The invariant above holds in every reachable state.
THEOREM InductiveHolds == Spec => []Inductive
BY InitInductive, StepInductive, PTL DEF Spec

\* The server sends a message on to its two people only (sendMessages), for any
\* number of people that open and leave chats with each other at any time.
THEOREM PrivateHolds == Spec => []Private
<1>1. Inductive => Private
  BY DEF Inductive, Private, Told, Concerns, ToSet
<1> QED
  BY <1>1, InductiveHolds, PTL
-----------------------------------------------------------------------------
(* What a sequence holds, and in which order.                                *)

LEMMA ToSetIs ==
    ASSUME NEW M, NEW s \in Seq(M)
    PROVE  /\ ToSet(s) = {s[i] : i \in 1..Len(s)} /\ ToSet(s) \subseteq M
           /\ Len(s) \in Nat /\ DOMAIN s = 1..Len(s)
BY DEF ToSet

LEMMA ToSetAppend ==
    ASSUME NEW M, NEW s \in Seq(M), NEW x \in M
    PROVE  /\ Append(s, x) \in Seq(M) /\ Len(Append(s, x)) = Len(s) + 1
           /\ \A i \in 1..Len(s) : Append(s, x)[i] = s[i]
           /\ Append(s, x)[Len(s) + 1] = x
           /\ ToSet(Append(s, x)) = ToSet(s) \cup {x}
<1>1. /\ Append(s, x) \in Seq(M) /\ Len(s) \in Nat /\ Len(Append(s, x)) = Len(s) + 1
      /\ \A i \in 1..Len(s) : Append(s, x)[i] = s[i]
      /\ Append(s, x)[Len(s) + 1] = x
  OBVIOUS
<1>2. /\ ToSet(s) = {s[i] : i \in 1..Len(s)}
      /\ ToSet(Append(s, x)) = {Append(s, x)[i] : i \in 1..Len(s) + 1}
  BY <1>1, ToSetIs
<1> QED
  BY <1>1, <1>2

\* The elements of s come in the order R.
InRow(R, s) == \A i, j \in 1..Len(s) : i < j => <<s[i], s[j]>> \in R

LEMMA InRowAppend ==
    ASSUME NEW M, NEW s \in Seq(M), NEW x \in M, NEW R, InRow(R, s),
           \A y \in ToSet(s) : <<y, x>> \in R
    PROVE  InRow(R, Append(s, x))
<1>1. /\ Len(s) \in Nat /\ Len(Append(s, x)) = Len(s) + 1
      /\ \A i \in 1..Len(s) : Append(s, x)[i] = s[i] /\ s[i] \in ToSet(s)
      /\ Append(s, x)[Len(s) + 1] = x
  BY ToSetAppend, ToSetIs
<1> QED
  BY <1>1 DEF InRow

LEMMA InRowTail ==
    ASSUME NEW M, NEW s \in Seq(M), s # <<>>, NEW R, InRow(R, s)
    PROVE  /\ Tail(s) \in Seq(M) /\ Head(s) \in ToSet(s) /\ Head(s) = s[1]
           /\ ToSet(s) = ToSet(Tail(s)) \cup {Head(s)}
           /\ InRow(R, Tail(s)) /\ \A y \in ToSet(Tail(s)) : <<Head(s), y>> \in R
<1>1. /\ Tail(s) \in Seq(M) /\ Len(s) \in Nat \ {0} /\ Len(Tail(s)) = Len(s) - 1
      /\ \A i \in 1..Len(s) - 1 : Tail(s)[i] = s[i + 1]
      /\ Head(s) = s[1]
  OBVIOUS
<1>2. /\ ToSet(s) = {s[i] : i \in 1..Len(s)}
      /\ ToSet(Tail(s)) = {Tail(s)[i] : i \in 1..Len(s) - 1}
  BY <1>1, ToSetIs
<1>3. ToSet(s) = ToSet(Tail(s)) \cup {Head(s)}
  <2>1. ASSUME NEW i \in 1..Len(s) PROVE s[i] \in ToSet(Tail(s)) \cup {Head(s)}
    <3>1. CASE i > 1
      <4>1. i - 1 \in 1..Len(s) - 1 /\ Tail(s)[i - 1] = s[i]
        BY <1>1, <3>1
      <4> QED
        BY <1>2, <4>1
    <3> QED
      BY <1>1, <3>1
  <2>2. ASSUME NEW i \in 1..Len(s) - 1 PROVE Tail(s)[i] \in ToSet(s)
    BY <1>1, <1>2
  <2> QED
    BY <1>1, <1>2, <2>1, <2>2
<1>4. InRow(R, Tail(s))
  BY <1>1 DEF InRow
<1>5. ASSUME NEW y \in ToSet(Tail(s)) PROVE <<Head(s), y>> \in R
  <2>1. PICK i \in 1..Len(s) - 1 : y = s[i + 1]
    BY <1>1, <1>2
  <2>2. 1 \in 1..Len(s) /\ i + 1 \in 1..Len(s) /\ 1 < i + 1
    BY <1>1
  <2> QED
    BY <1>1, <2>1, <2>2 DEF InRow
<1> QED
  BY <1>1, <1>2, <1>3, <1>4, <1>5

LEMMA ToSetTail ==
    ASSUME NEW M, NEW s \in Seq(M), s # <<>>
    PROVE  /\ Tail(s) \in Seq(M) /\ Head(s) \in M /\ Head(s) = s[1]
           /\ ToSet(s) = ToSet(Tail(s)) \cup {Head(s)}
<1>1. InRow(M \X M, s)
  BY DEF InRow
<1> QED
  BY <1>1, InRowTail

-----------------------------------------------------------------------------
(* The screen keeps the last lines.                                          *)

LEMMA LastOfIs ==
    ASSUME NEW M, NEW s \in Seq(M)
    PROVE  /\ LastOf(s) \in Seq(M) /\ Len(LastOf(s)) \in Nat
           /\ Len(LastOf(s)) <= MAX_CHAT_MESSAGES
           /\ ToSet(LastOf(s)) \subseteq ToSet(s)
           /\ Len(LastOf(s)) < MAX_CHAT_MESSAGES => LastOf(s) = s
           /\ \A R : InRow(R, s) => InRow(R, LastOf(s))
<1> DEFINE N == Len(s)
           d == Len(s) - MAX_CHAT_MESSAGES
           t == SubSeq(s, d + 1, N)
<1>1. N \in Nat /\ MAX_CHAT_MESSAGES \in Nat \ {0} /\ d \in Int
  BY ChatAssumption
<1>2. CASE N <= MAX_CHAT_MESSAGES
  BY <1>1, <1>2 DEF LastOf
<1>3. CASE N > MAX_CHAT_MESSAGES
  <2>1. d \in Nat /\ d + 1 \in 1..N /\ N - d = MAX_CHAT_MESSAGES
    BY <1>1, <1>3
  <2>2. LastOf(s) = t
    BY <1>1, <1>3 DEF LastOf
  <2>3. t \in Seq(M) /\ Len(t) = MAX_CHAT_MESSAGES /\ \A i \in 1..Len(t) : t[i] = s[d + i]
    <3>1. \A i \in d + 1..N : s[i] \in M
      BY <1>1, <2>1
    <3>2. /\ t \in Seq(M)
          /\ Len(t) = IF d + 1 <= N THEN N - (d + 1) + 1 ELSE 0
          /\ \A i \in 1..N - (d + 1) + 1 : t[i] = s[(d + 1) + i - 1]
      <4> HIDE DEF d, N
      <4> QED
        BY <1>1, <2>1, <3>1, SubSeqProperties DEF N
    <3>3. Len(t) = MAX_CHAT_MESSAGES
      BY <1>1, <2>1, <3>2
    <3>4. ASSUME NEW i \in 1..Len(t) PROVE t[i] = s[d + i]
      <4>1. i \in 1..N - (d + 1) + 1 /\ (d + 1) + i - 1 = d + i
        BY <1>1, <2>1, <3>3
      <4> QED
        BY <3>2, <4>1
    <3> QED
      BY <3>2, <3>3, <3>4
  <2> HIDE DEF t
  <2>4. ToSet(t) \subseteq ToSet(s)
    <3>1. /\ ToSet(s) = {s[i] : i \in 1..N}
          /\ ToSet(t) = {t[i] : i \in 1..Len(t)}
      BY <2>3, ToSetIs
    <3>2. \A i \in 1..Len(t) : d + i \in 1..N
      BY <1>1, <2>1, <2>3
    <3> HIDE DEF d, N
    <3> QED
      BY <2>3, <3>1, <3>2
  <2>5. ASSUME NEW R, InRow(R, s) PROVE InRow(R, t)
    <3>1. ASSUME NEW i \in 1..Len(t), NEW j \in 1..Len(t), i < j PROVE <<t[i], t[j]>> \in R
      <4>1. d + i \in 1..N /\ d + j \in 1..N /\ d + i < d + j
        BY <1>1, <2>1, <2>3, <3>1
      <4>2. <<s[d + i], s[d + j]>> \in R
        BY <2>5, <4>1 DEF InRow
      <4> QED
        BY <2>3, <4>2
    <3> QED
      BY <3>1 DEF InRow
  <2> QED
    BY <1>1, <2>2, <2>3, <2>4, <2>5
<1> QED
  BY <1>1, <1>2, <1>3

LEMMA PushedIs ==
    ASSUME NEW M, NEW s \in Seq(M), NEW x \in M
    PROVE  /\ Pushed(s, x) \in Seq(M) /\ Len(Pushed(s, x)) \in Nat
           /\ Len(Pushed(s, x)) <= MAX_CHAT_MESSAGES
           /\ ToSet(Pushed(s, x)) \subseteq ToSet(s) \cup {x}
           /\ Len(Pushed(s, x)) < MAX_CHAT_MESSAGES =>
                /\ Len(s) < MAX_CHAT_MESSAGES
                /\ ToSet(Pushed(s, x)) = ToSet(s) \cup {x}
           /\ \A R : InRow(R, s) /\ (\A y \in ToSet(s) : <<y, x>> \in R) => InRow(R, Pushed(s, x))
<1> DEFINE t == Append(s, x)
<1>1. t \in Seq(M) /\ Len(s) \in Nat /\ Len(t) = Len(s) + 1 /\ ToSet(t) = ToSet(s) \cup {x}
  BY ToSetAppend
<1>2. \A R : InRow(R, s) /\ (\A y \in ToSet(s) : <<y, x>> \in R) => InRow(R, t)
  BY InRowAppend
<1>3. Pushed(s, x) = LastOf(t) /\ MAX_CHAT_MESSAGES \in Nat \ {0}
  BY ChatAssumption DEF Pushed
<1> HIDE DEF t
<1>4. /\ LastOf(t) \in Seq(M) /\ Len(LastOf(t)) \in Nat
      /\ Len(LastOf(t)) <= MAX_CHAT_MESSAGES
      /\ ToSet(LastOf(t)) \subseteq ToSet(t)
      /\ Len(LastOf(t)) < MAX_CHAT_MESSAGES => LastOf(t) = t
      /\ \A R : InRow(R, t) => InRow(R, LastOf(t))
  BY <1>1, LastOfIs
<1> QED
  BY <1>1, <1>2, <1>3, <1>4

-----------------------------------------------------------------------------
(* The history of two people.                                                *)

\* loadMessageHistory: the rows of the table between p and q, in its order.
LEMMA HistoryIs ==
    ASSUME NEW p, NEW q, table \in Seq(ChatMessages)
    PROVE  /\ History(p, q) \in Seq(ChatMessages)
           /\ ToSet(History(p, q)) = {m \in ToSet(table) : Between(p, q, m)}
           /\ \A R : InRow(R, table) => InRow(R, History(p, q))
<1> DEFINE N == Len(table)
           M == Seq(ChatMessages)
           pass == [x \in (1..N) \X M |->
                      IF Between(p, q, table[x[1]]) THEN Append(x[2], table[x[1]]) ELSE x[2]]
           Rows(f) == f = [i \in 0..N |->
                        IF i = 0 THEN <<>>
                        ELSE IF Between(p, q, table[i]) THEN Append(f[i - 1], table[i])
                        ELSE f[i - 1]]
<1>1. N \in Nat /\ \A n \in 1..N : table[n] \in ChatMessages
  OBVIOUS
<1>2. <<>> \in M /\ pass \in [(1..N) \X M -> M]
  <2>1. ASSUME NEW x \in (1..N) \X M PROVE pass[x] \in M
    <3>1. x[1] \in 1..N /\ x[2] \in M /\ table[x[1]] \in ChatMessages
      BY <1>1
    <3> QED
      BY <3>1
  <2> QED
    BY <2>1
<1>3. \E f \in [0..N -> M] : IsTrace(f, N, <<>>, pass)
  <2>1. IsLoop(N, M, <<>>, pass)
    BY <1>1, <1>2 DEF IsLoop
  <2> HIDE DEF N, M, pass
  <2> QED
    BY <2>1, Iteration
<1>4. PICK f0 \in [0..N -> M] : IsTrace(f0, N, <<>>, pass)
  BY <1>3
<1>5. Rows(f0)
  <2>1. \A i \in 1..N : i - 1 \in 0..N /\ <<i, f0[i - 1]>> \in (1..N) \X M
    <3> HIDE DEF M, N
    <3> QED
      BY <1>1
  <2>2. \A i \in 1..N : pass[<<i, f0[i - 1]>>] =
          IF Between(p, q, table[i]) THEN Append(f0[i - 1], table[i]) ELSE f0[i - 1]
    BY <2>1
  <2>3. f0 = [n \in 0..N |-> IF n = 0 THEN <<>> ELSE pass[<<n, f0[n - 1]>>]]
    BY <1>4 DEF IsTrace
  <2>4. \A n \in 0..N : n # 0 => n \in 1..N
    BY <1>1
  <2> HIDE DEF pass, N, M
  <2> QED
    BY <2>2, <2>3, <2>4
<1>6. History(p, q) = (CHOOSE f : Rows(f))[N]
  BY DEF History
<1>7. PICK f : Rows(f) /\ History(p, q) = f[N]
  BY <1>5, <1>6
<1>8. /\ f[0] = <<>>
      /\ \A i \in 1..N : f[i] = IF Between(p, q, table[i]) THEN Append(f[i - 1], table[i])
                                ELSE f[i - 1]
  <2>1. 0 \in 0..N /\ \A i \in 1..N : i \in 0..N /\ i # 0
    BY <1>1
  <2> HIDE DEF N
  <2> QED
    BY <1>7, <2>1
<1> HIDE DEF Rows, pass
<1> DEFINE Upto(i) == {table[k] : k \in 1..i}
           Good(i) == /\ f[i] \in M
                      /\ ToSet(f[i]) = {m \in Upto(i) : Between(p, q, m)}
                      /\ \A R : InRow(R, table) => InRow(R, f[i])
           T == {i \in 0..N : Good(i)}
<1>9. 0 \in T
  <2>1. Len(<<>>) = 0 /\ ToSet(<<>>) = {} /\ \A R : InRow(R, <<>>)
    BY DEF ToSet, InRow
  <2>2. Upto(0) = {} /\ 0 \in 0..N
    BY <1>1
  <2> HIDE DEF Upto, M, N
  <2>3. Good(0)
    BY <1>2, <1>8, <2>1, <2>2
  <2> QED
    BY <2>2, <2>3
<1>10. ASSUME NEW i \in 0..N - 1, i \in T PROVE i + 1 \in T
  <2> DEFINE j == i + 1
  <2>1. j \in 1..N /\ j - 1 = i /\ i \in 0..N /\ j \in 0..N /\ table[j] \in ChatMessages /\ i \in Nat
    BY <1>1
  <2>2. Good(i)
    BY <1>10
  <2>3. f[j] = IF Between(p, q, table[j]) THEN Append(f[i], table[j]) ELSE f[i]
    BY <1>8, <2>1
  <2>4. Upto(j) = Upto(i) \cup {table[j]}
    BY <2>1
  <2>5. CASE ~Between(p, q, table[j])
    <3>1. f[j] = f[i]
      BY <2>3, <2>5
    <3> HIDE DEF Upto, j
    <3>2. Good(j)
      BY <2>2, <2>4, <2>5, <3>1
    <3> QED
      BY <2>1, <3>2 DEF j
  <2>6. CASE Between(p, q, table[j])
    <3>1. f[j] = Append(f[i], table[j])
      BY <2>3, <2>6
    <3>2. f[j] \in M /\ ToSet(f[j]) = ToSet(f[i]) \cup {table[j]}
      <4> HIDE DEF j, Upto
      <4> QED
        BY <2>1, <2>2, <3>1, ToSetAppend
    <3>3. ASSUME NEW R, InRow(R, table) PROVE InRow(R, f[j])
      <4>1. ASSUME NEW y \in ToSet(f[i]) PROVE <<y, table[j]>> \in R
        <5>1. PICK k \in 1..i : y = table[k]
          BY <2>2
        <5>2. k \in 1..N /\ k < j
          BY <2>1
        <5> QED
          BY <2>1, <3>3, <5>1, <5>2 DEF InRow
      <4>2. InRow(R, f[i])
        BY <2>2, <3>3
      <4> HIDE DEF j, Upto
      <4> QED
        BY <2>1, <2>2, <3>1, <4>1, <4>2, InRowAppend
    <3> HIDE DEF Upto, j
    <3>4. Good(j)
      BY <2>2, <2>4, <2>6, <3>2, <3>3
    <3> QED
      BY <2>1, <3>4 DEF j
  <2> QED
    BY <2>5, <2>6
<1>11. Good(N)
  <2> HIDE DEF Good
  <2>1. 0..N \subseteq T
    <3> HIDE DEF T
    <3> QED
      BY <1>1, <1>9, <1>10, InductionUpTo
  <2> QED
    BY <1>1, <2>1
<1>12. Upto(N) = ToSet(table)
  BY <1>1, ToSetIs
<1> QED
  BY <1>7, <1>11, <1>12
-----------------------------------------------------------------------------
(* Types.                                                                    *)

\* Who opens a chat or is in it has chosen a friend, and a thread that got an
\* answer has one.
Facing(p) == at[p] \in {"opening", "chat"} => partner[p] \in People \ {p}
Holding(p) == thread[p].pc = "got" => thread[p].hand \in Answers

Typed == TypeOK /\ \A p \in People : Facing(p) /\ Holding(p)

Threads == [pc : {"none", "waiting", "got", "cancelled"}, hand : Answers \cup {NoOne}]

LEMMA TypedInit == Init => Typed
<1> SUFFICES ASSUME Init PROVE Typed
  OBVIOUS
<1>1. ASSUME NEW p \in People PROVE Cardinality(SentBy(p, Saved)) \in Nat
  <2>1. Len(Saved) \in Nat /\ DOMAIN Saved = 1..Len(Saved)
    BY ChatAssumption
  <2>2. IsFiniteSet(1..Len(Saved)) /\ SentBy(p, Saved) \subseteq 1..Len(Saved)
    BY <2>1, FS_Interval DEF SentBy
  <2> QED
    BY <2>2, FS_Subset, FS_CardinalityType
<1>2. \A p \in People : Len(screen[p]) <= MAX_CHAT_MESSAGES
  BY ChatAssumption DEF Init
<1>3. Asleep \in Threads
  BY DEF Asleep, Threads
<1>4. typed \in [People -> Nat]
  BY <1>1 DEF Init
<1>5. TypeOK
  BY <1>2, <1>3, <1>4, ChatAssumption DEF Init, TypeOK, Threads, Places
<1> QED
  BY <1>5 DEF Typed, Init, Facing, Holding, Asleep

LEMMA RequestsAre ==
    /\ \A q \in People : /\ [type |-> "INCHATROOM", who |-> q] \in Requests
                         /\ [type |-> "GET_MESSAGE", who |-> q] \in Requests
    /\ \A m \in ChatMessages : [type |-> "SEND_MESSAGE", m |-> m] \in Requests
    /\ [type |-> "LEAVE_CHAT"] \in Requests /\ [type |-> "GET_FRIEND_LIST"] \in Requests
    /\ \A r \in Requests :
         /\ r.type \in {"INCHATROOM", "GET_MESSAGE", "SEND_MESSAGE", "LEAVE_CHAT", "GET_FRIEND_LIST"}
         /\ r.type \in {"INCHATROOM", "GET_MESSAGE"} => r.who \in People
         /\ r.type = "SEND_MESSAGE" =>
              r.m \in ChatMessages /\ r = [type |-> "SEND_MESSAGE", m |-> r.m]
BY DEF Requests

LEMMA RequestLists ==
    \A x, y \in Requests : <<x>> \in Seq(Requests) /\ <<x, y>> \in Seq(Requests)
OBVIOUS

LEMMA AnswersAre ==
    /\ \A rows \in Seq(ChatMessages) : [type |-> "history", rows |-> rows] \in Answers
    /\ \A m \in ChatMessages : [type |-> "message", m |-> m] \in Answers
    /\ [type |-> "confirm"] \in Answers /\ [type |-> "list"] \in Answers
    /\ \A a \in Answers :
         /\ a.type \in {"history", "message", "confirm", "list"}
         /\ a.type = "history" => a.rows \in Seq(ChatMessages)
         /\ a.type = "message" =>
              a.m \in ChatMessages /\ a = [type |-> "message", m |-> a.m]
BY DEF Answers

LEMMA LinesAre ==
    /\ ChatMessages \subseteq Lines /\ \A p \in People : Blank(p) \in Lines
    /\ \A m \in ChatMessages : m.from \in People /\ m.to \in People /\ m.n \in Nat \ {0}
    /\ \A p \in People : Blank(p).from = p /\ Blank(p).n = 0
    /\ \A l \in Lines : l.from \in People /\ l.n \in Nat
BY DEF Lines, ChatMessages, Blank

LEMMA SendType ==
    ASSUME Typed, NEW p \in People, NEW msgs \in Seq(Requests), Send(p, msgs)
    PROVE  /\ toServer' \in [People -> Seq(Requests)]
           /\ toServer'[p] = toServer[p] \o msgs
           /\ \A q \in People : q # p => toServer'[q] = toServer[q]
BY DEF Typed, TypeOK, Send

\* ENTER, with a text.
Written(p, text) == [from |-> p, to |-> partner[p], n |-> typed[p] + 1, text |-> text]

LEMMA EnterIs ==
    ASSUME Typed, NEW p \in People, NEW text \in Texts \cup {NoOne}, Enter(p, text)
    PROVE  /\ at[p] = "chat" /\ UNCHANGED <<Server, toClient, at, partner, thread, chatMutex>>
           /\ typed' \in [People -> Nat] /\ typed'[p] = typed[p] + 1
           /\ \A q \in People : q # p => typed'[q] = typed[q] /\ screen'[q] = screen[q]
           /\ screen' \in [People -> Seq(Lines)]
           /\ \/ /\ Written(p, text) \in ChatMessages
                 /\ screen'[p] = Pushed(screen[p], Written(p, text))
                 /\ Send(p, <<[type |-> "SEND_MESSAGE", m |-> Written(p, text)]>>)
              \/ /\ screen'[p] = Pushed(screen[p], Blank(p))
                 /\ UNCHANGED toServer
<1> DEFINE m == Written(p, text)
<1>1. /\ at[p] = "chat" /\ UNCHANGED <<Server, toClient, at, partner, thread, chatMutex>>
      /\ typed' = [typed EXCEPT ![p] = @ + 1]
      /\ \/ /\ text # NoOne
            /\ screen' = [screen EXCEPT ![p] = Pushed(@, m)]
            /\ Send(p, <<[type |-> "SEND_MESSAGE", m |-> m]>>)
         \/ /\ screen' = [screen EXCEPT ![p] = Pushed(@, Blank(p))]
            /\ UNCHANGED toServer
  BY DEF Enter, Written
<1>2. /\ typed \in [People -> Nat] /\ screen \in [People -> Seq(Lines)]
      /\ partner[p] \in People
  BY <1>1 DEF Typed, TypeOK, Facing
<1>3. text # NoOne => m \in ChatMessages
  BY <1>2 DEF ChatMessages, Written
<1> HIDE DEF m
<1>4. /\ Pushed(screen[p], Blank(p)) \in Seq(Lines)
      /\ text # NoOne => Pushed(screen[p], m) \in Seq(Lines)
  BY <1>2, <1>3, LinesAre, PushedIs
<1>5. /\ typed' \in [People -> Nat] /\ typed'[p] = typed[p] + 1
      /\ \A q \in People : q # p => typed'[q] = typed[q]
  BY <1>1, <1>2
<1>6. CASE /\ text # NoOne
           /\ screen' = [screen EXCEPT ![p] = Pushed(@, m)]
           /\ Send(p, <<[type |-> "SEND_MESSAGE", m |-> m]>>)
  <2>1. /\ screen' \in [People -> Seq(Lines)] /\ screen'[p] = Pushed(screen[p], m)
        /\ \A q \in People : q # p => screen'[q] = screen[q]
    BY <1>2, <1>4, <1>6
  <2> QED
    BY <1>1, <1>3, <1>5, <1>6, <2>1 DEF m
<1>7. CASE screen' = [screen EXCEPT ![p] = Pushed(@, Blank(p))] /\ UNCHANGED toServer
  <2>1. /\ screen' \in [People -> Seq(Lines)] /\ screen'[p] = Pushed(screen[p], Blank(p))
        /\ \A q \in People : q # p => screen'[q] = screen[q]
    BY <1>2, <1>4, <1>7
  <2> QED
    BY <1>1, <1>5, <1>7, <2>1 DEF m
<1> QED
  BY <1>1, <1>6, <1>7

\* The client types or leaves.
LEMMA TypingTyped ==
    ASSUME Typed, NEW p \in People,
           \/ \E q \in People : OpenChat(p, q)
           \/ \E text \in Texts \cup {NoOne} : Enter(p, text)
           \/ Escape(p) \/ Cancel(p)
    PROVE  Typed'
<1>1. ASSUME NEW q \in People, OpenChat(p, q) PROVE Typed'
  <2>1. Send(p, <<[type |-> "INCHATROOM", who |-> q], [type |-> "GET_MESSAGE", who |-> q]>>)
    BY <1>1 DEF OpenChat
  <2>2. toServer' \in [People -> Seq(Requests)]
    BY <2>1, RequestsAre, RequestLists, SendType
  <2>3. q # p
    BY <1>1, ChatAssumption DEF OpenChat
  <2>4. /\ at' \in [People -> Places] /\ partner' \in [People -> People \cup {NoOne}]
        /\ partner'[p] = q
        /\ \A x \in People : x # p => at'[x] = at[x] /\ partner'[x] = partner[x]
    BY <1>1 DEF Typed, TypeOK, OpenChat, Goes, Places
  <2>5. UNCHANGED <<Server, toClient, screen, thread, chatMutex, typed>>
    BY <1>1 DEF OpenChat
  <2>6. TypeOK'
    BY <2>2, <2>4, <2>5 DEF Typed, TypeOK, Server
  <2> QED
    BY <2>3, <2>4, <2>5, <2>6 DEF Typed, Facing, Holding
<1>2. ASSUME NEW text \in Texts \cup {NoOne}, Enter(p, text) PROVE Typed'
  <2>1. toServer' \in [People -> Seq(Requests)]
    <3>1. CASE UNCHANGED toServer
      BY <3>1 DEF Typed, TypeOK
    <3>2. CASE /\ Written(p, text) \in ChatMessages
               /\ Send(p, <<[type |-> "SEND_MESSAGE", m |-> Written(p, text)]>>)
      BY <3>2, RequestsAre, RequestLists, SendType
    <3> QED
      BY <1>2, <3>1, <3>2, EnterIs
  <2>2. screen[p] \in Seq(Lines)
    BY DEF Typed, TypeOK
  <2>3. Len(screen'[p]) <= MAX_CHAT_MESSAGES
    <3>1. \A x \in Lines : Len(Pushed(screen[p], x)) <= MAX_CHAT_MESSAGES
      BY <2>2, PushedIs
    <3> QED
      BY <1>2, <3>1, EnterIs, LinesAre
  <2>4. \A x \in People : x # p => screen'[x] = screen[x]
    BY <1>2, EnterIs
  <2>5. TypeOK'
    BY <1>2, <2>1, <2>3, <2>4, EnterIs DEF Typed, TypeOK, Server
  <2>6. UNCHANGED <<at, partner, thread>>
    BY <1>2 DEF Enter
  <2> QED
    BY <2>5, <2>6 DEF Typed, Facing, Holding
<1>3. CASE Escape(p)
  <2>1. toServer' \in [People -> Seq(Requests)]
    BY <1>3, RequestsAre, RequestLists, SendType DEF Escape
  <2>2. /\ at' \in [People -> Places] /\ at'[p] = "leaving"
        /\ \A x \in People : x # p => at'[x] = at[x]
    BY <1>3 DEF Typed, TypeOK, Escape, Goes, Places
  <2>3. UNCHANGED <<Server, toClient, partner, screen, thread, chatMutex, typed>>
    BY <1>3 DEF Escape
  <2>4. TypeOK'
    BY <2>1, <2>2, <2>3 DEF Typed, TypeOK, Server
  <2> QED
    BY <2>2, <2>3, <2>4 DEF Typed, Facing, Holding
<1>4. CASE Cancel(p)
  <2>1. toServer' \in [People -> Seq(Requests)]
    BY <1>4, RequestsAre, RequestLists, SendType DEF Cancel
  <2>2. /\ at' \in [People -> Places] /\ at'[p] = "listing"
        /\ \A x \in People : x # p => at'[x] = at[x]
    BY <1>4 DEF Typed, TypeOK, Cancel, Goes, Places
  <2>3. UNCHANGED <<Server, toClient, partner, chatMutex, typed>>
    BY <1>4 DEF Cancel
  <2>4. /\ thread' \in [People -> Threads] /\ thread'[p].pc # "got"
        /\ \A x \in People : x # p => thread'[x] = thread[x]
    BY <1>4 DEF Typed, TypeOK, Cancel, Threads, Asleep
  <2>5. /\ screen' \in [People -> Seq(Lines)]
        /\ \A x \in People : Len(screen'[x]) <= MAX_CHAT_MESSAGES
    BY <1>4, ChatAssumption DEF Typed, TypeOK, Cancel
  <2>6. TypeOK'
    BY <2>1, <2>2, <2>3, <2>4, <2>5 DEF Typed, TypeOK, Server, Threads
  <2> QED
    BY <2>2, <2>3, <2>4, <2>6 DEF Typed, Facing, Holding
<1> QED
  BY <1>1, <1>2, <1>3, <1>4

\* The client reads an answer.
LEMMA ReadType ==
    ASSUME Typed, NEW p \in People, toClient[p] # <<>>,
           toClient' = [toClient EXCEPT ![p] = Tail(@)]
    PROVE  /\ toClient' \in [People -> Seq(Answers)]
           /\ toClient'[p] = Tail(toClient[p]) /\ Head(toClient[p]) \in Answers
           /\ \A q \in People : q # p => toClient'[q] = toClient[q]
<1>1. toClient \in [People -> Seq(Answers)] /\ toClient[p] \in Seq(Answers)
  BY DEF Typed, TypeOK
<1>2. Tail(toClient[p]) \in Seq(Answers) /\ Head(toClient[p]) \in Answers
  BY <1>1
<1> QED
  BY <1>1, <1>2

LEMMA ReadingTyped ==
    ASSUME Typed, NEW p \in People,
           ShowHistory(p) \/ Misreads(p) \/ ShowList(p) \/ Thread(p)
    PROVE  Typed'
<1>1. CASE ShowHistory(p)
  <2>1. /\ toClient[p] # <<>> /\ toClient' = [toClient EXCEPT ![p] = Tail(@)]
        /\ Head(toClient[p]).type = "history"
    BY <1>1 DEF ShowHistory, Reads
  <2>2. /\ toClient' \in [People -> Seq(Answers)]
        /\ Head(toClient[p]).rows \in Seq(ChatMessages)
    BY <2>1, ReadType, AnswersAre
  <2>3. /\ LastOf(Head(toClient[p]).rows) \in Seq(ChatMessages)
        /\ Len(LastOf(Head(toClient[p]).rows)) <= MAX_CHAT_MESSAGES
    BY <2>2, LastOfIs
  <2>4. LastOf(Head(toClient[p]).rows) \in Seq(Lines)
    BY <2>3, LinesAre
  <2>5. /\ screen' \in [People -> Seq(Lines)]
        /\ \A x \in People : Len(screen'[x]) <= MAX_CHAT_MESSAGES
    BY <1>1, <2>3, <2>4 DEF Typed, TypeOK, ShowHistory
  <2>6. /\ thread' \in [People -> Threads] /\ thread'[p].pc = "waiting"
        /\ \A x \in People : x # p => thread'[x] = thread[x]
    BY <1>1 DEF Typed, TypeOK, ShowHistory, Threads, Waiting
  <2>7. /\ at' \in [People -> Places] /\ at'[p] = "chat" /\ at[p] = "opening"
        /\ \A x \in People : x # p => at'[x] = at[x]
    BY <1>1 DEF Typed, TypeOK, ShowHistory, Goes, Places
  <2>8. UNCHANGED <<Server, toServer, partner, chatMutex, typed>>
    BY <1>1 DEF ShowHistory
  <2>9. TypeOK'
    BY <2>2, <2>5, <2>6, <2>7, <2>8 DEF Typed, TypeOK, Server, Threads
  <2> QED
    BY <2>6, <2>7, <2>8, <2>9 DEF Typed, Facing, Holding
<1>2. CASE Misreads(p)
  <2>1. /\ at' \in [People -> Places] /\ at'[p] = "broken"
        /\ \A x \in People : x # p => at'[x] = at[x]
    BY <1>2 DEF Typed, TypeOK, Misreads, Goes, Places
  <2>2. UNCHANGED <<Server, Streams, partner, screen, thread, chatMutex, typed>>
    BY <1>2 DEF Misreads
  <2> QED
    BY <2>1, <2>2 DEF Typed, TypeOK, Facing, Holding, Server, Streams
<1>3. CASE ShowList(p)
  <2>1. toClient' \in [People -> Seq(Answers)]
    BY <1>3, ReadType DEF ShowList, Reads
  <2>2. /\ at' \in [People -> Places] /\ at'[p] = "profile"
        /\ partner' \in [People -> People \cup {NoOne}]
        /\ \A x \in People : x # p => at'[x] = at[x] /\ partner'[x] = partner[x]
    BY <1>3 DEF Typed, TypeOK, ShowList, Goes, Places
  <2>3. UNCHANGED <<Server, toServer, screen, thread, chatMutex, typed>>
    BY <1>3 DEF ShowList
  <2> QED
    BY <2>1, <2>2, <2>3 DEF Typed, TypeOK, Facing, Holding, Server
<1>4. CASE ThreadRead(p)
  <2>1. toClient' \in [People -> Seq(Answers)] /\ Head(toClient[p]) \in Answers
    BY <1>4, ReadType DEF ThreadRead
  <2>2. /\ thread' \in [People -> Threads] /\ thread'[p].hand = Head(toClient[p])
        /\ \A x \in People : x # p => thread'[x] = thread[x]
    BY <1>4, <2>1 DEF Typed, TypeOK, ThreadRead, Threads
  <2>3. UNCHANGED <<Server, toServer, at, partner, screen, chatMutex, typed>>
    BY <1>4 DEF ThreadRead
  <2>4. TypeOK'
    BY <2>1, <2>2, <2>3 DEF Typed, TypeOK, Server, Threads
  <2> QED
    BY <2>1, <2>2, <2>3, <2>4 DEF Typed, Facing, Holding
<1>5. CASE ThreadShow(p)
  <2>1. /\ thread' \in [People -> Threads] /\ thread'[p].pc # "got"
        /\ \A x \in People : x # p => thread'[x] = thread[x]
    <3>1. PICK t \in {Waiting, Asleep} : thread' = [thread EXCEPT ![p] = t]
      BY <1>5 DEF ThreadShow
    <3>2. t \in Threads /\ t.pc # "got"
      BY <3>1 DEF Threads, Waiting, Asleep
    <3> QED
      BY <3>1, <3>2 DEF Typed, TypeOK, Threads
  <2>2. chatMutex' \in [People -> {"free", "lost"}]
    BY <1>5 DEF Typed, TypeOK, ThreadShow
  <2>3. /\ screen' \in [People -> Seq(Lines)]
        /\ \A x \in People : Len(screen'[x]) <= MAX_CHAT_MESSAGES
    <3>1. CASE UNCHANGED screen
      BY <3>1 DEF Typed, TypeOK
    <3>2. CASE thread[p].pc = "got" /\ screen' = [screen EXCEPT ![p] = Shown(p, thread[p].hand)]
      <4>1. screen[p] \in Seq(Lines) /\ thread[p].hand \in Answers
        BY <3>2 DEF Typed, TypeOK, Holding
      <4>2. thread[p].hand.type = "message" => thread[p].hand.m \in Lines
        BY <4>1, AnswersAre, LinesAre
      <4>3. /\ Shown(p, thread[p].hand) \in Seq(Lines)
            /\ Len(Shown(p, thread[p].hand)) <= MAX_CHAT_MESSAGES
        BY <4>1, <4>2, PushedIs DEF Shown, Typed, TypeOK
      <4> QED
        BY <3>2, <4>3 DEF Typed, TypeOK
    <3> QED
      BY <1>5, <3>1, <3>2 DEF ThreadShow
  <2>4. UNCHANGED <<Server, Streams, at, partner, typed>>
    BY <1>5 DEF ThreadShow
  <2>5. TypeOK'
    BY <2>1, <2>2, <2>3, <2>4 DEF Typed, TypeOK, Server, Streams, Threads
  <2> QED
    BY <2>1, <2>4, <2>5 DEF Typed, Facing, Holding
<1> QED
  BY <1>1, <1>2, <1>3, <1>4, <1>5 DEF Thread

\* The server takes a request.
LEMMA TakesType ==
    ASSUME Typed, NEW p \in People, NEW type, Takes(p, type)
    PROVE  /\ toServer' \in [People -> Seq(Requests)]
           /\ toServer[p] # <<>> /\ toServer'[p] = Tail(toServer[p])
           /\ Head(toServer[p]) \in Requests /\ Head(toServer[p]).type = type
           /\ \A q \in People : q # p => toServer'[q] = toServer[q]
           /\ UNCHANGED Client
<1>1. toServer \in [People -> Seq(Requests)] /\ toServer[p] \in Seq(Requests)
  BY DEF Typed, TypeOK
<1>2. /\ toServer[p] # <<>> /\ toServer' = [toServer EXCEPT ![p] = Tail(@)]
      /\ Head(toServer[p]).type = type /\ UNCHANGED Client
  BY DEF Takes
<1>3. Tail(toServer[p]) \in Seq(Requests) /\ Head(toServer[p]) \in Requests
  BY <1>1, <1>2
<1> QED
  BY <1>1, <1>2, <1>3

LEMMA AnswerType ==
    ASSUME Typed, NEW p \in People, NEW a \in Answers, Answer(p, a)
    PROVE  /\ toClient' \in [People -> Seq(Answers)]
           /\ toClient'[p] = Append(toClient[p], a)
           /\ \A q \in People : q # p => toClient'[q] = toClient[q]
BY DEF Typed, TypeOK, Answer

\* The server reads a message of p: what it sends to everybody.
Forward(p) == [type |-> "message", m |-> Head(toServer[p]).m]
Confirm == [type |-> "confirm"]

LEMMA SendMessagesIs ==
    ASSUME Typed, NEW p \in People, SendMessages(p)
    PROVE  /\ Takes(p, "SEND_MESSAGE") /\ UNCHANGED player
           /\ Head(toServer[p]).m \in ChatMessages
           /\ Forward(p) \in Answers /\ Confirm \in Answers
           /\ table' = Append(table, Head(toServer[p]).m)
           /\ toClient' \in [People -> Seq(Answers)]
           /\ \A q \in People :
                LET t == IF Hears(q, p) THEN Append(toClient[q], Forward(p)) ELSE toClient[q]
                IN  toClient'[q] = IF q = p THEN Append(t, Confirm) ELSE t
<1>1. /\ Takes(p, "SEND_MESSAGE") /\ UNCHANGED player
      /\ table' = Append(table, Head(toServer[p]).m)
      /\ toClient' = [q \in People |->
            (toClient[q] \o (IF Hears(q, p) THEN <<Forward(p)>> ELSE <<>>))
               \o (IF q = p THEN <<Confirm>> ELSE <<>>)]
  BY DEF SendMessages, Forward, Confirm
<1>2. Head(toServer[p]).m \in ChatMessages
  BY <1>1, TakesType, RequestsAre
<1>3. Forward(p) \in Answers /\ Confirm \in Answers
  BY <1>2, AnswersAre DEF Forward, Confirm
<1> DEFINE t(q) == IF Hears(q, p) THEN Append(toClient[q], Forward(p)) ELSE toClient[q]
<1>4. ASSUME NEW q \in People
      PROVE  /\ toClient'[q] = IF q = p THEN Append(t(q), Confirm) ELSE t(q)
             /\ toClient'[q] \in Seq(Answers)
  <2> DEFINE u == toClient[q] \o (IF Hears(q, p) THEN <<Forward(p)>> ELSE <<>>)
  <2>1. toClient[q] \in Seq(Answers)
    BY DEF Typed, TypeOK
  <2>2. /\ Append(toClient[q], Forward(p)) = toClient[q] \o <<Forward(p)>>
        /\ toClient[q] = toClient[q] \o <<>>
    BY <1>3, <2>1, AppendIsConcat
  <2>3. u = t(q)
    BY <2>2
  <2>4. t(q) \in Seq(Answers)
    BY <1>3, <2>1
  <2>5. toClient'[q] = u \o (IF q = p THEN <<Confirm>> ELSE <<>>)
    BY <1>1
  <2> HIDE DEF u, t
  <2>6. Append(t(q), Confirm) = t(q) \o <<Confirm>> /\ t(q) = t(q) \o <<>>
    BY <1>3, <2>4, AppendIsConcat
  <2>7. toClient'[q] = IF q = p THEN Append(t(q), Confirm) ELSE t(q)
    BY <2>3, <2>5, <2>6
  <2>8. Append(t(q), Confirm) \in Seq(Answers)
    BY <1>3, <2>4
  <2> QED
    BY <2>4, <2>7, <2>8
<1> QED
  BY <1>1, <1>2, <1>3, <1>4

LEMMA ServedTyped ==
    ASSUME Typed, NEW p \in People, NEW type, Takes(p, type),
           player' \in [People -> [isInChatRoom : BOOLEAN, receiver : People \cup {NoOne}]],
           table' \in Seq(ChatMessages), toClient' \in [People -> Seq(Answers)]
    PROVE  Typed'
<1>1. /\ toServer' \in [People -> Seq(Requests)]
      /\ UNCHANGED <<at, partner, screen, thread, chatMutex, typed>>
  BY TakesType DEF Client
<1>2. TypeOK'
  BY <1>1 DEF Typed, TypeOK
<1> QED
  BY <1>1, <1>2 DEF Typed, Facing, Holding

LEMMA ServeTyped ==
    ASSUME Typed, NEW p \in People, Serve(p)
    PROVE  Typed'
<1>1. CASE InChatRoom(p)
  <2>1. Takes(p, "INCHATROOM") /\ UNCHANGED <<table, toClient>>
    BY <1>1 DEF InChatRoom
  <2>2. player' \in [People -> [isInChatRoom : BOOLEAN, receiver : People \cup {NoOne}]]
    <3>1. Head(toServer[p]).who \in People
      BY <2>1, TakesType, RequestsAre
    <3> QED
      BY <1>1, <3>1 DEF InChatRoom, Typed, TypeOK
  <2> QED
    BY <2>1, <2>2, ServedTyped DEF Typed, TypeOK
<1>2. CASE LeaveChat(p)
  <2>1. Takes(p, "LEAVE_CHAT") /\ UNCHANGED <<table, toClient>>
    BY <1>2 DEF LeaveChat
  <2>2. player' \in [People -> [isInChatRoom : BOOLEAN, receiver : People \cup {NoOne}]]
    BY <1>2 DEF LeaveChat, Typed, TypeOK
  <2> QED
    BY <2>1, <2>2, ServedTyped DEF Typed, TypeOK
<1>3. CASE GetMessages(p)
  <2> DEFINE rows == History(p, Head(toServer[p]).who)
  <2>1. /\ Takes(p, "GET_MESSAGE") /\ UNCHANGED Server
        /\ Answer(p, [type |-> "history", rows |-> rows])
    BY <1>3 DEF GetMessages
  <2>2. rows \in Seq(ChatMessages)
    BY HistoryIs DEF Typed, TypeOK
  <2> HIDE DEF rows
  <2>3. toClient' \in [People -> Seq(Answers)]
    BY <2>1, <2>2, AnswersAre, AnswerType
  <2> QED
    BY <2>1, <2>3, ServedTyped DEF Typed, TypeOK, Server
<1>4. CASE SendMessages(p)
  <2>1. table' \in Seq(ChatMessages)
    <3>1. table' = Append(table, Head(toServer[p]).m) /\ Head(toServer[p]).m \in ChatMessages
      BY <1>4, SendMessagesIs
    <3> QED
      BY <3>1, ToSetAppend DEF Typed, TypeOK
  <2>2. Takes(p, "SEND_MESSAGE") /\ UNCHANGED player /\ toClient' \in [People -> Seq(Answers)]
    BY <1>4, SendMessagesIs
  <2> QED
    BY <2>1, <2>2, ServedTyped DEF Typed, TypeOK
<1>5. CASE GetFriendList(p)
  <2>1. /\ Takes(p, "GET_FRIEND_LIST") /\ UNCHANGED Server
        /\ Answer(p, [type |-> "list"])
    BY <1>5 DEF GetFriendList
  <2>2. toClient' \in [People -> Seq(Answers)]
    BY <2>1, AnswersAre, AnswerType
  <2> QED
    BY <2>1, <2>2, ServedTyped DEF Typed, TypeOK, Server
<1> QED
  BY <1>1, <1>2, <1>3, <1>4, <1>5 DEF Serve

LEMMA TypedNext == ASSUME Typed, [Next]_vars PROVE Typed'
<1>1. CASE UNCHANGED vars
  BY <1>1 DEF vars, Typed, TypeOK, Facing, Holding
<1>2. ASSUME NEW p \in People,
             \/ \E q \in People : OpenChat(p, q)
             \/ \E text \in Texts \cup {NoOne} : Enter(p, text)
             \/ Escape(p) \/ Cancel(p)
      PROVE  Typed'
  BY <1>2, TypingTyped
<1>3. ASSUME NEW p \in People, ShowHistory(p) \/ Misreads(p) \/ ShowList(p) \/ Thread(p)
      PROVE  Typed'
  BY <1>3, ReadingTyped
<1>4. ASSUME NEW p \in People, Serve(p) PROVE Typed'
  BY <1>4, ServeTyped
<1> QED
  BY <1>1, <1>2, <1>3, <1>4 DEF Next, Menu

\* Everything has its type, whatever travels and whatever a thread has in hand,
\* and no screen has more than MAX_CHAT_MESSAGES lines (ChatView).
THEOREM Types == Spec => []TypeOK
<1>1. Typed => TypeOK
  BY DEF Typed
<1> QED
  BY <1>1, TypedInit, TypedNext, PTL DEF Spec

-----------------------------------------------------------------------------
(* The order of one sender's messages, from its keyboard to the screens.     *)

Earlier == {e \in Lines \X Lines :
              e[1].from = e[2].from /\ e[1].n # 0 /\ e[2].n # 0 => e[1].n < e[2].n}

\* The messages an answer brings.
LinesOf(a) == IF a.type = "history" THEN ToSet(a.rows)
              ELSE IF a.type = "message" THEN {a.m} ELSE {}

Behind == {e \in Answers \X Answers :
             e[2].type = "message" => \A x \in LinesOf(e[1]) : <<x, e[2].m>> \in Earlier}

IsSend(r) == r.type = "SEND_MESSAGE"
Pending == {e \in Requests \X Requests : IsSend(e[1]) /\ IsSend(e[2]) => e[1].m.n < e[2].m.n}

\* The server has read message x, and not what its writer typed later.
Served(x) ==
    /\ x.n <= typed[x.from]
    /\ \A r \in ToSet(toServer[x.from]) : IsSend(r) => x.n < r.m.n

\* What is under way from p: its own messages, in order, and chats with others.
Script(p, s, n) ==
    /\ InRow(Pending, s)
    /\ \A r \in ToSet(s) :
         /\ IsSend(r) => r.m.from = p /\ r.m.n <= n
         /\ r.type = "INCHATROOM" => r.who # p

Writes(p) == Script(p, toServer[p], typed[p]) /\ player[p].receiver # p

Got(p) == thread[p].pc = "got"
Listens(p) == thread[p].pc \in {"waiting", "got"}
Unread(p) == ToSet(toClient[p]) \cup (IF Got(p) THEN {thread[p].hand} ELSE {})

Arrives(p, b) ==
    /\ b.type = "history" => InRow(Earlier, b.rows)
    /\ b.type = "message" => b.m.from # p
    /\ \A x \in LinesOf(b) : Served(x)

\* What is under way to p and what its screen shows: all of it served, but for
\* its own lines, and in the order in which p will see it.
Follows(p) ==
    /\ InRow(Behind, toClient[p])
    /\ Got(p) => \A b \in ToSet(toClient[p]) : <<thread[p].hand, b>> \in Behind
    /\ Listens(p) => \A l \in ToSet(screen[p]), b \in Unread(p) :
                       b.type = "message" => <<l, b.m>> \in Earlier
    /\ \A b \in Unread(p) : Arrives(p, b)
    /\ InRow(Earlier, screen[p])
    /\ \A l \in ToSet(screen[p]) : l.n <= typed[l.from] /\ (l.from # p => Served(l))

Ordered ==
    /\ Typed /\ InRow(Earlier, table) /\ \A x \in ToSet(table) : Served(x)
    /\ \A p \in People : Writes(p) /\ Follows(p)

LEMMA UnreadTyped ==
    ASSUME Typed, NEW p \in People
    PROVE  /\ Unread(p) \subseteq Answers /\ ToSet(toClient[p]) \subseteq Answers
           /\ ToSet(toServer[p]) \subseteq Requests
           /\ ToSet(screen[p]) \subseteq Lines /\ ToSet(table) \subseteq ChatMessages
<1>1. /\ toClient[p] \in Seq(Answers) /\ toServer[p] \in Seq(Requests)
      /\ screen[p] \in Seq(Lines) /\ table \in Seq(ChatMessages)
  BY DEF Typed, TypeOK
<1> QED
  BY <1>1, ToSetIs DEF Unread, Got, Typed, Holding

LEMMA LinesOfTyped ==
    ASSUME NEW a \in Answers
    PROVE  LinesOf(a) \subseteq ChatMessages /\ LinesOf(a) \subseteq Lines
<1>1. /\ a.type = "history" => a.rows \in Seq(ChatMessages)
      /\ a.type = "message" => a.m \in ChatMessages
  BY AnswersAre
<1>2. a.type = "history" => ToSet(a.rows) \subseteq ChatMessages
  BY <1>1, ToSetIs
<1> QED
  BY <1>1, <1>2, LinesAre DEF LinesOf

\* Served messages stay so: who types counts on.
Counts ==
    \A f \in People :
       /\ typed[f] <= typed'[f]
       /\ \A r \in ToSet(toServer'[f]) : IsSend(r) => r \in ToSet(toServer[f]) \/ r.m.n > typed[f]

LEMMA ServedStays ==
    ASSUME Typed, Typed', Counts, NEW x \in Lines, Served(x)
    PROVE  Served(x)'
<1>1. x.from \in People /\ x.n \in Nat
  BY LinesAre
<1>2. typed[x.from] \in Nat /\ typed'[x.from] \in Nat
  BY <1>1 DEF Typed, TypeOK
<1>3. ASSUME NEW r \in ToSet(toServer'[x.from]), IsSend(r) PROVE x.n < r.m.n
  <2>1. r \in Requests
    <3>1. toServer'[x.from] \in Seq(Requests)
      BY <1>1 DEF Typed, TypeOK
    <3> QED
      BY <1>3, <3>1, ToSetIs
  <2>2. r.m.n \in Nat
    BY <1>3, <2>1, RequestsAre, LinesAre DEF IsSend
  <2> QED
    BY <1>1, <1>2, <1>3, <2>2 DEF Counts, Served
<1>4. x.n <= typed'[x.from]
  BY <1>1, <1>2 DEF Counts, Served
<1> QED
  BY <1>3, <1>4 DEF Served

LEMMA ArrivesStays ==
    ASSUME Typed, Typed', Counts, NEW p \in People, NEW b \in Answers, Arrives(p, b)
    PROVE  Arrives(p, b)'
<1>1. \A x \in LinesOf(b) : Served(x)'
  BY LinesOfTyped, ServedStays DEF Arrives
<1> QED
  BY <1>1 DEF Arrives

LEMMA ShowsStays ==
    ASSUME Typed, Typed', Counts, NEW p \in People, NEW l \in Lines,
           l.n <= typed[l.from] /\ (l.from # p => Served(l))
    PROVE  l.n <= typed'[l.from] /\ (l.from # p => Served(l)')
<1>1. l.from \in People /\ l.n \in Nat
  BY LinesAre
<1>2. typed[l.from] \in Nat /\ typed'[l.from] \in Nat
  BY <1>1 DEF Typed, TypeOK
<1> QED
  BY <1>1, <1>2, ServedStays DEF Counts

\* A client to which nothing happens.
LEMMA FollowsStill ==
    ASSUME Typed, Typed', Counts, NEW p \in People, Follows(p),
           toClient'[p] = toClient[p], screen'[p] = screen[p], thread'[p] = thread[p]
    PROVE  Follows(p)'
<1>1. Unread(p)' = Unread(p) /\ Unread(p) \subseteq Answers /\ ToSet(screen[p]) \subseteq Lines
  BY UnreadTyped DEF Unread, Got
<1>2. \A b \in Unread(p) : Arrives(p, b)'
  BY <1>1, ArrivesStays DEF Follows
<1>3. \A l \in ToSet(screen[p]) : l.n <= typed'[l.from] /\ (l.from # p => Served(l)')
  BY <1>1, ShowsStays DEF Follows
<1> QED
  BY <1>1, <1>2, <1>3 DEF Follows, Got, Listens

\* A client that is sent an answer.
Newer(p, a) ==
    /\ a \in Answers
    /\ a.type = "history" => InRow(Earlier, a.rows)
    /\ \A x \in LinesOf(a) : Served(x)'
    /\ a.type = "message" =>
         /\ a.m.from # p
         /\ \A x \in Lines : Served(x) /\ x.from = a.m.from => x.n < a.m.n

LEMMA FollowsMore ==
    ASSUME Typed, Typed', Counts, NEW p \in People, Follows(p), NEW a, Newer(p, a),
           toClient'[p] = Append(toClient[p], a), screen'[p] = screen[p], thread'[p] = thread[p]
    PROVE  Follows(p)'
<1>1. toClient[p] \in Seq(Answers) /\ a \in Answers
  BY DEF Typed, TypeOK, Newer
<1>2. ToSet(toClient'[p]) = ToSet(toClient[p]) \cup {a}
  BY <1>1, ToSetAppend
<1>3. /\ Unread(p)' = Unread(p) \cup {a} /\ Unread(p) \subseteq Answers
      /\ ToSet(toClient[p]) \subseteq Unread(p)
      /\ ToSet(screen[p]) \subseteq Lines
  BY <1>2, UnreadTyped DEF Unread, Got
<1>4. \A b \in Unread(p) : Arrives(p, b)'
  BY <1>3, ArrivesStays DEF Follows
<1>5. Arrives(p, a)'
  BY DEF Newer, Arrives
<1>6. \A l \in ToSet(screen[p]) : l.n <= typed'[l.from] /\ (l.from # p => Served(l)')
  BY <1>3, ShowsStays DEF Follows
<1>7. ASSUME NEW x \in Lines, x.from # p => Served(x), a.type = "message"
      PROVE  <<x, a.m>> \in Earlier
  BY <1>1, <1>7, AnswersAre, LinesAre DEF Newer, Earlier
<1>8. ASSUME NEW b \in Unread(p) PROVE <<b, a>> \in Behind
  <2>1. b \in Answers /\ Arrives(p, b)
    BY <1>3, <1>8 DEF Follows
  <2>2. \A x \in LinesOf(b) : x \in Lines /\ Served(x)
    BY <2>1, LinesOfTyped DEF Arrives
  <2> QED
    BY <1>1, <1>7, <2>1, <2>2 DEF Behind
<1>9. InRow(Behind, Append(toClient[p], a))
  BY <1>1, <1>3, <1>8, InRowAppend DEF Follows
<1>10. Got(p) => \A b \in ToSet(toClient[p]) \cup {a} : <<thread[p].hand, b>> \in Behind
  <2>1. Got(p) => thread[p].hand \in Unread(p)
    BY DEF Unread
  <2> QED
    BY <1>8, <2>1 DEF Follows
<1>11. Listens(p) => \A l \in ToSet(screen[p]), b \in Unread(p) \cup {a} :
                       b.type = "message" => <<l, b.m>> \in Earlier
  BY <1>3, <1>7 DEF Follows
<1> QED
  BY <1>2, <1>3, <1>4, <1>5, <1>6, <1>9, <1>10, <1>11 DEF Follows, Got, Listens

-----------------------------------------------------------------------------
(* Its steps.                                                                *)

LEMMA ScriptAppend ==
    ASSUME NEW p, NEW s \in Seq(Requests), NEW r \in Requests, NEW n \in Nat, NEW k \in Nat,
           Script(p, s, n), n <= k,
           IsSend(r) => r.m.from = p /\ r.m.n > n /\ r.m.n <= k,
           r.type = "INCHATROOM" => r.who # p
    PROVE  Script(p, Append(s, r), k) /\ ToSet(Append(s, r)) = ToSet(s) \cup {r}
<1>1. ToSet(Append(s, r)) = ToSet(s) \cup {r} /\ ToSet(s) \subseteq Requests
  BY ToSetAppend, ToSetIs
<1>2. \A x \in Requests : IsSend(x) => x.m.n \in Nat
  BY RequestsAre, LinesAre DEF IsSend
<1>3. \A y \in ToSet(s) : <<y, r>> \in Pending
  BY <1>1, <1>2 DEF Script, Pending
<1>4. InRow(Pending, Append(s, r))
  BY <1>3, InRowAppend DEF Script
<1>5. \A x \in ToSet(s) : IsSend(x) => x.m.n <= k
  BY <1>1, <1>2 DEF Script
<1> QED
  BY <1>1, <1>4, <1>5 DEF Script

LEMMA ScriptQuiet ==
    ASSUME NEW p, NEW s \in Seq(Requests), NEW r \in Requests, NEW n \in Nat,
           Script(p, s, n), ~IsSend(r), r.type = "INCHATROOM" => r.who # p
    PROVE  Script(p, Append(s, r), n) /\ ToSet(Append(s, r)) = ToSet(s) \cup {r}
<1>1. n <= n /\ (IsSend(r) => r.m.from = p /\ r.m.n > n /\ r.m.n <= n)
  OBVIOUS
<1> QED
  BY <1>1, ScriptAppend

\* Sending, as one request or two.
LEMMA SendOne ==
    ASSUME Typed, NEW p \in People, NEW r \in Requests, Send(p, <<r>>)
    PROVE  toServer'[p] = Append(toServer[p], r)
<1>1. toServer[p] \in Seq(Requests)
  BY DEF Typed, TypeOK
<1>2. toServer'[p] = toServer[p] \o <<r>>
  BY RequestLists, SendType
<1> QED
  BY <1>1, <1>2, AppendIsConcat

LEMMA SendTwo ==
    ASSUME Typed, NEW p \in People, NEW q \in Requests, NEW r \in Requests, Send(p, <<q, r>>)
    PROVE  toServer'[p] = Append(Append(toServer[p], q), r)
<1> DEFINE s == toServer[p]
<1>1. s \in Seq(Requests)
  BY DEF Typed, TypeOK
<1>2. toServer'[p] = s \o <<q, r>>
  BY RequestLists, SendType
<1> HIDE DEF s
<1>3. /\ Append(s, q) = s \o <<q>>
      /\ <<q>> \in Seq(Requests) /\ <<r>> \in Seq(Requests)
  <2>1. Append(s, q) = s \o <<q>>
    BY <1>1, AppendIsConcat
  <2> QED
    BY <2>1, RequestLists
<1>4. s \o (<<q>> \o <<r>>) = (s \o <<q>>) \o <<r>>
  BY <1>1, <1>3, ConcatAssociative
<1>5. Append(s, q) \in Seq(Requests)
  BY <1>1
<1>6. Append(Append(s, q), r) = Append(s, q) \o <<r>>
  BY <1>5, AppendIsConcat
<1> QED
  <2>1. <<q, r>> = Append(<<q>>, r) /\ <<q>> \in Seq(Requests)
    OBVIOUS
  <2>2. <<q, r>> = <<q>> \o <<r>>
    BY <2>1, AppendIsConcat
  <2> QED
    BY <1>2, <1>3, <1>4, <1>6, <2>2 DEF s

\* What one person sends, and nobody else.
Alone(p) == \A q \in People : q # p => toServer'[q] = toServer[q] /\ typed'[q] = typed[q]

LEMMA WritesStill ==
    ASSUME NEW p \in People, Writes(p), toServer'[p] = toServer[p], typed'[p] = typed[p],
           player'[p] = player[p]
    PROVE  Writes(p)'
BY DEF Writes, Script

LEMMA CountsWhen ==
    ASSUME Typed, Typed', NEW p \in People, Alone(p), typed[p] <= typed'[p],
           \A r \in ToSet(toServer'[p]) : IsSend(r) => r \in ToSet(toServer[p]) \/ r.m.n > typed[p]
    PROVE  Counts
<1>1. \A q \in People : typed[q] \in Nat
  BY DEF Typed, TypeOK
<1> QED
  BY <1>1 DEF Alone, Counts

\* A step keeps the invariant once it keeps the parts of p and of the table.
LEMMA OrderedWhen ==
    ASSUME Ordered, Typed', Counts, NEW p \in People, Alone(p), Writes(p)', Follows(p)',
           InRow(Earlier, table'), \A x \in ToSet(table') : Served(x)',
           \A q \in People : q # p => player'[q] = player[q] /\ Follows(q)'
    PROVE  Ordered'
<1>1. \A q \in People : q # p => Writes(q)'
  BY WritesStill DEF Alone, Ordered
<1> QED
  BY <1>1 DEF Ordered

LEMMA TableStays ==
    ASSUME Ordered, Typed', Counts, UNCHANGED table
    PROVE  InRow(Earlier, table') /\ \A x \in ToSet(table') : Served(x)'
<1>1. ToSet(table) \subseteq Lines
  BY UnreadTyped, LinesAre, ToSetIs DEF Ordered, Typed, TypeOK
<1> QED
  BY <1>1, ServedStays DEF Ordered

\* OpenChat, Escape and Cancel type no message.
LEMMA LeavingOrdered ==
    ASSUME Ordered, Typed', NEW p \in People,
           (\E q \in People : OpenChat(p, q)) \/ Escape(p) \/ Cancel(p)
    PROVE  Ordered'
<1>1. UNCHANGED <<player, table, toClient, typed>> /\ \E msgs : Send(p, msgs)
  BY DEF OpenChat, Escape, Cancel, Server
<1>2. /\ typed[p] \in Nat /\ toServer[p] \in Seq(Requests) /\ typed'[p] = typed[p]
      /\ Script(p, toServer[p], typed[p])
  BY <1>1 DEF Ordered, Typed, TypeOK, Writes
<1>3. Script(p, toServer'[p], typed[p])
      /\ \A r \in ToSet(toServer'[p]) : IsSend(r) => r \in ToSet(toServer[p])
  <2>1. ASSUME NEW q \in People, OpenChat(p, q)
        PROVE  /\ Script(p, toServer'[p], typed[p])
               /\ \A r \in ToSet(toServer'[p]) : IsSend(r) => r \in ToSet(toServer[p])
    <3> DEFINE in == [type |-> "INCHATROOM", who |-> q]
               get == [type |-> "GET_MESSAGE", who |-> q]
               s == Append(toServer[p], in)
    <3>1. q # p /\ Send(p, <<in, get>>)
      BY <2>1, ChatAssumption DEF OpenChat
    <3>2. in \in Requests /\ get \in Requests /\ ~IsSend(in) /\ ~IsSend(get) /\ in.who = q
      BY RequestsAre DEF IsSend
    <3>3. get.type = "INCHATROOM" => get.who # p
      OBVIOUS
    <3> HIDE DEF in, get
    <3>4. s \in Seq(Requests) /\ toServer'[p] = Append(s, get)
      BY <1>2, <3>1, <3>2, SendTwo DEF Ordered
    <3>5. Script(p, s, typed[p]) /\ ToSet(s) = ToSet(toServer[p]) \cup {in}
      BY <1>2, <3>1, <3>2, ScriptQuiet
    <3> HIDE DEF s
    <3>6. Script(p, Append(s, get), typed[p]) /\ ToSet(Append(s, get)) = ToSet(s) \cup {get}
      <4> DEFINE n == typed[p]
      <4>1. n \in Nat /\ s \in Seq(Requests) /\ get \in Requests /\ ~IsSend(get) /\ Script(p, s, n)
        BY <1>2, <3>2, <3>4, <3>5
      <4>2. get.type = "INCHATROOM" => get.who # p
        BY <3>3
      <4> HIDE DEF n
      <4>3. Script(p, Append(s, get), n) /\ ToSet(Append(s, get)) = ToSet(s) \cup {get}
        BY <4>1, <4>2, ScriptQuiet
      <4> QED
        BY <4>3 DEF n
    <3> QED
      BY <3>2, <3>4, <3>5, <3>6
  <2>2. ASSUME NEW r \in Requests, Send(p, <<r>>), r.type \notin {"SEND_MESSAGE", "INCHATROOM"}
        PROVE  /\ Script(p, toServer'[p], typed[p])
               /\ \A x \in ToSet(toServer'[p]) : IsSend(x) => x \in ToSet(toServer[p])
    <3>1. toServer'[p] = Append(toServer[p], r)
      BY <2>2, SendOne DEF Ordered
    <3>2. ~IsSend(r)
      BY <2>2 DEF IsSend
    <3>3. r.type = "INCHATROOM" => r.who # p
      BY <2>2
    <3>4. Script(p, Append(toServer[p], r), typed[p])
          /\ ToSet(Append(toServer[p], r)) = ToSet(toServer[p]) \cup {r}
      <4> DEFINE n == typed[p]
                 s == toServer[p]
      <4>1. n \in Nat /\ s \in Seq(Requests) /\ r \in Requests /\ ~IsSend(r) /\ Script(p, s, n)
        BY <1>2, <3>2
      <4> HIDE DEF n, s
      <4>2. Script(p, Append(s, r), n) /\ ToSet(Append(s, r)) = ToSet(s) \cup {r}
        BY <3>3, <4>1, ScriptQuiet
      <4> QED
        BY <4>2 DEF n, s
    <3> QED
      BY <3>1, <3>2, <3>4
  <2>3. CASE Escape(p)
    <3>1. Send(p, <<[type |-> "LEAVE_CHAT"]>>)
      BY <2>3 DEF Escape
    <3> QED
      BY <2>2, <3>1, RequestsAre
  <2>4. CASE Cancel(p)
    <3>1. Send(p, <<[type |-> "GET_FRIEND_LIST"]>>)
      BY <2>4 DEF Cancel
    <3> QED
      BY <2>2, <3>1, RequestsAre
  <2> QED
    BY <2>1, <2>3, <2>4
<1>4. Alone(p)
  BY <1>1 DEF Alone, Send, Ordered, Typed, TypeOK
<1>5. Counts
  BY <1>2, <1>3, <1>4, CountsWhen DEF Ordered
<1>6. Writes(p)'
  BY <1>1, <1>2, <1>3 DEF Ordered, Writes
<1>7. ASSUME NEW q \in People PROVE Follows(q)'
  <2>1. CASE screen'[q] = screen[q] /\ thread'[q] = thread[q]
    BY <1>1, <1>5, <2>1, FollowsStill DEF Ordered
  <2>2. CASE q = p /\ Cancel(p)
    <3>1. /\ screen'[p] = <<>> /\ thread'[p].pc \in {"none", "cancelled"}
          /\ toClient'[p] = toClient[p]
      BY <1>1, <2>2 DEF Cancel, Asleep, Ordered, Typed, TypeOK
    <3>2. ~Got(p)' /\ ~Listens(p)' /\ Unread(p)' \subseteq Unread(p)
      BY <3>1 DEF Got, Listens, Unread
    <3>3. Unread(p) \subseteq Answers
      BY UnreadTyped DEF Ordered
    <3>4. \A b \in Unread(p)' : Arrives(p, b)'
      BY <1>5, <3>2, <3>3, ArrivesStays DEF Ordered, Follows
    <3>5. InRow(Earlier, <<>>) /\ ToSet(<<>>) = {}
      BY DEF InRow, ToSet
    <3> QED
      BY <2>2, <3>1, <3>2, <3>4, <3>5 DEF Follows, Ordered
  <2>3. CASE q # p
    BY <2>1, <2>3 DEF OpenChat, Escape, Cancel, Ordered, Typed, TypeOK
  <2> QED
    BY <2>1, <2>2, <2>3 DEF OpenChat, Escape
<1>8. \A q \in People : player'[q] = player[q]
  BY <1>1
<1> QED
  BY <1>1, <1>4, <1>5, <1>6, <1>7, <1>8, TableStays, OrderedWhen

\* ENTER: the next number.
LEMMA EnterOrdered ==
    ASSUME Ordered, Typed', NEW p \in People, NEW text \in Texts \cup {NoOne}, Enter(p, text)
    PROVE  Ordered'
<1> DEFINE m == Written(p, text)
           r == [type |-> "SEND_MESSAGE", m |-> m]
<1>1. /\ UNCHANGED <<player, table, toClient, thread>>
      /\ typed'[p] = typed[p] + 1
      /\ \A q \in People : q # p => typed'[q] = typed[q] /\ screen'[q] = screen[q]
      /\ \/ m \in ChatMessages /\ screen'[p] = Pushed(screen[p], m) /\ Send(p, <<r>>)
         \/ screen'[p] = Pushed(screen[p], Blank(p)) /\ UNCHANGED toServer
  BY EnterIs DEF Ordered, Server
<1>2. /\ typed[p] \in Nat /\ toServer[p] \in Seq(Requests) /\ screen[p] \in Seq(Lines)
      /\ m.from = p /\ m.n = typed[p] + 1 /\ r.type = "SEND_MESSAGE" /\ r.m = m
  BY DEF Ordered, Typed, TypeOK, Written
<1> HIDE DEF m
<1>3. m \in ChatMessages => r \in Requests
  BY RequestsAre
<1> HIDE DEF r
<1>4. /\ Script(p, toServer'[p], typed[p] + 1)
      /\ \A x \in ToSet(toServer'[p]) : IsSend(x) => x \in ToSet(toServer[p]) \/ x.m.n > typed[p]
  <2>1. CASE m \in ChatMessages /\ Send(p, <<r>>)
    <3>1. toServer'[p] = Append(toServer[p], r)
      BY <1>3, <2>1, SendOne DEF Ordered
    <3>2. /\ typed[p] + 1 \in Nat /\ typed[p] <= typed[p] + 1
          /\ IsSend(r) => r.m.from = p /\ r.m.n > typed[p] /\ r.m.n <= typed[p] + 1
          /\ r.type = "INCHATROOM" => r.who # p
          /\ Script(p, toServer[p], typed[p])
      BY <1>2 DEF Ordered, Writes
    <3>3. Script(p, Append(toServer[p], r), typed[p] + 1)
          /\ ToSet(Append(toServer[p], r)) = ToSet(toServer[p]) \cup {r}
      <4> DEFINE k == typed[p] + 1
                 n == typed[p]
                 s == toServer[p]
      <4>1. /\ k \in Nat /\ n \in Nat /\ n <= k /\ s \in Seq(Requests) /\ r \in Requests
            /\ IsSend(r) => r.m.from = p /\ r.m.n > n /\ r.m.n <= k
            /\ Script(p, s, n)
        BY <1>2, <1>3, <2>1, <3>2
      <4>2. r.type = "INCHATROOM" => r.who # p
        BY <3>2
      <4> HIDE DEF k, n, s
      <4>3. Script(p, Append(s, r), k) /\ ToSet(Append(s, r)) = ToSet(s) \cup {r}
        BY <4>1, <4>2, ScriptAppend
      <4> QED
        BY <4>3 DEF k, s
    <3> QED
      BY <1>2, <3>1, <3>3
  <2>2. CASE UNCHANGED toServer
    <3>1. ASSUME NEW x \in ToSet(toServer[p]), IsSend(x) PROVE x.m.n <= typed[p] + 1
      <4>1. x \in Requests
        BY UnreadTyped DEF Ordered
      <4>2. x.m.n \in Nat /\ x.m.n <= typed[p]
        BY <3>1, <4>1, RequestsAre, LinesAre DEF IsSend, Ordered, Writes, Script
      <4> QED
        BY <1>2, <4>2
    <3> QED
      BY <2>2, <3>1 DEF Ordered, Writes, Script
  <2> QED
    BY <1>1, <2>1, <2>2
<1>5. Alone(p)
  BY <1>1 DEF Alone, Send, Ordered, Typed, TypeOK
<1>6. Counts
  BY <1>1, <1>2, <1>4, <1>5, CountsWhen DEF Ordered
<1>7. Writes(p)'
  BY <1>1, <1>4 DEF Ordered, Writes
<1>8. Follows(p)'
  <2>1. PICK x \in Lines : /\ screen'[p] = Pushed(screen[p], x)
                           /\ x.from = p /\ (x.n = 0 \/ x.n = typed[p] + 1)
    BY <1>1, <1>2, LinesAre
  <2>2. Unread(p)' = Unread(p) /\ Unread(p) \subseteq Answers /\ ToSet(screen[p]) \subseteq Lines
    BY <1>1, UnreadTyped DEF Unread, Got, Ordered
  <2>3. ToSet(screen'[p]) \subseteq ToSet(screen[p]) \cup {x}
    BY <1>2, <2>1, PushedIs
  <2>4. \A b \in Unread(p) : Arrives(p, b)'
    BY <1>6, <2>2, ArrivesStays DEF Ordered, Follows
  <2>5. \A l \in ToSet(screen[p]) : l.n <= typed'[l.from] /\ (l.from # p => Served(l)')
    BY <1>6, <2>2, ShowsStays DEF Ordered, Follows
  <2>6. x.n <= typed'[x.from]
    BY <1>1, <1>2, <2>1
  <2>7. ASSUME NEW l \in ToSet(screen[p]) PROVE <<l, x>> \in Earlier
    <3>1. l \in Lines /\ l.n \in Nat /\ l.n <= typed[l.from]
      BY <2>2, LinesAre DEF Ordered, Follows
    <3> QED
      BY <1>2, <2>1, <3>1 DEF Earlier
  <2>8. InRow(Earlier, screen'[p])
    BY <1>2, <2>1, <2>7, PushedIs DEF Ordered, Follows
  <2>9. \A b \in Unread(p) : b.type = "message" => <<x, b.m>> \in Earlier
    <3>1. ASSUME NEW b \in Unread(p), b.type = "message" PROVE <<x, b.m>> \in Earlier
      <4>1. b.m.from # p /\ b.m \in Lines
        BY <2>2, <3>1, AnswersAre, LinesAre DEF Ordered, Follows, Arrives
      <4> QED
        BY <2>1, <4>1 DEF Earlier
    <3> QED
      BY <3>1
  <2> QED
    BY <1>1, <2>1, <2>2, <2>3, <2>4, <2>5, <2>6, <2>8, <2>9 DEF Ordered, Follows, Got, Listens
<1>9. ASSUME NEW q \in People, q # p PROVE Follows(q)'
  BY <1>1, <1>6, <1>9, FollowsStill DEF Ordered
<1> QED
  BY <1>1, <1>5, <1>6, <1>7, <1>8, <1>9, TableStays, OrderedWhen

\* A client reads, or its thread shows: it types nothing, and nobody serves.
LEMMA QuietOrdered ==
    ASSUME Ordered, Typed', NEW p \in People, Follows(p)',
           UNCHANGED <<player, table, toServer, typed>>,
           \A q \in People : q # p => toClient'[q] = toClient[q] /\ screen'[q] = screen[q]
                                      /\ thread'[q] = thread[q]
    PROVE  Ordered'
<1>1. \A q \in People : typed[q] \in Nat
  BY DEF Ordered, Typed, TypeOK
<1>2. Alone(p) /\ Counts /\ \A q \in People : player'[q] = player[q]
  BY <1>1 DEF Alone, Counts
<1>3. Writes(p)'
  BY <1>2, WritesStill DEF Ordered
<1>4. \A q \in People : q # p => Follows(q)'
  BY <1>2, FollowsStill DEF Ordered
<1> QED
  BY <1>2, <1>3, <1>4, TableStays, OrderedWhen

\* Reading takes the first answer.
LEMMA ReadFollows ==
    ASSUME Ordered, NEW p \in People, toClient[p] # <<>>,
           toClient' = [toClient EXCEPT ![p] = Tail(@)]
    PROVE  /\ Head(toClient[p]) \in Answers /\ Arrives(p, Head(toClient[p]))
           /\ toClient'[p] = Tail(toClient[p])
           /\ ToSet(toClient[p]) = ToSet(toClient'[p]) \cup {Head(toClient[p])}
           /\ ToSet(toClient[p]) \subseteq Unread(p)
           /\ InRow(Behind, toClient'[p])
           /\ \A b \in ToSet(toClient'[p]) : <<Head(toClient[p]), b>> \in Behind
           /\ \A q \in People : q # p => toClient'[q] = toClient[q]
<1>1. toClient[p] \in Seq(Answers) /\ InRow(Behind, toClient[p])
  BY DEF Ordered, Typed, TypeOK, Follows
<1>2. /\ toClient'[p] = Tail(toClient[p]) /\ Head(toClient[p]) \in Answers
      /\ \A q \in People : q # p => toClient'[q] = toClient[q]
  BY ReadType DEF Ordered
<1>3. /\ ToSet(toClient[p]) = ToSet(Tail(toClient[p])) \cup {Head(toClient[p])}
      /\ InRow(Behind, Tail(toClient[p]))
      /\ \A b \in ToSet(Tail(toClient[p])) : <<Head(toClient[p]), b>> \in Behind
  BY <1>1, InRowTail
<1>4. Arrives(p, Head(toClient[p]))
  BY <1>3 DEF Ordered, Follows, Unread
<1> QED
  BY <1>2, <1>3, <1>4 DEF Unread

\* The same served lines and answers are so in the next state.
LEMMA QuietArrives ==
    ASSUME UNCHANGED <<toServer, typed>>
    PROVE  /\ \A x : Served(x)' <=> Served(x)
           /\ \A p, b : Arrives(p, b)' <=> Arrives(p, b)
BY DEF Served, Arrives

LEMMA MenuOrdered ==
    ASSUME Ordered, Typed', NEW p \in People, ShowHistory(p) \/ Misreads(p) \/ ShowList(p)
    PROVE  Ordered'
<1>1. CASE ShowHistory(p)
  <2> DEFINE h == Head(toClient[p])
  <2>1. /\ toClient[p] # <<>> /\ toClient' = [toClient EXCEPT ![p] = Tail(@)]
        /\ h.type = "history" /\ UNCHANGED <<player, table, toServer, typed>>
    BY <1>1 DEF ShowHistory, Reads, Server
  <2>2. /\ screen'[p] = LastOf(h.rows) /\ thread'[p] = Waiting
        /\ \A q \in People : q # p => screen'[q] = screen[q] /\ thread'[q] = thread[q]
    BY <1>1 DEF ShowHistory, Ordered, Typed, TypeOK
  <2>3. h \in Answers /\ h.rows \in Seq(ChatMessages) /\ h.rows \in Seq(Lines)
    <3>1. h \in Answers
      BY <2>1, ReadFollows
    <3>2. h.rows \in Seq(ChatMessages)
      BY <2>1, <3>1, AnswersAre
    <3> QED
      BY <3>1, <3>2, LinesAre
  <2>4. LinesOf(h) = ToSet(h.rows) /\ LinesOf(h) \subseteq Lines
    BY <2>1, <2>3, LinesOfTyped DEF LinesOf
  <2>5. InRow(Earlier, h.rows) /\ \A x \in ToSet(h.rows) : Served(x)
    BY <2>1, <2>4, ReadFollows DEF Arrives
  <2>6. \A b \in ToSet(toClient'[p]) : <<h, b>> \in Behind
    BY <2>1, ReadFollows
  <2>7. \A b \in ToSet(toClient'[p]), l \in ToSet(h.rows) :
          b.type = "message" => <<l, b.m>> \in Earlier
    BY <2>4, <2>6 DEF Behind
  <2> HIDE DEF h
  <2>8. InRow(Earlier, screen'[p]) /\ ToSet(screen'[p]) \subseteq ToSet(h.rows)
    BY <2>2, <2>3, <2>5, LastOfIs
  <2>9. ~Got(p)' /\ Unread(p)' = ToSet(toClient'[p]) /\ Unread(p)' \subseteq Unread(p)
    <3>1. ToSet(toClient'[p]) \subseteq Unread(p)
      BY <2>1, ReadFollows
    <3>2. ~Got(p)'
      BY <2>2 DEF Got, Waiting
    <3> QED
      BY <3>1, <3>2 DEF Unread
  <2>10. \A b \in Unread(p)' : Arrives(p, b)'
    BY <2>1, <2>9, QuietArrives DEF Ordered, Follows
  <2>11. \A l \in ToSet(screen'[p]) : l.n <= typed'[l.from] /\ Served(l)'
    BY <2>1, <2>5, <2>8, QuietArrives DEF Served
  <2>12. InRow(Behind, toClient'[p])
    BY <2>1, ReadFollows
  <2>13. Follows(p)'
    BY <2>7, <2>8, <2>9, <2>10, <2>11, <2>12 DEF Follows
  <2> QED
    BY <2>1, <2>2, <2>13, ReadFollows, QuietOrdered
<1>2. CASE Misreads(p)
  <2>1. UNCHANGED <<player, table, toServer, toClient, typed, screen, thread>>
    BY <1>2 DEF Misreads, Server, Streams
  <2>2. Follows(p)'
    BY <2>1 DEF Ordered, Follows, Got, Listens, Unread, Arrives, Served
  <2> QED
    BY <2>1, <2>2, QuietOrdered
<1>3. CASE ShowList(p)
  <2>1. /\ toClient[p] # <<>> /\ toClient' = [toClient EXCEPT ![p] = Tail(@)]
        /\ UNCHANGED <<player, table, toServer, typed, screen, thread>>
    BY <1>3 DEF ShowList, Reads, Server
  <2>2. /\ InRow(Behind, toClient'[p]) /\ ToSet(toClient'[p]) \subseteq ToSet(toClient[p])
        /\ \A q \in People : q # p => toClient'[q] = toClient[q]
    BY <2>1, ReadFollows
  <2>3. Unread(p)' \subseteq Unread(p) /\ (Got(p)' <=> Got(p)) /\ (Listens(p)' <=> Listens(p))
    BY <2>1, <2>2 DEF Unread, Got, Listens
  <2>4. \A b \in Unread(p)' : Arrives(p, b)'
    BY <2>1, <2>3, QuietArrives DEF Ordered, Follows
  <2>5. \A l \in ToSet(screen'[p]) : l.n <= typed'[l.from] /\ (l.from # p => Served(l)')
    BY <2>1, QuietArrives DEF Ordered, Follows
  <2>6. Follows(p)'
    BY <2>1, <2>2, <2>3, <2>4, <2>5 DEF Ordered, Follows
  <2> QED
    BY <2>1, <2>2, <2>6, QuietOrdered
<1> QED
  BY <1>1, <1>2, <1>3

LEMMA ThreadOrdered ==
    ASSUME Ordered, Typed', NEW p \in People, Thread(p) PROVE Ordered'
<1>1. CASE ThreadRead(p)
  <2> DEFINE h == Head(toClient[p])
  <2>1. /\ toClient[p] # <<>> /\ toClient' = [toClient EXCEPT ![p] = Tail(@)]
        /\ UNCHANGED <<player, table, toServer, typed, screen>> /\ thread[p].pc = "waiting"
    BY <1>1 DEF ThreadRead, Server
  <2>2. /\ thread'[p] = [pc |-> "got", hand |-> h]
        /\ \A q \in People : q # p => thread'[q] = thread[q]
    BY <1>1 DEF ThreadRead, Ordered, Typed, TypeOK
  <2>3. /\ InRow(Behind, toClient'[p]) /\ ToSet(toClient[p]) = ToSet(toClient'[p]) \cup {h}
        /\ \A b \in ToSet(toClient'[p]) : <<h, b>> \in Behind
        /\ \A q \in People : q # p => toClient'[q] = toClient[q]
    BY <2>1, ReadFollows
  <2> HIDE DEF h
  <2>4. Unread(p)' \subseteq Unread(p) /\ thread'[p].hand = h /\ Listens(p) /\ Listens(p)'
    BY <2>1, <2>2, <2>3 DEF Unread, Got, Listens
  <2>5. \A b \in Unread(p)' : Arrives(p, b)'
    BY <2>1, <2>4, QuietArrives DEF Ordered, Follows
  <2>6. \A l \in ToSet(screen'[p]) : l.n <= typed'[l.from] /\ (l.from # p => Served(l)')
    BY <2>1, QuietArrives DEF Ordered, Follows
  <2>7. Follows(p)'
    BY <2>1, <2>3, <2>4, <2>5, <2>6 DEF Ordered, Follows
  <2> QED
    BY <2>1, <2>2, <2>3, <2>7, QuietOrdered
<1>2. CASE ThreadShow(p)
  <2> PICK a : a = thread[p].hand
    OBVIOUS
  <2>1. UNCHANGED <<player, table, toServer, toClient, typed>>
    BY <1>2 DEF ThreadShow, Server, Streams
  <2>2. /\ thread'[p] \in {Waiting, Asleep}
        /\ \A q \in People : q # p => screen'[q] = screen[q] /\ thread'[q] = thread[q]
    BY <1>2 DEF ThreadShow, Ordered, Typed, TypeOK
  <2>3. ~Got(p)' /\ Unread(p)' = ToSet(toClient[p]) /\ Unread(p)' \subseteq Unread(p)
    BY <2>1, <2>2 DEF Unread, Got, Waiting, Asleep
  <2>4. \A b \in Unread(p)' : Arrives(p, b)'
    BY <2>1, <2>3, QuietArrives DEF Ordered, Follows
  <2>5. \A l \in ToSet(screen[p]) : l.n <= typed'[l.from] /\ (l.from # p => Served(l)')
    BY <2>1, QuietArrives DEF Ordered, Follows
  <2>6. CASE screen'[p] = screen[p] /\ (Listens(p)' => Listens(p))
    <3>1. Follows(p)'
      BY <2>1, <2>3, <2>4, <2>5, <2>6 DEF Ordered, Follows
    <3> QED
      BY <2>1, <2>2, <3>1, QuietOrdered
  <2>7. CASE /\ Got(p) /\ a.type = "message" /\ screen'[p] = Pushed(screen[p], a.m)
    <3>1. /\ a \in Answers /\ a.m \in Lines /\ LinesOf(a) = {a.m}
          /\ screen[p] \in Seq(Lines) /\ Listens(p) /\ a \in Unread(p)
      BY <2>7, AnswersAre, LinesAre
         DEF Got, Listens, Unread, LinesOf, Ordered, Typed, TypeOK, Holding
    <3>2. /\ Served(a.m) /\ \A l \in ToSet(screen[p]) : <<l, a.m>> \in Earlier
      BY <2>7, <3>1 DEF Ordered, Follows, Arrives
    <3>3. \A b \in ToSet(toClient[p]) : b.type = "message" => <<a.m, b.m>> \in Earlier
      BY <2>7, <3>1 DEF Ordered, Follows, Behind
    <3>4. ToSet(screen'[p]) \subseteq ToSet(screen[p]) \cup {a.m}
      BY <2>7, <3>1, PushedIs
    <3>5. InRow(Earlier, screen'[p])
      BY <2>7, <3>1, <3>2, PushedIs DEF Ordered, Follows
    <3>6. a.m.n <= typed'[a.m.from] /\ Served(a.m)'
      BY <2>1, <3>2, QuietArrives DEF Served
    <3>7. \A l \in ToSet(screen'[p]), b \in Unread(p)' : b.type = "message" => <<l, b.m>> \in Earlier
      BY <2>3, <3>1, <3>3, <3>4 DEF Ordered, Follows
    <3>8. Follows(p)'
      BY <2>1, <2>3, <2>4, <2>5, <3>4, <3>5, <3>6, <3>7 DEF Ordered, Follows
    <3> QED
      BY <2>1, <2>2, <3>8, QuietOrdered
  <2>8. CASE thread[p].pc = "got"
    <3>1. screen'[p] = Shown(p, a) /\ Got(p) /\ Listens(p)
      BY <1>2, <2>8 DEF ThreadShow, Ordered, Typed, TypeOK, Got, Listens
    <3> QED
      BY <2>6, <2>7, <3>1 DEF Shown
  <2>9. CASE thread[p].pc = "cancelled"
    <3>1. screen'[p] = screen[p] /\ thread'[p] = Asleep
      BY <1>2, <2>9 DEF ThreadShow, Ordered, Typed, TypeOK
    <3> QED
      BY <2>6, <3>1 DEF Listens, Asleep
  <2> QED
    BY <1>2, <2>8, <2>9 DEF ThreadShow
<1> QED
  BY <1>1, <1>2 DEF Thread

\* The server reads a request of p.
LEMMA TakesOrdered ==
    ASSUME Ordered, Typed', NEW p \in People, NEW type, Takes(p, type),
           NEW h, h = Head(toServer[p]), NEW m, m = h.m
    PROVE  /\ Alone(p) /\ Counts /\ UNCHANGED <<screen, thread, typed>>
           /\ Script(p, toServer'[p], typed'[p])
           /\ h \in Requests /\ h.type = type /\ (type = "INCHATROOM" => h.who # p)
           /\ IsSend(h) =>
                /\ m.from = p /\ Served(m)'
                /\ \A x \in Lines : Served(x) /\ x.from = p => x.n < m.n
<1>1. /\ toServer[p] # <<>> /\ toServer'[p] = Tail(toServer[p])
      /\ h \in Requests /\ h.type = type
      /\ \A q \in People : q # p => toServer'[q] = toServer[q]
      /\ UNCHANGED <<screen, thread, typed>>
  BY TakesType DEF Ordered, Client
<1>2. /\ toServer[p] \in Seq(Requests) /\ Script(p, toServer[p], typed[p])
      /\ \A q \in People : typed[q] \in Nat
  BY DEF Ordered, Typed, TypeOK, Writes
<1>3. /\ ToSet(toServer[p]) = ToSet(toServer'[p]) \cup {h} /\ InRow(Pending, toServer'[p])
      /\ \A r \in ToSet(toServer'[p]) : <<h, r>> \in Pending
  BY <1>1, <1>2, InRowTail DEF Script
<1>4. Script(p, toServer'[p], typed'[p])
  BY <1>1, <1>2, <1>3 DEF Script
<1>5. Alone(p)
  BY <1>1 DEF Alone
<1>6. typed[p] <= typed'[p] /\ ToSet(toServer'[p]) \subseteq ToSet(toServer[p])
  BY <1>1, <1>2, <1>3
<1>7. Counts
  BY <1>5, <1>6, CountsWhen DEF Ordered
<1>8. (IsSend(h) => h.m.from = p /\ h.m.n <= typed'[p]) /\ (type = "INCHATROOM" => h.who # p)
  BY <1>1, <1>2, <1>3 DEF Script
<1>9. IsSend(h) => \A r \in ToSet(toServer'[p]) : IsSend(r) => h.m.n < r.m.n
  BY <1>3 DEF Pending
<1>10. IsSend(h) => \A x \in Lines : Served(x) /\ x.from = p => x.n < h.m.n
  BY <1>3 DEF Served
<1>11. IsSend(h) => Served(m)'
  BY <1>8, <1>9 DEF Served
<1> QED
  BY <1>1, <1>4, <1>5, <1>7, <1>8, <1>10, <1>11

LEMMA ServeOrdered ==
    ASSUME Ordered, Typed', NEW p \in People,
           InChatRoom(p) \/ LeaveChat(p) \/ GetMessages(p) \/ GetFriendList(p)
    PROVE  Ordered'
<1>1. PICK type : Takes(p, type) /\ (InChatRoom(p) => type = "INCHATROOM")
  BY DEF InChatRoom, LeaveChat, GetMessages, GetFriendList
<1>2. /\ Alone(p) /\ Counts /\ UNCHANGED <<screen, thread, typed>>
      /\ Script(p, toServer'[p], typed'[p])
      /\ type = "INCHATROOM" => Head(toServer[p]).who # p
  BY <1>1, TakesOrdered
<1>3. UNCHANGED table
  BY DEF InChatRoom, LeaveChat, GetMessages, GetFriendList, Server
<1>4. /\ player'[p].receiver # p
      /\ \A q \in People : q # p => player'[q] = player[q]
  <2>1. player[p].receiver # p
    BY DEF Ordered, Writes
  <2>2. CASE InChatRoom(p)
    <3>1. PICK who : who = Head(toServer[p]).who
      OBVIOUS
    <3>2. player' = [player EXCEPT ![p] = [isInChatRoom |-> TRUE, receiver |-> who]] /\ who # p
      BY <1>1, <1>2, <2>2, <3>1 DEF InChatRoom
    <3> QED
      BY <3>2 DEF Ordered, Typed, TypeOK
  <2>3. CASE LeaveChat(p)
    <3>1. player' = [player EXCEPT ![p] = [isInChatRoom |-> FALSE, receiver |-> NoOne]]
      BY <2>3 DEF LeaveChat
    <3> QED
      BY <3>1, ChatAssumption DEF Ordered, Typed, TypeOK
  <2>4. CASE GetMessages(p) \/ GetFriendList(p)
    BY <2>1, <2>4 DEF GetMessages, GetFriendList, Server
  <2> QED
    BY <2>2, <2>3, <2>4
<1>5. Writes(p)'
  BY <1>2, <1>4 DEF Writes
<1>6. ASSUME NEW q \in People, toClient'[q] = toClient[q] PROVE Follows(q)'
  BY <1>2, <1>6, FollowsStill DEF Ordered
<1>7. ASSUME NEW a, Newer(p, a), Answer(p, a) PROVE \A q \in People : Follows(q)'
  <2>1. /\ toClient'[p] = Append(toClient[p], a)
        /\ \A q \in People : q # p => toClient'[q] = toClient[q]
    BY <1>7, AnswerType DEF Newer, Ordered
  <2>2. Follows(p)'
    BY <1>2, <1>7, <2>1, FollowsMore DEF Ordered
  <2> QED
    BY <1>6, <2>1, <2>2
<1>8. \A q \in People : Follows(q)'
  <2>1. CASE InChatRoom(p) \/ LeaveChat(p)
    BY <1>6, <2>1 DEF InChatRoom, LeaveChat
  <2>2. CASE GetMessages(p)
    <3>1. PICK rows : rows = History(p, Head(toServer[p]).who)
      OBVIOUS
    <3>2. PICK a : a = [type |-> "history", rows |-> rows]
      OBVIOUS
    <3>3. /\ rows \in Seq(ChatMessages) /\ ToSet(rows) \subseteq ToSet(table)
          /\ InRow(Earlier, rows)
      BY <3>1, HistoryIs DEF Ordered, Typed, TypeOK
    <3>4. \A x \in ToSet(rows) : Served(x)'
      BY <1>2, <1>3, <3>3, TableStays
    <3>5. /\ a \in Answers /\ a.type = "history" /\ a.rows = rows
      BY <3>2, <3>3, AnswersAre
    <3>6. Newer(p, a)
      BY <3>3, <3>4, <3>5 DEF Newer, LinesOf
    <3> QED
      BY <1>7, <2>2, <3>1, <3>2, <3>6 DEF GetMessages
  <2>3. CASE GetFriendList(p)
    <3>1. Newer(p, [type |-> "list"])
      BY AnswersAre DEF Newer, LinesOf
    <3> QED
      BY <1>7, <2>3, <3>1 DEF GetFriendList
  <2> QED
    BY <2>1, <2>2, <2>3
<1> QED
  BY <1>2, <1>3, <1>4, <1>5, <1>8, TableStays, OrderedWhen

LEMMA SendMessagesOrdered ==
    ASSUME Ordered, Typed', NEW p \in People, SendMessages(p) PROVE Ordered'
<1> PICK m : m = Head(toServer[p]).m
  OBVIOUS
<1> PICK f : f = Forward(p)
  OBVIOUS
<1>1. /\ Takes(p, "SEND_MESSAGE") /\ UNCHANGED player
      /\ m \in ChatMessages /\ m \in Lines /\ f \in Answers /\ Confirm \in Answers
      /\ table' = Append(table, m)
      /\ \A q \in People :
           LET t == IF Hears(q, p) THEN Append(toClient[q], f) ELSE toClient[q]
           IN  toClient'[q] = IF q = p THEN Append(t, Confirm) ELSE t
  BY SendMessagesIs, LinesAre DEF Ordered
<1>2. /\ Alone(p) /\ Counts /\ UNCHANGED <<screen, thread, typed>>
      /\ Script(p, toServer'[p], typed'[p]) /\ m.from = p /\ Served(m)'
      /\ \A x \in Lines : Served(x) /\ x.from = p => x.n < m.n
  BY <1>1, TakesOrdered DEF IsSend
<1>3. Writes(p)'
  BY <1>1, <1>2 DEF Writes, Ordered
<1>4. ~Hears(p, p)
  BY DEF Hears, Ordered, Writes
<1>5. f.type = "message" /\ f.m = m
  BY DEF Forward
<1>6. Newer(p, Confirm)
  BY <1>1 DEF Newer, LinesOf, Confirm
<1>7. ASSUME NEW q \in People, q # p PROVE Newer(q, f)
  BY <1>1, <1>2, <1>5, <1>7 DEF Newer, LinesOf
<1>8. ASSUME NEW q \in People PROVE Follows(q)'
  <2>1. CASE q = p
    <3>1. toClient'[p] = Append(toClient[p], Confirm)
      BY <1>1, <1>4
    <3> QED
      BY <1>2, <1>6, <2>1, <3>1, FollowsMore DEF Ordered
  <2>2. CASE q # p /\ Hears(q, p)
    <3>1. toClient'[q] = Append(toClient[q], f)
      BY <1>1, <2>2
    <3> QED
      BY <1>2, <1>7, <2>2, <3>1, FollowsMore DEF Ordered
  <2>3. CASE q # p /\ ~Hears(q, p)
    <3>1. toClient'[q] = toClient[q]
      BY <1>1, <2>3
    <3> QED
      BY <1>2, <3>1, FollowsStill DEF Ordered
  <2> QED
    BY <2>1, <2>2, <2>3
<1>9. InRow(Earlier, table') /\ \A x \in ToSet(table') : Served(x)'
  <2>1. /\ table \in Seq(ChatMessages) /\ ToSet(table) \subseteq Lines
        /\ \A x \in ToSet(table) : Served(x)
    BY UnreadTyped, LinesAre DEF Ordered, Typed, TypeOK
  <2>2. ASSUME NEW y \in ToSet(table) PROVE <<y, m>> \in Earlier
    BY <1>1, <1>2, <2>1 DEF Earlier
  <2>3. InRow(Earlier, Append(table, m)) /\ ToSet(Append(table, m)) = ToSet(table) \cup {m}
    BY <1>1, <2>1, <2>2, InRowAppend, ToSetAppend DEF Ordered
  <2>4. \A y \in ToSet(table) : Served(y)'
    BY <1>2, <2>1, ServedStays DEF Ordered
  <2> QED
    BY <1>1, <1>2, <2>3, <2>4
<1>10. \A q \in People : q # p => player'[q] = player[q]
  BY <1>1
<1> QED
  BY <1>2, <1>3, <1>8, <1>9, <1>10, OrderedWhen

\* Each saved message counts those its sender had sent before.
LEMMA SavedOrdered ==
    /\ InRow(Earlier, Saved)
    /\ \A x \in ToSet(Saved) : x.n <= Cardinality(SentBy(x.from, Saved))
<1> DEFINE Until(f, i) == {j \in SentBy(f, Saved) : j <= i}
<1>1. /\ Saved \in Seq(ChatMessages) /\ Len(Saved) \in Nat /\ DOMAIN Saved = 1..Len(Saved)
      /\ \A i \in DOMAIN Saved : Saved[i].n = Cardinality(Until(Saved[i].from, i))
  BY ChatAssumption
<1>2. ASSUME NEW f
      PROVE  IsFiniteSet(SentBy(f, Saved)) /\ SentBy(f, Saved) \subseteq 1..Len(Saved)
  <2>1. IsFiniteSet(1..Len(Saved)) /\ SentBy(f, Saved) \subseteq 1..Len(Saved)
    BY <1>1, FS_Interval DEF SentBy
  <2> QED
    BY <2>1, FS_Subset
<1>3. ASSUME NEW f, NEW i
      PROVE  /\ IsFiniteSet(Until(f, i)) /\ Cardinality(Until(f, i)) \in Nat
             /\ Cardinality(Until(f, i)) <= Cardinality(SentBy(f, Saved))
  <2>1. Until(f, i) \subseteq SentBy(f, Saved) /\ IsFiniteSet(SentBy(f, Saved))
    BY <1>2
  <2> QED
    BY <2>1, FS_Subset, FS_CardinalityType
<1>4. ASSUME NEW i \in 1..Len(Saved), NEW j \in 1..Len(Saved), i < j,
             Saved[i].from = Saved[j].from
      PROVE  Saved[i].n < Saved[j].n
  <2> DEFINE f == Saved[j].from
             S == Until(f, i)
             T == Until(f, j)
  <2>1. IsFiniteSet(S) /\ IsFiniteSet(T) /\ Cardinality(S) \in Nat /\ Cardinality(T) \in Nat
    BY <1>3
  <2>2. S \subseteq T
    BY <1>1, <1>2, <1>4
  <2>3. j \in T /\ j \notin S
    BY <1>1, <1>4 DEF SentBy
  <2> HIDE DEF S, T
  <2>4. Cardinality(S) <= Cardinality(T) /\ Cardinality(S) # Cardinality(T)
    BY <2>1, <2>2, <2>3, FS_Subset
  <2>5. Saved[i].n = Cardinality(S) /\ Saved[j].n = Cardinality(T)
    BY <1>1, <1>4 DEF S, T
  <2> QED
    BY <2>1, <2>4, <2>5
<1>5. \A i \in 1..Len(Saved) : Saved[i] \in Lines
  BY <1>1, LinesAre
<1>6. InRow(Earlier, Saved)
  BY <1>4, <1>5 DEF InRow, Earlier
<1>7. ASSUME NEW x \in ToSet(Saved) PROVE x.n <= Cardinality(SentBy(x.from, Saved))
  <2>1. PICK i \in 1..Len(Saved) : x = Saved[i]
    BY <1>1, ToSetIs
  <2> QED
    BY <1>1, <1>3, <2>1
<1> QED
  BY <1>6, <1>7

LEMMA InitOrdered == Init => Ordered
<1> SUFFICES ASSUME Init PROVE Ordered
  OBVIOUS
<1>1. Typed
  BY TypedInit
<1>2. /\ table = Saved /\ \A p \in People : typed[p] = Cardinality(SentBy(p, Saved))
      /\ \A p \in People : /\ toServer[p] = <<>> /\ toClient[p] = <<>> /\ screen[p] = <<>>
                           /\ player[p].receiver = NoOne /\ thread[p] = Asleep
  BY DEF Init
<1>3. ToSet(<<>>) = {} /\ \A R : InRow(R, <<>>)
  BY DEF ToSet, InRow
<1>4. ASSUME NEW x \in ToSet(table) PROVE Served(x)
  <2>1. x.from \in People
    BY <1>2, <1>4, ToSetIs, LinesAre, ChatAssumption
  <2> QED
    BY <1>2, <1>3, <1>4, <2>1, SavedOrdered DEF Served
<1>5. ASSUME NEW p \in People PROVE Writes(p) /\ Follows(p)
  <2>1. ~Got(p) /\ Unread(p) = {}
    BY <1>2, <1>3 DEF Got, Unread, Asleep
  <2>2. Follows(p)
    BY <1>2, <1>3, <2>1 DEF Follows
  <2> QED
    BY <1>2, <1>3, <2>2, ChatAssumption DEF Writes, Script
<1> QED
  BY <1>1, <1>2, <1>4, <1>5, SavedOrdered DEF Ordered

LEMMA OrderedNext == ASSUME Ordered, [Next]_vars PROVE Ordered'
<1>1. Typed'
  BY TypedNext DEF Ordered
<1>2. CASE UNCHANGED vars
  <2>1. UNCHANGED <<player, table, toServer, toClient, screen, thread, typed>>
    BY <1>2 DEF vars
  <2>2. (\A x : Served(x)' <=> Served(x)) /\ \A p \in People : Writes(p)' /\ Follows(p)'
    BY <2>1 DEF Ordered, Writes, Script, Follows, Got, Listens, Unread, Arrives, Served
  <2> QED
    BY <1>1, <2>1, <2>2 DEF Ordered
<1>3. CASE Next
  <2>1. PICK p \in People :
          \/ \E q \in People : OpenChat(p, q)
          \/ \E text \in Texts \cup {NoOne} : Enter(p, text)
          \/ Escape(p) \/ Menu(p) \/ Thread(p) \/ Serve(p)
    BY <1>3 DEF Next
  <2>2. CASE (\E q \in People : OpenChat(p, q)) \/ Escape(p) \/ Cancel(p)
    BY <1>1, <2>2, LeavingOrdered
  <2>3. CASE \E text \in Texts \cup {NoOne} : Enter(p, text)
    BY <1>1, <2>3, EnterOrdered
  <2>4. CASE ShowHistory(p) \/ Misreads(p) \/ ShowList(p)
    BY <1>1, <2>4, MenuOrdered
  <2>5. CASE Thread(p)
    BY <1>1, <2>5, ThreadOrdered
  <2>6. CASE Serve(p)
    BY <1>1, <2>6, ServeOrdered, SendMessagesOrdered DEF Serve
  <2> QED
    BY <2>1, <2>2, <2>3, <2>4, <2>5, <2>6 DEF Menu
<1> QED
  BY <1>2, <1>3

\* What one person typed is numbered in its order wherever it is: in its stream,
\* in the table, in every answer under way and on every screen.
THEOREM OrderedHolds == Spec => []Ordered
BY InitOrdered, OrderedNext, PTL DEF Spec

\* No interleaving of the server's main thread, the clients and their receiving
\* threads shows two messages of one sender in another order than it typed them,
\* or one of them twice; nor does the table hold them so (sendMessages,
\* showReceiveChatMessage).
THEOREM InOrderHolds == Spec => []InOrder
<1>1. Ordered => InOrder
  <2> SUFFICES ASSUME Ordered PROVE InOrder
    OBVIOUS
  <2>1. ASSUME NEW s \in {table} \cup {screen[p] : p \in People}
        PROVE  InRow(Earlier, s) /\ DOMAIN s = 1..Len(s)
    BY <2>1, ToSetIs DEF Ordered, Follows, Typed, TypeOK
  <2>2. ASSUME NEW s \in {table} \cup {screen[p] : p \in People},
               NEW i \in DOMAIN s, NEW j \in DOMAIN s, i < j,
               s[i].from = s[j].from, s[i].n # 0, s[j].n # 0
        PROVE  s[i].n < s[j].n
    BY <2>1, <2>2 DEF InRow, Earlier
  <2> QED
    BY <2>2 DEF InOrder
<1> QED
  BY <1>1, OrderedHolds, PTL

-----------------------------------------------------------------------------
(* What a chat screen shows, and what is under way to it.                    *)

Fits(p) == Len(screen[p]) < MAX_CHAT_MESSAGES

\* A row of the table that the screen of p has to show.
Wanted(p, m) ==
    /\ m \in ToSet(table) /\ Between(p, partner[p], m)
    /\ m.from = p \/ m.text # Confirmation

\* A row that the friend of p wrote to p.
Mine(p, m) == m.from = partner[p] /\ m.to = p /\ m \in ToSet(table)
Brings(b, m) == b.type = "message" /\ b.m = m

NoHistory(c) == \A b \in ToSet(c) : b.type # "history"
NoGet(s) == \A r \in ToSet(s) : r.type # "GET_MESSAGE"

\* The history is asked for, behind everything else.
Asked(p, s) ==
    /\ s # <<>> /\ s[Len(s)].type = "GET_MESSAGE" /\ s[Len(s)].who = partner[p]
    /\ \A i \in 1..Len(s) - 1 : s[i].type # "GET_MESSAGE"

\* The k-th answer is the history, and all of the table's rows that p needs are
\* in it or behind it.
Answered(p, c, k) ==
    /\ k \in 1..Len(c) /\ c[k].type = "history"
    /\ \A j \in 1..Len(c) : j # k => c[j].type # "history"
    /\ \A x \in ToSet(c[k].rows) : x \in ToSet(table) /\ Between(p, partner[p], x)
    /\ \A j \in k + 1..Len(c) : c[j].type = "message" => Mine(p, c[j].m)
    /\ \A m \in ToSet(table) : Wanted(p, m) =>
         m \in ToSet(c[k].rows) \/ \E j \in k + 1..Len(c) : Brings(c[j], m)

Opening(p) == at[p] = "opening" =>
    \/ Asked(p, toServer[p]) /\ NoHistory(toClient[p])
    \/ toServer[p] = <<>> /\ \E k \in 1..Len(toClient[p]) : Answered(p, toClient[p], k)

\* What p typed in this chat, what its friend did, and its screen.
Typing(p) ==
    \A r \in ToSet(toServer[p]) :
      IsSend(r) /\ r.m.to = partner[p] /\ (Fits(p) => r.m \in ToSet(screen[p]))
Hearing(p) == \A b \in Unread(p) : b.type = "message" => Mine(p, b.m)
Showing(p) ==
    \A l \in ToSet(screen[p]) : l # Blank(p) =>
      /\ Between(p, partner[p], l)
      /\ l \in ToSet(table) \/ \E r \in ToSet(toServer[p]) : IsSend(r) /\ r.m = l
Missing(p) == Fits(p) =>
    \A m \in ToSet(table) : Wanted(p, m) =>
      m \in ToSet(screen[p]) \/ \E b \in Unread(p) : Brings(b, m)
Chatting(p) == at[p] = "chat" => Typing(p) /\ Hearing(p) /\ Showing(p) /\ Missing(p)

Stands(p) ==
    /\ at[p] \in {"chat", "leaving"} => Listens(p)
    /\ at[p] = "opening" => thread[p].pc = "none"
    /\ at[p] \notin {"opening", "broken"} => NoHistory(toClient[p]) /\ NoGet(toServer[p])
    /\ player[p].isInChatRoom <=> player[p].receiver # NoOne

Scene(p) == Stands(p) /\ Opening(p) /\ Chatting(p)
Staged == Ordered /\ Inductive /\ \A p \in People : Scene(p)

Same(q) ==
    /\ player'[q] = player[q] /\ toServer'[q] = toServer[q] /\ toClient'[q] = toClient[q]
    /\ at'[q] = at[q] /\ partner'[q] = partner[q] /\ screen'[q] = screen[q]
    /\ thread'[q] = thread[q]

LEMMA SceneStill ==
    ASSUME NEW q \in People, Scene(q), Same(q), UNCHANGED table PROVE Scene(q)'
<1>1. Stands(q)'
  BY DEF Same, Scene, Stands, Listens, NoHistory, NoGet
<1>2. /\ Unread(q)' = Unread(q) /\ (Fits(q)' <=> Fits(q))
      /\ \A m : (Wanted(q, m)' <=> Wanted(q, m)) /\ (Mine(q, m)' <=> Mine(q, m))
  BY DEF Same, Unread, Got, Fits, Wanted, Mine
<1>3. /\ \A s : Asked(q, s)' <=> Asked(q, s)
      /\ \A c, k : Answered(q, c, k)' <=> Answered(q, c, k)
  BY <1>2 DEF Same, Asked, Answered
<1>4. Opening(q)'
  BY <1>3 DEF Same, Scene, Opening
<1>5. Chatting(q)'
  BY <1>2 DEF Same, Scene, Chatting, Typing, Hearing, Showing, Missing
<1> QED
  BY <1>1, <1>4, <1>5 DEF Scene

\* p stands where it neither opens a chat nor is in it.
LEMMA SceneAway ==
    ASSUME NEW p, Stands(p)', at'[p] \notin {"opening", "chat"} PROVE Scene(p)'
BY DEF Scene, Opening, Chatting

LEMMA NoGetAppend ==
    ASSUME NEW s \in Seq(Requests), NEW r \in Requests, NoGet(s), r.type # "GET_MESSAGE"
    PROVE  NoGet(Append(s, r))
BY ToSetAppend DEF NoGet

\* A chat is opened, left or forgotten.
LEMMA LeavingScene ==
    ASSUME Staged, NEW p \in People,
           (\E q \in People : OpenChat(p, q)) \/ Escape(p) \/ Cancel(p)
    PROVE  \A q \in People : Scene(q)'
<1>1. /\ toServer[p] \in Seq(Requests) /\ toClient[p] \in Seq(Answers)
      /\ Typed /\ Scene(p) /\ PerPerson(at) /\ PerPerson(partner)
  BY DEF Staged, Ordered, Typed, TypeOK, Inductive, Shaped
<1>2. UNCHANGED <<player, table, toClient>>
  BY DEF OpenChat, Escape, Cancel, Server
<1>3. ASSUME NEW q \in People, q # p PROVE Scene(q)'
  <2>1. Same(q)
    BY <1>1, <1>2, <1>3 DEF OpenChat, Escape, Cancel, Same, Goes, Send, Typed, TypeOK
  <2> QED
    BY <1>2, <2>1, SceneStill DEF Staged
<1>4. ASSUME NEW q \in People, OpenChat(p, q) PROVE Scene(p)'
  <2> DEFINE in == [type |-> "INCHATROOM", who |-> q]
             get == [type |-> "GET_MESSAGE", who |-> q]
  <2> PICK s : s = Append(toServer[p], in)
    OBVIOUS
  <2>1. in \in Requests /\ get \in Requests /\ in.type = "INCHATROOM" /\ get.type = "GET_MESSAGE"
        /\ get.who = q
    BY RequestsAre
  <2>2. Send(p, <<in, get>>) /\ at[p] = "profile" /\ thread[p].pc = "none" /\ UNCHANGED thread
    BY <1>4 DEF OpenChat
  <2>3. at'[p] = "opening" /\ partner'[p] = q
    BY <1>1, <1>4 DEF OpenChat, Goes, Typed, TypeOK
  <2> HIDE DEF in, get
  <2>4. toServer'[p] = Append(s, get)
    BY <1>1, <2>1, <2>2, SendTwo
  <2>5. NoHistory(toClient[p]) /\ NoGet(toServer[p])
    BY <1>1, <2>2 DEF Scene, Stands
  <2>6. s \in Seq(Requests) /\ NoGet(s)
    BY <1>1, <2>1, <2>5, NoGetAppend
  <2>7. /\ Len(s) \in Nat /\ Append(s, get) # <<>> /\ Len(Append(s, get)) = Len(s) + 1
        /\ Append(s, get)[Len(s) + 1] = get
        /\ \A i \in 1..Len(s) : Append(s, get)[i] = s[i] /\ s[i].type # "GET_MESSAGE"
    BY <2>1, <2>6, ToSetAppend, ToSetIs DEF NoGet
  <2>8. Asked(p, toServer[p])'
    <3>1. /\ Append(s, get)[Len(Append(s, get))] = get
          /\ \A i \in 1..Len(Append(s, get)) - 1 : i \in 1..Len(s)
      BY <2>7
    <3> QED
      BY <2>1, <2>3, <2>4, <2>7, <3>1 DEF Asked
  <2>9. Opening(p)'
    BY <1>2, <2>3, <2>4, <2>5, <2>8 DEF Opening
  <2>10. Stands(p)'
    BY <1>1, <1>2, <2>2, <2>3 DEF Scene, Stands
  <2> QED
    BY <2>3, <2>9, <2>10 DEF Scene, Chatting
<1>5. ASSUME NEW r \in Requests, Send(p, <<r>>), r.type # "GET_MESSAGE", NoGet(toServer[p])
      PROVE  NoGet(toServer[p])'
  <2>1. toServer'[p] = Append(toServer[p], r)
    BY <1>1, <1>5, SendOne
  <2> QED
    BY <1>1, <1>5, <2>1, NoGetAppend
<1>6. CASE Escape(p)
  <2>1. /\ at[p] = "chat" /\ at'[p] = "leaving" /\ UNCHANGED thread
        /\ Send(p, <<[type |-> "LEAVE_CHAT"]>>)
    BY <1>1, <1>6 DEF Escape, Goes, Typed, TypeOK
  <2>2. NoGet(toServer[p])'
    BY <1>1, <1>5, <2>1, RequestsAre DEF Scene, Stands
  <2>3. Stands(p)'
    BY <1>1, <1>2, <2>1, <2>2 DEF Scene, Stands, Listens
  <2> QED
    BY <1>3, <2>1, <2>3, SceneAway
<1>7. CASE Cancel(p)
  <2>1. /\ at[p] = "leaving" /\ at'[p] = "listing"
        /\ Send(p, <<[type |-> "GET_FRIEND_LIST"]>>)
    BY <1>1, <1>7 DEF Cancel, Goes, Typed, TypeOK
  <2>2. NoGet(toServer[p])'
    BY <1>1, <1>5, <2>1, RequestsAre DEF Scene, Stands
  <2>3. Stands(p)'
    BY <1>1, <1>2, <2>1, <2>2 DEF Scene, Stands
  <2> QED
    BY <1>3, <2>1, <2>3, SceneAway
<1> QED
  BY <1>3, <1>4, <1>6, <1>7

\* ENTER.
LEMMA EnterScene ==
    ASSUME Staged, Ordered', NEW p \in People, NEW text \in Texts \cup {NoOne}, Enter(p, text)
    PROVE  \A q \in People : Scene(q)'
<1> PICK w : w = Written(p, text)
  OBVIOUS
<1> PICK r : r = [type |-> "SEND_MESSAGE", m |-> w]
  OBVIOUS
<1>1. /\ toServer[p] \in Seq(Requests) /\ screen[p] \in Seq(Lines) /\ Typed
      /\ Stands(p) /\ Typing(p) /\ Hearing(p) /\ Showing(p) /\ Missing(p)
  BY EnterIs DEF Staged, Ordered, Typed, TypeOK, Scene, Chatting
<1>2. /\ at[p] = "chat" /\ UNCHANGED <<player, table, toClient, at, partner, thread>>
      /\ \A q \in People : q # p => screen'[q] = screen[q]
      /\ \/ w \in ChatMessages /\ screen'[p] = Pushed(screen[p], w) /\ Send(p, <<r>>)
         \/ screen'[p] = Pushed(screen[p], Blank(p)) /\ UNCHANGED toServer
  BY <1>1, EnterIs DEF Server
<1>3. ASSUME NEW q \in People, q # p PROVE Scene(q)'
  <2>1. Same(q)
    BY <1>1, <1>2, <1>3 DEF Same, Send, Typed, TypeOK
  <2> QED
    BY <1>2, <2>1, SceneStill DEF Staged
<1>4. /\ w.from = p /\ w.to = partner[p] /\ Between(p, partner[p], w)
      /\ r.type = "SEND_MESSAGE" /\ r.m = w
  BY DEF Written, Between
<1>5. PICK l \in Lines, new \in SUBSET {r} :
        /\ screen'[p] = Pushed(screen[p], l)
        /\ ToSet(toServer'[p]) = ToSet(toServer[p]) \cup new
        /\ l = Blank(p) \/ (l = w /\ r \in new)
        /\ r \in new => l = w
        /\ NoGet(toServer'[p])
  <2>1. NoGet(toServer[p])
    BY <1>1, <1>2 DEF Stands
  <2>2. CASE w \in ChatMessages /\ screen'[p] = Pushed(screen[p], w) /\ Send(p, <<r>>)
    <3>1. r \in Requests
      BY <2>2, RequestsAre
    <3>2. toServer'[p] = Append(toServer[p], r)
      BY <1>1, <2>2, <3>1, SendOne
    <3>3. ToSet(toServer'[p]) = ToSet(toServer[p]) \cup {r} /\ NoGet(toServer'[p])
      BY <1>1, <1>4, <2>1, <3>1, <3>2, ToSetAppend, NoGetAppend
    <3>4. w \in Lines /\ {r} \in SUBSET {r} /\ r \in {r}
      BY <2>2, LinesAre
    <3> QED
      BY <2>2, <3>3, <3>4
  <2>3. CASE screen'[p] = Pushed(screen[p], Blank(p)) /\ UNCHANGED toServer
    <3>1. Blank(p) \in Lines /\ {} \in SUBSET {r} /\ r \notin {}
      BY LinesAre
    <3> QED
      BY <2>1, <2>3, <3>1
  <2> QED
    BY <1>2, <2>2, <2>3
<1>6. /\ ToSet(screen'[p]) \subseteq ToSet(screen[p]) \cup {l}
      /\ Fits(p)' => Fits(p) /\ ToSet(screen'[p]) = ToSet(screen[p]) \cup {l}
  BY <1>1, <1>5, PushedIs DEF Fits
<1>7. /\ Unread(p)' = Unread(p)
      /\ \A m : (Wanted(p, m)' <=> Wanted(p, m)) /\ (Mine(p, m)' <=> Mine(p, m))
  BY <1>2 DEF Unread, Got, Wanted, Mine
<1>8. Typing(p)'
  BY <1>1, <1>2, <1>4, <1>5, <1>6 DEF Typing, IsSend
<1>9. Showing(p)'
  <2>1. ASSUME NEW x \in ToSet(screen'[p]), x # Blank(p)
        PROVE  /\ Between(p, partner[p], x)
               /\ x \in ToSet(table) \/ \E s \in ToSet(toServer'[p]) : IsSend(s) /\ s.m = x
    <3>1. CASE x \in ToSet(screen[p])
      BY <1>1, <1>5, <2>1, <3>1 DEF Showing
    <3>2. CASE x = l
      BY <1>4, <1>5, <2>1, <3>2 DEF IsSend
    <3> QED
      BY <1>6, <2>1, <3>1, <3>2
  <2> QED
    BY <1>2, <2>1 DEF Showing
<1>10. Hearing(p)' /\ Missing(p)'
  BY <1>1, <1>2, <1>6, <1>7 DEF Hearing, Missing
<1>11. Stands(p)'
  BY <1>1, <1>2, <1>5 DEF Stands, Listens
<1>12. Opening(p)'
  BY <1>2 DEF Opening
<1> QED
  BY <1>3, <1>8, <1>9, <1>10, <1>11, <1>12 DEF Scene, Chatting

\* A menu reads an answer.
LEMMA NoHistoryTail ==
    ASSUME NEW c \in Seq(Answers), c # <<>>, NoHistory(c)
    PROVE  NoHistory(Tail(c)) /\ Head(c).type # "history"
BY ToSetTail DEF NoHistory

\* The history comes first: the rest are messages it does not hold.
LEMMA AnsweredFirst ==
    ASSUME NEW p, NEW c \in Seq(Answers), c # <<>>, Head(c).type = "history",
           NEW k \in 1..Len(c), Answered(p, c, k)
    PROVE  /\ NoHistory(Tail(c))
           /\ \A x \in ToSet(Head(c).rows) : x \in ToSet(table) /\ Between(p, partner[p], x)
           /\ \A b \in ToSet(Tail(c)) : b.type = "message" => Mine(p, b.m)
           /\ \A m \in ToSet(table) : Wanted(p, m) =>
                m \in ToSet(Head(c).rows) \/ \E b \in ToSet(Tail(c)) : Brings(b, m)
<1>1. /\ Tail(c) \in Seq(Answers) /\ Len(c) \in Nat \ {0} /\ Head(c) = c[1]
      /\ Len(Tail(c)) = Len(c) - 1 /\ \A i \in 1..Len(c) - 1 : Tail(c)[i] = c[i + 1]
  OBVIOUS
<1>2. k = 1
  <2>1. 1 \in 1..Len(c)
    BY <1>1
  <2> QED
    BY <1>1, <2>1 DEF Answered
<1>3. ToSet(Tail(c)) = {Tail(c)[i] : i \in 1..Len(c) - 1}
  BY <1>1, ToSetIs
<1>4. ASSUME NEW b \in ToSet(Tail(c)) PROVE \E j \in 2..Len(c) : b = c[j]
  <2>1. PICK i \in 1..Len(c) - 1 : b = c[i + 1]
    BY <1>1, <1>3
  <2>2. i + 1 \in 2..Len(c)
    BY <1>1
  <2> QED
    BY <2>1, <2>2
<1>5. ASSUME NEW j \in 2..Len(c) PROVE c[j] \in ToSet(Tail(c))
  <2>1. j - 1 \in 1..Len(c) - 1 /\ (j - 1) + 1 = j
    BY <1>1
  <2> QED
    BY <1>1, <1>3, <2>1
<1>6. /\ \A j \in 2..Len(c) : j \in 1..Len(c) /\ j # 1 /\ j \in 1 + 1..Len(c)
      /\ 1 + 1..Len(c) = 2..Len(c)
  BY <1>1
<1>7. NoHistory(Tail(c))
  BY <1>2, <1>4, <1>6 DEF Answered, NoHistory
<1>8. \A b \in ToSet(Tail(c)) : b.type = "message" => Mine(p, b.m)
  BY <1>2, <1>4, <1>6 DEF Answered
<1>9. ASSUME NEW m \in ToSet(table), Wanted(p, m), m \notin ToSet(Head(c).rows)
      PROVE  \E b \in ToSet(Tail(c)) : Brings(b, m)
  <2>1. PICK j \in 2..Len(c) : Brings(c[j], m)
    BY <1>1, <1>2, <1>6, <1>9 DEF Answered
  <2> QED
    BY <1>5, <2>1
<1> QED
  BY <1>1, <1>2, <1>7, <1>8, <1>9 DEF Answered

LEMMA MenuScene ==
    ASSUME Staged, Ordered', NEW p \in People, ShowHistory(p) \/ Misreads(p) \/ ShowList(p)
    PROVE  \A q \in People : Scene(q)'
<1>1. /\ toClient[p] \in Seq(Answers) /\ Stands(p) /\ Opening(p) /\ Typed
  BY DEF Staged, Ordered, Typed, TypeOK, Scene
<1>2. UNCHANGED <<player, table, toServer>>
  BY DEF ShowHistory, Misreads, ShowList, Server, Streams
<1>3. ASSUME NEW q \in People, q # p PROVE Scene(q)'
  <2>1. Same(q)
    BY <1>1, <1>2, <1>3 DEF ShowHistory, Misreads, ShowList, Reads, Same, Goes, Streams, Typed, TypeOK
  <2> QED
    BY <1>2, <2>1, SceneStill DEF Staged
<1>4. CASE ShowHistory(p)
  <2> PICK c, h, rows : c = toClient[p] /\ h = Head(c) /\ rows = h.rows
    OBVIOUS
  <2>1. /\ c # <<>> /\ h.type = "history" /\ at[p] = "opening" /\ UNCHANGED partner
        /\ toClient'[p] = Tail(c)
    BY <1>1, <1>4 DEF ShowHistory, Reads, Typed, TypeOK
  <2>2. /\ at'[p] = "chat" /\ screen'[p] = LastOf(rows) /\ thread'[p] = Waiting
    BY <1>1, <1>4 DEF ShowHistory, Goes, Typed, TypeOK
  <2>3. /\ c \in Seq(Answers) /\ h \in Answers /\ h \in ToSet(c)
    BY <1>1, <2>1, ToSetTail
  <2>4. rows \in Seq(ChatMessages)
    BY <2>1, <2>3, AnswersAre
  <2>5. toServer[p] = <<>> /\ \E k \in 1..Len(c) : Answered(p, c, k)
    BY <1>1, <2>1, <2>3 DEF Opening, NoHistory
  <2>6. /\ NoHistory(Tail(c))
        /\ \A x \in ToSet(rows) : x \in ToSet(table) /\ Between(p, partner[p], x)
        /\ \A b \in ToSet(Tail(c)) : b.type = "message" => Mine(p, b.m)
        /\ \A m \in ToSet(table) : Wanted(p, m) =>
             m \in ToSet(rows) \/ \E b \in ToSet(Tail(c)) : Brings(b, m)
    BY <2>1, <2>3, <2>5, AnsweredFirst
  <2>7. Unread(p)' = ToSet(Tail(c))
    BY <2>1, <2>2 DEF Unread, Got, Waiting
  <2>8. /\ ToSet(screen'[p]) \subseteq ToSet(rows)
        /\ Fits(p)' => screen'[p] = rows
    BY <2>2, <2>4, LastOfIs DEF Fits
  <2>9. \A m : (Wanted(p, m)' <=> Wanted(p, m)) /\ (Mine(p, m)' <=> Mine(p, m))
    BY <1>2, <2>1 DEF Wanted, Mine
  <2>10. ToSet(toServer'[p]) = {}
    BY <1>2, <2>5 DEF ToSet
  <2>11. Typing(p)' /\ Showing(p)'
    BY <1>2, <2>1, <2>6, <2>8, <2>10 DEF Typing, Showing
  <2>12. Hearing(p)'
    BY <2>6, <2>7, <2>9 DEF Hearing
  <2>13. Missing(p)'
    BY <1>2, <2>6, <2>7, <2>8, <2>9 DEF Missing
  <2>14. Stands(p)'
    BY <1>1, <1>2, <2>1, <2>2, <2>6, <2>10 DEF Stands, Listens, Waiting, NoGet
  <2>15. Scene(p)'
    BY <2>2, <2>11, <2>12, <2>13, <2>14 DEF Scene, Chatting, Opening
  <2> QED
    BY <1>3, <2>15
<1>5. CASE Misreads(p)
  <2>1. at'[p] = "broken"
    BY <1>1, <1>5 DEF Misreads, Goes, Typed, TypeOK
  <2>2. Stands(p)'
    BY <1>1, <1>2, <2>1 DEF Stands
  <2> QED
    BY <1>3, <2>1, <2>2, SceneAway
<1>6. CASE ShowList(p)
  <2>1. /\ at[p] = "listing" /\ at'[p] = "profile" /\ toClient[p] # <<>>
        /\ toClient'[p] = Tail(toClient[p])
    BY <1>1, <1>6 DEF ShowList, Reads, Goes, Typed, TypeOK
  <2>2. NoHistory(toClient'[p])
    BY <1>1, <2>1, NoHistoryTail DEF Stands
  <2>3. Stands(p)'
    BY <1>1, <1>2, <2>1, <2>2 DEF Stands
  <2> QED
    BY <1>3, <2>1, <2>3, SceneAway
<1> QED
  BY <1>4, <1>5, <1>6

\* The thread reads, or shows what it has read.
LEMMA ThreadScene ==
    ASSUME Staged, Ordered', NEW p \in People, Thread(p)
    PROVE  \A q \in People : Scene(q)'
<1>1. /\ toClient[p] \in Seq(Answers) /\ screen[p] \in Seq(Lines) /\ Scene(p)
      /\ Stands(p) /\ Typed
  BY DEF Staged, Ordered, Typed, TypeOK, Scene
<1>2. UNCHANGED <<player, table, toServer, at, partner>>
  BY DEF Thread, ThreadRead, ThreadShow, Server, Streams
<1>3. ASSUME NEW q \in People, q # p PROVE Scene(q)'
  <2>1. Same(q)
    BY <1>1, <1>2, <1>3 DEF Thread, ThreadRead, ThreadShow, Same, Streams, Typed, TypeOK
  <2> QED
    BY <1>2, <2>1, SceneStill DEF Staged
<1>4. thread[p].pc # "none" /\ at[p] # "opening"
  BY <1>1 DEF Thread, ThreadRead, ThreadShow, Stands
<1>5. \A m : (Wanted(p, m)' <=> Wanted(p, m)) /\ (Mine(p, m)' <=> Mine(p, m))
  BY <1>2 DEF Wanted, Mine
<1>6. CASE ThreadRead(p)
  <2> PICK c, h : c = toClient[p] /\ h = Head(c)
    OBVIOUS
  <2>1. /\ c # <<>> /\ toClient'[p] = Tail(c) /\ thread[p].pc = "waiting"
        /\ thread'[p] = [pc |-> "got", hand |-> h] /\ UNCHANGED screen
    BY <1>1, <1>6 DEF ThreadRead, Typed, TypeOK
  <2>2. ToSet(c) = ToSet(Tail(c)) \cup {h}
    BY <1>1, <2>1, ToSetTail
  <2>3. Unread(p)' = Unread(p) /\ (Fits(p)' <=> Fits(p))
    BY <2>1, <2>2 DEF Unread, Got, Fits
  <2>4. NoHistory(c) => NoHistory(Tail(c))
    BY <2>2 DEF NoHistory
  <2>5. Stands(p)'
    BY <1>1, <1>2, <2>1, <2>4 DEF Stands, Listens
  <2>6. Chatting(p)'
    BY <1>1, <1>2, <1>5, <2>1, <2>3 DEF Scene, Chatting, Typing, Hearing, Showing, Missing
  <2> QED
    BY <1>2, <1>3, <1>4, <2>5, <2>6 DEF Scene, Opening
<1>7. CASE ThreadShow(p)
  <2>1. /\ UNCHANGED toClient /\ thread'[p] \in {Waiting, Asleep}
        /\ Listens(p) => thread[p].pc = "got" /\ thread'[p] = Waiting
    BY <1>1, <1>7 DEF ThreadShow, Streams, Listens, Typed, TypeOK
  <2>2. Stands(p)'
    BY <1>1, <1>2, <1>4, <2>1 DEF Stands, Listens, Waiting
  <2>3. CASE at[p] # "chat"
    BY <1>2, <1>3, <1>4, <2>2, <2>3, SceneAway
  <2>4. CASE at[p] = "chat"
    <3> PICK a : a = thread[p].hand
      OBVIOUS
    <3>1. /\ Typing(p) /\ Hearing(p) /\ Showing(p) /\ Missing(p)
          /\ Got(p) /\ thread'[p] = Waiting
      BY <1>1, <2>1, <2>4 DEF Scene, Chatting, Stands, Got
    <3>2. /\ a \in Answers /\ Unread(p) = Unread(p)' \cup {a}
      BY <1>1, <2>1, <3>1 DEF Unread, Got, Waiting, Typed, Holding
    <3>3. \/ /\ a.type = "message" /\ screen'[p] = Pushed(screen[p], a.m)
          \/ /\ a.type = "message" => a.m.text = Confirmation
             /\ screen'[p] = screen[p]
      BY <1>1, <1>7, <3>1 DEF ThreadShow, Shown, Got, Typed, TypeOK
    <3>4. a.type = "message" =>
            /\ a.m \in Lines /\ Mine(p, a.m) /\ Between(p, partner[p], a.m) /\ a.m.from # p
      <4>1. a.type = "message" => a.m \in Lines /\ Mine(p, a.m)
        BY <3>1, <3>2, AnswersAre, LinesAre DEF Hearing
      <4>2. partner[p] # p
        BY <1>1, <2>4 DEF Typed, Facing
      <4> QED
        BY <4>1, <4>2 DEF Mine, Between
    <3>5. PICK new \in SUBSET {a} :
            /\ ToSet(screen'[p]) \subseteq ToSet(screen[p]) \cup {b.m : b \in new}
            /\ Fits(p)' => Fits(p) /\ ToSet(screen'[p]) = ToSet(screen[p]) \cup {b.m : b \in new}
            /\ a \in new => a.type = "message"
            /\ a.type = "message" /\ a.m.text # Confirmation => a \in new
      <4>1. CASE a.type = "message" /\ screen'[p] = Pushed(screen[p], a.m)
        <5>1. /\ ToSet(screen'[p]) \subseteq ToSet(screen[p]) \cup {a.m}
              /\ Fits(p)' => Fits(p) /\ ToSet(screen'[p]) = ToSet(screen[p]) \cup {a.m}
          BY <1>1, <3>4, <4>1, PushedIs DEF Fits
        <5>2. {b.m : b \in {a}} = {a.m} /\ {a} \in SUBSET {a} /\ a \in {a}
          OBVIOUS
        <5> QED
          BY <4>1, <5>1, <5>2
      <4>2. CASE (a.type = "message" => a.m.text = Confirmation) /\ screen'[p] = screen[p]
        <5>1. {b.m : b \in {}} = {} /\ {} \in SUBSET {a} /\ a \notin {}
          OBVIOUS
        <5> QED
          BY <4>2, <5>1 DEF Fits
      <4> QED
        BY <3>3, <4>1, <4>2
    <3>6. Typing(p)'
      BY <1>2, <3>1, <3>5 DEF Typing
    <3>7. Hearing(p)'
      BY <1>5, <3>1, <3>2 DEF Hearing
    <3>8. Showing(p)'
      BY <1>2, <3>1, <3>4, <3>5 DEF Showing, Mine
    <3>9. Missing(p)'
      <4>1. ASSUME NEW m \in ToSet(table), Wanted(p, m), Fits(p)',
                   m \notin ToSet(screen'[p])
            PROVE  \E b \in Unread(p)' : Brings(b, m)
        <5>1. PICK b \in Unread(p) : Brings(b, m)
          BY <3>1, <3>5, <4>1 DEF Missing
        <5>2. b # a
          BY <3>4, <3>5, <4>1, <5>1 DEF Brings, Wanted
        <5> QED
          BY <3>2, <5>1, <5>2
      <4> QED
        BY <1>2, <1>5, <4>1 DEF Missing
    <3> QED
      BY <1>2, <1>3, <1>4, <2>2, <3>6, <3>7, <3>8, <3>9 DEF Scene, Opening, Chatting
  <2> QED
    BY <2>3, <2>4
<1> QED
  BY <1>6, <1>7 DEF Thread

-----------------------------------------------------------------------------
(* The server reads.                                                         *)

LEMMA AskedTail ==
    ASSUME NEW p, NEW s \in Seq(Requests), Asked(p, s)
    PROVE  /\ Head(s).type # "GET_MESSAGE" => Asked(p, Tail(s))
           /\ Head(s).type = "GET_MESSAGE" => Tail(s) = <<>> /\ Head(s).who = partner[p]
<1> PICK t : t = Tail(s)
  OBVIOUS
<1> PICK n : n = Len(s)
  OBVIOUS
<1>1. /\ n \in Nat \ {0} /\ Head(s) = s[1] /\ t \in Seq(Requests)
      /\ Len(t) = n - 1 /\ \A i \in 1..n - 1 : t[i] = s[i + 1]
      /\ t = <<>> <=> Len(t) = 0
  BY DEF Asked
<1>2. /\ s[n].type = "GET_MESSAGE" /\ s[n].who = partner[p]
      /\ \A i \in 1..n - 1 : s[i].type # "GET_MESSAGE"
  BY DEF Asked
<1>3. CASE n = 1
  BY <1>1, <1>2, <1>3
<1>4. CASE n > 1
  <2>1. 1 \in 1..n - 1 /\ n - 1 \in 1..n - 1 /\ (n - 1) + 1 = n
    BY <1>1, <1>4
  <2>2. Head(s).type # "GET_MESSAGE" /\ t # <<>> /\ t[Len(t)] = s[n]
    BY <1>1, <1>2, <2>1
  <2>3. ASSUME NEW i \in 1..Len(t) - 1 PROVE t[i].type # "GET_MESSAGE"
    <3>1. i \in 1..n - 1 /\ i + 1 \in 1..n - 1
      BY <1>1, <1>4
    <3> QED
      BY <1>1, <1>2, <3>1
  <2>4. Asked(p, t)
    BY <1>2, <2>2, <2>3 DEF Asked
  <2> QED
    BY <2>2, <2>4
<1> QED
  BY <1>1, <1>3, <1>4

LEMMA NoHistoryAppend ==
    ASSUME NEW c \in Seq(Answers), NEW a \in Answers, NoHistory(c), a.type # "history"
    PROVE  NoHistory(Append(c, a))
BY ToSetAppend DEF NoHistory

\* An answer that holds all that p needs comes last.
LEMMA AnsweredLast ==
    ASSUME NEW p, NEW c \in Seq(Answers), NEW a \in Answers, NoHistory(c), a.type = "history",
           \A x \in ToSet(a.rows) : x \in ToSet(table) /\ Between(p, partner[p], x),
           \A m \in ToSet(table) : Wanted(p, m) => m \in ToSet(a.rows)
    PROVE  Len(c) + 1 \in 1..Len(Append(c, a)) /\ Answered(p, Append(c, a), Len(c) + 1)
<1> DEFINE d == Append(c, a)
           k == Len(c) + 1
<1>1. /\ Len(c) \in Nat /\ Len(d) = k /\ d[k] = a
      /\ \A i \in 1..Len(c) : d[i] = c[i] /\ c[i].type # "history"
  BY ToSetAppend, ToSetIs DEF NoHistory
<1>2. k \in 1..Len(d) /\ k + 1..Len(d) = {} /\ \A j \in 1..Len(d) : j # k => j \in 1..Len(c)
  BY <1>1
<1> HIDE DEF d, k
<1>3. Answered(p, d, k)
  BY <1>1, <1>2 DEF Answered
<1> QED
  BY <1>2, <1>3 DEF d, k

LEMMA TakesScene ==
    ASSUME Staged, NEW p \in People, NEW type, Takes(p, type), NEW h, h = Head(toServer[p])
    PROVE  /\ UNCHANGED <<at, partner, screen, thread>> /\ Typed /\ Scene(p) /\ Stands(p)
           /\ toServer[p] \in Seq(Requests) /\ toServer[p] # <<>>
           /\ h \in Requests /\ h.type = type /\ ToSet(toServer[p]) = ToSet(toServer'[p]) \cup {h}
           /\ toServer'[p] = Tail(toServer[p])
           /\ \A q \in People : q # p => toServer'[q] = toServer[q]
<1>1. toServer[p] \in Seq(Requests) /\ Typed /\ Scene(p) /\ Stands(p)
  BY DEF Staged, Ordered, Typed, TypeOK, Scene
<1>2. /\ UNCHANGED <<at, partner, screen, thread>> /\ toServer[p] # <<>>
      /\ h \in Requests /\ h.type = type /\ toServer'[p] = Tail(toServer[p])
      /\ \A q \in People : q # p => toServer'[q] = toServer[q]
  BY <1>1, TakesType DEF Client
<1>3. ToSet(toServer[p]) = ToSet(toServer'[p]) \cup {h}
  BY <1>1, <1>2, ToSetTail
<1> QED
  BY <1>1, <1>2, <1>3

LEMMA ServeScene ==
    ASSUME Staged, Ordered', NEW p \in People,
           InChatRoom(p) \/ LeaveChat(p) \/ GetMessages(p) \/ GetFriendList(p)
    PROVE  \A q \in People : Scene(q)'
<1>1. PICK type : /\ Takes(p, type) /\ type # "SEND_MESSAGE"
                  /\ InChatRoom(p) => type = "INCHATROOM"
                  /\ type = "GET_MESSAGE" <=> GetMessages(p)
                  /\ UNCHANGED table
  BY DEF InChatRoom, LeaveChat, GetMessages, GetFriendList, Takes, Server
<1> PICK h, c : h = Head(toServer[p]) /\ c = toClient[p]
  OBVIOUS
<1>2. /\ UNCHANGED <<at, partner, screen, thread>> /\ Typed /\ Scene(p) /\ Stands(p)
      /\ toServer[p] \in Seq(Requests) /\ toServer[p] # <<>>
      /\ h \in Requests /\ h.type = type /\ ToSet(toServer[p]) = ToSet(toServer'[p]) \cup {h}
      /\ toServer'[p] = Tail(toServer[p])
      /\ \A q \in People : q # p => toServer'[q] = toServer[q]
  BY <1>1, TakesScene
<1>3. c \in Seq(Answers)
  BY <1>2 DEF Typed, TypeOK
<1>4. at[p] # "chat"
  BY <1>1, <1>2 DEF Scene, Chatting, Typing, IsSend
<1>5. PICK a \in Answers :
        /\ toClient'[p] \in {c, Append(c, a)}
        /\ a.type = "history" => GetMessages(p)
        /\ GetMessages(p) =>
             /\ a.type = "history" /\ toClient'[p] = Append(c, a)
             /\ a.rows = History(p, h.who)
        /\ \A q \in People : q # p => toClient'[q] = toClient[q]
  <2>1. CASE InChatRoom(p) \/ LeaveChat(p)
    <3>1. UNCHANGED toClient /\ ~GetMessages(p)
      BY <2>1 DEF InChatRoom, LeaveChat, GetMessages, Takes
    <3>2. [type |-> "list"] \in Answers
      BY AnswersAre
    <3> QED
      BY <3>1, <3>2
  <2>2. CASE GetMessages(p)
    <3>1. History(p, h.who) \in Seq(ChatMessages)
      BY <1>2, HistoryIs DEF Typed, TypeOK
    <3>2. PICK a \in Answers : a = [type |-> "history", rows |-> History(p, h.who)]
      BY <3>1, AnswersAre
    <3>3. Answer(p, a) /\ a.type = "history" /\ a.rows = History(p, h.who)
      BY <2>2, <3>2 DEF GetMessages
    <3> QED
      BY <1>2, <2>2, <3>3, AnswerType
  <2>3. CASE GetFriendList(p)
    <3>1. PICK a \in Answers : a = [type |-> "list"]
      BY AnswersAre
    <3>2. Answer(p, a) /\ a.type = "list" /\ ~GetMessages(p)
      BY <2>3, <3>1 DEF GetFriendList, GetMessages, Takes
    <3> QED
      BY <1>2, <3>2, AnswerType
  <2> QED
    BY <2>1, <2>2, <2>3
<1>6. /\ player'[p].isInChatRoom <=> player'[p].receiver # NoOne
      /\ \A q \in People : q # p => player'[q] = player[q]
  <2>1. CASE InChatRoom(p)
    <3>1. h.who \in People /\ NoOne \notin People
      BY <1>1, <1>2, <2>1, RequestsAre, ChatAssumption
    <3>2. player' = [player EXCEPT ![p] = [isInChatRoom |-> TRUE, receiver |-> h.who]]
      BY <2>1 DEF InChatRoom
    <3> QED
      BY <1>2, <3>1, <3>2 DEF Typed, TypeOK
  <2>2. CASE LeaveChat(p)
    <3>1. player' = [player EXCEPT ![p] = [isInChatRoom |-> FALSE, receiver |-> NoOne]]
      BY <2>2 DEF LeaveChat
    <3> QED
      BY <1>2, <3>1 DEF Typed, TypeOK
  <2>3. CASE GetMessages(p) \/ GetFriendList(p)
    BY <1>2, <2>3 DEF GetMessages, GetFriendList, Server, Stands
  <2> QED
    BY <2>1, <2>2, <2>3
<1>7. ASSUME NEW q \in People, q # p PROVE Scene(q)'
  <2>1. Same(q)
    BY <1>2, <1>5, <1>6, <1>7 DEF Same
  <2> QED
    BY <1>1, <2>1, SceneStill DEF Staged
<1>8. ASSUME NoHistory(c), ~GetMessages(p) PROVE NoHistory(toClient[p])'
  BY <1>3, <1>5, <1>8, NoHistoryAppend
<1>9. NoGet(toServer[p]) => NoGet(toServer'[p]) /\ ~GetMessages(p)
  BY <1>1, <1>2 DEF NoGet
<1>10. Stands(p)'
  BY <1>2, <1>6, <1>8, <1>9 DEF Stands, Listens
<1>11. CASE at[p] # "opening"
  BY <1>2, <1>4, <1>7, <1>10, <1>11, SceneAway
<1>12. CASE at[p] = "opening"
  <2>1. Asked(p, toServer[p]) /\ NoHistory(c)
    BY <1>2, <1>12 DEF Scene, Opening
  <2>2. /\ type # "GET_MESSAGE" => Asked(p, toServer'[p])
        /\ type = "GET_MESSAGE" => toServer'[p] = <<>> /\ h.who = partner[p]
    BY <1>2, <2>1, AskedTail
  <2>3. CASE ~GetMessages(p)
    <3>1. Asked(p, toServer[p])'
      BY <1>1, <1>2, <2>2, <2>3 DEF Asked
    <3>2. Opening(p)'
      BY <1>8, <2>1, <2>3, <3>1 DEF Opening
    <3> QED
      BY <1>2, <1>7, <1>10, <1>12, <3>2 DEF Scene, Chatting
  <2>4. CASE GetMessages(p)
    <3>1. /\ toServer'[p] = <<>> /\ a.type = "history" /\ toClient'[p] = Append(c, a)
          /\ a.rows = History(p, partner[p])
      BY <1>1, <1>5, <2>2, <2>4
    <3>2. ToSet(a.rows) = {m \in ToSet(table) : Between(p, partner[p], m)}
      BY <1>2, <3>1, HistoryIs DEF Typed, TypeOK
    <3>3. /\ \A x \in ToSet(a.rows) : x \in ToSet(table) /\ Between(p, partner[p], x)
          /\ \A m \in ToSet(table) : Wanted(p, m) => m \in ToSet(a.rows)
      BY <3>2 DEF Wanted
    <3>4. PICK k \in 1..Len(Append(c, a)) : Answered(p, Append(c, a), k)
      BY <1>3, <2>1, <3>1, <3>3, AnsweredLast
    <3>5. \A m : (Wanted(p, m)' <=> Wanted(p, m)) /\ (Mine(p, m)' <=> Mine(p, m))
      BY <1>1, <1>2 DEF Wanted, Mine
    <3>6. Answered(p, toClient[p], k)'
      BY <1>1, <1>2, <3>1, <3>4, <3>5 DEF Answered
    <3>7. Opening(p)'
      BY <3>1, <3>4, <3>6 DEF Opening
    <3> QED
      BY <1>2, <1>7, <1>10, <1>12, <3>7 DEF Scene, Chatting
  <2> QED
    BY <2>3, <2>4
<1> QED
  BY <1>11, <1>12

\* Nothing under way from q turns to somebody else: the server has its friend in
\* mind.
LEMMA FacesFriend ==
    ASSUME Staged, NEW q \in People, at[q] \in {"opening", "chat"},
           \A r \in ToSet(toServer[q]) : IsSend(r)
    PROVE  player[q].receiver = partner[q] /\ partner[q] \in People \ {q}
<1>1. /\ Len(toServer[q]) \in Nat
      /\ \A k \in 1..Len(toServer[q]) : toServer[q][k] \in ToSet(toServer[q])
  BY ToSetIs DEF Staged, Ordered, Typed, TypeOK
<1>2. \A k \in 1..Len(toServer[q]) : toServer[q][k].type \notin Turns
  BY <1>1 DEF IsSend, Turns
<1>3. Faces(toServer[q], Receiver(q), Len(toServer[q]) + 1, partner[q])
  BY DEF Staged, Inductive, Addressed
<1>4. \A k \in 1..(Len(toServer[q]) + 1) - 1 : k \in 1..Len(toServer[q])
  BY <1>1
<1>5. Receiver(q) = partner[q]
  BY <1>2, <1>3, <1>4 DEF Faces, Turns
<1> QED
  BY <1>5 DEF Receiver, Staged, Ordered, Typed, Facing

\* A friend in the chat hears exactly what is between the two.
LEMMA HearsFriend ==
    ASSUME Staged, NEW p \in People, NEW q \in People, q # p,
           player[q].receiver = partner[q], partner[q] \in People \ {q},
           NEW m, m.from = p, m.to = player[p].receiver
    PROVE  /\ Hears(q, p) <=> Between(q, partner[q], m)
           /\ Hears(q, p) => m.from = partner[q] /\ m.to = q
<1>1. \A x \in {p, q} : player[x].isInChatRoom <=> player[x].receiver # NoOne
  BY DEF Staged, Scene, Stands
<1>2. p # NoOne /\ q # NoOne
  BY ChatAssumption
<1>3. Hears(q, p) => m.from = partner[q] /\ m.to = q
  BY DEF Hears
<1>4. Between(q, partner[q], m) => p = partner[q] /\ m.to = q
  BY DEF Between
<1>5. Between(q, partner[q], m) => Hears(q, p)
  BY <1>1, <1>2, <1>4 DEF Hears
<1> QED
  BY <1>3, <1>5 DEF Between

\* The answers to q after its history, when the table gets the row m.
LEMMA AnsweredMore ==
    ASSUME NEW q, NEW c \in Seq(Answers), NEW k \in 1..Len(c), Answered(q, c, k),
           NEW m, ToSet(table') = ToSet(table) \cup {m}, partner'[q] = partner[q],
           NEW f \in Answers, f.type = "message", f.m = m,
           NEW d, d = c \/ (d = Append(c, f) /\ m.from = partner[q] /\ m.to = q),
           Between(q, partner[q], m) => d = Append(c, f)
    PROVE  k \in 1..Len(d) /\ Answered(q, d, k)'
<1>1. Len(c) \in Nat /\ k \in Nat /\ ToSet(table) \subseteq ToSet(table')
  OBVIOUS
<1>2. /\ Len(Append(c, f)) = Len(c) + 1 /\ Append(c, f)[Len(c) + 1] = f
      /\ \A i \in 1..Len(c) : Append(c, f)[i] = c[i]
  BY ToSetAppend
<1>3. PICK n \in {Len(c), Len(c) + 1} :
        /\ Len(d) = n /\ \A i \in 1..Len(c) : d[i] = c[i]
        /\ n = Len(c) + 1 => d[n] = f /\ m.from = partner[q] /\ m.to = q
        /\ Between(q, partner[q], m) => n = Len(c) + 1
  BY <1>1, <1>2
<1>4. \A j \in 1..n : j \in 1..Len(c) \/ (j = n /\ n = Len(c) + 1)
  BY <1>1
<1>5. k \in 1..n /\ d[k] = c[k] /\ 1..Len(c) \subseteq 1..n /\ k + 1..Len(c) \subseteq k + 1..n
  BY <1>1, <1>3
<1>6. \A j \in k + 1..n : j \in k + 1..Len(c) \/ (j = n /\ n = Len(c) + 1)
  BY <1>1
<1>7. n = Len(c) + 1 => n \in k + 1..n
  BY <1>1
<1>8. \A j \in k + 1..Len(c) : d[j] = c[j]
  BY <1>1, <1>3
<1>9. /\ c[k].type = "history" /\ \A j \in 1..Len(c) : j # k => c[j].type # "history"
      /\ \A x \in ToSet(c[k].rows) : x \in ToSet(table) /\ Between(q, partner[q], x)
      /\ \A j \in k + 1..Len(c) : c[j].type = "message" => Mine(q, c[j].m)
      /\ \A x \in ToSet(table) : Wanted(q, x) =>
           x \in ToSet(c[k].rows) \/ \E j \in k + 1..Len(c) : Brings(c[j], x)
  BY DEF Answered
<1>10. \A j \in 1..n : j # k => d[j].type # "history"
  BY <1>3, <1>4, <1>9
<1>11. ASSUME NEW j \in k + 1..n, d[j].type = "message" PROVE Mine(q, d[j].m)'
  BY <1>1, <1>3, <1>6, <1>8, <1>9, <1>11 DEF Mine
<1>12. ASSUME NEW x \in ToSet(table'), Wanted(q, x)'
       PROVE  x \in ToSet(d[k].rows) \/ \E j \in k + 1..n : Brings(d[j], x)
  <2>1. CASE x \in ToSet(table)
    <3>1. Wanted(q, x)
      BY <1>12, <2>1 DEF Wanted
    <3> QED
      BY <1>5, <1>8, <1>9, <2>1, <3>1
  <2>2. CASE x = m
    <3>1. n = Len(c) + 1
      BY <1>3, <1>12, <2>2 DEF Wanted
    <3>2. Brings(d[n], x)
      BY <1>3, <2>2, <3>1 DEF Brings
    <3> QED
      BY <1>7, <3>1, <3>2
  <2> QED
    BY <2>1, <2>2
<1> QED
  BY <1>1, <1>3, <1>5, <1>9, <1>10, <1>11, <1>12 DEF Answered

\* A message of p is served: what others see.
LEMMA SentToOthers ==
    ASSUME Staged, Ordered', NEW p \in People, SendMessages(p), NEW q \in People, q # p
    PROVE  Scene(q)'
<1> PICK m, c : m = Head(toServer[p]).m /\ c = toClient[q]
  OBVIOUS
<1> PICK f : f = Forward(p)
  OBVIOUS
<1>1. /\ Typed /\ Scene(q) /\ Stands(q) /\ Inductive
      /\ c \in Seq(Answers) /\ table \in Seq(ChatMessages)
  BY DEF Staged, Ordered, Typed, TypeOK, Scene
<1>2. /\ Takes(p, "SEND_MESSAGE") /\ UNCHANGED player
      /\ m \in ChatMessages /\ f \in Answers /\ f.type = "message" /\ f.m = m
      /\ table' = Append(table, m)
      /\ toClient'[q] = IF Hears(q, p) THEN Append(c, f) ELSE c
  BY <1>1, SendMessagesIs DEF Forward
<1>3. UNCHANGED <<at, partner, screen, thread>> /\ toServer'[q] = toServer[q]
  BY <1>2, TakesScene
<1>4. ToSet(table') = ToSet(table) \cup {m} /\ ToSet(Append(c, f)) = ToSet(c) \cup {f}
  BY <1>1, <1>2, ToSetAppend
<1>5. m.from = p /\ m.to = player[p].receiver
  BY <1>1, <1>2, ReadsAddressed
<1>6. NoHistory(c) => NoHistory(toClient[q])'
  BY <1>1, <1>2, NoHistoryAppend
<1>7. Stands(q)'
  BY <1>1, <1>2, <1>3, <1>6 DEF Stands, Listens
<1>8. CASE at[q] \notin {"opening", "chat"}
  BY <1>3, <1>7, <1>8, SceneAway
<1>9. ASSUME at[q] \in {"opening", "chat"}, \A r \in ToSet(toServer[q]) : IsSend(r)
      PROVE  /\ Hears(q, p) <=> Between(q, partner[q], m)
             /\ Hears(q, p) => m.from = partner[q] /\ m.to = q
  <2>1. player[q].receiver = partner[q] /\ partner[q] \in People \ {q}
    BY <1>9, FacesFriend
  <2> QED
    BY <1>5, <2>1, HearsFriend
<1>10. CASE at[q] = "opening"
  <2>1. CASE Asked(q, toServer[q]) /\ NoHistory(c)
    <3>1. Asked(q, toServer[q])'
      BY <1>3, <2>1 DEF Asked
    <3>2. Opening(q)'
      BY <1>6, <2>1, <3>1 DEF Opening
    <3> QED
      BY <1>3, <1>7, <1>10, <3>2 DEF Scene, Chatting
  <2>2. CASE toServer[q] = <<>> /\ \E k \in 1..Len(c) : Answered(q, c, k)
    <3>1. PICK k \in 1..Len(c) : Answered(q, c, k)
      BY <2>2
    <3>2. ToSet(toServer[q]) = {}
      BY <2>2 DEF ToSet
    <3>3. /\ Hears(q, p) <=> Between(q, partner[q], m)
          /\ Hears(q, p) => m.from = partner[q] /\ m.to = q
      BY <1>9, <1>10, <3>2
    <3>4. PICK d : d = toClient'[q]
      OBVIOUS
    <3>5. /\ d = c \/ (d = Append(c, f) /\ m.from = partner[q] /\ m.to = q)
          /\ Between(q, partner[q], m) => d = Append(c, f)
      BY <1>2, <3>3, <3>4
    <3>6. k \in 1..Len(d) /\ Answered(q, d, k)'
      BY <1>1, <1>2, <1>3, <1>4, <3>1, <3>5, AnsweredMore
    <3>7. Answered(q, toClient[q], k)'
      BY <3>4, <3>6 DEF Answered
    <3>8. Opening(q)'
      BY <1>3, <2>2, <3>4, <3>6, <3>7 DEF Opening
    <3> QED
      BY <1>3, <1>7, <1>10, <3>8 DEF Scene, Chatting
  <2> QED
    BY <1>1, <1>10, <2>1, <2>2 DEF Scene, Opening
<1>11. CASE at[q] = "chat"
  <2>1. Typing(q) /\ Hearing(q) /\ Showing(q) /\ Missing(q)
    BY <1>1, <1>11 DEF Scene, Chatting
  <2>2. /\ Hears(q, p) <=> Between(q, partner[q], m)
        /\ Hears(q, p) => m.from = partner[q] /\ m.to = q
    BY <1>9, <1>11, <2>1 DEF Typing
  <2>3. Unread(q)' = Unread(q) \cup (IF Hears(q, p) THEN {f} ELSE {})
    BY <1>2, <1>3, <1>4 DEF Unread, Got
  <2>4. Fits(q)' <=> Fits(q)
    BY <1>3 DEF Fits
  <2>5. Typing(q)'
    BY <1>3, <2>1, <2>4 DEF Typing
  <2>6. Hearing(q)'
    BY <1>2, <1>3, <1>4, <2>1, <2>2, <2>3 DEF Hearing, Mine
  <2>7. Showing(q)'
    BY <1>3, <1>4, <2>1 DEF Showing
  <2>8. Missing(q)'
    <3>1. ASSUME NEW x \in ToSet(table'), Wanted(q, x)', Fits(q)
          PROVE  x \in ToSet(screen[q]) \/ \E b \in Unread(q)' : Brings(b, x)
      <4>1. CASE x \in ToSet(table)
        <5>1. Wanted(q, x)
          BY <1>3, <3>1, <4>1 DEF Wanted
        <5> QED
          BY <2>1, <2>3, <3>1, <4>1, <5>1 DEF Missing
      <4>2. CASE x = m
        <5>1. Hears(q, p)
          BY <1>3, <2>2, <3>1, <4>2 DEF Wanted
        <5>2. f \in Unread(q)' /\ Brings(f, x)
          BY <1>2, <2>3, <4>2, <5>1 DEF Brings
        <5> QED
          BY <5>2
      <4> QED
        BY <1>4, <3>1, <4>1, <4>2
    <3> QED
      BY <1>3, <2>4, <3>1 DEF Missing
  <2>9. Opening(q)'
    BY <1>3, <1>11 DEF Opening
  <2> QED
    BY <1>7, <2>5, <2>6, <2>7, <2>8, <2>9 DEF Scene, Chatting
<1> QED
  BY <1>8, <1>10, <1>11

\* And what the writer sees.
LEMMA SentBySelf ==
    ASSUME Staged, Ordered', NEW p \in People, SendMessages(p)
    PROVE  Scene(p)'
<1> PICK h, m, c : h = Head(toServer[p]) /\ m = h.m /\ c = toClient[p]
  OBVIOUS
<1>1. Takes(p, "SEND_MESSAGE") /\ Typed
  BY DEF SendMessages, Staged, Ordered
<1>2. /\ UNCHANGED <<at, partner, screen, thread>> /\ Scene(p) /\ Stands(p)
      /\ toServer[p] \in Seq(Requests) /\ toServer[p] # <<>>
      /\ h \in Requests /\ h.type = "SEND_MESSAGE"
      /\ ToSet(toServer[p]) = ToSet(toServer'[p]) \cup {h}
      /\ toServer'[p] = Tail(toServer[p])
  BY <1>1, TakesScene
<1>3. /\ c \in Seq(Answers) /\ table \in Seq(ChatMessages) /\ ~Hears(p, p)
  BY DEF Staged, Ordered, Typed, TypeOK, Writes, Hears
<1>4. /\ UNCHANGED player /\ m \in ChatMessages /\ Confirm \in Answers
      /\ table' = Append(table, m) /\ toClient'[p] = Append(c, Confirm)
  BY <1>1, <1>3, SendMessagesIs
<1>5. /\ ToSet(table') = ToSet(table) \cup {m} /\ ToSet(toClient'[p]) = ToSet(c) \cup {Confirm}
      /\ Confirm.type = "confirm"
  BY <1>3, <1>4, ToSetAppend DEF Confirm
<1>6. NoHistory(c) => NoHistory(toClient[p])'
  BY <1>5 DEF NoHistory
<1>7. NoGet(toServer[p]) => NoGet(toServer[p])'
  BY <1>2 DEF NoGet
<1>8. Stands(p)'
  BY <1>2, <1>4, <1>6, <1>7 DEF Stands, Listens
<1>9. CASE at[p] \notin {"opening", "chat"}
  BY <1>2, <1>8, <1>9, SceneAway
<1>10. CASE at[p] = "opening"
  <2>1. Asked(p, toServer[p]) /\ NoHistory(c)
    BY <1>2, <1>10 DEF Scene, Opening
  <2>2. Asked(p, toServer'[p])
    BY <1>2, <2>1, AskedTail
  <2>3. Asked(p, toServer[p])'
    BY <1>2, <2>2 DEF Asked
  <2>4. Opening(p)'
    BY <1>6, <2>1, <2>3 DEF Opening
  <2> QED
    BY <1>2, <1>8, <1>10, <2>4 DEF Scene, Chatting
<1>11. CASE at[p] = "chat"
  <2>1. Typing(p) /\ Hearing(p) /\ Showing(p) /\ Missing(p)
    BY <1>2, <1>11 DEF Scene, Chatting
  <2>2. Unread(p)' = Unread(p) \cup {Confirm} /\ (Fits(p)' <=> Fits(p))
    BY <1>2, <1>5 DEF Unread, Got, Fits
  <2>3. Typing(p)'
    BY <1>2, <2>1, <2>2 DEF Typing
  <2>4. Hearing(p)'
    BY <1>2, <1>5, <2>1, <2>2 DEF Hearing, Mine
  <2>5. Showing(p)'
    BY <1>2, <1>5, <2>1 DEF Showing
  <2>6. Missing(p)'
    <3>1. ASSUME NEW x \in ToSet(table'), Wanted(p, x)', Fits(p)
          PROVE  x \in ToSet(screen[p]) \/ \E b \in Unread(p)' : Brings(b, x)
      <4>1. CASE x \in ToSet(table)
        <5>1. Wanted(p, x)
          BY <1>2, <3>1, <4>1 DEF Wanted
        <5> QED
          BY <2>1, <2>2, <3>1, <4>1, <5>1 DEF Missing
      <4>2. CASE x = m
        BY <1>2, <2>1, <3>1, <4>2 DEF Typing
      <4> QED
        BY <1>5, <3>1, <4>1, <4>2
    <3> QED
      BY <1>2, <2>2, <3>1 DEF Missing
  <2>7. Opening(p)'
    BY <1>2, <1>11 DEF Opening
  <2> QED
    BY <1>8, <2>3, <2>4, <2>5, <2>6, <2>7 DEF Scene, Chatting
<1> QED
  BY <1>9, <1>10, <1>11

-----------------------------------------------------------------------------
(* The screen and the table.                                                 *)

LEMMA InitStaged == Init => Staged
<1> SUFFICES ASSUME Init PROVE Staged
  OBVIOUS
<1>1. Ordered /\ Inductive
  BY InitOrdered, InitInductive
<1>2. ASSUME NEW p \in People PROVE Scene(p)
  <2>1. /\ at[p] = "profile" /\ toServer[p] = <<>> /\ toClient[p] = <<>>
        /\ player[p].receiver = NoOne /\ player[p].isInChatRoom = FALSE
    BY DEF Init
  <2>2. ToSet(<<>>) = {}
    BY DEF ToSet
  <2> QED
    BY <2>1, <2>2 DEF Scene, Stands, Opening, Chatting, NoHistory, NoGet
<1> QED
  BY <1>1, <1>2 DEF Staged

LEMMA StagedNext == ASSUME Staged, [Next]_vars PROVE Staged'
<1>1. Ordered' /\ Inductive'
  BY OrderedNext, StepInductive DEF Staged
<1>2. CASE UNCHANGED vars
  <2>1. UNCHANGED table /\ \A q \in People : Same(q)
    BY <1>2 DEF vars, Same
  <2>2. \A q \in People : Scene(q)'
    BY <2>1, SceneStill DEF Staged
  <2> QED
    BY <1>1, <2>2 DEF Staged
<1>3. CASE Next
  <2>1. PICK p \in People :
          \/ \E q \in People : OpenChat(p, q)
          \/ \E text \in Texts \cup {NoOne} : Enter(p, text)
          \/ Escape(p) \/ Menu(p) \/ Thread(p) \/ Serve(p)
    BY <1>3 DEF Next
  <2>2. CASE (\E q \in People : OpenChat(p, q)) \/ Escape(p) \/ Cancel(p)
    BY <1>1, <2>2, LeavingScene DEF Staged
  <2>3. CASE \E text \in Texts \cup {NoOne} : Enter(p, text)
    BY <1>1, <2>3, EnterScene DEF Staged
  <2>4. CASE ShowHistory(p) \/ Misreads(p) \/ ShowList(p)
    BY <1>1, <2>4, MenuScene DEF Staged
  <2>5. CASE Thread(p)
    BY <1>1, <2>5, ThreadScene DEF Staged
  <2>6. CASE SendMessages(p)
    BY <1>1, <2>6, SentToOthers, SentBySelf DEF Staged
  <2>7. CASE InChatRoom(p) \/ LeaveChat(p) \/ GetMessages(p) \/ GetFriendList(p)
    BY <1>1, <2>7, ServeScene DEF Staged
  <2> QED
    BY <2>1, <2>2, <2>3, <2>4, <2>5, <2>6, <2>7 DEF Menu, Serve
<1> QED
  BY <1>2, <1>3

LEMMA StagedScreen == ASSUME Staged PROVE ScreenIsHistory
<1> SUFFICES ASSUME NEW p \in People, at[p] = "chat", Drained(p)
             PROVE  /\ ToSet(screen[p]) \subseteq ToSet(History(p, partner[p])) \cup {Blank(p)}
                    /\ Len(screen[p]) < MAX_CHAT_MESSAGES =>
                         \A m \in ToSet(History(p, partner[p])) :
                           m.from = p \/ m.text # Confirmation =>
                             \E i \in DOMAIN screen[p] :
                               {j \in DOMAIN screen[p] : screen[p][j] = m} = {i}
  BY DEF ScreenIsHistory
<1>1. /\ table \in Seq(ChatMessages) /\ toServer[p] \in Seq(Requests)
      /\ screen[p] \in Seq(Lines) /\ InRow(Earlier, screen[p])
      /\ Typing(p) /\ Showing(p) /\ Missing(p)
  BY DEF Staged, Ordered, Typed, TypeOK, Follows, Scene, Chatting
<1>2. ToSet(History(p, partner[p])) = {m \in ToSet(table) : Between(p, partner[p], m)}
  BY <1>1, HistoryIs
<1>3. \A r \in ToSet(toServer[p]) : ~(IsSend(r) /\ r.m.to = partner[p])
  BY <1>1 DEF Drained, ToSet, IsSend
<1>4. Unread(p) = {}
  BY DEF Drained, Unread, Got, ToSet
<1>5. ToSet(screen[p]) \subseteq ToSet(History(p, partner[p])) \cup {Blank(p)}
  BY <1>1, <1>2, <1>3 DEF Showing, Typing
<1>6. ASSUME Len(screen[p]) < MAX_CHAT_MESSAGES, NEW m \in ToSet(History(p, partner[p])),
             m.from = p \/ m.text # Confirmation
      PROVE  \E i \in DOMAIN screen[p] : {j \in DOMAIN screen[p] : screen[p][j] = m} = {i}
  <2>1. m \in ToSet(screen[p])
    BY <1>1, <1>2, <1>4, <1>6 DEF Missing, Fits, Wanted
  <2>2. m.n \in Nat \ {0}
    BY <1>1, <1>2, <1>6, ToSetIs, LinesAre
  <2>3. DOMAIN screen[p] = 1..Len(screen[p]) /\ Len(screen[p]) \in Nat
    BY <1>1
  <2>4. PICK i \in DOMAIN screen[p] : screen[p][i] = m
    BY <2>1 DEF ToSet
  <2>5. ASSUME NEW j \in DOMAIN screen[p], screen[p][j] = m, j # i PROVE FALSE
    <3>1. i < j \/ j < i
      BY <2>3, <2>5
    <3>2. <<m, m>> \in Earlier
      BY <1>1, <2>3, <2>4, <2>5, <3>1 DEF InRow
    <3>3. m.n < m.n
      BY <2>2, <3>2 DEF Earlier
    <3> QED
      BY <2>2, <3>3
  <2> QED
    BY <2>4, <2>5
<1> QED
  BY <1>5, <1>6

\* Once nothing is under way between two friends, the chat screen of one of them
\* shows the rows chat_messages has of the two, each once if all fit, and nothing
\* else (loadMessageHistory, sendMessages, showReceiveChatMessage): whenever and
\* however often they open and leave the chat, and whoever else writes.
THEOREM ScreenIsHistoryHolds == Spec => []ScreenIsHistory
BY InitStaged, StagedNext, StagedScreen, PTL DEF Spec

=============================================================================
