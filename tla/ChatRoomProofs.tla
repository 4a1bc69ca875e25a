--------------------------- MODULE ChatRoomProofs ---------------------------
(***************************************************************************)
(* What holds of ChatRoom for every set of users and terminals and every   *)
(* number of connections, texts, losses and selections: the five safety    *)
(* properties of the module.                                               *)
(*                                                                         *)
(* All of them speak of what a client has handled, and hold because of     *)
(* what is still on its way: the inductive invariant IInv says what the    *)
(* queues up, down and early may hold, and in which order, for what is     *)
(* shown and known to come out right.                                      *)
(***************************************************************************)
EXTENDS ChatRoom, SequenceTheorems, TLAPS

-----------------------------------------------------------------------------
(* What is on its way.                                                     *)

Ask(m) == m.kind \in {"send_public", "send_private"}
Push(m) == m.kind \in {"public_message", "private_message"}

\* A queue q holds a request with text t, a push of t from uid w; a list shows t as w's.
Asks(q, t) == \E i \in DOMAIN q : Ask(q[i]) /\ q[i].text = t
Pushes(q, t, w) == \E i \in DOMAIN q : Push(q[i]) /\ q[i].text = t /\ q[i].uid = w
Shows(list, t, w) == \E i \in DOMAIN list : list[i].text = t /\ list[i].uid = w

\* What the server says on connection v is about uids it has given out, or about v.
MeantFor(m, v, uids) ==
    /\ m.kind \in {"user_joined", "user_left"} => m.uid \in uids
    /\ m.kind = "clients" => \A e \in m.list : e.uid \in uids
    /\ m.kind = "welcome" => m.uid = v
AllMeantFor(q, v, uids) == \A i \in DOMAIN q : MeantFor(q[i], v, uids)
Addressed == \A v \in Uids : AllMeantFor(down[v], v, Uids)

\* A connection that is up is the client's and the server's; outside a connection
\* the client knows no uid, nobody and only what was typed early.
Links ==
    /\ \A u \in Uids : link[u] = "up" => mClient[owner[u]] = u /\ u \in DOMAIN mSessions
    /\ \A c \in User :
          /\ mClient[c] # 0 => mMyUid[c] \in {0, mClient[c]} /\ mState[c] \in {"Connecting", "MainUI"}
          /\ mState[c] = "MainUI" => mClient[c] # 0
          /\ mState[c] = "Login" => early[c] = <<>>
          /\ mState[c] = "Connecting" /\ mClient[c] = 0 =>
                mUsers[c] = Nobody /\ mMyUid[c] = 0

-----------------------------------------------------------------------------
(* Whose a message is and who may see it, s being what was typed and o the *)
(* owners of the uids.                                                     *)

\* A request of user c.
AskRight(m, c, s) ==
    /\ m.text \in DOMAIN s /\ s[m.text].from = c
    /\ s[m.text].to = IF m.kind = "send_private" THEN m.uid ELSE 0
    /\ m.kind = "send_private" => m.uid # 0

\* A push on its way to uid v.
PushRight(m, v, s, o) ==
    /\ m.text \in DOMAIN s /\ m.uid \in DOMAIN o /\ o[m.uid] = s[m.text].from
    /\ s[m.text].to = IF m.kind = "private_message" THEN v ELSE 0

\* An entry of user c's list.
EntryRight(m, c, s, o) ==
    /\ m.text \in DOMAIN s /\ m.uid \in {0} \cup DOMAIN o
    /\ m.isPrivate = (s[m.text].to # 0)
    /\ IF m.uid = 0 THEN c = s[m.text].from ELSE o[m.uid] = s[m.text].from
    /\ s[m.text].to # 0 =>
          c = s[m.text].from \/ (s[m.text].to \in DOMAIN o /\ o[s[m.text].to] = c)

AllAsksRight(q, c, s) == \A i \in DOMAIN q : Ask(q[i]) => AskRight(q[i], c, s)
AllPushesRight(q, v, s, o) == \A i \in DOMAIN q : Push(q[i]) => PushRight(q[i], v, s, o)
AllEntriesRight(list, c, s, o) == \A i \in DOMAIN list : EntryRight(list[i], c, s, o)
AllPostedEarly(q, s) == \A i \in DOMAIN q : Ask(q[i]) /\ s[q[i].text].early
AllTypedEarly(list, s) == \A i \in DOMAIN list : s[list[i].text].early

Right ==
    /\ \A t \in DOMAIN sent : sent[t].early => sent[t].from \in Terminal
    /\ \A c \in User : AllPostedEarly(early[c], sent) /\ AllAsksRight(early[c], c, sent)
    /\ \A u \in Uids : AllAsksRight(up[u], owner[u], sent)
    /\ \A v \in Uids : AllPushesRight(down[v], v, sent, owner)
    /\ \A c \in User : AllEntriesRight(mMessages[c], c, sent, owner)
    /\ \A c \in User : mState[c] = "Connecting" /\ mClient[c] = 0 => AllTypedEarly(mMessages[c], sent)

-----------------------------------------------------------------------------
(* The order in which messages travel.                                     *)

\* Requests wait in the order they were typed.
AsksOrdered(q) ==
    \A i, j \in DOMAIN q : i < j /\ Ask(q[i]) /\ Ask(q[j]) => q[i].text < q[j].text

\* Pushes wait in the order they were typed, for each sender, and each once.
PushesOrdered(q) ==
    \A i, j \in DOMAIN q : i < j /\ Push(q[i]) /\ Push(q[j]) =>
        /\ q[i].text # q[j].text
        /\ q[i].uid = q[j].uid => q[i].text < q[j].text

Queued ==
    /\ \A c \in User : AsksOrdered(early[c])
    /\ \A u \in Uids : AsksOrdered(up[u]) /\ PushesOrdered(down[u])

\* A text is asked for on one connection, and is pushed, and shown to others, after.
AskedOnce ==
    /\ \A u, w \in Uids : \A t \in Nat : Asks(up[u], t) /\ Asks(up[w], t) => u = w
    /\ \A u \in Uids : \A c \in User : \A t \in Nat : ~ (Asks(up[u], t) /\ Asks(early[c], t))
AskedFirst ==
    \A t \in Nat :
        (\E u \in Uids : Asks(up[u], t)) \/ (\E c \in User : Asks(early[c], t)) =>
            /\ \A v \in Uids : \A w \in Nat : ~ Pushes(down[v], t, w)
            /\ \A c \in User : \A w \in Nat : Shows(mMessages[c], t, w) => sent[t].from = c

\* What one connection asks for is behind what was pushed and shown for it, and what
\* is pushed is behind what is shown.
AskBehindPush ==
    \A u, v \in Uids : \A t, n \in Nat : Asks(up[u], n) /\ Pushes(down[v], t, u) => t < n
AskBehindShown ==
    \A u \in Uids : \A c \in User : \A t, n \in Nat :
        Asks(up[u], n) /\ Shows(mMessages[c], t, u) /\ u # mMyUid[c] => t < n
PushBehindShown ==
    \A c \in User : mClient[c] # 0 => \A w \in Nat : \A t, n \in Nat :
        Shows(mMessages[c], t, w) /\ Pushes(down[mClient[c]], n, w) /\ w # mMyUid[c] => t < n

\* A text that its sender shows is on its way over the connection he has, if any,
\* unless it was typed early.
OwnAsk ==
    \A u \in Uids : \A c \in User : \A t \in Nat : \A w \in Nat :
        Asks(up[u], t) /\ ~ sent[t].early /\ Shows(mMessages[c], t, w) => mClient[c] \in {u, 0}
OwnPush ==
    \A c \in User : mClient[c] # 0 => \A t \in Nat : \A w, x \in Nat :
        Pushes(down[mClient[c]], t, w) /\ Shows(mMessages[c], t, x) =>
            sent[t].from = c /\ (sent[t].early \/ w = mClient[c])

Ordered ==
    /\ Queued /\ AskedOnce /\ AskedFirst /\ AskBehindPush /\ AskBehindShown /\ PushBehindShown
    /\ OwnAsk /\ OwnPush

\* A client is told its uid before its own messages come back, those typed early aside:
\* its login is ahead of them on the way up and the answer on the way down.
NoWelcome(q) == \A i \in DOMAIN q : q[i].kind # "welcome"
LateAsk(m, s) == Ask(m) /\ ~ s[m.text].early
LateOwn(m, v, s) == Push(m) /\ m.uid = v /\ ~ s[m.text].early
LoginAhead(q, s) ==
    \E k \in DOMAIN q : q[k].kind = "login" /\ \A i \in DOMAIN q : LateAsk(q[i], s) => k < i
WelcomeAhead(q, v, s) ==
    \A j \in DOMAIN q : LateOwn(q[j], v, s) => \E i \in DOMAIN q : i < j /\ q[i].kind = "welcome"
Introduced ==
    \A c \in User : mClient[c] # 0 /\ mMyUid[c] = 0 =>
        /\ WelcomeAhead(down[mClient[c]], mClient[c], sent)
        /\ link[mClient[c]] = "up" /\ NoWelcome(down[mClient[c]]) =>
              LoginAhead(up[mClient[c]], sent)

-----------------------------------------------------------------------------
(* What a client is going to know of the others.                           *)

Mentions(m, v) ==
    \/ m.kind \in {"user_joined", "user_left"} /\ m.uid = v
    \/ m.kind = "clients" /\ \E e \in m.list : e.uid = v
Announces(m, v, n) ==
    \/ m.kind = "user_joined" /\ m.name = n
    \/ m.kind = "clients" /\ \A e \in m.list : e.uid = v => e.name = n

\* The last word q has on v is at k; it has none.
LastWord(q, k, v) == Mentions(q[k], v) /\ \A j \in DOMAIN q : k < j => ~ Mentions(q[j], v)
Silent(q, v) == \A j \in DOMAIN q : ~ Mentions(q[j], v)
SaysName(q, v, n) == \E k \in DOMAIN q : LastWord(q, k, v) /\ Announces(q[k], v, n)
SaysLeft(q, v) == \E k \in DOMAIN q : LastWord(q, k, v) /\ q[k].kind = "user_left"
NoList(q) == \A j \in DOMAIN q : q[j].kind # "clients"

\* The last word on its way to a client about a user v who has logged in is his name n,
\* the last word about one who has left is that; without a word the client knows
\* already, or will have the list, which is not on its way yet.
Knows(q, state, users, v, n) ==
    \/ SaysName(q, v, n)
    \/ Silent(q, v) /\ ((state # "MainUI" /\ NoList(q)) \/ (v \in DOMAIN users /\ users[v].name = n))
Forgets(q, users, v) == SaysLeft(q, v) \/ (Silent(q, v) /\ v \notin DOMAIN users)

Roster ==
    \A c \in User : mClient[c] # 0 /\ link[mClient[c]] = "up" => \A v \in Uids :
        /\ v \in DOMAIN mSessions /\ mSessions[v] # Guest =>
              Knows(down[mClient[c]], mState[c], mUsers[c], v, mSessions[v])
        /\ v \notin DOMAIN mSessions => Forgets(down[mClient[c]], mUsers[c], v)

IInv ==
    /\ Addressed /\ Links /\ Right /\ Ordered /\ Introduced /\ Roster
    /\ ShownOnce /\ InOrder /\ WindowFollows

-----------------------------------------------------------------------------
(* Queues.                                                                 *)

LEMMA MessageIs ==
    ASSUME NEW m \in Messages
    PROVE  /\ m.kind \in Kinds /\ m.uid \in Nat /\ m.name \in Names /\ m.text \in Nat
           /\ m.list \in SUBSET [uid : Nat, name : Names]
  BY DEF Messages

LEMMA MakesMessage ==
    ASSUME NEW kind \in Kinds, NEW uid \in Nat, NEW name \in Names, NEW text \in Nat
    PROVE  /\ Message(kind, uid, name, text) \in Messages
           /\ Message(kind, uid, name, text).kind = kind
           /\ Message(kind, uid, name, text).uid = uid
           /\ Message(kind, uid, name, text).name = name
           /\ Message(kind, uid, name, text).text = text
  BY DEF Message, Messages

LEMMA TailIs ==
    ASSUME NEW q \in Seq(Messages), q # <<>>
    PROVE  /\ Tail(q) \in Seq(Messages) /\ Head(q) \in Messages
           /\ 1 \in DOMAIN q /\ q[1] = Head(q)
           /\ \A i \in DOMAIN Tail(q) :
                 i \in Nat \ {0} /\ i + 1 \in DOMAIN q /\ Tail(q)[i] = q[i + 1]
           /\ \A i \in DOMAIN q : i \in Nat /\ (i # 1 => i - 1 \in DOMAIN Tail(q) /\ Tail(q)[i - 1] = q[i])
OBVIOUS

LEMMA AppendIs ==
    ASSUME NEW S, NEW q \in Seq(S), NEW m \in S
    PROVE  /\ Append(q, m) \in Seq(S)
           /\ Len(q) \in Nat /\ Len(q) + 1 \in DOMAIN Append(q, m) /\ Append(q, m)[Len(q) + 1] = m
           /\ \A i \in DOMAIN q : i \in Nat /\ i \in DOMAIN Append(q, m) /\ Append(q, m)[i] = q[i] /\ i < Len(q) + 1
           /\ \A i \in DOMAIN Append(q, m) : i \in Nat /\
                 ((i \in DOMAIN q /\ Append(q, m)[i] = q[i]) \/ (i = Len(q) + 1 /\ Append(q, m)[i] = m))
OBVIOUS

\* What is left of a queue holds no more than the queue, and comes after its head.
LEMMA AsksTail ==
    ASSUME NEW q \in Seq(Messages), q # <<>>
    PROVE  /\ \A t : Asks(Tail(q), t) => Asks(q, t)
           /\ Ask(Head(q)) => Asks(q, Head(q).text)
           /\ AsksOrdered(q) => AsksOrdered(Tail(q))
           /\ AsksOrdered(q) /\ Ask(Head(q)) => \A n : Asks(Tail(q), n) => Head(q).text < n
<1>1. \A t : Asks(Tail(q), t) => Asks(q, t)
  BY TailIs DEF Asks
<1>2. Ask(Head(q)) => Asks(q, Head(q).text)
  BY TailIs DEF Asks
<1>3. ASSUME AsksOrdered(q), NEW i \in DOMAIN Tail(q), NEW j \in DOMAIN Tail(q),
             i < j, Ask(Tail(q)[i]), Ask(Tail(q)[j])
      PROVE  Tail(q)[i].text < Tail(q)[j].text
  <2>1. i + 1 < j + 1
    BY <1>3, TailIs
  <2> QED
    BY <1>3, <2>1, TailIs DEF AsksOrdered
<1>4. ASSUME AsksOrdered(q), Ask(Head(q)), NEW n, Asks(Tail(q), n)
      PROVE  Head(q).text < n
  <2>1. PICK i \in DOMAIN Tail(q) : Ask(Tail(q)[i]) /\ Tail(q)[i].text = n
    BY <1>4 DEF Asks
  <2>2. 1 < i + 1
    BY TailIs
  <2> QED
    BY <1>4, <2>1, <2>2, TailIs DEF AsksOrdered
<1> QED
  BY <1>1, <1>2, <1>3, <1>4 DEF AsksOrdered

LEMMA PushesTail ==
    ASSUME NEW q \in Seq(Messages), q # <<>>
    PROVE  /\ \A t, w : Pushes(Tail(q), t, w) => Pushes(q, t, w)
           /\ Push(Head(q)) => Pushes(q, Head(q).text, Head(q).uid)
           /\ PushesOrdered(q) => PushesOrdered(Tail(q))
           /\ PushesOrdered(q) /\ Push(Head(q)) =>
                 /\ \A w : ~ Pushes(Tail(q), Head(q).text, w)
                 /\ \A n : Pushes(Tail(q), n, Head(q).uid) => Head(q).text < n
<1>1. \A t, w : Pushes(Tail(q), t, w) => Pushes(q, t, w)
  BY TailIs DEF Pushes
<1>2. Push(Head(q)) => Pushes(q, Head(q).text, Head(q).uid)
  BY TailIs DEF Pushes
<1>3. ASSUME PushesOrdered(q), NEW i \in DOMAIN Tail(q), NEW j \in DOMAIN Tail(q),
             i < j, Push(Tail(q)[i]), Push(Tail(q)[j])
      PROVE  /\ Tail(q)[i].text # Tail(q)[j].text
             /\ Tail(q)[i].uid = Tail(q)[j].uid => Tail(q)[i].text < Tail(q)[j].text
  <2>1. i + 1 < j + 1
    BY <1>3, TailIs
  <2> QED
    BY <1>3, <2>1, TailIs DEF PushesOrdered
<1>4. ASSUME PushesOrdered(q), Push(Head(q)), NEW n, NEW w, Pushes(Tail(q), n, w)
      PROVE  n # Head(q).text /\ (w = Head(q).uid => Head(q).text < n)
  <2>1. PICK i \in DOMAIN Tail(q) : Push(Tail(q)[i]) /\ Tail(q)[i].text = n /\ Tail(q)[i].uid = w
    BY <1>4 DEF Pushes
  <2>2. 1 < i + 1
    BY TailIs
  <2> QED
    BY <1>4, <2>1, <2>2, TailIs DEF PushesOrdered
<1> QED
  BY <1>1, <1>2, <1>3, <1>4 DEF PushesOrdered

\* What is put at the end is behind everything it comes after.
LEMMA AsksAppend ==
    ASSUME NEW q \in Seq(Messages), NEW m \in Messages
    PROVE  /\ \A t : Asks(Append(q, m), t) <=> Asks(q, t) \/ (Ask(m) /\ m.text = t)
           /\ AsksOrdered(q) /\ (Ask(m) => \A t : Asks(q, t) => t < m.text)
                 => AsksOrdered(Append(q, m))
<1>1. ASSUME NEW t PROVE Asks(Append(q, m), t) <=> Asks(q, t) \/ (Ask(m) /\ m.text = t)
  BY AppendIs DEF Asks
<1>2. ASSUME AsksOrdered(q), Ask(m) => \A t : Asks(q, t) => t < m.text,
             NEW i \in DOMAIN Append(q, m), NEW j \in DOMAIN Append(q, m),
             i < j, Ask(Append(q, m)[i]), Ask(Append(q, m)[j])
      PROVE  Append(q, m)[i].text < Append(q, m)[j].text
  <2>1. i \in DOMAIN q /\ Append(q, m)[i] = q[i]
    <3>1. i = Len(q) + 1 => ~(i < j)
      BY AppendIs
    <3> QED
      BY <1>2, <3>1, AppendIs
  <2>2. CASE j \in DOMAIN q /\ Append(q, m)[j] = q[j]
    BY <1>2, <2>1, <2>2 DEF AsksOrdered
  <2>3. CASE Append(q, m)[j] = m
    BY <1>2, <2>1, <2>3 DEF Asks
  <2> QED
    BY <2>2, <2>3, AppendIs
<1> QED
  BY <1>1, <1>2 DEF AsksOrdered

LEMMA PushesAppend ==
    ASSUME NEW q \in Seq(Messages), NEW m \in Messages
    PROVE  /\ \A t, w : Pushes(Append(q, m), t, w) <=>
                 Pushes(q, t, w) \/ (Push(m) /\ m.text = t /\ m.uid = w)
           /\ /\ PushesOrdered(q)
              /\ Push(m) => \A t, w : Pushes(q, t, w) => t # m.text /\ (w = m.uid => t < m.text)
              => PushesOrdered(Append(q, m))
<1>1. ASSUME NEW t, NEW w
      PROVE  Pushes(Append(q, m), t, w) <=> Pushes(q, t, w) \/ (Push(m) /\ m.text = t /\ m.uid = w)
  BY AppendIs DEF Pushes
<1>2. ASSUME PushesOrdered(q),
             Push(m) => \A t, w : Pushes(q, t, w) => t # m.text /\ (w = m.uid => t < m.text),
             NEW i \in DOMAIN Append(q, m), NEW j \in DOMAIN Append(q, m),
             i < j, Push(Append(q, m)[i]), Push(Append(q, m)[j])
      PROVE  /\ Append(q, m)[i].text # Append(q, m)[j].text
             /\ Append(q, m)[i].uid = Append(q, m)[j].uid =>
                   Append(q, m)[i].text < Append(q, m)[j].text
  <2>1. i \in DOMAIN q /\ Append(q, m)[i] = q[i]
    <3>1. i = Len(q) + 1 => ~(i < j)
      BY AppendIs
    <3> QED
      BY <1>2, <3>1, AppendIs
  <2>2. CASE j \in DOMAIN q /\ Append(q, m)[j] = q[j]
    BY <1>2, <2>1, <2>2 DEF PushesOrdered
  <2>3. CASE Append(q, m)[j] = m
    BY <1>2, <2>1, <2>3 DEF Pushes
  <2> QED
    BY <2>2, <2>3, AppendIs
<1> QED
  BY <1>1, <1>2 DEF PushesOrdered

LEMMA MeantTail ==
    ASSUME NEW q \in Seq(Messages), q # <<>>, NEW v, NEW uids, AllMeantFor(q, v, uids)
    PROVE  AllMeantFor(Tail(q), v, uids) /\ MeantFor(Head(q), v, uids)
BY TailIs DEF AllMeantFor

LEMMA MeantAppend ==
    ASSUME NEW q \in Seq(Messages), NEW m \in Messages, NEW v, NEW uids, AllMeantFor(q, v, uids),
           MeantFor(m, v, uids)
    PROVE  AllMeantFor(Append(q, m), v, uids)
<1> SUFFICES ASSUME NEW i \in DOMAIN Append(q, m) PROVE MeantFor(Append(q, m)[i], v, uids)
  BY DEF AllMeantFor
<1>1. (i \in DOMAIN q /\ Append(q, m)[i] = q[i]) \/ Append(q, m)[i] = m
  BY AppendIs
<1> QED
  BY <1>1 DEF AllMeantFor

LEMMA PutIs ==
    ASSUME ServerOK, link \in [Uids -> {"up", "lost"}],
           NEW queues \in [Uids -> Seq(Messages)], NEW u \in Uids, NEW m \in Messages
    PROVE  /\ Put(queues, u, m) \in [Uids -> Seq(Messages)]
           /\ \A v \in Uids \ {u} : Put(queues, u, m)[v] = queues[v]
           /\ Put(queues, u, m)[u] = IF link[u] = "up" THEN Append(queues[u], m) ELSE queues[u]
<1>1. Append(queues[u], m) \in Seq(Messages)
  BY AppendIs
<1> QED
  BY <1>1 DEF Put

LEMMA BroadcastIs ==
    ASSUME ServerOK, link \in [Uids -> {"up", "lost"}],
           NEW queues \in [Uids -> Seq(Messages)], NEW m \in Messages
    PROVE  /\ Broadcast(queues, m) \in [Uids -> Seq(Messages)]
           /\ \A v \in Uids : Broadcast(queues, m)[v] =
                 IF v \in DOMAIN mSessions /\ link[v] = "up" THEN Append(queues[v], m) ELSE queues[v]
<1>1. DOMAIN queues = Uids /\ \A v \in Uids : queues[v] \in Seq(Messages)
  OBVIOUS
<1>2. ASSUME NEW v \in Uids
      PROVE  /\ Put(queues, v, m)[v] = IF link[v] = "up" THEN Append(queues[v], m) ELSE queues[v]
             /\ Put(queues, v, m)[v] \in Seq(Messages)
  <2>1. /\ Put(queues, v, m) \in [Uids -> Seq(Messages)]
        /\ Put(queues, v, m)[v] = IF link[v] = "up" THEN Append(queues[v], m) ELSE queues[v]
    BY PutIs, Zenon
  <2> QED
    BY <2>1
<1>3. \A v \in Uids : Broadcast(queues, m)[v] =
          IF v \in DOMAIN mSessions THEN Put(queues, v, m)[v] ELSE queues[v]
  BY <1>1 DEF Broadcast
<1>4. DOMAIN Broadcast(queues, m) = Uids /\ Broadcast(queues, m) = [v \in Uids |-> Broadcast(queues, m)[v]]
  BY <1>1 DEF Broadcast
<1>5. \A v \in Uids : Broadcast(queues, m)[v] \in Seq(Messages)
  BY <1>1, <1>2, <1>3
<1>6. Broadcast(queues, m) \in [Uids -> Seq(Messages)]
  BY <1>4, <1>5
<1> QED
  BY <1>2, <1>3, <1>6

-----------------------------------------------------------------------------
(* What the handling of each request does to the queues.                   *)

\* Who gets what the server sends to everybody.
Reached(v) == v \in DOMAIN mSessions /\ link[v] = "up"

LEMMA ServeShape ==
    ASSUME ServerOK, NetOK, NEW u \in Uids, Serve(u)
    PROVE  /\ u \in DOMAIN mSessions /\ up[u] \in Seq(Messages) /\ up[u] # <<>>
           /\ Head(up[u]) \in Messages
           /\ \/ ServeLogin(u, Head(up[u])) \/ ServeList(u, Head(up[u]))
              \/ ServePublic(u, Head(up[u])) \/ ServePrivate(u, Head(up[u]))
           /\ up' \in [Uids -> Seq(Messages)] /\ up'[u] = Tail(up[u])
           /\ \A v \in Uids \ {u} : up'[v] = up[v]
           /\ UNCHANGED <<mNextUid, owner, link, contextVars, windowVars, losses, selects, sent>>
<1>1. /\ u \in DOMAIN mSessions /\ up[u] \in Seq(Messages) /\ up[u] # <<>>
      /\ up \in [Uids -> Seq(Messages)]
  BY DEF Serve, NetOK
<1>2. Head(up[u]) \in Messages /\ Tail(up[u]) \in Seq(Messages)
  BY <1>1, TailIs
<1>3. up' = [up EXCEPT ![u] = Tail(@)]
  BY DEF Serve
<1>4. /\ up' \in [Uids -> Seq(Messages)] /\ up'[u] = Tail(up[u])
      /\ \A v \in Uids \ {u} : up'[v] = up[v]
  BY <1>1, <1>2, <1>3
<1> QED
  BY <1>1, <1>2, <1>4 DEF Serve

LEMMA LoginShape ==
    ASSUME ServerOK, NetOK, NEW u \in Uids, u \in DOMAIN mSessions, NEW r \in Messages, ServeLogin(u, r)
    PROVE  /\ r.kind = "login" /\ DOMAIN mSessions' = DOMAIN mSessions /\ mSessions'[u] = r.name
           /\ \A v \in DOMAIN mSessions \ {u} : mSessions'[v] = mSessions[v]
           /\ mSessions' \in [DOMAIN mSessions -> Names]
           /\ down' \in [Uids -> Seq(Messages)]
           /\ \E joined, welcome \in Messages :
                 /\ joined.kind = "user_joined" /\ joined.uid = u /\ joined.name = r.name
                 /\ welcome.kind = "welcome" /\ welcome.uid = u
                 /\ \A v \in Uids \ {u} :
                       down'[v] = IF Reached(v) THEN Append(down[v], joined) ELSE down[v]
                 /\ down'[u] = IF Reached(u) THEN Append(Append(down[u], joined), welcome) ELSE down[u]
<1> DEFINE joined == Message("user_joined", u, r.name, 0)
           welcome == Message("welcome", u, r.name, 0)
           mid == Broadcast(down, joined)
<1>1. r.name \in Names /\ u \in Nat
  BY MessageIs DEF ServerOK, Uids
<1>2. /\ joined \in Messages /\ joined.kind = "user_joined" /\ joined.uid = u /\ joined.name = r.name
      /\ welcome \in Messages /\ welcome.kind = "welcome" /\ welcome.uid = u
  BY <1>1, MakesMessage DEF Kinds
<1>3. r.kind = "login" /\ mSessions' = [mSessions EXCEPT ![u] = r.name] /\ down' = Put(mid, u, welcome)
  BY DEF ServeLogin
<1>4. /\ DOMAIN mSessions' = DOMAIN mSessions /\ mSessions'[u] = r.name
      /\ \A v \in DOMAIN mSessions \ {u} : mSessions'[v] = mSessions[v]
      /\ mSessions' \in [DOMAIN mSessions -> Names]
  BY <1>1, <1>3 DEF ServerOK
<1> HIDE DEF joined, welcome
<1>5. link \in [Uids -> {"up", "lost"}] /\ down \in [Uids -> Seq(Messages)]
  BY DEF NetOK
<1>6. /\ mid \in [Uids -> Seq(Messages)]
      /\ \A v \in Uids : mid[v] = IF v \in DOMAIN mSessions /\ link[v] = "up"
                                  THEN Append(down[v], joined) ELSE down[v]
  BY <1>2, <1>5, BroadcastIs, Zenon
<1> HIDE DEF mid
<1>7. /\ Put(mid, u, welcome) \in [Uids -> Seq(Messages)]
      /\ \A v \in Uids \ {u} : Put(mid, u, welcome)[v] = mid[v]
      /\ Put(mid, u, welcome)[u] = IF link[u] = "up" THEN Append(mid[u], welcome) ELSE mid[u]
  BY <1>2, <1>5, <1>6, PutIs, Zenon
<1>8. down' \in [Uids -> Seq(Messages)]
  BY <1>3, <1>7
<1>9. \A v \in Uids \ {u} : down'[v] = IF Reached(v) THEN Append(down[v], joined) ELSE down[v]
  BY <1>3, <1>6, <1>7 DEF Reached
<1>10. down'[u] = IF Reached(u) THEN Append(Append(down[u], joined), welcome) ELSE down[u]
  BY <1>3, <1>6, <1>7 DEF Reached
<1> QED
  BY <1>2, <1>3, <1>4, <1>8, <1>9, <1>10

LEMMA ListShape ==
    ASSUME ServerOK, NetOK, NEW u \in Uids, NEW r \in Messages, ServeList(u, r)
    PROVE  /\ r.kind = "client_list" /\ mSessions' = mSessions
           /\ down' \in [Uids -> Seq(Messages)]
           /\ \E m \in Messages :
                 /\ m.kind = "clients"
                 /\ m.list = {[uid |-> v, name |-> mSessions[v]] : v \in DOMAIN mSessions}
                 /\ \A v \in Uids \ {u} : down'[v] = down[v]
                 /\ down'[u] = IF link[u] = "up" THEN Append(down[u], m) ELSE down[u]
<1> DEFINE list == {[uid |-> v, name |-> mSessions[v]] : v \in DOMAIN mSessions}
           m == [Message("clients", u, Guest, 0) EXCEPT !.list = list]
<1>1. r.kind = "client_list" /\ mSessions' = mSessions /\ down' = Put(down, u, m)
  BY DEF ServeList
<1>2. \A v \in DOMAIN mSessions : v \in Nat /\ mSessions[v] \in Names
  BY DEF ServerOK, Uids
<1>3. list \in SUBSET [uid : Nat, name : Names]
  BY <1>2
<1>4. Guest \in Names
  BY DEF Names
<1>5. u \in Nat
  BY DEF Uids
<1> HIDE DEF list
<1>6. m \in Messages /\ m.kind = "clients" /\ m.list = list
  BY <1>3, <1>4, <1>5 DEF Message, Messages, Kinds
<1>7. link \in [Uids -> {"up", "lost"}] /\ down \in [Uids -> Seq(Messages)]
  BY DEF NetOK
<1> HIDE DEF m
<1>8. /\ Put(down, u, m) \in [Uids -> Seq(Messages)]
      /\ \A v \in Uids \ {u} : Put(down, u, m)[v] = down[v]
      /\ Put(down, u, m)[u] = IF link[u] = "up" THEN Append(down[u], m) ELSE down[u]
  BY <1>6, <1>7, PutIs, Zenon
<1> QED
  BY <1>1, <1>6, <1>8 DEF list

\* A push goes to everybody who is reached, or to one of them.
LEMMA PublicShape ==
    ASSUME ServerOK, NetOK, NEW u \in Uids, u \in DOMAIN mSessions, NEW r \in Messages, ServePublic(u, r)
    PROVE  /\ r.kind = "send_public" /\ mSessions' = mSessions
           /\ down' \in [Uids -> Seq(Messages)]
           /\ \E m \in Messages :
                 /\ m.kind = "public_message" /\ m.uid = u /\ m.text = r.text
                 /\ \A v \in Uids : down'[v] = IF Reached(v) THEN Append(down[v], m) ELSE down[v]
<1> DEFINE m == Message("public_message", u, mSessions[u], r.text)
<1>1. r.kind = "send_public" /\ mSessions' = mSessions /\ down' = Broadcast(down, m)
  BY DEF ServePublic
<1>2. r.text \in Nat /\ u \in Nat /\ mSessions[u] \in Names
  BY MessageIs DEF ServerOK, Uids
<1>3. m \in Messages /\ m.kind = "public_message" /\ m.uid = u /\ m.text = r.text
  BY <1>2, MakesMessage DEF Kinds
<1>4. link \in [Uids -> {"up", "lost"}] /\ down \in [Uids -> Seq(Messages)]
  BY DEF NetOK
<1> HIDE DEF m
<1>5. /\ Broadcast(down, m) \in [Uids -> Seq(Messages)]
      /\ \A v \in Uids : Broadcast(down, m)[v] = IF v \in DOMAIN mSessions /\ link[v] = "up"
                                                 THEN Append(down[v], m) ELSE down[v]
  BY <1>3, <1>4, BroadcastIs, Zenon
<1> QED
  BY <1>1, <1>3, <1>5 DEF Reached

LEMMA PrivateShape ==
    ASSUME ServerOK, NetOK, NEW u \in Uids, u \in DOMAIN mSessions, NEW r \in Messages, ServePrivate(u, r)
    PROVE  /\ r.kind = "send_private" /\ mSessions' = mSessions
           /\ down' \in [Uids -> Seq(Messages)]
           /\ \E m \in Messages :
                 /\ m.kind = "private_message" /\ m.uid = u /\ m.text = r.text
                 /\ \A v \in Uids : down'[v] = IF v = r.uid /\ Reached(v)
                                               THEN Append(down[v], m) ELSE down[v]
<1> DEFINE m == Message("private_message", u, mSessions[u], r.text)
<1>1. /\ r.kind = "send_private" /\ mSessions' = mSessions
      /\ down' = IF r.uid \in DOMAIN mSessions THEN Put(down, r.uid, m) ELSE down
  BY DEF ServePrivate
<1>2. r.text \in Nat /\ u \in Nat /\ mSessions[u] \in Names
  BY MessageIs DEF ServerOK, Uids
<1>3. m \in Messages /\ m.kind = "private_message" /\ m.uid = u /\ m.text = r.text
  BY <1>2, MakesMessage DEF Kinds
<1>4. link \in [Uids -> {"up", "lost"}] /\ down \in [Uids -> Seq(Messages)]
  BY DEF NetOK
<1> HIDE DEF m
<1>5. CASE r.uid \in DOMAIN mSessions
  <2>1. r.uid \in Uids
    BY <1>5 DEF ServerOK
  <2>2. /\ Put(down, r.uid, m) \in [Uids -> Seq(Messages)]
        /\ \A v \in Uids \ {r.uid} : Put(down, r.uid, m)[v] = down[v]
        /\ Put(down, r.uid, m)[r.uid] = IF link[r.uid] = "up" THEN Append(down[r.uid], m) ELSE down[r.uid]
    <3>1. m \in Messages
      BY <1>3
    <3> QED
      BY <1>4, <2>1, <3>1, PutIs
  <2>3. down' = Put(down, r.uid, m)
    BY <1>1, <1>5
  <2>4. \A v \in Uids : down'[v] = IF v = r.uid /\ Reached(v) THEN Append(down[v], m) ELSE down[v]
    BY <1>5, <2>2, <2>3 DEF Reached
  <2> QED
    BY <1>1, <1>3, <2>2, <2>3, <2>4
<1>6. CASE r.uid \notin DOMAIN mSessions
  <2>1. down' = down
    BY <1>1, <1>6
  <2> QED
    BY <1>1, <1>3, <1>4, <1>6, <2>1 DEF Reached
<1> QED
  BY <1>5, <1>6

LEMMA LeaveShape ==
    ASSUME ServerOK, NetOK, NEW u \in Uids, Leave(u)
    PROVE  /\ u \in DOMAIN mSessions /\ link[u] = "lost"
           /\ DOMAIN mSessions' = DOMAIN mSessions \ {u}
           /\ \A v \in DOMAIN mSessions' : mSessions'[v] = mSessions[v]
           /\ mSessions' \in [DOMAIN mSessions \ {u} -> Names]
           /\ down' \in [Uids -> Seq(Messages)]
           /\ \E m \in Messages :
                 /\ m.kind = "user_left" /\ m.uid = u
                 /\ \A v \in Uids : down'[v] = IF Reached(v) THEN Append(down[v], m) ELSE down[v]
           /\ UNCHANGED <<mNextUid, owner, link, up, contextVars, windowVars, losses, selects, sent>>
<1> DEFINE m == Message("user_left", u, Guest, 0)
<1>1. /\ u \in DOMAIN mSessions /\ link[u] = "lost"
      /\ mSessions' = [v \in DOMAIN mSessions \ {u} |-> mSessions[v]]
      /\ down' = Broadcast(down, m)
      /\ UNCHANGED <<mNextUid, owner, link, up, contextVars, windowVars, losses, selects, sent>>
  BY DEF Leave
<1>2. /\ DOMAIN mSessions' = DOMAIN mSessions \ {u}
      /\ \A v \in DOMAIN mSessions' : mSessions'[v] = mSessions[v]
      /\ mSessions' \in [DOMAIN mSessions \ {u} -> Names]
  BY <1>1 DEF ServerOK
<1>3. u \in Nat /\ Guest \in Names
  BY DEF Uids, Names
<1>4. m \in Messages /\ m.kind = "user_left" /\ m.uid = u
  BY <1>3, MakesMessage DEF Kinds
<1>5. link \in [Uids -> {"up", "lost"}] /\ down \in [Uids -> Seq(Messages)]
  BY DEF NetOK
<1> HIDE DEF m
<1>6. /\ Broadcast(down, m) \in [Uids -> Seq(Messages)]
      /\ \A v \in Uids : Broadcast(down, m)[v] = IF v \in DOMAIN mSessions /\ link[v] = "up"
                                                 THEN Append(down[v], m) ELSE down[v]
  BY <1>4, <1>5, BroadcastIs, Zenon
<1> QED
  BY <1>1, <1>2, <1>4, <1>6 DEF Reached

LEMMA PollShape ==
    ASSUME TypeOK, NEW c \in User, Poll(c)
    PROVE  /\ mClient[c] \in Uids /\ mClient[c] # 0 /\ owner[mClient[c]] = c
           /\ down[mClient[c]] \in Seq(Messages) /\ down[mClient[c]] # <<>>
           /\ Head(down[mClient[c]]) \in Messages
           /\ \/ Welcome(c, Head(down[mClient[c]])) \/ Clients(c, Head(down[mClient[c]]))
              \/ UserJoined(c, Head(down[mClient[c]])) \/ UserLeft(c, Head(down[mClient[c]]))
              \/ Arrives(c, Head(down[mClient[c]]))
           /\ down' \in [Uids -> Seq(Messages)] /\ down'[mClient[c]] = Tail(down[mClient[c]])
           /\ \A v \in Uids \ {mClient[c]} : down'[v] = down[v]
           /\ UNCHANGED <<serverVars, link, mClient, early, mSelectedUid, losses, selects, sent>>
<1>1. mClient[c] \in Uids /\ mClient[c] # 0 /\ owner[mClient[c]] = c
  BY DEF Poll, TypeOK, ProgramOK
<1>2. down \in [Uids -> Seq(Messages)]
  BY DEF TypeOK, NetOK
<1>3. down[mClient[c]] \in Seq(Messages) /\ down[mClient[c]] # <<>>
  BY <1>1, <1>2 DEF Poll
<1>4. Head(down[mClient[c]]) \in Messages /\ Tail(down[mClient[c]]) \in Seq(Messages)
  BY <1>3, TailIs
<1>5. /\ down' = [down EXCEPT ![mClient[c]] = Tail(@)]
      /\ \/ Welcome(c, Head(down[mClient[c]])) \/ Clients(c, Head(down[mClient[c]]))
         \/ UserJoined(c, Head(down[mClient[c]])) \/ UserLeft(c, Head(down[mClient[c]]))
         \/ Arrives(c, Head(down[mClient[c]]))
      /\ UNCHANGED <<serverVars, link, mClient, early, mSelectedUid, losses, selects, sent>>
  BY DEF Poll
<1>6. /\ down' \in [Uids -> Seq(Messages)] /\ down'[mClient[c]] = Tail(down[mClient[c]])
      /\ \A v \in Uids \ {mClient[c]} : down'[v] = down[v]
  BY <1>1, <1>2, <1>4, <1>5
<1> QED
  BY <1>1, <1>3, <1>4, <1>5, <1>6

LEMMA WelcomeShape ==
    ASSUME TypeOK, NEW c \in User, mClient[c] # 0, NEW m, Welcome(c, m)
    PROVE  /\ m.kind = "welcome" /\ mMyUid' = [mMyUid EXCEPT ![c] = m.uid]
           /\ up' \in [Uids -> Seq(Messages)]
           /\ \E r \in Messages :
                 /\ r.kind = "client_list"
                 /\ up'[mClient[c]] = IF link[mClient[c]] = "up" THEN Append(up[mClient[c]], r)
                                                                  ELSE up[mClient[c]]
                 /\ \A v \in Uids \ {mClient[c]} : up'[v] = up[v]
           /\ UNCHANGED <<mUsers, mMessages, mState, shown>>
<1> DEFINE r == Message("client_list", 0, Guest, 0)
<1>1. /\ m.kind = "welcome" /\ mMyUid' = [mMyUid EXCEPT ![c] = m.uid]
      /\ up' = Put(up, mClient[c], r) /\ UNCHANGED <<mUsers, mMessages, mState, shown>>
  BY DEF Welcome
<1>2. r \in Messages /\ r.kind = "client_list"
  <2>1. "client_list" \in Kinds /\ Guest \in Names /\ 0 \in Nat
    BY DEF Kinds, Names
  <2> QED
    BY <2>1, MakesMessage
<1>3. /\ ServerOK /\ link \in [Uids -> {"up", "lost"}] /\ up \in [Uids -> Seq(Messages)]
      /\ mClient[c] \in Uids
  BY DEF TypeOK, NetOK, ProgramOK
<1> HIDE DEF r
<1>4. /\ Put(up, mClient[c], r) \in [Uids -> Seq(Messages)]
      /\ \A v \in Uids \ {mClient[c]} : Put(up, mClient[c], r)[v] = up[v]
      /\ Put(up, mClient[c], r)[mClient[c]] =
            IF link[mClient[c]] = "up" THEN Append(up[mClient[c]], r) ELSE up[mClient[c]]
  BY <1>2, <1>3, PutIs, Zenon
<1> QED
  BY <1>1, <1>2, <1>4

LEMMA RowIs ==
    ASSUME NEW S, NEW n \in Nat, NEW row \in [1 .. n -> S], NEW x \in S
    PROVE  /\ Append(row, x) \in [1 .. n + 1 -> S] /\ Append(row, x)[n + 1] = x
           /\ \A i \in 1 .. n : Append(row, x)[i] = row[i]
<1>1. row \in Seq(S) /\ Len(row) = n
  OBVIOUS
<1>2. /\ Append(row, x) \in Seq(S) /\ Len(Append(row, x)) = n + 1 /\ Append(row, x)[n + 1] = x
      /\ \A i \in 1 .. n : Append(row, x)[i] = row[i]
  BY <1>1
<1>3. ASSUME NEW q \in Seq(S), Len(q) = n + 1 PROVE q \in [1 .. n + 1 -> S]
  BY <1>3
<1>4. Append(row, x) \in [1 .. n + 1 -> S]
  BY <1>2, <1>3, Zenon
<1> QED
  BY <1>2, <1>4

LEMMA ConnectedShape ==
    ASSUME TypeOK, NEW c \in User, Connected(c)
    PROVE  /\ mState[c] = "Connecting" /\ mClient[c] = 0 /\ mNextUid <= MaxConnections
           /\ mNextUid \in Nat \ {0} /\ mNextUid \notin Uids /\ Uids' = Uids \cup {mNextUid}
           /\ mNextUid' = mNextUid + 1
           /\ owner' \in [Uids' -> User] /\ owner'[mNextUid] = c
           /\ link' \in [Uids' -> {"up", "lost"}] /\ link'[mNextUid] = "up"
           /\ up' \in [Uids' -> Seq(Messages)] /\ down' \in [Uids' -> Seq(Messages)]
           /\ \E r \in Messages : r.kind = "login" /\ up'[mNextUid] = Append(early[c], r)
           /\ down'[mNextUid] = <<>>
           /\ \A u \in Uids : owner'[u] = owner[u] /\ link'[u] = link[u] /\ up'[u] = up[u] /\ down'[u] = down[u]
           /\ DOMAIN mSessions' = DOMAIN mSessions \cup {mNextUid} /\ mSessions'[mNextUid] = Guest
           /\ \A u \in DOMAIN mSessions : mSessions'[u] = mSessions[u]
           /\ mSessions' \in [DOMAIN mSessions \cup {mNextUid} -> Names]
           /\ mClient' = [mClient EXCEPT ![c] = mNextUid] /\ early' = [early EXCEPT ![c] = <<>>]
           /\ UNCHANGED <<mMyUid, mUsers, mMessages, windowVars, losses, selects, sent>>
<1> DEFINE r == Message("login", 0, c, 0)
           n == mNextUid - 1
<1>1. /\ mState[c] = "Connecting" /\ mClient[c] = 0 /\ mNextUid <= MaxConnections
      /\ mNextUid' = mNextUid + 1
      /\ mSessions' = [u \in DOMAIN mSessions \cup {mNextUid} |->
                          IF u = mNextUid THEN Guest ELSE mSessions[u]]
      /\ owner' = Append(owner, c) /\ link' = Append(link, "up")
      /\ up' = Append(up, Append(early[c], r)) /\ down' = Append(down, <<>>)
      /\ mClient' = [mClient EXCEPT ![c] = mNextUid] /\ early' = [early EXCEPT ![c] = <<>>]
      /\ UNCHANGED <<mMyUid, mUsers, mMessages, windowVars, losses, selects, sent>>
  BY DEF Connected
<1>2. r \in Messages /\ r.kind = "login"
  <2>1. "login" \in Kinds /\ c \in Names /\ 0 \in Nat
    BY DEF Kinds, Names
  <2> QED
    BY <2>1, MakesMessage
<1> HIDE DEF r
<1>3. mNextUid \in Nat \ {0} /\ n \in Nat /\ Uids = 1 .. n /\ n + 1 = mNextUid
  BY RoomAssumption DEF TypeOK, ServerOK, Uids
<1>4. Uids' = 1 .. n + 1 /\ mNextUid \notin Uids /\ Uids' = Uids \cup {mNextUid}
  BY <1>1, <1>3 DEF Uids
<1> HIDE DEF n
<1>5. /\ owner \in [1 .. n -> User] /\ link \in [1 .. n -> {"up", "lost"}]
      /\ up \in [1 .. n -> Seq(Messages)] /\ down \in [1 .. n -> Seq(Messages)]
      /\ early[c] \in Seq(Messages)
  BY <1>3 DEF TypeOK, ServerOK, NetOK
<1>6. Append(early[c], r) \in Seq(Messages) /\ <<>> \in Seq(Messages)
  BY <1>2, <1>5
<1>7. /\ Append(owner, c) \in [1 .. n + 1 -> User] /\ Append(owner, c)[n + 1] = c
      /\ \A u \in 1 .. n : Append(owner, c)[u] = owner[u]
  <2>1. Append(owner, c) \in [1 .. n + 1 -> User]
    BY <1>3, <1>5, RowIs
  <2>2. Append(owner, c)[n + 1] = c
    BY <1>3, <1>5, RowIs
  <2>3. \A u \in 1 .. n : Append(owner, c)[u] = owner[u]
    BY <1>3, <1>5, RowIs
  <2> QED
    BY <2>1, <2>2, <2>3
<1>8. /\ Append(link, "up") \in [1 .. n + 1 -> {"up", "lost"}] /\ Append(link, "up")[n + 1] = "up"
      /\ \A u \in 1 .. n : Append(link, "up")[u] = link[u]
  <2> DEFINE S == {"up", "lost"}
  <2>1. link \in [1 .. n -> S] /\ "up" \in S
    BY <1>5
  <2> HIDE DEF S
  <2>2. /\ Append(link, "up") \in [1 .. n + 1 -> S] /\ Append(link, "up")[n + 1] = "up"
        /\ \A u \in 1 .. n : Append(link, "up")[u] = link[u]
    <3>1. Append(link, "up") \in [1 .. n + 1 -> S]
      BY <1>3, <2>1, RowIs
    <3>2. Append(link, "up")[n + 1] = "up"
      BY <1>3, <2>1, RowIs
    <3>3. \A u \in 1 .. n : Append(link, "up")[u] = link[u]
      BY <1>3, <2>1, RowIs
    <3> QED
      BY <3>1, <3>2, <3>3
  <2> QED
    BY <2>2 DEF S
<1>9. ASSUME NEW q \in [1 .. n -> Seq(Messages)], NEW s \in Seq(Messages)
      PROVE  /\ Append(q, s) \in [1 .. n + 1 -> Seq(Messages)] /\ Append(q, s)[n + 1] = s
             /\ \A u \in 1 .. n : Append(q, s)[u] = q[u]
  <2>1. Append(q, s) \in [1 .. n + 1 -> Seq(Messages)]
    BY <1>3, RowIs
  <2>2. Append(q, s)[n + 1] = s
    BY <1>3, RowIs
  <2>3. \A u \in 1 .. n : Append(q, s)[u] = q[u]
    BY <1>3, RowIs
  <2> QED
    BY <2>1, <2>2, <2>3
<1>10. /\ up' \in [1 .. n + 1 -> Seq(Messages)] /\ up'[n + 1] = Append(early[c], r)
       /\ \A u \in 1 .. n : up'[u] = up[u]
       /\ down' \in [1 .. n + 1 -> Seq(Messages)] /\ down'[n + 1] = <<>>
       /\ \A u \in 1 .. n : down'[u] = down[u]
  <2>1. /\ Append(up, Append(early[c], r)) \in [1 .. n + 1 -> Seq(Messages)]
        /\ Append(up, Append(early[c], r))[n + 1] = Append(early[c], r)
        /\ \A u \in 1 .. n : Append(up, Append(early[c], r))[u] = up[u]
    BY <1>5, <1>6, <1>9
  <2>2. /\ Append(down, <<>>) \in [1 .. n + 1 -> Seq(Messages)] /\ Append(down, <<>>)[n + 1] = <<>>
        /\ \A u \in 1 .. n : Append(down, <<>>)[u] = down[u]
    BY <1>5, <1>6, <1>9
  <2> QED
    BY <1>1, <2>1, <2>2
<1>11. DOMAIN mSessions \subseteq Uids /\ mSessions \in [DOMAIN mSessions -> Names] /\ Guest \in Names
  BY DEF TypeOK, ServerOK, Names
<1>12. /\ DOMAIN mSessions' = DOMAIN mSessions \cup {mNextUid} /\ mSessions'[mNextUid] = Guest
       /\ \A u \in DOMAIN mSessions : mSessions'[u] = mSessions[u]
       /\ mSessions' \in [DOMAIN mSessions \cup {mNextUid} -> Names]
  BY <1>1, <1>4, <1>11
<1>13. /\ owner' \in [Uids' -> User] /\ owner'[mNextUid] = c
       /\ \A u \in Uids : owner'[u] = owner[u]
  BY <1>1, <1>3, <1>4, <1>7
<1>14. /\ link' \in [Uids' -> {"up", "lost"}] /\ link'[mNextUid] = "up"
       /\ \A u \in Uids : link'[u] = link[u]
  BY <1>1, <1>3, <1>4, <1>8
<1>15. /\ up' \in [Uids' -> Seq(Messages)] /\ down' \in [Uids' -> Seq(Messages)]
       /\ \E s \in Messages : s.kind = "login" /\ up'[mNextUid] = Append(early[c], s)
       /\ down'[mNextUid] = <<>>
       /\ \A u \in Uids : up'[u] = up[u] /\ down'[u] = down[u]
  <2>1. /\ up' \in [Uids' -> Seq(Messages)] /\ up'[mNextUid] = Append(early[c], r)
        /\ \A u \in Uids : up'[u] = up[u]
    BY <1>3, <1>4, <1>10
  <2>2. /\ down' \in [Uids' -> Seq(Messages)] /\ down'[mNextUid] = <<>>
        /\ \A u \in Uids : down'[u] = down[u]
    BY <1>3, <1>4, <1>10
  <2> QED
    BY <1>2, <2>1, <2>2
<1> QED
  BY <1>1, <1>3, <1>4, <1>12, <1>13, <1>14, <1>15

Typed == [from : User, to : Nat, early : BOOLEAN]
Entries == [uid : Nat, text : Nat, isPrivate : BOOLEAN]

\* What Say(c, to) does with the text n, the request r and the entry e.
Saying(c, to, n, r, e) ==
    /\ n = Len(sent) + 1 /\ n \notin DOMAIN sent /\ DOMAIN sent' = DOMAIN sent \cup {n}
    /\ sent' \in Seq(Typed) /\ \A t \in DOMAIN sent : sent'[t] = sent[t] /\ t \in Nat /\ t < n
    /\ sent'[n].from = c /\ sent'[n].to = to /\ sent'[n].early = (mClient[c] = 0)
    /\ r.kind = (IF to = 0 THEN "send_public" ELSE "send_private") /\ Ask(r)
    /\ r.uid = to /\ r.text = n
    /\ e.uid = mMyUid[c] /\ e.text = n /\ e.isPrivate = (to # 0)
    /\ mMessages' = [mMessages EXCEPT ![c] = Append(mMessages[c], e)]
    /\ \/ mClient[c] = 0 /\ early' = [early EXCEPT ![c] = Append(early[c], r)] /\ up' = up
       \/ /\ mClient[c] # 0 /\ early' = early
          /\ up' \in [Uids -> Seq(Messages)]
          /\ up'[mClient[c]] = IF link[mClient[c]] = "up" THEN Append(up[mClient[c]], r)
                                                           ELSE up[mClient[c]]
          /\ \A v \in Uids \ {mClient[c]} : up'[v] = up[v]
    /\ shown' = [shown EXCEPT ![c] = mUsers[c]]
    /\ UNCHANGED <<serverVars, link, down, mClient, mMyUid, mUsers, mState, mSelectedUid,
                   losses, selects>>

LEMMA SayShape ==
    ASSUME TypeOK, NEW c \in User, NEW to \in Nat, Say(c, to)
    PROVE  \E n \in Nat : \E r \in Messages : \E e \in Entries : Saying(c, to, n, r, e)
<1> DEFINE n == Len(sent) + 1
           kind == IF to = 0 THEN "send_public" ELSE "send_private"
           r == Message(kind, to, Guest, n)
           e == [uid |-> mMyUid[c], text |-> n, isPrivate |-> to # 0]
           s == [from |-> c, to |-> to, early |-> mClient[c] = 0]
<1>1. /\ sent' = Append(sent, s)
      /\ mMessages' = [mMessages EXCEPT ![c] = Append(@, e)]
      /\ \/ mClient[c] = 0 /\ early' = [early EXCEPT ![c] = Append(@, r)] /\ up' = up
         \/ mClient[c] # 0 /\ up' = Put(up, mClient[c], r) /\ early' = early
      /\ shown' = [shown EXCEPT ![c] = mUsers'[c]]
      /\ UNCHANGED <<serverVars, link, down, mClient, mMyUid, mUsers, mState, mSelectedUid,
                     losses, selects>>
  BY DEF Say, Refresh
<1>2. sent \in Seq(Typed) /\ mMyUid[c] \in Nat /\ early[c] \in Seq(Messages)
  BY DEF TypeOK, TextsOK, ProgramOK, NetOK, Typed
<1>3. n \in Nat
  BY <1>2
<1>4. s \in Typed /\ e \in Entries
  BY <1>2, <1>3 DEF Typed, Entries
<1>5. kind \in Kinds /\ Guest \in Names
  BY DEF Kinds, Names
<1> HIDE DEF kind
<1>6. r \in Messages /\ r.kind = kind /\ r.uid = to /\ r.text = n
  BY <1>3, <1>5, MakesMessage
<1>7. Ask(r)
  BY <1>6 DEF Ask, kind
<1>8. e.uid = mMyUid[c] /\ e.text = n /\ e.isPrivate = (to # 0)
  OBVIOUS
<1>9. s.from = c /\ s.to = to /\ s.early = (mClient[c] = 0)
  OBVIOUS
<1> HIDE DEF s, e, r
<1>10. /\ Append(sent, s) \in Seq(Typed) /\ Append(sent, s)[n] = s
       /\ n \notin DOMAIN sent /\ DOMAIN Append(sent, s) = DOMAIN sent \cup {n}
       /\ \A t \in DOMAIN sent : Append(sent, s)[t] = sent[t] /\ t \in Nat /\ t < n
  BY <1>2, <1>4
<1>11. n = Len(sent) + 1 /\ kind = (IF to = 0 THEN "send_public" ELSE "send_private")
  BY DEF kind
<1> HIDE DEF n
<1>12. ASSUME mClient[c] # 0
       PROVE  /\ up' \in [Uids -> Seq(Messages)] /\ early' = early
              /\ up'[mClient[c]] = IF link[mClient[c]] = "up" THEN Append(up[mClient[c]], r)
                                                               ELSE up[mClient[c]]
              /\ \A v \in Uids \ {mClient[c]} : up'[v] = up[v]
  <2>1. /\ mClient[c] \in Uids /\ ServerOK /\ link \in [Uids -> {"up", "lost"}]
        /\ up \in [Uids -> Seq(Messages)]
    BY <1>12 DEF TypeOK, ProgramOK, NetOK
  <2>2. /\ Put(up, mClient[c], r) \in [Uids -> Seq(Messages)]
        /\ \A v \in Uids \ {mClient[c]} : Put(up, mClient[c], r)[v] = up[v]
        /\ Put(up, mClient[c], r)[mClient[c]] =
              IF link[mClient[c]] = "up" THEN Append(up[mClient[c]], r) ELSE up[mClient[c]]
    BY <1>6, <2>1, PutIs, Zenon
  <2>3. early' = early /\ up' = Put(up, mClient[c], r)
    BY <1>1, <1>12
  <2> QED
    BY <2>2, <2>3
<1>13. n \in Nat /\ r \in Messages /\ e \in Entries
  BY <1>3, <1>4, <1>6
<1>14. mMessages' = [mMessages EXCEPT ![c] = Append(mMessages[c], e)] /\ shown' = [shown EXCEPT ![c] = mUsers[c]]
  BY <1>1
<1>15. \/ mClient[c] = 0 /\ early' = [early EXCEPT ![c] = Append(early[c], r)] /\ up' = up
       \/ mClient[c] # 0
  BY <1>1
<1> USE <1>13
<1> WITNESS n \in Nat, r \in Messages, e \in Entries
<1> QED
  BY <1>1, <1>6, <1>7, <1>8, <1>9, <1>10, <1>11, <1>12, <1>14, <1>15, Zenon DEF Saying

LEMMA ForgetShape ==
    ASSUME NEW c \in User, StartConnection(c) \/ StartRefused(c) \/ Launch(c)
    PROVE  /\ mState[c] = "Login" /\ Forget(c)
           /\ \/ mState' = mState /\ (mState[c] = "Login")
              \/ \E s \in {"Connecting", "Gone"} : mState' = [mState EXCEPT ![c] = s]
           /\ UNCHANGED <<serverVars, netVars, mSelectedUid, shown, losses, selects, sent>>
BY DEF StartConnection, StartRefused, Launch, On, Parsed, windowVars

-----------------------------------------------------------------------------
(* Types.                                                                  *)

LEMMA UsersKept ==
    ASSUME UsersOK, mUsers' = mUsers, shown' = shown, Uids \subseteq Uids'
    PROVE  UsersOK'
BY DEF UsersOK

LEMMA ProgramKept ==
    ASSUME ProgramOK, UNCHANGED <<mClient, mMyUid, mState, mSelectedUid, losses, selects, owner>>, Uids' = Uids
    PROVE  ProgramOK'
BY DEF ProgramOK

LEMMA TextsKept ==
    ASSUME TextsOK, UNCHANGED <<sent, mMessages>>
    PROVE  TextsOK'
BY DEF TextsOK

LEMMA UidsKept ==
    ASSUME mNextUid' = mNextUid
    PROVE  Uids' = Uids
BY DEF Uids

LEMMA ServeTypes ==
    ASSUME TypeOK, NEW u \in Uids, Serve(u)
    PROVE  TypeOK'
<1> DEFINE r == Head(up[u])
<1>1. /\ ServerOK /\ NetOK /\ UsersOK /\ TextsOK /\ ProgramOK
  BY DEF TypeOK
<1>2. /\ u \in DOMAIN mSessions /\ r \in Messages
      /\ ServeLogin(u, r) \/ ServeList(u, r) \/ ServePublic(u, r) \/ ServePrivate(u, r)
      /\ up' \in [Uids -> Seq(Messages)]
      /\ UNCHANGED <<mNextUid, owner, link, contextVars, windowVars, losses, selects, sent>>
  BY <1>1, ServeShape
<1>3. Uids' = Uids
  BY <1>2, UidsKept
<1>4. /\ down' \in [Uids -> Seq(Messages)] /\ DOMAIN mSessions' = DOMAIN mSessions
      /\ mSessions' \in [DOMAIN mSessions -> Names]
  <2>1. CASE ServeLogin(u, r)
    BY <1>1, <1>2, <2>1, LoginShape
  <2>2. CASE ServeList(u, r)
    BY <1>1, <1>2, <2>2, ListShape DEF ServerOK
  <2>3. CASE ServePublic(u, r)
    BY <1>1, <1>2, <2>3, PublicShape DEF ServerOK
  <2>4. CASE ServePrivate(u, r)
    BY <1>1, <1>2, <2>4, PrivateShape DEF ServerOK
  <2> QED
    BY <1>2, <2>1, <2>2, <2>3, <2>4
<1>5. ServerOK'
  BY <1>1, <1>2, <1>3, <1>4 DEF ServerOK
<1>6. NetOK'
  BY <1>1, <1>2, <1>3, <1>4 DEF NetOK, contextVars
<1>7. UsersOK'
  BY <1>1, <1>2, <1>3, UsersKept DEF contextVars, windowVars
<1>8. TextsOK' /\ ProgramOK'
  BY <1>1, <1>2, <1>3, TextsKept, ProgramKept DEF contextVars, windowVars
<1> QED
  BY <1>5, <1>6, <1>7, <1>8 DEF TypeOK

LEMMA LeaveTypes ==
    ASSUME TypeOK, NEW u \in Uids, Leave(u)
    PROVE  TypeOK'
<1>1. /\ ServerOK /\ NetOK /\ UsersOK /\ TextsOK /\ ProgramOK
  BY DEF TypeOK
<1>2. /\ DOMAIN mSessions' = DOMAIN mSessions \ {u} /\ mSessions' \in [DOMAIN mSessions \ {u} -> Names]
      /\ down' \in [Uids -> Seq(Messages)]
      /\ UNCHANGED <<mNextUid, owner, link, up, contextVars, windowVars, losses, selects, sent>>
  BY <1>1, LeaveShape
<1>3. Uids' = Uids
  BY <1>2, UidsKept
<1>4. ServerOK'
  BY <1>1, <1>2, <1>3 DEF ServerOK
<1>5. NetOK'
  BY <1>1, <1>2, <1>3 DEF NetOK, contextVars
<1>6. UsersOK'
  BY <1>1, <1>2, <1>3, UsersKept DEF contextVars, windowVars
<1>7. TextsOK' /\ ProgramOK'
  BY <1>1, <1>2, <1>3, TextsKept, ProgramKept DEF contextVars, windowVars
<1> QED
  BY <1>4, <1>5, <1>6, <1>7 DEF TypeOK

LEMMA LoseTypes ==
    ASSUME TypeOK, NEW u \in Uids, Lose(u)
    PROVE  TypeOK'
<1>1. /\ ServerOK /\ NetOK /\ UsersOK /\ TextsOK /\ ProgramOK
  BY DEF TypeOK
<1>2. /\ losses < MaxLosses /\ losses' = losses + 1 /\ link' = [link EXCEPT ![u] = "lost"]
      /\ UNCHANGED <<serverVars, up, down, contextVars, windowVars, selects, sent>>
  BY DEF Lose
<1>3. Uids' = Uids
  BY <1>2, UidsKept DEF serverVars
<1>4. ServerOK'
  BY <1>1, <1>2, <1>3 DEF ServerOK, serverVars
<1>5. NetOK'
  BY <1>1, <1>2, <1>3 DEF NetOK, contextVars
<1>6. UsersOK' /\ TextsOK'
  BY <1>1, <1>2, <1>3, UsersKept, TextsKept DEF contextVars, windowVars
<1>7. losses' \in 0 .. MaxLosses
  BY <1>1, <1>2, RoomAssumption DEF ProgramOK
<1>8. ProgramOK'
  BY <1>1, <1>2, <1>3, <1>7 DEF ProgramOK, contextVars, windowVars, serverVars
<1> QED
  BY <1>4, <1>5, <1>6, <1>8 DEF TypeOK

LEMMA ForgetTypes ==
    ASSUME TypeOK, NEW c \in User, StartConnection(c) \/ StartRefused(c) \/ Launch(c)
    PROVE  TypeOK'
<1>1. /\ ServerOK /\ NetOK /\ UsersOK /\ TextsOK /\ ProgramOK
  BY DEF TypeOK
<1>2. /\ Forget(c) /\ (mState' = mState \/ \E s \in {"Connecting", "Gone"} : mState' = [mState EXCEPT ![c] = s])
      /\ UNCHANGED <<serverVars, netVars, mSelectedUid, shown, losses, selects, sent>>
  BY ForgetShape
<1>3. Uids' = Uids
  BY <1>2, UidsKept DEF serverVars
<1>4. ServerOK'
  BY <1>1, <1>2, <1>3 DEF ServerOK, serverVars
<1>5. NetOK'
  BY <1>1, <1>2, <1>3 DEF NetOK, netVars, Forget
<1>6. UsersOK'
  <2>1. mUsers' = [mUsers EXCEPT ![c] = Nobody] /\ shown' = shown
    BY <1>2 DEF Forget
  <2>2. DOMAIN Nobody = {} /\ Nobody \in [DOMAIN Nobody -> Views]
    BY DEF Nobody
  <2> QED
    BY <1>1, <1>3, <2>1, <2>2 DEF UsersOK
<1>7. TextsOK'
  BY <1>1, <1>2 DEF TextsOK, Forget
<1>8. ProgramOK'
  BY <1>1, <1>2, <1>3 DEF ProgramOK, Forget, serverVars
<1> QED
  BY <1>4, <1>5, <1>6, <1>7, <1>8 DEF TypeOK

LEMMA ConnectedTypes ==
    ASSUME TypeOK, NEW c \in User, Connected(c)
    PROVE  TypeOK'
<1> DEFINE n == mNextUid
<1>1. /\ ServerOK /\ NetOK /\ UsersOK /\ TextsOK /\ ProgramOK
  BY DEF TypeOK
<1>2. /\ mNextUid <= MaxConnections /\ n \in Nat \ {0} /\ n \notin Uids /\ Uids' = Uids \cup {n}
      /\ mNextUid' = mNextUid + 1
      /\ owner' \in [Uids' -> User] /\ owner'[n] = c
      /\ link' \in [Uids' -> {"up", "lost"}]
      /\ up' \in [Uids' -> Seq(Messages)] /\ down' \in [Uids' -> Seq(Messages)]
      /\ \A u \in Uids : owner'[u] = owner[u]
      /\ DOMAIN mSessions' = DOMAIN mSessions \cup {n}
      /\ mSessions' \in [DOMAIN mSessions \cup {n} -> Names]
      /\ mClient' = [mClient EXCEPT ![c] = n] /\ early' = [early EXCEPT ![c] = <<>>]
      /\ UNCHANGED <<mMyUid, mUsers, mMessages, windowVars, losses, selects, sent>>
  BY ConnectedShape
<1>3. mNextUid' \in 1 .. MaxConnections + 1
  BY <1>1, <1>2, RoomAssumption DEF ServerOK
<1> HIDE DEF n
<1>4. ServerOK'
  BY <1>1, <1>2, <1>3 DEF ServerOK
<1>5. NetOK'
  BY <1>1, <1>2 DEF NetOK
<1>6. UsersOK' /\ TextsOK'
  BY <1>1, <1>2, UsersKept, TextsKept DEF windowVars
<1>7. ProgramOK'
  BY <1>1, <1>2 DEF ProgramOK, windowVars
<1> QED
  BY <1>4, <1>5, <1>6, <1>7 DEF TypeOK

LEMMA DisconnectedTypes ==
    ASSUME TypeOK, NEW c \in User, Disconnected(c)
    PROVE  TypeOK'
<1>1. /\ ServerOK /\ NetOK /\ UsersOK /\ TextsOK /\ ProgramOK
  BY DEF TypeOK
<1>2. /\ mClient' = [mClient EXCEPT ![c] = 0] /\ early' = [early EXCEPT ![c] = <<>>]
      /\ mState' = [mState EXCEPT ![c] = IF c \in Terminal THEN "Gone" ELSE "Login"]
      /\ shown' = [shown EXCEPT ![c] = Nobody]
      /\ UNCHANGED <<serverVars, netVars, mMyUid, mUsers, mMessages, mSelectedUid, losses,
                     selects, sent>>
  BY DEF Disconnected
<1>3. Uids' = Uids
  BY <1>2, UidsKept DEF serverVars
<1>4. ServerOK'
  BY <1>1, <1>2, <1>3 DEF ServerOK, serverVars
<1>5. NetOK'
  BY <1>1, <1>2, <1>3 DEF NetOK, netVars
<1>6. UsersOK'
  <2>1. DOMAIN Nobody = {} /\ Nobody \in [DOMAIN Nobody -> Views]
    BY DEF Nobody
  <2> QED
    BY <1>1, <1>2, <1>3, <2>1 DEF UsersOK
<1>7. TextsOK'
  BY <1>1, <1>2, TextsKept
<1>8. ProgramOK'
  BY <1>1, <1>2, <1>3 DEF ProgramOK, serverVars
<1> QED
  BY <1>4, <1>5, <1>6, <1>7, <1>8 DEF TypeOK

LEMMA QuitTypes ==
    ASSUME TypeOK, NEW c \in User, Quit(c)
    PROVE  TypeOK'
<1>1. /\ ServerOK /\ NetOK /\ UsersOK /\ TextsOK /\ ProgramOK
  BY DEF TypeOK
<1>2. /\ losses < MaxLosses /\ losses' = losses + 1
      /\ mState' = [mState EXCEPT ![c] = "Gone"] /\ mClient' = [mClient EXCEPT ![c] = 0]
      /\ link' = IF mClient[c] = 0 THEN link ELSE [link EXCEPT ![mClient[c]] = "lost"]
      /\ UNCHANGED <<serverVars, up, down, mMyUid, mUsers, mMessages, early, mSelectedUid, shown,
                     selects, sent>>
  BY DEF Quit
<1>3. Uids' = Uids
  BY <1>2, UidsKept DEF serverVars
<1>4. ServerOK'
  BY <1>1, <1>2, <1>3 DEF ServerOK, serverVars
<1>5. NetOK'
  <2>1. link' \in [Uids -> {"up", "lost"}]
    BY <1>1, <1>2 DEF NetOK
  <2> QED
    BY <1>1, <1>2, <1>3, <2>1 DEF NetOK
<1>6. UsersOK' /\ TextsOK'
  BY <1>1, <1>2, <1>3, UsersKept, TextsKept
<1>7. losses' \in 0 .. MaxLosses
  BY <1>1, <1>2, RoomAssumption DEF ProgramOK
<1>8. ProgramOK'
  BY <1>1, <1>2, <1>3, <1>7 DEF ProgramOK, serverVars
<1> QED
  BY <1>4, <1>5, <1>6, <1>8 DEF TypeOK

LEMMA PollTypes ==
    ASSUME TypeOK, Addressed, NEW c \in User, Poll(c)
    PROVE  TypeOK'
<1> DEFINE v == mClient[c]
           m == Head(down[v])
<1>1. /\ ServerOK /\ NetOK /\ UsersOK /\ TextsOK /\ ProgramOK
  BY DEF TypeOK
<1>2. /\ v \in Uids /\ v # 0 /\ owner[v] = c /\ down[v] \in Seq(Messages) /\ down[v] # <<>> /\ m \in Messages
      /\ Welcome(c, m) \/ Clients(c, m) \/ UserJoined(c, m) \/ UserLeft(c, m) \/ Arrives(c, m)
      /\ down' \in [Uids -> Seq(Messages)]
      /\ UNCHANGED <<serverVars, link, mClient, early, mSelectedUid, losses, selects, sent>>
  BY PollShape
<1>3. Uids' = Uids
  BY <1>2, UidsKept DEF serverVars
<1>4. MeantFor(m, v, Uids)
  BY <1>2, MeantTail DEF Addressed
<1> HIDE DEF m
<1>5. ServerOK'
  BY <1>1, <1>2, <1>3 DEF ServerOK, serverVars
<1>6. /\ m.kind \in Kinds /\ m.uid \in Nat /\ m.name \in Names /\ m.text \in Nat
      /\ m.list \in SUBSET [uid : Nat, name : Names]
  BY <1>2, MessageIs
<1>7. CASE Welcome(c, m)
  <2>1. /\ m.kind = "welcome" /\ mMyUid' = [mMyUid EXCEPT ![c] = m.uid]
        /\ up' \in [Uids -> Seq(Messages)] /\ UNCHANGED <<mUsers, mMessages, mState, shown>>
    BY <1>2, <1>7, WelcomeShape
  <2>2. m.uid = v
    BY <1>4, <2>1 DEF MeantFor
  <2>3. NetOK'
    BY <1>1, <1>2, <1>3, <2>1 DEF NetOK
  <2>4. UsersOK' /\ TextsOK'
    BY <1>1, <1>2, <1>3, <2>1, UsersKept, TextsKept
  <2>5. ProgramOK'
    BY <1>1, <1>2, <1>3, <2>1, <2>2 DEF ProgramOK, serverVars
  <2> QED
    BY <1>5, <2>3, <2>4, <2>5 DEF TypeOK
<1>8. CASE Clients(c, m)
  <2> DEFINE list == m.list
             new == [u \in DOMAIN mUsers[c] \cup {e.uid : e \in list} |->
                IF \E e \in list : e.uid = u
                THEN [name |-> (CHOOSE e \in list : e.uid = u).name, unreadCount |-> 0]
                ELSE mUsers[c][u]]
  <2>1. /\ m.kind = "clients" /\ mUsers' = [mUsers EXCEPT ![c] = new]
        /\ mState' = [mState EXCEPT ![c] = "MainUI"] /\ shown' = [shown EXCEPT ![c] = mUsers'[c]]
        /\ UNCHANGED <<mMyUid, mMessages, up>>
    BY <1>8 DEF Clients, Refresh
  <2>2. /\ \A e \in list : e.uid \in Uids /\ e.name \in Names
        /\ DOMAIN mUsers[c] \subseteq Uids /\ \A u \in DOMAIN mUsers[c] : mUsers[c][u] \in Views
    BY <1>1, <1>4, <1>6, <2>1 DEF MeantFor, UsersOK
  <2> HIDE DEF list
  <2>3. ASSUME NEW u \in DOMAIN new PROVE u \in Uids /\ new[u] \in Views
    <3>1. u \in Uids
      BY <2>2
    <3>2. CASE \E e \in list : e.uid = u
      <4>1. (CHOOSE e \in list : e.uid = u) \in list
        BY <3>2
      <4>2. new[u] = [name |-> (CHOOSE e \in list : e.uid = u).name, unreadCount |-> 0]
        BY <3>2
      <4> QED
        BY <2>2, <3>1, <4>1, <4>2 DEF Views
    <3>3. CASE ~ \E e \in list : e.uid = u
      BY <2>2, <3>1, <3>3
    <3> QED
      BY <3>2, <3>3
  <2>4. new \in [DOMAIN new -> Views] /\ DOMAIN new \subseteq Uids
    BY <2>3
  <2> HIDE DEF new
  <2>5. UsersOK'
    BY <1>1, <1>3, <2>1, <2>4 DEF UsersOK
  <2>6. NetOK'
    BY <1>1, <1>2, <1>3, <2>1 DEF NetOK
  <2>7. TextsOK'
    BY <1>1, <1>2, <2>1, TextsKept
  <2>8. ProgramOK'
    BY <1>1, <1>2, <1>3, <2>1 DEF ProgramOK, serverVars
  <2> QED
    BY <1>5, <2>5, <2>6, <2>7, <2>8 DEF TypeOK
<1>9. CASE UserJoined(c, m)
  <2> DEFINE new == [u \in DOMAIN mUsers[c] \cup {m.uid} |->
                IF u = m.uid THEN [name |-> m.name, unreadCount |-> 0] ELSE mUsers[c][u]]
  <2>1. /\ m.kind = "user_joined" /\ mUsers' = [mUsers EXCEPT ![c] = new]
        /\ shown' = [shown EXCEPT ![c] = mUsers'[c]]
        /\ UNCHANGED <<mMyUid, mMessages, mState, up>>
    BY <1>9 DEF UserJoined, Refresh
  <2>2. /\ m.uid \in Uids /\ [name |-> m.name, unreadCount |-> 0] \in Views
        /\ DOMAIN mUsers[c] \subseteq Uids /\ \A u \in DOMAIN mUsers[c] : mUsers[c][u] \in Views
    BY <1>1, <1>4, <1>6, <2>1 DEF MeantFor, UsersOK, Views
  <2>3. new \in [DOMAIN new -> Views] /\ DOMAIN new \subseteq Uids
    BY <2>2
  <2> HIDE DEF new
  <2>4. UsersOK'
    BY <1>1, <1>3, <2>1, <2>3 DEF UsersOK
  <2>5. NetOK'
    BY <1>1, <1>2, <1>3, <2>1 DEF NetOK
  <2>6. TextsOK' /\ ProgramOK'
    BY <1>1, <1>2, <1>3, <2>1, TextsKept, ProgramKept DEF serverVars
  <2> QED
    BY <1>5, <2>4, <2>5, <2>6 DEF TypeOK
<1>10. CASE UserLeft(c, m)
  <2> DEFINE new == [u \in DOMAIN mUsers[c] \ {m.uid} |-> mUsers[c][u]]
  <2>1. /\ mUsers' = [mUsers EXCEPT ![c] = new]
        /\ shown' = [shown EXCEPT ![c] = mUsers'[c]]
        /\ UNCHANGED <<mMyUid, mMessages, mState, up>>
    BY <1>10 DEF UserLeft, Refresh
  <2>2. DOMAIN mUsers[c] \subseteq Uids /\ \A u \in DOMAIN mUsers[c] : mUsers[c][u] \in Views
    BY <1>1 DEF UsersOK
  <2>3. new \in [DOMAIN new -> Views] /\ DOMAIN new \subseteq Uids
    BY <2>2
  <2> HIDE DEF new
  <2>4. UsersOK'
    BY <1>1, <1>3, <2>1, <2>3 DEF UsersOK
  <2>5. NetOK'
    BY <1>1, <1>2, <1>3, <2>1 DEF NetOK
  <2>6. TextsOK' /\ ProgramOK'
    BY <1>1, <1>2, <1>3, <2>1, TextsKept, ProgramKept DEF serverVars
  <2> QED
    BY <1>5, <2>4, <2>5, <2>6 DEF TypeOK
<1>11. CASE Arrives(c, m)
  <2> DEFINE entry == [uid |-> m.uid, text |-> m.text, isPrivate |-> m.kind = "private_message"]
             new == [mUsers[c] EXCEPT ![m.uid].unreadCount = @ + 1]
  <2>1. /\ mMessages' = mMessages \/ mMessages' = [mMessages EXCEPT ![c] = Append(@, entry)]
        /\ mUsers' = mUsers \/ (m.uid \in DOMAIN mUsers[c] /\ mUsers' = [mUsers EXCEPT ![c][m.uid].unreadCount = @ + 1])
        /\ shown' = [shown EXCEPT ![c] = mUsers'[c]]
        /\ UNCHANGED <<mMyUid, mState, up>>
    BY <1>11 DEF Arrives, Refresh
  <2>2. /\ DOMAIN mUsers = User /\ DOMAIN mUsers[c] \subseteq Uids
        /\ \A u \in DOMAIN mUsers[c] : mUsers[c][u] \in Views /\ mUsers[c] \in [DOMAIN mUsers[c] -> Views]
    BY <1>1 DEF UsersOK
  <2>3. m.uid \in DOMAIN mUsers[c] =>
           /\ [mUsers EXCEPT ![c][m.uid].unreadCount = @ + 1] = [mUsers EXCEPT ![c] = new]
           /\ new \in [DOMAIN mUsers[c] -> Views]
    BY <2>2 DEF Views
  <2> HIDE DEF new
  <2>4. UsersOK'
    BY <1>1, <1>3, <2>1, <2>2, <2>3 DEF UsersOK
  <2>5. NetOK'
    BY <1>1, <1>2, <1>3, <2>1 DEF NetOK
  <2>6. ProgramOK'
    BY <1>1, <1>2, <1>3, <2>1, ProgramKept DEF serverVars
  <2>7. entry \in Entries
    BY <1>6 DEF Entries
  <2> HIDE DEF entry
  <2>8. mMessages[c] \in Seq(Entries) /\ Append(mMessages[c], entry) \in Seq(Entries)
    BY <1>1, <2>7 DEF TextsOK, Entries
  <2>9. TextsOK'
    BY <1>1, <1>2, <2>1, <2>8 DEF TextsOK, Entries
  <2> QED
    BY <1>5, <2>4, <2>5, <2>6, <2>9 DEF TypeOK
<1> QED
  BY <1>2, <1>7, <1>8, <1>9, <1>10, <1>11

LEMMA SelectTypes ==
    ASSUME TypeOK, NEW c \in User, NEW u \in 0 .. mNextUid, Select(c, u)
    PROVE  TypeOK'
<1>1. /\ ServerOK /\ NetOK /\ UsersOK /\ TextsOK /\ ProgramOK
  BY DEF TypeOK
<1>2. /\ selects < MaxSelects /\ selects' = selects + 1
      /\ u = 0 \/ u \in DOMAIN shown[c] \ {mMyUid[c]}
      /\ mSelectedUid' = [mSelectedUid EXCEPT ![c] = u]
      /\ shown' = IF u = 0 THEN shown ELSE [shown EXCEPT ![c][u].unreadCount = 0]
      /\ UNCHANGED <<serverVars, netVars, contextVars, mState, losses, sent>>
  BY DEF Select
<1>3. Uids' = Uids
  BY <1>2, UidsKept DEF serverVars
<1>4. ServerOK' /\ NetOK'
  BY <1>1, <1>2, <1>3 DEF ServerOK, NetOK, serverVars, netVars, contextVars
<1>5. TextsOK'
  BY <1>1, <1>2, TextsKept DEF contextVars
<1>6. DOMAIN shown = User /\ DOMAIN shown[c] \subseteq Uids /\ shown[c] \in [DOMAIN shown[c] -> Views]
  BY <1>1 DEF UsersOK
<1>7. UsersOK'
  <2> DEFINE new == [shown[c] EXCEPT ![u].unreadCount = 0]
  <2>1. CASE u = 0
    BY <1>1, <1>2, <1>3, <2>1, UsersKept DEF contextVars
  <2>2. CASE u # 0
    <3>1. u \in DOMAIN shown[c] /\ shown' = [shown EXCEPT ![c][u].unreadCount = 0]
      BY <1>2, <2>2
    <3>2. shown' = [shown EXCEPT ![c] = new] /\ new \in [DOMAIN shown[c] -> Views]
      BY <1>6, <3>1 DEF Views
    <3> HIDE DEF new
    <3>3. mUsers' = mUsers
      BY <1>2 DEF contextVars
    <3> QED
      BY <1>1, <1>3, <1>6, <3>2, <3>3 DEF UsersOK
  <2> QED
    BY <2>1, <2>2
<1>8. u \in {0} \cup Uids
  BY <1>2, <1>6
<1>9. selects' \in 0 .. MaxSelects
  BY <1>1, <1>2, RoomAssumption DEF ProgramOK
<1>10. ProgramOK'
  BY <1>1, <1>2, <1>3, <1>8, <1>9 DEF ProgramOK, contextVars, serverVars
<1> QED
  BY <1>4, <1>5, <1>7, <1>10 DEF TypeOK

LEMMA RenderTypes ==
    ASSUME TypeOK, NEW c \in User, RenderHeader(c)
    PROVE  TypeOK'
<1> DEFINE new == [u \in DOMAIN shown[c] \cup {mSelectedUid[c]} |->
                     IF u \in DOMAIN shown[c] THEN shown[c][u] ELSE [name |-> "", unreadCount |-> 0]]
<1>1. /\ ServerOK /\ NetOK /\ UsersOK /\ TextsOK /\ ProgramOK
  BY DEF TypeOK
<1>2. /\ mSelectedUid[c] # 0 /\ shown' = [shown EXCEPT ![c] = new]
      /\ UNCHANGED <<serverVars, netVars, contextVars, mState, mSelectedUid, losses, selects, sent>>
  BY DEF RenderHeader
<1>3. Uids' = Uids
  BY <1>2, UidsKept DEF serverVars
<1>4. ServerOK' /\ NetOK'
  BY <1>1, <1>2, <1>3 DEF ServerOK, NetOK, serverVars, netVars, contextVars
<1>5. TextsOK' /\ ProgramOK'
  BY <1>1, <1>2, <1>3, TextsKept, ProgramKept DEF contextVars, serverVars
<1>6. /\ DOMAIN shown = User /\ DOMAIN shown[c] \subseteq Uids /\ \A u \in DOMAIN shown[c] : shown[c][u] \in Views
      /\ mSelectedUid[c] \in Uids /\ [name |-> "", unreadCount |-> 0] \in Views
  BY <1>1, <1>2 DEF UsersOK, ProgramOK, Views, Names
<1>7. new \in [DOMAIN new -> Views] /\ DOMAIN new \subseteq Uids
  BY <1>6
<1> HIDE DEF new
<1>8. UsersOK'
  BY <1>1, <1>2, <1>3, <1>6, <1>7 DEF UsersOK, contextVars
<1> QED
  BY <1>4, <1>5, <1>8 DEF TypeOK

LEMMA SayTypes ==
    ASSUME TypeOK, NEW c \in User, NEW to \in Nat, Say(c, to)
    PROVE  TypeOK'
<1>1. /\ ServerOK /\ NetOK /\ UsersOK /\ TextsOK /\ ProgramOK
  BY DEF TypeOK
<1>2. PICK n \in Nat, r \in Messages, e \in Entries : Saying(c, to, n, r, e)
  BY SayShape
<1>3. /\ sent' \in Seq(Typed)
      /\ mMessages' = [mMessages EXCEPT ![c] = Append(mMessages[c], e)]
      /\ \/ mClient[c] = 0 /\ early' = [early EXCEPT ![c] = Append(early[c], r)] /\ up' = up
         \/ early' = early /\ up' \in [Uids -> Seq(Messages)]
      /\ shown' = [shown EXCEPT ![c] = mUsers[c]]
      /\ UNCHANGED <<serverVars, link, down, mClient, mMyUid, mUsers, mState, mSelectedUid,
                     losses, selects>>
  BY <1>2 DEF Saying
<1>4. Uids' = Uids
  BY <1>3, UidsKept DEF serverVars
<1>5. ServerOK' /\ ProgramOK'
  BY <1>1, <1>3, <1>4, ProgramKept DEF ServerOK, serverVars
<1>6. early[c] \in Seq(Messages) /\ Append(early[c], r) \in Seq(Messages)
  BY <1>1 DEF NetOK
<1>7. NetOK'
  BY <1>1, <1>3, <1>4, <1>6 DEF NetOK
<1>8. UsersOK'
  BY <1>1, <1>3, <1>4 DEF UsersOK
<1>9. mMessages[c] \in Seq(Entries) /\ Append(mMessages[c], e) \in Seq(Entries)
  BY <1>1 DEF TextsOK, Entries
<1>10. TextsOK'
  BY <1>1, <1>3, <1>9 DEF TextsOK, Entries, Typed
<1> QED
  BY <1>5, <1>7, <1>8, <1>10 DEF TypeOK

\* The actions behind the alternatives of the next-state relation.
LEMMA NextIs ==
    ASSUME TypeOK, [Next]_vars
    PROVE  \/ \E u \in Uids : Serve(u) \/ Leave(u) \/ Lose(u)
           \/ \E c \in User :
                 \/ StartConnection(c) \/ StartRefused(c) \/ Launch(c)
                 \/ Connected(c) \/ Disconnected(c) \/ Quit(c) \/ Poll(c)
                 \/ RenderHeader(c)
                 \/ \E u \in 0 .. mNextUid : Select(c, u)
                 \/ \E to \in Nat : Say(c, to) /\ mState[c] \in {"Connecting", "MainUI"}
                                      /\ (mState[c] = "Connecting" => c \in Terminal)
           \/ UNCHANGED vars
<1>1. CASE Next
  <2>1. CASE Server
    BY <2>1 DEF Server
  <2>2. CASE Network
    BY <2>2 DEF Network
  <2>3. ASSUME NEW c \in User, Client(c) PROVE Connected(c) \/ Disconnected(c) \/ Poll(c)
    BY <2>3 DEF Client
  <2>4. ASSUME NEW c \in User, SendMessage(c) \/ Type(c)
        PROVE  \E to \in Nat : Say(c, to) /\ mState[c] \in {"Connecting", "MainUI"}
                                 /\ (mState[c] = "Connecting" => c \in Terminal)
    <3>1. mSelectedUid[c] \in Nat
      BY DEF TypeOK, ProgramOK, Uids
    <3>2. SendMessage(c) => Say(c, mSelectedUid[c]) /\ mState[c] = "MainUI"
      BY DEF SendMessage, On
    <3>3. Type(c) => /\ mState[c] \in {"Connecting", "MainUI"} /\ c \in Terminal
                     /\ \E to \in 0 .. MaxConnections : Say(c, to)
      BY DEF Type
    <3>4. \A to \in 0 .. MaxConnections : to \in Nat
      BY RoomAssumption
    <3> QED
      BY <2>4, <3>1, <3>2, <3>3, <3>4
  <2>5. ASSUME NEW c \in User, Window(c)
        PROVE  \/ StartConnection(c) \/ StartRefused(c) \/ Launch(c) \/ Quit(c) \/ RenderHeader(c)
               \/ SendMessage(c) \/ Type(c) \/ \E u \in 0 .. mNextUid : Select(c, u)
    BY <2>5 DEF Window
  <2> QED
    BY <1>1, <2>1, <2>2, <2>3, <2>4, <2>5 DEF Next
<1>2. CASE UNCHANGED vars
  BY <1>2
<1> QED
  BY <1>1, <1>2

LEMMA TypesStay ==
    ASSUME TypeOK, Addressed, [Next]_vars
    PROVE  TypeOK'
<1>1. ASSUME NEW u \in Uids, Serve(u) \/ Leave(u) \/ Lose(u) PROVE TypeOK'
  BY <1>1, ServeTypes, LeaveTypes, LoseTypes
<1>2. ASSUME NEW c \in User, StartConnection(c) \/ StartRefused(c) \/ Launch(c) PROVE TypeOK'
  BY <1>2, ForgetTypes
<1>3. ASSUME NEW c \in User, Connected(c) \/ Disconnected(c) \/ Quit(c) PROVE TypeOK'
  BY <1>3, ConnectedTypes, DisconnectedTypes, QuitTypes
<1>4. ASSUME NEW c \in User, Poll(c) \/ RenderHeader(c) PROVE TypeOK'
  BY <1>4, PollTypes, RenderTypes
<1>5. ASSUME NEW c \in User, NEW u \in 0 .. mNextUid, Select(c, u) PROVE TypeOK'
  BY <1>5, SelectTypes
<1>6. ASSUME NEW c \in User, NEW to \in Nat, Say(c, to) PROVE TypeOK'
  BY <1>6, SayTypes
<1>7. CASE UNCHANGED vars
  <2>1. UNCHANGED <<serverVars, netVars, contextVars, windowVars, losses, selects, sent>>
    BY <1>7 DEF vars
  <2>2. Uids' = Uids
    BY <2>1, UidsKept DEF serverVars
  <2>3. ServerOK' /\ NetOK'
    BY <2>1, <2>2 DEF TypeOK, ServerOK, NetOK, serverVars, netVars, contextVars
  <2>4. UsersOK' /\ TextsOK' /\ ProgramOK'
    BY <2>1, <2>2, UsersKept, TextsKept, ProgramKept DEF TypeOK, contextVars, windowVars, serverVars
  <2> QED
    BY <2>3, <2>4 DEF TypeOK
<1> QED
  BY <1>1, <1>2, <1>3, <1>4, <1>5, <1>6, <1>7, NextIs

LEMMA TypesStart ==
    ASSUME Init
    PROVE  TypeOK
<1>1. Uids = {} /\ mNextUid = 1
  BY DEF Init, Uids
<1>2. DOMAIN Nobody = {} /\ Nobody \in [DOMAIN Nobody -> Views]
  BY DEF Nobody
<1>3. ServerOK
  BY <1>1, RoomAssumption DEF Init, ServerOK
<1>4. NetOK
  BY <1>1 DEF Init, NetOK
<1>5. UsersOK
  BY <1>1, <1>2 DEF Init, UsersOK
<1>6. TextsOK
  BY DEF Init, TextsOK
<1>7. ProgramOK
  BY <1>1, RoomAssumption DEF Init, ProgramOK
<1> QED
  BY <1>3, <1>4, <1>5, <1>6, <1>7 DEF TypeOK

-----------------------------------------------------------------------------
(* What is said is about uids in use, or to the right session.             *)

LEMMA MeantMore ==
    ASSUME NEW q, NEW v, NEW uids, NEW more, uids \subseteq more, AllMeantFor(q, v, uids)
    PROVE  AllMeantFor(q, v, more)
BY DEF AllMeantFor, MeantFor

LEMMA AddressedStays ==
    ASSUME TypeOK, Addressed, [Next]_vars
    PROVE  Addressed'
<1>1. ServerOK /\ NetOK /\ down \in [Uids -> Seq(Messages)] /\ DOMAIN mSessions \subseteq Uids
  BY DEF TypeOK, NetOK, ServerOK
<1>2. ASSUME NEW u \in Uids, Serve(u) PROVE Addressed'
  <2> DEFINE r == Head(up[u])
  <2>1. /\ u \in DOMAIN mSessions /\ r \in Messages /\ mNextUid' = mNextUid
        /\ ServeLogin(u, r) \/ ServeList(u, r) \/ ServePublic(u, r) \/ ServePrivate(u, r)
    BY <1>1, <1>2, ServeShape
  <2> HIDE DEF r
  <2>2. Uids' = Uids
    BY <2>1, UidsKept
  <2> SUFFICES ASSUME NEW v \in Uids PROVE AllMeantFor(down'[v], v, Uids)
    BY <2>2 DEF Addressed
  <2>3. AllMeantFor(down[v], v, Uids) /\ down[v] \in Seq(Messages)
    BY <1>1 DEF Addressed
  <2>4. ASSUME NEW m \in Messages, down'[v] = down[v] \/ down'[v] = Append(down[v], m), MeantFor(m, v, Uids)
        PROVE  AllMeantFor(down'[v], v, Uids)
    BY <2>3, <2>4, MeantAppend
  <2>5. CASE ServeLogin(u, r)
    <3>1. PICK joined \in Messages, welcome \in Messages :
             /\ joined.kind = "user_joined" /\ joined.uid = u
             /\ welcome.kind = "welcome" /\ welcome.uid = u
             /\ \A w \in Uids \ {u} :
                   down'[w] = IF Reached(w) THEN Append(down[w], joined) ELSE down[w]
             /\ down'[u] = IF Reached(u) THEN Append(Append(down[u], joined), welcome) ELSE down[u]
      BY <1>1, <2>1, <2>5, LoginShape
    <3>2. MeantFor(joined, v, Uids) /\ MeantFor(welcome, u, Uids)
      BY <3>1 DEF MeantFor
    <3>3. AllMeantFor(Append(down[v], joined), v, Uids) /\ Append(down[v], joined) \in Seq(Messages)
      BY <2>3, <3>1, <3>2, MeantAppend, AppendIs
    <3>4. v = u => AllMeantFor(Append(Append(down[v], joined), welcome), v, Uids)
      BY <3>1, <3>2, <3>3, MeantAppend
    <3> QED
      BY <2>3, <3>1, <3>3, <3>4
  <2>6. CASE ServeList(u, r)
    <3>1. PICK m \in Messages :
             /\ m.kind = "clients"
             /\ m.list = {[uid |-> w, name |-> mSessions[w]] : w \in DOMAIN mSessions}
             /\ \A w \in Uids \ {u} : down'[w] = down[w]
             /\ down'[u] = IF link[u] = "up" THEN Append(down[u], m) ELSE down[u]
      BY <1>1, <2>1, <2>6, ListShape
    <3>2. MeantFor(m, v, Uids)
      BY <1>1, <3>1 DEF MeantFor
    <3> QED
      BY <2>4, <3>1, <3>2
  <2>7. CASE ServePublic(u, r)
    <3>1. PICK m \in Messages :
             /\ m.kind = "public_message"
             /\ \A w \in Uids : down'[w] = IF Reached(w) THEN Append(down[w], m) ELSE down[w]
      BY <1>1, <2>1, <2>7, PublicShape
    <3>2. MeantFor(m, v, Uids)
      BY <3>1 DEF MeantFor
    <3> QED
      BY <2>4, <3>1, <3>2
  <2>8. CASE ServePrivate(u, r)
    <3>1. PICK m \in Messages :
             /\ m.kind = "private_message" /\ m.uid = u /\ m.text = r.text
             /\ \A w \in Uids : down'[w] = IF w = r.uid /\ Reached(w) THEN Append(down[w], m) ELSE down[w]
      <4>1. ServerOK /\ NetOK /\ u \in DOMAIN mSessions /\ r \in Messages /\ ServePrivate(u, r)
        BY <1>1, <2>1, <2>8
      <4> QED
        BY <4>1, PrivateShape
    <3>2. MeantFor(m, v, Uids)
      BY <3>1 DEF MeantFor
    <3> QED
      BY <2>4, <3>1, <3>2
  <2> QED
    BY <2>1, <2>5, <2>6, <2>7, <2>8
<1>3. ASSUME NEW u \in Uids, Leave(u) PROVE Addressed'
  <2>1. PICK m \in Messages :
           /\ m.kind = "user_left" /\ m.uid = u
           /\ \A v \in Uids : down'[v] = IF Reached(v) THEN Append(down[v], m) ELSE down[v]
    BY <1>1, <1>3, LeaveShape
  <2>2. Uids' = Uids
    BY <1>1, <1>3, LeaveShape, UidsKept
  <2> SUFFICES ASSUME NEW v \in Uids PROVE AllMeantFor(down'[v], v, Uids)
    BY <2>2 DEF Addressed
  <2>3. AllMeantFor(down[v], v, Uids) /\ down[v] \in Seq(Messages) /\ MeantFor(m, v, Uids)
    BY <1>1, <2>1 DEF Addressed, MeantFor
  <2> QED
    BY <2>1, <2>3, MeantAppend
<1>4. ASSUME NEW c \in User, Poll(c) PROVE Addressed'
  <2>1. /\ mClient[c] \in Uids /\ down[mClient[c]] \in Seq(Messages) /\ down[mClient[c]] # <<>>
        /\ down'[mClient[c]] = Tail(down[mClient[c]]) /\ mNextUid' = mNextUid
        /\ \A v \in Uids \ {mClient[c]} : down'[v] = down[v]
    BY <1>4, PollShape DEF serverVars
  <2>2. Uids' = Uids
    BY <2>1, UidsKept
  <2> SUFFICES ASSUME NEW v \in Uids PROVE AllMeantFor(down'[v], v, Uids)
    BY <2>2 DEF Addressed
  <2>3. AllMeantFor(down[v], v, Uids)
    BY DEF Addressed
  <2>4. v = mClient[c] => AllMeantFor(Tail(down[v]), v, Uids)
    BY <2>1, <2>3, MeantTail
  <2> QED
    BY <2>1, <2>3, <2>4
<1>5. ASSUME NEW c \in User, Connected(c) PROVE Addressed'
  <2>1. /\ Uids' = Uids \cup {mNextUid} /\ down'[mNextUid] = <<>>
        /\ \A u \in Uids : down'[u] = down[u]
    BY <1>5, ConnectedShape
  <2> SUFFICES ASSUME NEW v \in Uids' PROVE AllMeantFor(down'[v], v, Uids')
    BY DEF Addressed
  <2>2. CASE v \in Uids
    BY <2>1, <2>2, MeantMore DEF Addressed
  <2>3. CASE v = mNextUid
    BY <2>1, <2>3 DEF AllMeantFor
  <2> QED
    BY <2>1, <2>2, <2>3
<1>6. ASSUME down' = down, mNextUid' = mNextUid PROVE Addressed'
  BY <1>6, UidsKept DEF Addressed
<1>7. ASSUME NEW u \in Uids, Lose(u) PROVE Addressed'
  BY <1>6, <1>7 DEF Lose, serverVars
<1>8. ASSUME NEW c \in User, StartConnection(c) \/ StartRefused(c) \/ Launch(c) PROVE Addressed'
  BY <1>6, <1>8, ForgetShape DEF serverVars, netVars
<1>9. ASSUME NEW c \in User, Disconnected(c) \/ Quit(c) \/ RenderHeader(c) PROVE Addressed'
  BY <1>6, <1>9 DEF Disconnected, Quit, RenderHeader, serverVars, netVars
<1>10. ASSUME NEW c \in User, NEW u \in 0 .. mNextUid, Select(c, u) PROVE Addressed'
  BY <1>6, <1>10 DEF Select, serverVars, netVars
<1>11. ASSUME NEW c \in User, NEW to \in Nat, Say(c, to) PROVE Addressed'
  BY <1>6, <1>11 DEF Say, serverVars
<1>12. CASE UNCHANGED vars
  BY <1>6, <1>12 DEF vars, serverVars, netVars
<1> QED
  BY <1>2, <1>3, <1>4, <1>5, <1>7, <1>8, <1>9, <1>10, <1>11, <1>12, NextIs

-----------------------------------------------------------------------------
(* The window's copy.                                                      *)

Follows(users, view) ==
    /\ DOMAIN users \subseteq DOMAIN view
    /\ \A u \in DOMAIN view \ DOMAIN users : view[u].name = ""
    /\ \A u \in DOMAIN users : view[u].name = users[u].name /\ view[u].unreadCount <= users[u].unreadCount

LEMMA WindowParts ==
    WindowFollows <=> \A c \in User \ Terminal : mState[c] = "MainUI" => Follows(mUsers[c], shown[c])
BY DEF WindowFollows, Follows

LEMMA WindowPartsNext ==
    WindowFollows' <=> \A c \in User \ Terminal : mState'[c] = "MainUI" => Follows(mUsers'[c], shown'[c])
BY DEF WindowFollows, Follows

LEMMA WindowStays ==
    ASSUME TypeOK, TypeOK', WindowFollows, [Next]_vars
    PROVE  WindowFollows'
<1>1. /\ DOMAIN mUsers = User /\ DOMAIN shown = User /\ DOMAIN mState = User
      /\ \A c \in User : /\ mUsers[c] \in [DOMAIN mUsers[c] -> Views]
                         /\ shown[c] \in [DOMAIN shown[c] -> Views]
      /\ \A c \in User : mUsers'[c] \in [DOMAIN mUsers'[c] -> Views]
  BY DEF TypeOK, UsersOK, ProgramOK
<1>2. ASSUME NEW users, users \in [DOMAIN users -> Views] PROVE Follows(users, users)
  <2>1. \A u \in DOMAIN users : users[u].unreadCount \in Nat
    BY <1>2 DEF Views
  <2>2. \A u \in DOMAIN users : users[u].unreadCount <= users[u].unreadCount
    BY <2>1
  <2> QED
    BY <2>2 DEF Follows
<1>3. ASSUME UNCHANGED <<mState, mUsers, shown>> PROVE WindowFollows'
  BY <1>3 DEF WindowFollows
<1>4. ASSUME NEW c \in User, \A d \in User \ {c} : mState'[d] = mState[d] /\ mUsers'[d] = mUsers[d] /\ shown'[d] = shown[d],
             mState'[c] = "MainUI" /\ c \notin Terminal => Follows(mUsers'[c], shown'[c])
      PROVE  WindowFollows'
  BY <1>4, WindowParts, WindowPartsNext
<1>5. ASSUME NEW u \in Uids, Serve(u) \/ Leave(u) \/ Lose(u) PROVE WindowFollows'
  BY <1>3, <1>5 DEF Serve, Leave, Lose, contextVars, windowVars
<1>6. ASSUME NEW c \in User, StartConnection(c) \/ StartRefused(c) \/ Launch(c) PROVE WindowFollows'
  <2>1. /\ mState[c] = "Login" /\ mUsers' = [mUsers EXCEPT ![c] = Nobody] /\ shown' = shown
        /\ mState' = mState \/ \E s \in {"Connecting", "Gone"} : mState' = [mState EXCEPT ![c] = s]
    BY <1>6, ForgetShape DEF Forget
  <2>2. mState'[c] # "MainUI" /\ \A d \in User \ {c} : mState'[d] = mState[d]
    BY <1>1, <2>1
  <2> QED
    BY <1>1, <1>4, <2>1, <2>2
<1>7. ASSUME NEW c \in User, Connected(c) PROVE WindowFollows'
  BY <1>3, <1>7 DEF Connected, windowVars
<1>8. ASSUME NEW c \in User, Disconnected(c) \/ Quit(c) PROVE WindowFollows'
  <2>1. \E s \in {"Gone", "Login"} : mState' = [mState EXCEPT ![c] = s]
    BY <1>8 DEF Disconnected, Quit
  <2>2. mUsers' = mUsers /\ (shown' = shown \/ shown' = [shown EXCEPT ![c] = Nobody])
    BY <1>8 DEF Disconnected, Quit
  <2>3. mState'[c] # "MainUI" /\ \A d \in User \ {c} : mState'[d] = mState[d]
    BY <1>1, <2>1
  <2> QED
    BY <1>1, <1>4, <2>2, <2>3
<1>9. ASSUME NEW c \in User, Poll(c) PROVE WindowFollows'
  <2> DEFINE m == Head(down[mClient[c]])
  <2>1. Welcome(c, m) \/ Clients(c, m) \/ UserJoined(c, m) \/ UserLeft(c, m) \/ Arrives(c, m)
    BY <1>9, PollShape
  <2> HIDE DEF m
  <2>2. CASE Welcome(c, m)
    BY <1>3, <2>2 DEF Welcome
  <2>3. ASSUME Refresh(c), \A d \in User \ {c} : mState'[d] = mState[d] /\ mUsers'[d] = mUsers[d]
        PROVE  WindowFollows'
    <3>1. shown' = [shown EXCEPT ![c] = mUsers'[c]]
      BY <2>3 DEF Refresh
    <3>2. shown'[c] = mUsers'[c] /\ \A d \in User \ {c} : shown'[d] = shown[d]
      BY <1>1, <3>1
    <3>3. Follows(mUsers'[c], shown'[c])
      BY <1>1, <1>2, <3>2
    <3> QED
      BY <1>4, <2>3, <3>2, <3>3
  <2>4. CASE Clients(c, m)
    <3>1. Refresh(c) /\ \A d \in User \ {c} : mState'[d] = mState[d] /\ mUsers'[d] = mUsers[d]
      BY <1>1, <2>4 DEF Clients
    <3> QED
      BY <2>3, <3>1
  <2>5. CASE UserJoined(c, m)
    <3>1. Refresh(c) /\ \A d \in User \ {c} : mState'[d] = mState[d] /\ mUsers'[d] = mUsers[d]
      BY <1>1, <2>5 DEF UserJoined
    <3> QED
      BY <2>3, <3>1
  <2>6. CASE UserLeft(c, m)
    <3>1. Refresh(c) /\ \A d \in User \ {c} : mState'[d] = mState[d] /\ mUsers'[d] = mUsers[d]
      BY <1>1, <2>6 DEF UserLeft
    <3> QED
      BY <2>3, <3>1
  <2>7. CASE Arrives(c, m)
    <3>1. /\ Refresh(c) /\ mState' = mState
          /\ mUsers' = mUsers \/ mUsers' = [mUsers EXCEPT ![c][m.uid].unreadCount = @ + 1]
      BY <2>7 DEF Arrives
    <3>2. \A d \in User \ {c} : mState'[d] = mState[d] /\ mUsers'[d] = mUsers[d]
      BY <1>1, <3>1
    <3> QED
      BY <2>3, <3>1, <3>2
  <2> QED
    BY <2>1, <2>2, <2>4, <2>5, <2>6, <2>7
<1>10. ASSUME NEW c \in User, RenderHeader(c) PROVE WindowFollows'
  <2> DEFINE new == [u \in DOMAIN shown[c] \cup {mSelectedUid[c]} |->
                       IF u \in DOMAIN shown[c] THEN shown[c][u] ELSE [name |-> "", unreadCount |-> 0]]
  <2>1. /\ mState[c] = "MainUI" /\ c \notin Terminal /\ mSelectedUid[c] \notin DOMAIN shown[c]
        /\ shown' = [shown EXCEPT ![c] = new] /\ mState' = mState /\ mUsers' = mUsers
    BY <1>10 DEF RenderHeader, On, contextVars
  <2>2. Follows(mUsers[c], shown[c])
    BY <2>1, WindowParts
  <2>3. Follows(mUsers[c], new)
    BY <2>1, <2>2 DEF Follows
  <2> HIDE DEF new
  <2>4. shown'[c] = new /\ \A d \in User \ {c} : shown'[d] = shown[d]
    BY <1>1, <2>1
  <2> QED
    BY <1>4, <2>1, <2>3, <2>4
<1>11. ASSUME NEW c \in User, NEW u \in 0 .. mNextUid, Select(c, u) PROVE WindowFollows'
  <2> DEFINE new == [shown[c] EXCEPT ![u].unreadCount = 0]
  <2>1. /\ mState[c] = "MainUI" /\ c \notin Terminal
        /\ u = 0 \/ u \in DOMAIN shown[c]
        /\ shown' = IF u = 0 THEN shown ELSE [shown EXCEPT ![c] = new]
        /\ mState' = mState /\ mUsers' = mUsers
    BY <1>11 DEF Select, On, contextVars
  <2>2. CASE u = 0
    BY <1>3, <2>1, <2>2
  <2>3. CASE u # 0
    <3>1. Follows(mUsers[c], shown[c]) /\ u \in DOMAIN shown[c]
      BY <2>1, <2>3, WindowParts
    <3>2. /\ DOMAIN new = DOMAIN shown[c] /\ new[u].name = shown[c][u].name /\ new[u].unreadCount = 0
          /\ \A v \in DOMAIN shown[c] \ {u} : new[v] = shown[c][v]
      BY <1>1, <3>1 DEF Views
    <3> HIDE DEF new
    <3>3. ASSUME NEW v \in DOMAIN mUsers[c]
          PROVE  new[v].name = mUsers[c][v].name /\ new[v].unreadCount <= mUsers[c][v].unreadCount
      <4>1. mUsers[c][v].unreadCount \in Nat
        BY <1>1 DEF Views
      <4>2. /\ v \in DOMAIN shown[c] /\ shown[c][v].name = mUsers[c][v].name
            /\ shown[c][v].unreadCount <= mUsers[c][v].unreadCount
        BY <3>1 DEF Follows
      <4>3. CASE v = u
        BY <3>2, <4>1, <4>2, <4>3
      <4>4. CASE v # u
        BY <3>2, <4>2, <4>4
      <4> QED
        BY <4>3, <4>4
    <3>4. Follows(mUsers[c], new)
      BY <3>1, <3>2, <3>3 DEF Follows
    <3>5. shown'[c] = new /\ \A d \in User \ {c} : shown'[d] = shown[d]
      BY <1>1, <2>1, <2>3
    <3> QED
      BY <1>4, <2>1, <3>4, <3>5
  <2> QED
    BY <2>2, <2>3
<1>12. ASSUME NEW c \in User, NEW to \in Nat, Say(c, to) PROVE WindowFollows'
  <2>1. mUsers' = mUsers /\ mState' = mState /\ shown' = [shown EXCEPT ![c] = mUsers'[c]]
    BY <1>12 DEF Say, Refresh
  <2>2. shown'[c] = mUsers'[c] /\ \A d \in User \ {c} : shown'[d] = shown[d]
    BY <1>1, <2>1
  <2>3. Follows(mUsers'[c], shown'[c])
    BY <1>1, <1>2, <2>2
  <2> QED
    BY <1>4, <2>1, <2>2, <2>3
<1>13. CASE UNCHANGED vars
  BY <1>3, <1>13 DEF vars, contextVars, windowVars
<1> QED
  BY <1>5, <1>6, <1>7, <1>8, <1>9, <1>10, <1>11, <1>12, <1>13, NextIs

-----------------------------------------------------------------------------
(* Connections and the programs on them.                                   *)

LinkUp == \A u \in Uids : link[u] = "up" => mClient[owner[u]] = u /\ u \in DOMAIN mSessions
ProgramLinks(client, uid, users, state, posted) ==
    /\ client # 0 => uid \in {0, client} /\ state \in {"Connecting", "MainUI"}
    /\ state = "MainUI" => client # 0
    /\ state = "Login" => posted = <<>>
    /\ state = "Connecting" /\ client = 0 => users = Nobody /\ uid = 0

LEMMA LinkParts ==
    Links <=> LinkUp /\ \A c \in User : ProgramLinks(mClient[c], mMyUid[c], mUsers[c], mState[c], early[c])
BY DEF Links, LinkUp, ProgramLinks

LEMMA LinkPartsNext ==
    Links' <=> LinkUp' /\ \A c \in User : ProgramLinks(mClient'[c], mMyUid'[c], mUsers'[c], mState'[c], early'[c])
BY DEF Links, LinkUp, ProgramLinks

LEMMA LinksStay ==
    ASSUME TypeOK, Addressed, Links, [Next]_vars
    PROVE  Links'
<1>1. /\ ServerOK /\ NetOK /\ link \in [Uids -> {"up", "lost"}] /\ owner \in [Uids -> User]
      /\ DOMAIN mUsers = User /\ mClient \in [User -> Nat] /\ mMyUid \in [User -> Nat]
      /\ DOMAIN mState = User /\ DOMAIN early = User
      /\ \A c \in User : mClient[c] # 0 => mClient[c] \in Uids /\ owner[mClient[c]] = c
  BY DEF TypeOK, ServerOK, NetOK, UsersOK, ProgramOK
<1>2. LinkUp /\ \A c \in User : ProgramLinks(mClient[c], mMyUid[c], mUsers[c], mState[c], early[c])
  BY LinkParts
<1>3. ASSUME NEW c \in User, LinkUp',
             \A d \in User \ {c} : /\ mClient'[d] = mClient[d] /\ mMyUid'[d] = mMyUid[d] /\ mUsers'[d] = mUsers[d]
                                   /\ mState'[d] = mState[d] /\ early'[d] = early[d],
             ProgramLinks(mClient'[c], mMyUid'[c], mUsers'[c], mState'[c], early'[c])
      PROVE  Links'
  BY <1>2, <1>3, LinkPartsNext
<1>4. ASSUME LinkUp', UNCHANGED <<mClient, mMyUid, mUsers, mState, early>> PROVE Links'
  BY <1>2, <1>4, LinkPartsNext
<1>5. ASSUME UNCHANGED <<mNextUid, link, mClient, owner>>, DOMAIN mSessions' = DOMAIN mSessions PROVE LinkUp'
  BY <1>2, <1>5, UidsKept DEF LinkUp
<1>6. ASSUME NEW u \in Uids, Serve(u) PROVE Links'
  <2> DEFINE r == Head(up[u])
  <2>1. /\ u \in DOMAIN mSessions /\ r \in Messages
        /\ ServeLogin(u, r) \/ ServeList(u, r) \/ ServePublic(u, r) \/ ServePrivate(u, r)
        /\ UNCHANGED <<mNextUid, owner, link, contextVars, windowVars>>
    BY <1>1, <1>6, ServeShape
  <2> HIDE DEF r
  <2>2. ServeLogin(u, r) => DOMAIN mSessions' = DOMAIN mSessions
    BY <1>1, <2>1, LoginShape
  <2>3. ServeList(u, r) \/ ServePublic(u, r) \/ ServePrivate(u, r) => DOMAIN mSessions' = DOMAIN mSessions
    BY DEF ServeList, ServePublic, ServePrivate
  <2>4. DOMAIN mSessions' = DOMAIN mSessions
    BY <2>1, <2>2, <2>3
  <2> QED
    BY <1>4, <1>5, <2>1, <2>4 DEF contextVars, windowVars
<1>7. ASSUME NEW u \in Uids, Leave(u) PROVE Links'
  <2>1. /\ link[u] = "lost" /\ DOMAIN mSessions' = DOMAIN mSessions \ {u}
        /\ UNCHANGED <<mNextUid, owner, link, contextVars, windowVars>>
    BY <1>1, <1>7, LeaveShape
  <2>2. LinkUp'
    BY <1>2, <2>1, UidsKept DEF LinkUp, contextVars
  <2> QED
    BY <1>4, <2>1, <2>2 DEF contextVars, windowVars
<1>8. ASSUME NEW u \in Uids, Lose(u) PROVE Links'
  <2>1. link' = [link EXCEPT ![u] = "lost"] /\ UNCHANGED <<serverVars, contextVars, windowVars>>
    BY <1>8 DEF Lose
  <2>2. LinkUp'
    BY <1>1, <1>2, <2>1, UidsKept DEF LinkUp, contextVars, serverVars
  <2> QED
    BY <1>4, <2>1, <2>2 DEF contextVars, windowVars
<1>9. ASSUME NEW c \in User, StartConnection(c) \/ StartRefused(c) \/ Launch(c) PROVE Links'
  <2>1. /\ mState[c] = "Login" /\ UNCHANGED <<serverVars, netVars>>
        /\ mClient' = [mClient EXCEPT ![c] = 0] /\ mMyUid' = [mMyUid EXCEPT ![c] = 0]
        /\ mUsers' = [mUsers EXCEPT ![c] = Nobody] /\ early' = [early EXCEPT ![c] = <<>>]
        /\ mState' = mState \/ \E s \in {"Connecting", "Gone"} : mState' = [mState EXCEPT ![c] = s]
    BY <1>9, ForgetShape DEF Forget
  <2>2. mClient[c] = 0
    BY <1>2, <2>1 DEF ProgramLinks
  <2>3. mClient' = mClient
    BY <1>1, <2>1, <2>2
  <2>4. LinkUp'
    BY <1>5, <2>1, <2>3 DEF serverVars, netVars
  <2>5. mState'[c] \in {"Login", "Connecting", "Gone"} /\ \A d \in User \ {c} : mState'[d] = mState[d]
    BY <1>1, <2>1
  <2>6. /\ mClient'[c] = 0 /\ mMyUid'[c] = 0 /\ mUsers'[c] = Nobody /\ early'[c] = <<>>
        /\ \A d \in User \ {c} : mMyUid'[d] = mMyUid[d] /\ mUsers'[d] = mUsers[d] /\ early'[d] = early[d]
    BY <1>1, <2>1
  <2>7. ProgramLinks(mClient'[c], mMyUid'[c], mUsers'[c], mState'[c], early'[c])
    BY <2>5, <2>6 DEF ProgramLinks
  <2> QED
    BY <1>3, <2>3, <2>4, <2>5, <2>6, <2>7
<1>10. ASSUME NEW c \in User, Connected(c) PROVE Links'
  <2>1. /\ mState[c] = "Connecting" /\ mClient[c] = 0 /\ mNextUid # 0 /\ Uids' = Uids \cup {mNextUid}
        /\ mNextUid \notin Uids
        /\ owner'[mNextUid] = c /\ DOMAIN mSessions' = DOMAIN mSessions \cup {mNextUid}
        /\ \A u \in Uids : owner'[u] = owner[u] /\ link'[u] = link[u]
        /\ mClient' = [mClient EXCEPT ![c] = mNextUid] /\ early' = [early EXCEPT ![c] = <<>>]
        /\ UNCHANGED <<mMyUid, mUsers, mState>>
    BY <1>10, ConnectedShape DEF windowVars
  <2>2. /\ mClient'[c] = mNextUid /\ early'[c] = <<>>
        /\ \A d \in User \ {c} : mClient'[d] = mClient[d] /\ early'[d] = early[d]
    BY <1>1, <2>1
  <2>3. ASSUME NEW u \in Uids', link'[u] = "up" PROVE mClient'[owner'[u]] = u /\ u \in DOMAIN mSessions'
    <3>1. CASE u = mNextUid
      BY <2>1, <2>2, <3>1
    <3>2. CASE u \in Uids
      <4>1. link[u] = "up" /\ mClient[owner[u]] = u /\ u \in DOMAIN mSessions /\ owner[u] \in User
        BY <1>1, <1>2, <2>1, <2>3, <3>2 DEF LinkUp
      <4>2. owner[u] # c
        BY <1>1, <2>1, <3>2, <4>1 DEF Uids
      <4> QED
        BY <2>1, <2>2, <3>2, <4>1, <4>2
    <3> QED
      BY <2>1, <3>1, <3>2
  <2>4. LinkUp'
    BY <2>3 DEF LinkUp
  <2>5. ProgramLinks(mClient'[c], mMyUid'[c], mUsers'[c], mState'[c], early'[c])
    BY <1>2, <2>1, <2>2 DEF ProgramLinks
  <2> QED
    BY <1>3, <2>1, <2>2, <2>4, <2>5
<1>11. ASSUME NEW c \in User, Disconnected(c) PROVE Links'
  <2>1. /\ mClient[c] = 0 \/ (mClient[c] # 0 /\ link[mClient[c]] = "lost")
        /\ mClient' = [mClient EXCEPT ![c] = 0] /\ early' = [early EXCEPT ![c] = <<>>]
        /\ mState' = [mState EXCEPT ![c] = IF c \in Terminal THEN "Gone" ELSE "Login"]
        /\ UNCHANGED <<serverVars, netVars, mMyUid, mUsers>>
    BY <1>11 DEF Disconnected
  <2>2. /\ mClient'[c] = 0 /\ early'[c] = <<>> /\ mState'[c] \in {"Gone", "Login"}
        /\ \A d \in User \ {c} : mClient'[d] = mClient[d] /\ early'[d] = early[d] /\ mState'[d] = mState[d]
    BY <1>1, <2>1
  <2>3. UNCHANGED <<mNextUid, mSessions, owner, link>> /\ Uids' = Uids
    BY <2>1, UidsKept DEF serverVars, netVars
  <2>4. ASSUME NEW u \in Uids, link[u] = "up" PROVE mClient'[owner[u]] = u /\ u \in DOMAIN mSessions
    <3>1. mClient[owner[u]] = u /\ u \in DOMAIN mSessions
      BY <1>2, <2>4 DEF LinkUp
    <3>3. owner[u] \in User
      BY <1>1, <2>4
    <3>4. u # 0
      BY <2>4 DEF Uids
    <3>2. owner[u] # c
      BY <2>1, <2>4, <3>1, <3>4
    <3> QED
      BY <2>2, <3>1, <3>2, <3>3
  <2>5. LinkUp'
    BY <2>3, <2>4 DEF LinkUp
  <2>6. ProgramLinks(mClient'[c], mMyUid'[c], mUsers'[c], mState'[c], early'[c])
    BY <2>2 DEF ProgramLinks
  <2> QED
    BY <1>3, <2>1, <2>2, <2>5, <2>6
<1>12. ASSUME NEW c \in User, Quit(c) PROVE Links'
  <2>1. /\ mState' = [mState EXCEPT ![c] = "Gone"] /\ mClient' = [mClient EXCEPT ![c] = 0]
        /\ link' = IF mClient[c] = 0 THEN link ELSE [link EXCEPT ![mClient[c]] = "lost"]
        /\ UNCHANGED <<serverVars, mMyUid, mUsers, early>>
    BY <1>12 DEF Quit
  <2>2. /\ mClient'[c] = 0 /\ mState'[c] = "Gone"
        /\ \A d \in User \ {c} : mClient'[d] = mClient[d] /\ mState'[d] = mState[d]
    BY <1>1, <2>1
  <2>3. UNCHANGED <<mNextUid, mSessions, owner>> /\ Uids' = Uids
    BY <2>1, UidsKept DEF serverVars
  <2>4. ASSUME NEW u \in Uids, link'[u] = "up" PROVE mClient'[owner[u]] = u /\ u \in DOMAIN mSessions
    <3>1. link[u] = "up" /\ u # mClient[c]
      <4>1. CASE mClient[c] = 0
        BY <2>1, <2>4, <4>1 DEF Uids
      <4>2. CASE mClient[c] # 0
        BY <1>1, <2>1, <2>4, <4>2
      <4> QED
        BY <4>1, <4>2
    <3>2. mClient[owner[u]] = u /\ u \in DOMAIN mSessions /\ owner[u] \in User
      BY <1>1, <1>2, <3>1 DEF LinkUp
    <3> QED
      BY <2>2, <3>1, <3>2
  <2>5. LinkUp'
    BY <2>3, <2>4 DEF LinkUp
  <2>6. ProgramLinks(mClient'[c], mMyUid'[c], mUsers'[c], mState'[c], early'[c])
    BY <2>2 DEF ProgramLinks
  <2> QED
    BY <1>3, <2>1, <2>2, <2>5, <2>6
<1>13. ASSUME NEW c \in User, Poll(c) PROVE Links'
  <2> DEFINE v == mClient[c]
             m == Head(down[v])
  <2>1. /\ v \in Uids /\ v # 0 /\ down[v] \in Seq(Messages) /\ down[v] # <<>>
        /\ Welcome(c, m) \/ Clients(c, m) \/ UserJoined(c, m) \/ UserLeft(c, m) \/ Arrives(c, m)
        /\ UNCHANGED <<serverVars, link, mClient, early>>
    BY <1>13, PollShape
  <2>2. MeantFor(m, v, Uids)
    BY <2>1, MeantTail DEF Addressed
  <2>3. LinkUp'
    BY <1>5, <2>1 DEF serverVars
  <2> HIDE DEF m
  <2>4. \/ mMyUid' = mMyUid \/ (mMyUid' = [mMyUid EXCEPT ![c] = v])
    BY <2>1, <2>2 DEF MeantFor, Welcome, Clients, UserJoined, UserLeft, Arrives
  <2>5. mState' = mState \/ mState' = [mState EXCEPT ![c] = "MainUI"]
    BY <2>1 DEF Welcome, Clients, UserJoined, UserLeft, Arrives
  <2>6. \A d \in User \ {c} : mUsers'[d] = mUsers[d]
    <3>1. mUsers' = mUsers \/ \E users : mUsers' = [mUsers EXCEPT ![c] = users]
      <4>1. Welcome(c, m) => mUsers' = mUsers
        BY DEF Welcome
      <4>2. Clients(c, m) => \E users : mUsers' = [mUsers EXCEPT ![c] = users]
        BY DEF Clients
      <4>3. UserJoined(c, m) => \E users : mUsers' = [mUsers EXCEPT ![c] = users]
        BY DEF UserJoined
      <4>4. UserLeft(c, m) => \E users : mUsers' = [mUsers EXCEPT ![c] = users]
        BY DEF UserLeft
      <4>5. Arrives(c, m) => mUsers' = mUsers \/ \E users : mUsers' = [mUsers EXCEPT ![c] = users]
        BY DEF Arrives
      <4> QED
        BY <2>1, <4>1, <4>2, <4>3, <4>4, <4>5
    <3> QED
      BY <1>1, <3>1
  <2>7. /\ mMyUid'[c] \in {mMyUid[c], v} /\ mState'[c] \in {mState[c], "MainUI"}
        /\ \A d \in User \ {c} : mMyUid'[d] = mMyUid[d] /\ mState'[d] = mState[d]
    BY <1>1, <2>4, <2>5
  <2>8. ProgramLinks(mClient'[c], mMyUid'[c], mUsers'[c], mState'[c], early'[c])
    BY <1>2, <2>1, <2>7 DEF ProgramLinks
  <2> QED
    BY <1>3, <2>1, <2>3, <2>6, <2>7, <2>8
<1>14. ASSUME NEW c \in User, RenderHeader(c) \/ \E u \in 0 .. mNextUid : Select(c, u) PROVE Links'
  <2>1. UNCHANGED <<serverVars, netVars, contextVars, mState>>
    BY <1>14 DEF RenderHeader, Select
  <2> QED
    BY <1>4, <1>5, <2>1 DEF serverVars, netVars, contextVars
<1>15. ASSUME NEW c \in User, NEW to \in Nat, Say(c, to), mState[c] \in {"Connecting", "MainUI"} PROVE Links'
  <2>1. /\ UNCHANGED <<serverVars, link, mClient, mMyUid, mUsers, mState>>
        /\ early' = early \/ \E q : early' = [early EXCEPT ![c] = q]
    BY <1>15 DEF Say
  <2>2. LinkUp'
    BY <1>5, <2>1 DEF serverVars
  <2>3. \A d \in User \ {c} : early'[d] = early[d]
    BY <1>1, <2>1
  <2>4. ProgramLinks(mClient'[c], mMyUid'[c], mUsers'[c], mState'[c], early'[c])
    BY <1>2, <1>15, <2>1 DEF ProgramLinks
  <2> QED
    BY <1>3, <2>1, <2>2, <2>3, <2>4
<1>16. CASE UNCHANGED vars
  BY <1>4, <1>5, <1>16 DEF vars, serverVars, netVars, contextVars, windowVars
<1> QED
  BY <1>6, <1>7, <1>8, <1>9, <1>10, <1>11, <1>12, <1>13, <1>14, <1>15, <1>16, NextIs

-----------------------------------------------------------------------------
(* Steps that neither take a text further nor type one.                    *)

\* From q to q2 no request and no push is added or changes places.
Quietly(q, q2) ==
    /\ q2 \in Seq(Messages)
    /\ \A i \in DOMAIN q2 : Ask(q2[i]) \/ Push(q2[i]) => \E j \in DOMAIN q : q2[i] = q[j]
    /\ AsksOrdered(q) => AsksOrdered(q2)
    /\ PushesOrdered(q) => PushesOrdered(q2)

LEMMA QuietSame ==
    ASSUME NEW q \in Seq(Messages)
    PROVE  Quietly(q, q)
BY DEF Quietly

LEMMA QuietTail ==
    ASSUME NEW q \in Seq(Messages), q # <<>>
    PROVE  Quietly(q, Tail(q))
<1>1. Tail(q) \in Seq(Messages) /\ \A i \in DOMAIN Tail(q) : \E j \in DOMAIN q : Tail(q)[i] = q[j]
  BY TailIs
<1>2. (AsksOrdered(q) => AsksOrdered(Tail(q))) /\ (PushesOrdered(q) => PushesOrdered(Tail(q)))
  BY AsksTail, PushesTail
<1> QED
  BY <1>1, <1>2 DEF Quietly

LEMMA QuietAppend ==
    ASSUME NEW q \in Seq(Messages), NEW m \in Messages, ~ Ask(m), ~ Push(m)
    PROVE  Quietly(q, Append(q, m))
<1>1. Append(q, m) \in Seq(Messages)
  BY AppendIs
<1>2. ASSUME NEW i \in DOMAIN Append(q, m), Ask(Append(q, m)[i]) \/ Push(Append(q, m)[i])
      PROVE  \E j \in DOMAIN q : Append(q, m)[i] = q[j]
  BY <1>2, AppendIs
<1>3. AsksOrdered(q) => AsksOrdered(Append(q, m))
  BY AsksAppend
<1>4. PushesOrdered(q) => PushesOrdered(Append(q, m))
  BY PushesAppend
<1> QED
  BY <1>1, <1>2, <1>3, <1>4 DEF Quietly

LEMMA QuietMore ==
    ASSUME NEW q, NEW q1, NEW q2, Quietly(q, q1), Quietly(q1, q2)
    PROVE  Quietly(q, q2)
<1>1. ASSUME NEW i \in DOMAIN q2, Ask(q2[i]) \/ Push(q2[i])
      PROVE  \E j \in DOMAIN q : q2[i] = q[j]
  <2>1. PICK k \in DOMAIN q1 : q2[i] = q1[k]
    BY <1>1 DEF Quietly
  <2> QED
    BY <1>1, <2>1 DEF Quietly
<1> QED
  BY <1>1 DEF Quietly

LEMMA QuietHolds ==
    ASSUME NEW q, NEW q2, Quietly(q, q2)
    PROVE  /\ \A t : Asks(q2, t) => Asks(q, t)
           /\ \A t, w : Pushes(q2, t, w) => Pushes(q, t, w)
           /\ \A c, s : AllAsksRight(q, c, s) => AllAsksRight(q2, c, s)
           /\ \A v, s, o : AllPushesRight(q, v, s, o) => AllPushesRight(q2, v, s, o)
<1>1. \A i \in DOMAIN q2 : Ask(q2[i]) \/ Push(q2[i]) => \E j \in DOMAIN q : q2[i] = q[j]
  BY DEF Quietly
<1>2. \A t : Asks(q2, t) => Asks(q, t)
  BY <1>1 DEF Asks
<1>3. \A t, w : Pushes(q2, t, w) => Pushes(q, t, w)
  BY <1>1 DEF Pushes
<1>4. \A c, s : AllAsksRight(q, c, s) => AllAsksRight(q2, c, s)
  BY <1>1 DEF AllAsksRight
<1>5. \A v, s, o : AllPushesRight(q, v, s, o) => AllPushesRight(q2, v, s, o)
  BY <1>1 DEF AllPushesRight
<1> QED
  BY <1>2, <1>3, <1>4, <1>5

QuietStep ==
    /\ UNCHANGED <<sent, mNextUid, owner>>
    /\ \A u \in Uids : Quietly(up[u], up'[u]) /\ Quietly(down[u], down'[u])
    /\ \A c \in User :
          /\ early'[c] \in {early[c], <<>>} /\ mMessages'[c] \in {mMessages[c], <<>>}
          /\ mClient'[c] \in {mClient[c], 0}
          /\ mMyUid'[c] = mMyUid[c] \/ mMessages'[c] = <<>> \/ mMyUid[c] = 0
          /\ mState'[c] = "Connecting" /\ mClient'[c] = 0 =>
                (mState[c] = "Connecting" /\ mClient[c] = 0) \/ mMessages'[c] = <<>>

\* The others: a text goes from up to down, arrives, goes out late, or is typed.
Delivers(u) == Serve(u) /\ (ServePublic(u, Head(up[u])) \/ ServePrivate(u, Head(up[u])))
Receives(c) ==
    /\ Poll(c) /\ Arrives(c, Head(down[mClient[c]]))
    /\ Head(down[mClient[c]]).uid # mMyUid[c]

\* A request on its way down, to some or all.
Delivering(u, r, m) ==
    /\ Ask(r) /\ Push(m) /\ m.uid = u /\ m.text = r.text
    /\ m.kind = IF r.kind = "send_private" THEN "private_message" ELSE "public_message"
    /\ \A v \in Uids : \/ down'[v] = down[v]
                       \/ down'[v] = Append(down[v], m) /\ Reached(v) /\ (r.kind = "send_private" => v = r.uid)

LEMMA DeliversShape ==
    ASSUME TypeOK, NEW u \in Uids, Delivers(u)
    PROVE  /\ up[u] \in Seq(Messages) /\ up[u] # <<>> /\ Head(up[u]) \in Messages
           /\ up' \in [Uids -> Seq(Messages)] /\ up'[u] = Tail(up[u])
           /\ \A v \in Uids \ {u} : up'[v] = up[v]
           /\ down' \in [Uids -> Seq(Messages)] /\ mSessions' = mSessions
           /\ \E m \in Messages : Delivering(u, Head(up[u]), m)
           /\ UNCHANGED <<mNextUid, owner, link, contextVars, windowVars, sent>>
<1> DEFINE r == Head(up[u])
<1>1. /\ ServerOK /\ NetOK /\ Serve(u)
      /\ ServePublic(u, r) \/ ServePrivate(u, r)
  BY DEF TypeOK, Delivers
<1>2. /\ u \in DOMAIN mSessions /\ up[u] \in Seq(Messages) /\ up[u] # <<>> /\ r \in Messages
      /\ up' \in [Uids -> Seq(Messages)] /\ up'[u] = Tail(up[u])
      /\ \A v \in Uids \ {u} : up'[v] = up[v]
      /\ UNCHANGED <<mNextUid, owner, link, contextVars, windowVars, sent>>
  BY <1>1, ServeShape
<1> HIDE DEF r
<1>3. /\ mSessions' = mSessions /\ down' \in [Uids -> Seq(Messages)]
      /\ \E m \in Messages : Delivering(u, r, m)
  <2>1. CASE ServePublic(u, r)
    <3>1. r.kind = "send_public" /\ mSessions' = mSessions /\ down' \in [Uids -> Seq(Messages)]
      BY <1>1, <1>2, <2>1, PublicShape
    <3>2. PICK m \in Messages :
             /\ m.kind = "public_message" /\ m.uid = u /\ m.text = r.text
             /\ \A v \in Uids : down'[v] = IF Reached(v) THEN Append(down[v], m) ELSE down[v]
      BY <1>1, <1>2, <2>1, PublicShape
    <3>3. Delivering(u, r, m)
      BY <3>1, <3>2 DEF Delivering, Ask, Push
    <3> QED
      BY <3>1, <3>3
  <2>2. CASE ServePrivate(u, r)
    <3>1. /\ ServerOK /\ NetOK /\ u \in DOMAIN mSessions /\ r \in Messages /\ ServePrivate(u, r)
      BY <1>1, <1>2, <2>2
    <3>2. r.kind = "send_private" /\ mSessions' = mSessions /\ down' \in [Uids -> Seq(Messages)]
      BY <3>1, PrivateShape
    <3>3. PICK m \in Messages :
             /\ m.kind = "private_message" /\ m.uid = u /\ m.text = r.text
             /\ \A v \in Uids : down'[v] = IF v = r.uid /\ Reached(v) THEN Append(down[v], m) ELSE down[v]
      BY <3>1, PrivateShape
    <3>4. Delivering(u, r, m)
      BY <3>2, <3>3 DEF Delivering, Ask, Push
    <3> QED
      BY <3>2, <3>4
  <2> QED
    BY <1>1, <2>1, <2>2
<1> QED
  BY <1>2, <1>3 DEF r

LEMMA ReceivesShape ==
    ASSUME TypeOK, NEW c \in User, Receives(c)
    PROVE  /\ mClient[c] \in Uids /\ mClient[c] # 0 /\ owner[mClient[c]] = c
           /\ down[mClient[c]] \in Seq(Messages) /\ down[mClient[c]] # <<>>
           /\ down' \in [Uids -> Seq(Messages)] /\ down'[mClient[c]] = Tail(down[mClient[c]])
           /\ \A v \in Uids \ {mClient[c]} : down'[v] = down[v]
           /\ LET m == Head(down[mClient[c]])
              IN  /\ m \in Messages /\ Push(m) /\ m.uid # mMyUid[c]
                  /\ \E e \in Entries :
                        /\ e.uid = m.uid /\ e.text = m.text /\ e.isPrivate = (m.kind = "private_message")
                        /\ mMessages' = [mMessages EXCEPT ![c] = Append(mMessages[c], e)]
           /\ UNCHANGED <<serverVars, link, up, mClient, mMyUid, early, mState, mSelectedUid, sent>>
<1> DEFINE m == Head(down[mClient[c]])
           e == [uid |-> m.uid, text |-> m.text, isPrivate |-> m.kind = "private_message"]
<1>1. Poll(c) /\ Arrives(c, m) /\ m.uid # mMyUid[c]
  BY DEF Receives
<1>2. /\ mClient[c] \in Uids /\ mClient[c] # 0 /\ owner[mClient[c]] = c
      /\ down[mClient[c]] \in Seq(Messages) /\ down[mClient[c]] # <<>> /\ m \in Messages
      /\ down' \in [Uids -> Seq(Messages)] /\ down'[mClient[c]] = Tail(down[mClient[c]])
      /\ \A v \in Uids \ {mClient[c]} : down'[v] = down[v]
      /\ UNCHANGED <<serverVars, link, mClient, early, mSelectedUid, sent>>
  BY <1>1, PollShape
<1>3. /\ Push(m) /\ mMessages' = [mMessages EXCEPT ![c] = Append(mMessages[c], e)]
      /\ UNCHANGED <<mMyUid, mState, up>>
  BY <1>1 DEF Arrives, Push
<1>4. m.uid \in Nat /\ m.text \in Nat
  BY <1>2, MessageIs
<1> HIDE DEF m
<1>5. e \in Entries /\ e.uid = m.uid /\ e.text = m.text /\ e.isPrivate = (m.kind = "private_message")
  BY <1>4 DEF Entries
<1> HIDE DEF e
<1>6. \E x \in Entries :
         /\ x.uid = m.uid /\ x.text = m.text /\ x.isPrivate = (m.kind = "private_message")
         /\ mMessages' = [mMessages EXCEPT ![c] = Append(mMessages[c], x)]
  BY <1>3, <1>5
<1> QED
  BY <1>1, <1>2, <1>3, <1>6 DEF m

LEMMA Steps ==
    ASSUME TypeOK, Addressed, Links, [Next]_vars
    PROVE  \/ QuietStep
           \/ \E u \in Uids : Delivers(u)
           \/ \E c \in User : Connected(c) \/ Receives(c)
           \/ \E c \in User : \E to \in Nat :
                 Say(c, to) /\ (mClient[c] = 0 => mState[c] = "Connecting" /\ c \in Terminal)
<1>1. /\ ServerOK /\ NetOK /\ up \in [Uids -> Seq(Messages)] /\ down \in [Uids -> Seq(Messages)]
      /\ DOMAIN mSessions \subseteq Uids /\ DOMAIN early = User /\ DOMAIN mMessages = User
      /\ DOMAIN mClient = User /\ DOMAIN mMyUid = User /\ DOMAIN mState = User
  BY DEF TypeOK, NetOK, ServerOK, TextsOK, ProgramOK
<1>2. /\ \A u \in Uids : Quietly(up[u], up[u]) /\ Quietly(down[u], down[u])
      /\ \A u \in Uids : /\ up[u] # <<>> => Quietly(up[u], Tail(up[u]))
                         /\ down[u] # <<>> => Quietly(down[u], Tail(down[u]))
      /\ \A u \in Uids : \A m \in Messages : ~ Ask(m) /\ ~ Push(m) =>
            Quietly(up[u], Append(up[u], m)) /\ Quietly(down[u], Append(down[u], m))
  BY <1>1, QuietSame, QuietTail, QuietAppend
<1>3. ASSUME UNCHANGED <<sent, mNextUid, owner, contextVars, mState>>,
             \A u \in Uids : Quietly(up[u], up'[u]) /\ Quietly(down[u], down'[u])
      PROVE  QuietStep
  BY <1>3 DEF QuietStep, contextVars
<1>4. ASSUME UNCHANGED <<serverVars, up, down, sent>>, NEW c \in User,
             \A d \in User \ {c} : /\ mClient'[d] = mClient[d] /\ mMyUid'[d] = mMyUid[d] /\ early'[d] = early[d]
                                   /\ mMessages'[d] = mMessages[d] /\ mState'[d] = mState[d],
             early'[c] \in {early[c], <<>>}, mMessages'[c] \in {mMessages[c], <<>>}, mClient'[c] \in {mClient[c], 0},
             mMyUid'[c] = mMyUid[c] \/ mMessages'[c] = <<>>,
             mState'[c] # "Connecting" \/ mMessages'[c] = <<>>
      PROVE  QuietStep
  BY <1>2, <1>4 DEF QuietStep, serverVars
<1>5. ASSUME NEW u \in Uids, Serve(u) PROVE QuietStep \/ Delivers(u)
  <2> DEFINE r == Head(up[u])
  <2>1. /\ u \in DOMAIN mSessions /\ r \in Messages /\ up[u] # <<>>
        /\ ServeLogin(u, r) \/ ServeList(u, r) \/ ServePublic(u, r) \/ ServePrivate(u, r)
        /\ up'[u] = Tail(up[u]) /\ \A v \in Uids \ {u} : up'[v] = up[v]
        /\ UNCHANGED <<mNextUid, owner, contextVars, windowVars, sent>>
    BY <1>1, <1>5, ServeShape
  <2>2. ServePublic(u, r) \/ ServePrivate(u, r) => Delivers(u)
    BY <1>5 DEF Delivers
  <2> HIDE DEF r
  <2>3. \A v \in Uids : Quietly(up[v], up'[v])
    BY <1>2, <2>1
  <2>4. CASE ServeLogin(u, r)
    <3>1. PICK joined \in Messages, welcome \in Messages :
             /\ joined.kind = "user_joined" /\ welcome.kind = "welcome"
             /\ \A w \in Uids \ {u} :
                   down'[w] = IF Reached(w) THEN Append(down[w], joined) ELSE down[w]
             /\ down'[u] = IF Reached(u) THEN Append(Append(down[u], joined), welcome) ELSE down[u]
      BY <1>1, <2>1, <2>4, LoginShape
    <3>2. ~ Ask(joined) /\ ~ Push(joined) /\ ~ Ask(welcome) /\ ~ Push(welcome)
      BY <3>1 DEF Ask, Push
    <3>3. Quietly(down[u], Append(Append(down[u], joined), welcome))
      <4>1. Quietly(down[u], Append(down[u], joined)) /\ Append(down[u], joined) \in Seq(Messages)
        BY <1>2, <3>2 DEF Quietly
      <4>2. Quietly(Append(down[u], joined), Append(Append(down[u], joined), welcome))
        BY <3>2, <4>1, QuietAppend
      <4> QED
        BY <4>1, <4>2, QuietMore
    <3>4. \A v \in Uids : Quietly(down[v], down'[v])
      BY <1>2, <3>1, <3>2, <3>3
    <3> QED
      BY <1>3, <2>1, <2>3, <3>4 DEF windowVars
  <2>5. CASE ServeList(u, r)
    <3>1. PICK m \in Messages :
             /\ m.kind = "clients"
             /\ \A w \in Uids \ {u} : down'[w] = down[w]
             /\ down'[u] = IF link[u] = "up" THEN Append(down[u], m) ELSE down[u]
      BY <1>1, <2>1, <2>5, ListShape
    <3>2. ~ Ask(m) /\ ~ Push(m)
      BY <3>1 DEF Ask, Push
    <3>3. \A v \in Uids : Quietly(down[v], down'[v])
      BY <1>2, <3>1, <3>2
    <3> QED
      BY <1>3, <2>1, <2>3, <3>3 DEF windowVars
  <2> QED
    BY <2>1, <2>2, <2>4, <2>5
<1>6. ASSUME NEW u \in Uids, Leave(u) PROVE QuietStep
  <2>1. PICK m \in Messages :
           /\ m.kind = "user_left"
           /\ \A v \in Uids : down'[v] = IF Reached(v) THEN Append(down[v], m) ELSE down[v]
    BY <1>1, <1>6, LeaveShape
  <2>2. UNCHANGED <<mNextUid, owner, up, contextVars, windowVars, sent>>
    BY <1>1, <1>6, LeaveShape
  <2>3. ~ Ask(m) /\ ~ Push(m)
    BY <2>1 DEF Ask, Push
  <2>4. \A v \in Uids : Quietly(down[v], down'[v]) /\ Quietly(up[v], up'[v])
    BY <1>2, <2>1, <2>2, <2>3
  <2> QED
    BY <1>3, <2>2, <2>4 DEF windowVars
<1>7. ASSUME UNCHANGED <<serverVars, up, down, contextVars, mState, sent>> PROVE QuietStep
  BY <1>2, <1>3, <1>7 DEF serverVars
<1>8. ASSUME NEW u \in Uids, Lose(u) PROVE QuietStep
  BY <1>7, <1>8 DEF Lose, windowVars
<1>9. ASSUME NEW c \in User, StartConnection(c) \/ StartRefused(c) \/ Launch(c) PROVE QuietStep
  <2>1. /\ UNCHANGED <<serverVars, netVars, sent>>
        /\ mClient' = [mClient EXCEPT ![c] = 0] /\ mMyUid' = [mMyUid EXCEPT ![c] = 0]
        /\ mMessages' = [mMessages EXCEPT ![c] = <<>>] /\ early' = [early EXCEPT ![c] = <<>>]
        /\ mState' = mState \/ \E s \in {"Connecting", "Gone"} : mState' = [mState EXCEPT ![c] = s]
    BY <1>9, ForgetShape DEF Forget
  <2>2. \A d \in User \ {c} : mState'[d] = mState[d]
    BY <1>1, <2>1
  <2> QED
    BY <1>1, <1>4, <2>1, <2>2 DEF netVars
<1>10. ASSUME NEW c \in User, Disconnected(c) \/ Quit(c) PROVE QuietStep
  <2>1. /\ UNCHANGED <<serverVars, up, down, sent, mMyUid, mMessages>>
        /\ mClient' = [mClient EXCEPT ![c] = 0]
        /\ early' = early \/ early' = [early EXCEPT ![c] = <<>>]
        /\ \E s \in {"Gone", "Login"} : mState' = [mState EXCEPT ![c] = s]
    BY <1>10 DEF Disconnected, Quit, netVars
  <2>2. mState'[c] # "Connecting" /\ \A d \in User \ {c} : mState'[d] = mState[d]
    BY <1>1, <2>1
  <2> QED
    BY <1>1, <1>4, <2>1, <2>2
<1>11. ASSUME NEW c \in User, Poll(c) PROVE QuietStep \/ Receives(c)
  <2> DEFINE v == mClient[c]
             m == Head(down[v])
  <2>1. /\ v \in Uids /\ v # 0 /\ down[v] \in Seq(Messages) /\ down[v] # <<>>
        /\ Welcome(c, m) \/ Clients(c, m) \/ UserJoined(c, m) \/ UserLeft(c, m) \/ Arrives(c, m)
        /\ down'[v] = Tail(down[v]) /\ \A w \in Uids \ {v} : down'[w] = down[w]
        /\ UNCHANGED <<serverVars, link, mClient, early, sent>>
    BY <1>11, PollShape
  <2>2. \A w \in Uids : Quietly(down[w], down'[w])
    BY <1>2, <2>1
  <2>3. Arrives(c, m) /\ m.uid # mMyUid[c] => Receives(c)
    BY <1>11 DEF Receives
  <2>4. MeantFor(m, v, Uids)
    BY <2>1, MeantTail DEF Addressed
  <2> HIDE DEF m
  <2>5. ASSUME mMessages' = mMessages, mMyUid' = mMyUid \/ (mMyUid[c] \in {0, v} /\ mMyUid' = [mMyUid EXCEPT ![c] = v]),
               mState' = mState \/ mState' = [mState EXCEPT ![c] = "MainUI"],
               \A w \in Uids : Quietly(up[w], up'[w])
        PROVE  QuietStep
    <3>1. \A d \in User : mMyUid'[d] = mMyUid[d] \/ mMyUid[d] = 0
      BY <1>1, <2>5
    <3>2. \A d \in User : mState'[d] = "Connecting" => mState[d] = "Connecting"
      BY <1>1, <2>5
    <3> QED
      BY <2>1, <2>2, <2>5, <3>1, <3>2 DEF QuietStep, serverVars
  <2>6. CASE Welcome(c, m)
    <3>1. /\ m.kind = "welcome" /\ mMyUid' = [mMyUid EXCEPT ![c] = m.uid] /\ UNCHANGED <<mMessages, mState>>
      BY <2>6 DEF Welcome
    <3>2. PICK r \in Messages :
             /\ r.kind = "client_list"
             /\ up'[v] = IF link[v] = "up" THEN Append(up[v], r) ELSE up[v]
             /\ \A w \in Uids \ {v} : up'[w] = up[w]
      BY <2>1, <2>6, WelcomeShape
    <3>3. \A w \in Uids : Quietly(up[w], up'[w])
      <4>1. ~ Ask(r) /\ ~ Push(r)
        BY <3>2 DEF Ask, Push
      <4> QED
        BY <1>2, <3>2, <4>1
    <3>4. m.uid = v /\ mMyUid[c] \in {0, v}
      BY <2>1, <2>4, <3>1 DEF MeantFor, Links
    <3> QED
      BY <2>5, <3>1, <3>3, <3>4
  <2>7. CASE Clients(c, m) \/ UserJoined(c, m) \/ UserLeft(c, m)
    <3>1. /\ UNCHANGED <<up, mMessages, mMyUid>>
          /\ mState' = mState \/ mState' = [mState EXCEPT ![c] = "MainUI"]
      BY <2>7 DEF Clients, UserJoined, UserLeft
    <3> QED
      BY <1>2, <2>5, <3>1
  <2>8. CASE Arrives(c, m) /\ m.uid = mMyUid[c]
    <3>1. UNCHANGED <<up, mMessages, mMyUid, mState>>
      BY <2>8 DEF Arrives
    <3> QED
      BY <1>2, <2>5, <3>1
  <2> QED
    BY <2>1, <2>3, <2>6, <2>7, <2>8
<1>12. ASSUME NEW c \in User, RenderHeader(c) \/ \E u \in 0 .. mNextUid : Select(c, u) PROVE QuietStep
  <2>1. UNCHANGED <<serverVars, netVars, contextVars, mState, sent>>
    BY <1>12 DEF RenderHeader, Select
  <2> QED
    BY <1>7, <2>1 DEF netVars
<1>13. ASSUME NEW c \in User, NEW to \in Nat, Say(c, to), mState[c] \in {"Connecting", "MainUI"},
              mState[c] = "Connecting" => c \in Terminal
       PROVE  mClient[c] = 0 => mState[c] = "Connecting" /\ c \in Terminal
  BY <1>13 DEF Links
<1>14. CASE UNCHANGED vars
  BY <1>7, <1>14 DEF vars, netVars, windowVars
<1> QED
  BY <1>5, <1>6, <1>8, <1>9, <1>10, <1>11, <1>12, <1>13, <1>14, NextIs

-----------------------------------------------------------------------------
(* Whose a message is.                                                     *)

\* What was typed, and what was given out, stays.
Grows(f, g) == \A x \in DOMAIN f : x \in DOMAIN g /\ g[x] = f[x]

LEMMA RightGrows ==
    ASSUME NEW s, NEW s2, NEW o, NEW o2, Grows(s, s2), Grows(o, o2)
    PROVE  /\ \A q, c : AllAsksRight(q, c, s) => AllAsksRight(q, c, s2)
           /\ \A q, v : AllPushesRight(q, v, s, o) => AllPushesRight(q, v, s2, o2)
           /\ \A l, c : AllEntriesRight(l, c, s, o) => AllEntriesRight(l, c, s2, o2)
           /\ \A q, c : AllPostedEarly(q, s) /\ AllAsksRight(q, c, s) => AllPostedEarly(q, s2)
           /\ \A l, c : AllTypedEarly(l, s) /\ AllEntriesRight(l, c, s, o) => AllTypedEarly(l, s2)
<1>1. \A m, c : AskRight(m, c, s) => AskRight(m, c, s2) /\ s2[m.text] = s[m.text]
  BY DEF Grows, AskRight
<1>2. \A m, v : PushRight(m, v, s, o) => PushRight(m, v, s2, o2)
  BY DEF Grows, PushRight
<1>3. ASSUME NEW m, NEW c, EntryRight(m, c, s, o)
      PROVE  EntryRight(m, c, s2, o2) /\ s2[m.text] = s[m.text]
  <2>1. /\ m.text \in DOMAIN s /\ m.text \in DOMAIN s2 /\ s2[m.text] = s[m.text]
        /\ m.uid \in {0} \cup DOMAIN o
    BY <1>3 DEF EntryRight, Grows
  <2>2. m.uid \in {0} \cup DOMAIN o2 /\ (m.uid # 0 => o2[m.uid] = o[m.uid])
    BY <2>1 DEF Grows
  <2> QED
    BY <1>3, <2>1, <2>2 DEF EntryRight, Grows
<1>4. \A q, c : AllAsksRight(q, c, s) => AllAsksRight(q, c, s2)
  BY <1>1 DEF AllAsksRight
<1>5. \A q, v : AllPushesRight(q, v, s, o) => AllPushesRight(q, v, s2, o2)
  BY <1>2 DEF AllPushesRight
<1>6. \A l, c : AllEntriesRight(l, c, s, o) => AllEntriesRight(l, c, s2, o2)
  BY <1>3 DEF AllEntriesRight
<1>7. \A q, c : AllPostedEarly(q, s) /\ AllAsksRight(q, c, s) => AllPostedEarly(q, s2)
  BY <1>1 DEF AllAsksRight, AllPostedEarly
<1>8. \A l, c : AllTypedEarly(l, s) /\ AllEntriesRight(l, c, s, o) => AllTypedEarly(l, s2)
  BY <1>3 DEF AllEntriesRight, AllTypedEarly
<1> QED
  BY <1>4, <1>5, <1>6, <1>7, <1>8

LEMMA RightAppend ==
    ASSUME NEW q \in Seq(Messages), NEW m \in Messages, NEW s
    PROVE  /\ \A c : AllAsksRight(q, c, s) /\ (Ask(m) => AskRight(m, c, s)) => AllAsksRight(Append(q, m), c, s)
           /\ \A v, o : AllPushesRight(q, v, s, o) /\ (Push(m) => PushRight(m, v, s, o)) =>
                 AllPushesRight(Append(q, m), v, s, o)
           /\ AllPostedEarly(q, s) /\ Ask(m) /\ s[m.text].early => AllPostedEarly(Append(q, m), s)
<1>1. \A i \in DOMAIN Append(q, m) : (i \in DOMAIN q /\ Append(q, m)[i] = q[i]) \/ Append(q, m)[i] = m
  BY AppendIs
<1>2. ASSUME NEW c, AllAsksRight(q, c, s), Ask(m) => AskRight(m, c, s)
      PROVE  AllAsksRight(Append(q, m), c, s)
  BY <1>1, <1>2 DEF AllAsksRight
<1>3. ASSUME NEW v, NEW o, AllPushesRight(q, v, s, o), Push(m) => PushRight(m, v, s, o)
      PROVE  AllPushesRight(Append(q, m), v, s, o)
  BY <1>1, <1>3 DEF AllPushesRight
<1>4. AllPostedEarly(q, s) /\ Ask(m) /\ s[m.text].early => AllPostedEarly(Append(q, m), s)
  BY <1>1 DEF AllPostedEarly
<1> QED
  BY <1>2, <1>3, <1>4

LEMMA EntriesAppend ==
    ASSUME NEW list \in Seq(Entries), NEW e \in Entries, NEW s
    PROVE  /\ \A c, o : AllEntriesRight(list, c, s, o) /\ EntryRight(e, c, s, o) =>
                 AllEntriesRight(Append(list, e), c, s, o)
           /\ AllTypedEarly(list, s) /\ s[e.text].early => AllTypedEarly(Append(list, e), s)
<1>1. \A i \in DOMAIN Append(list, e) :
          (i \in DOMAIN list /\ Append(list, e)[i] = list[i]) \/ Append(list, e)[i] = e
  BY AppendIs
<1>2. ASSUME NEW c, NEW o, AllEntriesRight(list, c, s, o), EntryRight(e, c, s, o)
      PROVE  AllEntriesRight(Append(list, e), c, s, o)
  BY <1>1, <1>2 DEF AllEntriesRight
<1>3. AllTypedEarly(list, s) /\ s[e.text].early => AllTypedEarly(Append(list, e), s)
  BY <1>1 DEF AllTypedEarly
<1> QED
  BY <1>2, <1>3

LEMMA RightTail ==
    ASSUME NEW q \in Seq(Messages), q # <<>>
    PROVE  /\ \A c, s : AllAsksRight(q, c, s) =>
                 AllAsksRight(Tail(q), c, s) /\ (Ask(Head(q)) => AskRight(Head(q), c, s))
           /\ \A v, s, o : AllPushesRight(q, v, s, o) =>
                 AllPushesRight(Tail(q), v, s, o) /\ (Push(Head(q)) => PushRight(Head(q), v, s, o))
<1>1. ASSUME NEW c, NEW s, AllAsksRight(q, c, s)
      PROVE  AllAsksRight(Tail(q), c, s) /\ (Ask(Head(q)) => AskRight(Head(q), c, s))
  BY <1>1, TailIs DEF AllAsksRight
<1>2. ASSUME NEW v, NEW s, NEW o, AllPushesRight(q, v, s, o)
      PROVE  AllPushesRight(Tail(q), v, s, o) /\ (Push(Head(q)) => PushRight(Head(q), v, s, o))
  BY <1>2, TailIs DEF AllPushesRight
<1> QED
  BY <1>1, <1>2

LEMMA RightStays ==
    ASSUME TypeOK, Addressed, Links, Right, [Next]_vars
    PROVE  Right'
<1>1. /\ ServerOK /\ NetOK /\ up \in [Uids -> Seq(Messages)] /\ down \in [Uids -> Seq(Messages)]
      /\ owner \in [Uids -> User] /\ DOMAIN early = User /\ DOMAIN mMessages = User
      /\ \A c \in User : early[c] \in Seq(Messages) /\ mMessages[c] \in Seq(Entries)
      /\ \A c \in User : mMyUid[c] \in Nat /\ (mMyUid[c] # 0 => mMyUid[c] \in Uids /\ owner[mMyUid[c]] = c)
      /\ \A c \in User : mClient[c] # 0 => mClient[c] \in Uids /\ owner[mClient[c]] = c
  BY DEF TypeOK, NetOK, ServerOK, TextsOK, ProgramOK, Entries
<1>2. Grows(sent, sent) /\ Grows(owner, owner) /\ 0 \notin Uids
  BY DEF Grows, Uids
<1>3. CASE QuietStep
  <2>1. /\ Uids' = Uids /\ sent' = sent /\ owner' = owner
        /\ \A u \in Uids : Quietly(up[u], up'[u]) /\ Quietly(down[u], down'[u])
        /\ \A c \in User :
              /\ early'[c] \in {early[c], <<>>} /\ mMessages'[c] \in {mMessages[c], <<>>}
              /\ mState'[c] = "Connecting" /\ mClient'[c] = 0 =>
                    (mState[c] = "Connecting" /\ mClient[c] = 0) \/ mMessages'[c] = <<>>
    BY <1>3, UidsKept DEF QuietStep
  <2>2. \A c \in User : AllPostedEarly(early'[c], sent) /\ AllAsksRight(early'[c], c, sent)
    BY <2>1 DEF Right, AllPostedEarly, AllAsksRight
  <2>3. ASSUME NEW u \in Uids
        PROVE  AllAsksRight(up'[u], owner[u], sent) /\ AllPushesRight(down'[u], u, sent, owner)
    <3>1. AllAsksRight(up[u], owner[u], sent) /\ AllPushesRight(down[u], u, sent, owner)
      BY DEF Right
    <3> QED
      BY <2>1, <3>1, QuietHolds
  <2>4. \A c \in User : AllEntriesRight(mMessages'[c], c, sent, owner)
    BY <2>1 DEF Right, AllEntriesRight
  <2>5. \A c \in User : mState'[c] = "Connecting" /\ mClient'[c] = 0 => AllTypedEarly(mMessages'[c], sent)
    BY <2>1 DEF Right, AllTypedEarly
  <2>6. \A t \in DOMAIN sent : sent[t].early => sent[t].from \in Terminal
    BY DEF Right
  <2> QED
    BY <2>1, <2>2, <2>3, <2>4, <2>5, <2>6 DEF Right
<1>4. ASSUME NEW u \in Uids, Delivers(u) PROVE Right'
  <2> DEFINE r == Head(up[u])
  <2>1. /\ up[u] \in Seq(Messages) /\ up[u] # <<>> /\ r \in Messages
        /\ up'[u] = Tail(up[u]) /\ \A v \in Uids \ {u} : up'[v] = up[v]
        /\ UNCHANGED <<mNextUid, owner, contextVars, windowVars, sent>>
    BY <1>4, DeliversShape
  <2>2. PICK m \in Messages : Delivering(u, r, m)
    BY <1>4, DeliversShape
  <2>3. Uids' = Uids /\ UNCHANGED <<sent, owner, early, mMessages, mState, mClient>>
    BY <2>1, UidsKept DEF contextVars, windowVars
  <2>4. AllAsksRight(up[u], owner[u], sent)
    BY DEF Right
  <2>5. AllAsksRight(Tail(up[u]), owner[u], sent) /\ (Ask(r) => AskRight(r, owner[u], sent))
    BY <2>1, <2>4, RightTail
  <2> HIDE DEF r
  <2>6. AskRight(r, owner[u], sent)
    BY <2>2, <2>5 DEF Delivering
  <2>7. ASSUME NEW v \in Uids PROVE AllPushesRight(down'[v], v, sent, owner)
    <3>1. AllPushesRight(down[v], v, sent, owner)
      BY DEF Right
    <3>2. CASE down'[v] = down[v]
      BY <3>1, <3>2
    <3>3. CASE down'[v] = Append(down[v], m) /\ (r.kind = "send_private" => v = r.uid)
      <4>1. m.uid = u /\ m.text = r.text /\ m.kind = IF r.kind = "send_private" THEN "private_message" ELSE "public_message"
        BY <2>2 DEF Delivering
      <4>2. PushRight(m, v, sent, owner)
        BY <1>1, <2>6, <3>3, <4>1 DEF PushRight, AskRight
      <4>3. down[v] \in Seq(Messages)
        BY <1>1
      <4>4. AllPushesRight(Append(down[v], m), v, sent, owner)
        BY <3>1, <4>2, <4>3, RightAppend
      <4> QED
        BY <3>3, <4>4
    <3> QED
      BY <2>2, <3>2, <3>3 DEF Delivering
  <2>8. \A v \in Uids : AllAsksRight(up'[v], owner[v], sent)
    BY <2>1, <2>5 DEF Right
  <2> QED
    BY <2>3, <2>7, <2>8 DEF Right
<1>5. ASSUME NEW c \in User, Connected(c) PROVE Right'
  <2> DEFINE n == mNextUid
  <2>1. /\ mState[c] = "Connecting" /\ mClient[c] = 0 /\ n # 0 /\ Uids' = Uids \cup {n} /\ n \notin Uids
        /\ owner'[n] = c /\ owner' \in [Uids' -> User] /\ \A u \in Uids : owner'[u] = owner[u] /\ up'[u] = up[u] /\ down'[u] = down[u]
        /\ \E r \in Messages : r.kind = "login" /\ up'[n] = Append(early[c], r)
        /\ down'[n] = <<>>
        /\ mClient' = [mClient EXCEPT ![c] = n] /\ early' = [early EXCEPT ![c] = <<>>]
        /\ UNCHANGED <<mMyUid, mMessages, mState, sent>>
    BY <1>5, ConnectedShape DEF windowVars
  <2> HIDE DEF n
  <2>2. Grows(owner, owner')
    BY <1>1, <2>1 DEF Grows
  <2>3. ASSUME NEW u \in Uids' PROVE AllAsksRight(up'[u], owner'[u], sent)
    <3>1. CASE u \in Uids
      BY <2>1, <3>1 DEF Right
    <3>2. CASE u = n
      <4>1. PICK r \in Messages : r.kind = "login" /\ up'[n] = Append(early[c], r)
        BY <2>1
      <4>2. ~ Ask(r) /\ AllAsksRight(early[c], c, sent)
        BY <4>1 DEF Ask, Right
      <4>3. AllAsksRight(Append(early[c], r), c, sent)
        BY <1>1, <4>2, RightAppend
      <4> QED
        BY <2>1, <3>2, <4>1, <4>3
    <3> QED
      BY <2>1, <3>1, <3>2
  <2>4. ASSUME NEW u \in Uids' PROVE AllPushesRight(down'[u], u, sent, owner')
    <3>1. CASE u \in Uids
      <4>1. AllPushesRight(down[u], u, sent, owner)
        BY <3>1 DEF Right
      <4> QED
        BY <1>2, <2>1, <2>2, <3>1, <4>1, RightGrows
    <3>2. CASE u = n
      BY <2>1, <3>2 DEF AllPushesRight
    <3> QED
      BY <2>1, <3>1, <3>2
  <2>5. ASSUME NEW d \in User PROVE AllEntriesRight(mMessages[d], d, sent, owner')
    <3>1. AllEntriesRight(mMessages[d], d, sent, owner)
      BY DEF Right
    <3> QED
      BY <1>2, <2>2, <3>1, RightGrows
  <2>6. ASSUME NEW d \in User PROVE AllPostedEarly(early'[d], sent) /\ AllAsksRight(early'[d], d, sent)
    <3>1. early'[d] = early[d] \/ early'[d] = <<>>
      BY <1>1, <2>1
    <3> QED
      BY <3>1 DEF Right, AllPostedEarly, AllAsksRight
  <2>7. ASSUME NEW d \in User, mState[d] = "Connecting", mClient'[d] = 0 PROVE AllTypedEarly(mMessages[d], sent)
    <3>1. mClient[d] = 0
      BY <2>1, <2>7
    <3> QED
      BY <2>7, <3>1 DEF Right
  <2>8. \A t \in DOMAIN sent : sent[t].early => sent[t].from \in Terminal
    BY DEF Right
  <2> QED
    BY <2>1, <2>3, <2>4, <2>5, <2>6, <2>7, <2>8 DEF Right
<1>6. ASSUME NEW c \in User, Receives(c) PROVE Right'
  <2> DEFINE v == mClient[c]
             m == Head(down[v])
  <2>1. /\ v \in Uids /\ v # 0 /\ owner[v] = c /\ down[v] \in Seq(Messages) /\ down[v] # <<>>
        /\ down'[v] = Tail(down[v]) /\ \A u \in Uids \ {v} : down'[u] = down[u]
        /\ m \in Messages /\ Push(m)
        /\ UNCHANGED <<serverVars, up, mClient, early, mState, sent>>
    BY <1>6, ReceivesShape
  <2>2. PICK e \in Entries :
           /\ e.uid = m.uid /\ e.text = m.text /\ e.isPrivate = (m.kind = "private_message")
           /\ mMessages' = [mMessages EXCEPT ![c] = Append(mMessages[c], e)]
    BY <1>6, ReceivesShape
  <2>3. Uids' = Uids /\ owner' = owner
    BY <2>1, UidsKept DEF serverVars
  <2>4. AllPushesRight(down[v], v, sent, owner)
    BY <2>1 DEF Right
  <2>5. AllPushesRight(Tail(down[v]), v, sent, owner) /\ PushRight(m, v, sent, owner)
    BY <2>1, <2>4, RightTail
  <2> HIDE DEF m
  <2>6. EntryRight(e, c, sent, owner)
    BY <1>1, <1>2, <2>1, <2>2, <2>5 DEF EntryRight, PushRight
  <2>7. AllEntriesRight(mMessages[c], c, sent, owner)
    BY DEF Right
  <2>8. AllEntriesRight(Append(mMessages[c], e), c, sent, owner)
    BY <1>1, <2>6, <2>7, EntriesAppend
  <2>9. mMessages'[c] = Append(mMessages[c], e) /\ \A d \in User \ {c} : mMessages'[d] = mMessages[d]
    BY <1>1, <2>2
  <2>10. \A d \in User : AllEntriesRight(mMessages'[d], d, sent, owner)
    BY <2>8, <2>9 DEF Right
  <2>11. \A u \in Uids : AllPushesRight(down'[u], u, sent, owner)
    BY <2>1, <2>5 DEF Right
  <2>12. \A d \in User : mState[d] = "Connecting" /\ mClient[d] = 0 => AllTypedEarly(mMessages'[d], sent)
    BY <2>1, <2>9 DEF Right
  <2> QED
    BY <2>1, <2>3, <2>10, <2>11, <2>12 DEF Right
<1>7. ASSUME NEW c \in User, NEW to \in Nat, Say(c, to), mClient[c] = 0 => mState[c] = "Connecting" /\ c \in Terminal
      PROVE  Right'
  <2>1. PICK n \in Nat, r \in Messages, e \in Entries : Saying(c, to, n, r, e)
    BY <1>7, SayShape
  <2>2. /\ DOMAIN sent' = DOMAIN sent \cup {n} /\ n \notin DOMAIN sent /\ \A t \in DOMAIN sent : sent'[t] = sent[t]
        /\ sent'[n].from = c /\ sent'[n].to = to /\ sent'[n].early = (mClient[c] = 0)
        /\ r.kind = (IF to = 0 THEN "send_public" ELSE "send_private") /\ Ask(r)
        /\ r.uid = to /\ r.text = n
        /\ e.uid = mMyUid[c] /\ e.text = n /\ e.isPrivate = (to # 0)
        /\ mMessages' = [mMessages EXCEPT ![c] = Append(mMessages[c], e)]
        /\ UNCHANGED <<serverVars, down, mClient, mState>>
    BY <2>1 DEF Saying
  <2>3. \/ mClient[c] = 0 /\ early' = [early EXCEPT ![c] = Append(early[c], r)] /\ up' = up
        \/ /\ mClient[c] # 0 /\ early' = early
           /\ up'[mClient[c]] \in {up[mClient[c]], Append(up[mClient[c]], r)}
           /\ \A v \in Uids \ {mClient[c]} : up'[v] = up[v]
    BY <2>1 DEF Saying
  <2>4. Grows(sent, sent') /\ Uids' = Uids /\ owner' = owner
    BY <2>2, UidsKept DEF Grows, serverVars
  <2>5. AskRight(r, c, sent')
    BY <2>2 DEF AskRight
  <2>6. EntryRight(e, c, sent', owner)
    <3>1. e.text \in DOMAIN sent' /\ e.uid \in {0} \cup DOMAIN owner /\ (e.uid # 0 => owner[e.uid] = c)
      BY <1>1, <2>2
    <3> QED
      BY <2>2, <3>1 DEF EntryRight
  <2>7. \A d \in User : AllEntriesRight(mMessages[d], d, sent', owner)
    BY <1>2, <2>4, RightGrows DEF Right
  <2>8. AllEntriesRight(Append(mMessages[c], e), c, sent', owner)
    BY <1>1, <2>6, <2>7, EntriesAppend
  <2>9. mMessages'[c] = Append(mMessages[c], e) /\ \A d \in User \ {c} : mMessages'[d] = mMessages[d]
    BY <1>1, <2>2
  <2>10. \A d \in User : AllEntriesRight(mMessages'[d], d, sent', owner')
    BY <2>4, <2>7, <2>8, <2>9
  <2>11. \A u \in Uids : AllPushesRight(down'[u], u, sent', owner')
    <3>1. \A u \in Uids : AllPushesRight(down[u], u, sent', owner)
      BY <1>2, <2>4, RightGrows DEF Right
    <3> QED
      BY <2>2, <2>4, <3>1
  <2>12. \A u \in Uids : AllAsksRight(up[u], owner[u], sent')
    BY <1>2, <2>4, RightGrows DEF Right
  <2>13. \A d \in User : AllAsksRight(early[d], d, sent') /\ AllPostedEarly(early[d], sent')
    <3> SUFFICES ASSUME NEW d \in User PROVE AllAsksRight(early[d], d, sent') /\ AllPostedEarly(early[d], sent')
      OBVIOUS
    <3>1. AllAsksRight(early[d], d, sent) /\ AllPostedEarly(early[d], sent)
      BY DEF Right
    <3> QED
      BY <1>2, <2>4, <3>1, RightGrows
  <2>14. \A u \in Uids : AllAsksRight(up'[u], owner'[u], sent')
    <3>1. ASSUME mClient[c] # 0 PROVE AllAsksRight(Append(up[mClient[c]], r), owner[mClient[c]], sent')
      <4>1. mClient[c] \in Uids /\ owner[mClient[c]] = c /\ up[mClient[c]] \in Seq(Messages)
        BY <1>1, <3>1
      <4> QED
        BY <2>5, <2>12, <4>1, RightAppend
    <3> QED
      BY <2>3, <2>4, <2>12, <3>1
  <2>15. \A d \in User : AllAsksRight(early'[d], d, sent') /\ AllPostedEarly(early'[d], sent')
    <3>1. ASSUME mClient[c] = 0 PROVE AllAsksRight(Append(early[c], r), c, sent') /\ AllPostedEarly(Append(early[c], r), sent')
      <4>1. sent'[r.text].early
        BY <2>2, <3>1
      <4> QED
        BY <1>1, <2>2, <2>5, <2>13, <4>1, RightAppend
    <3>2. CASE early' = early
      BY <2>13, <3>2
    <3>3. CASE mClient[c] = 0 /\ early' = [early EXCEPT ![c] = Append(early[c], r)]
      BY <1>1, <2>13, <3>1, <3>3
    <3> QED
      BY <2>3, <3>2, <3>3
  <2>16. ASSUME NEW d \in User, mState'[d] = "Connecting", mClient'[d] = 0 PROVE AllTypedEarly(mMessages'[d], sent')
    <3>1. AllTypedEarly(mMessages[d], sent) /\ AllEntriesRight(mMessages[d], d, sent, owner)
      BY <2>2, <2>16 DEF Right
    <3>2. AllTypedEarly(mMessages[d], sent')
      BY <1>2, <2>4, <3>1, RightGrows
    <3>3. CASE d # c
      BY <2>9, <3>2, <3>3
    <3>4. CASE d = c
      <4>1. sent'[e.text].early
        BY <2>2, <2>16, <3>4
      <4> QED
        BY <1>1, <2>9, <3>2, <3>4, <4>1, EntriesAppend
    <3> QED
      BY <3>3, <3>4
  <2>17. \A t \in DOMAIN sent' : sent'[t].early => sent'[t].from \in Terminal
    BY <1>7, <2>2 DEF Right
  <2> QED
    BY <2>4, <2>10, <2>11, <2>14, <2>15, <2>16, <2>17 DEF Right
<1> QED
  BY <1>3, <1>4, <1>5, <1>6, <1>7, Steps

-----------------------------------------------------------------------------
(* The order of texts.                                                     *)

\* A text on its way, or shown, has been typed.
LEMMA TextsKnown ==
    ASSUME TypeOK, Right
    PROVE  /\ DOMAIN sent \subseteq Nat
           /\ \A u \in Uids : \A t : Asks(up[u], t) => t \in DOMAIN sent /\ sent[t].from = owner[u]
           /\ \A c \in User : \A t : Asks(early[c], t) =>
                 t \in DOMAIN sent /\ sent[t].from = c /\ sent[t].early
           /\ \A v \in Uids : \A t, w : Pushes(down[v], t, w) => t \in DOMAIN sent /\ w \in Uids /\ w \in Nat
           /\ \A c \in User : \A t, w : Shows(mMessages[c], t, w) =>
                 t \in DOMAIN sent /\ w \in {0} \cup Uids /\ w \in Nat
<1>1. DOMAIN sent \subseteq Nat /\ DOMAIN owner = Uids /\ Uids \subseteq Nat
  BY DEF TypeOK, TextsOK, ServerOK, Uids
<1>2. ASSUME NEW u \in Uids, NEW t, Asks(up[u], t) PROVE t \in DOMAIN sent /\ sent[t].from = owner[u]
  BY <1>2 DEF Asks, Right, AllAsksRight, AskRight
<1>3. ASSUME NEW c \in User, NEW t, Asks(early[c], t)
      PROVE  t \in DOMAIN sent /\ sent[t].from = c /\ sent[t].early
  BY <1>3 DEF Asks, Right, AllAsksRight, AllPostedEarly, AskRight
<1>4. ASSUME NEW v \in Uids, NEW t, NEW w, Pushes(down[v], t, w)
      PROVE  t \in DOMAIN sent /\ w \in Uids /\ w \in Nat
  BY <1>1, <1>4 DEF Pushes, Right, AllPushesRight, PushRight
<1>5. ASSUME NEW c \in User, NEW t, NEW w, Shows(mMessages[c], t, w)
      PROVE  t \in DOMAIN sent /\ w \in {0} \cup Uids /\ w \in Nat
  <2>1. PICK i \in DOMAIN mMessages[c] : mMessages[c][i].text = t /\ mMessages[c][i].uid = w
    BY <1>5 DEF Shows
  <2>2. EntryRight(mMessages[c][i], c, sent, owner)
    BY <2>1 DEF Right, AllEntriesRight
  <2>3. t \in DOMAIN sent /\ w \in {0} \cup Uids
    BY <1>1, <2>1, <2>2 DEF EntryRight
  <2> QED
    BY <1>1, <2>3
<1>6. DOMAIN sent \subseteq Nat
  BY <1>1
<1> QED
  BY <1>2, <1>3, <1>4, <1>5, <1>6, Zenon

LEMMA ShowsAppend ==
    ASSUME NEW list \in Seq(Entries), NEW e \in Entries
    PROVE  \A t, w : Shows(Append(list, e), t, w) <=> Shows(list, t, w) \/ (e.text = t /\ e.uid = w)
BY AppendIs DEF Shows

LEMMA OrderedQuiet ==
    ASSUME TypeOK, Right, Ordered, QuietStep
    PROVE  Ordered'
<1>1. Uids' = Uids /\ sent' = sent /\ 0 \notin Uids
  BY UidsKept DEF QuietStep, Uids
<1>2. \A u \in Uids : Quietly(up[u], up'[u]) /\ Quietly(down[u], down'[u])
  BY DEF QuietStep
<1>3. \A u \in Uids : \A t : Asks(up'[u], t) => Asks(up[u], t)
  BY <1>2, QuietHolds
<1>4. \A u \in Uids : \A t, w : Pushes(down'[u], t, w) => Pushes(down[u], t, w)
  BY <1>2, QuietHolds
<1>5. \A c \in User : early'[c] \in {early[c], <<>>} /\ mMessages'[c] \in {mMessages[c], <<>>}
  BY DEF QuietStep
<1>6. \A c \in User : \A t : Asks(early'[c], t) => Asks(early[c], t)
  BY <1>5 DEF Asks
<1>7. \A c \in User : \A t, w : Shows(mMessages'[c], t, w) => Shows(mMessages[c], t, w)
  BY <1>5 DEF Shows
<1>8. \A c \in User : mClient'[c] \in {mClient[c], 0} /\ (mClient[c] # 0 => mClient[c] \in Uids)
  BY DEF QuietStep, TypeOK, ProgramOK
<1>9. \A c \in User : \A t, w : Shows(mMessages'[c], t, w) => mMyUid'[c] = mMyUid[c] \/ mMyUid[c] = 0
  BY DEF QuietStep, Shows
<1>10. Queued'
  <2>1. \A c \in User : AsksOrdered(early'[c])
    BY <1>5 DEF Ordered, Queued, AsksOrdered
  <2>2. \A u \in Uids : AsksOrdered(up'[u]) /\ PushesOrdered(down'[u])
    BY <1>2 DEF Ordered, Queued, Quietly
  <2> QED
    BY <1>1, <2>1, <2>2 DEF Queued
<1>11. AskedOnce'
  BY <1>1, <1>3, <1>6 DEF Ordered, AskedOnce
<1>12. AskedFirst'
  BY <1>1, <1>3, <1>4, <1>6, <1>7 DEF Ordered, AskedFirst
<1>13. AskBehindPush'
  BY <1>1, <1>3, <1>4 DEF Ordered, AskBehindPush
<1>14. AskBehindShown'
  <2> SUFFICES ASSUME NEW u \in Uids, NEW c \in User, NEW t \in Nat, NEW n \in Nat,
                      Asks(up'[u], n), Shows(mMessages'[c], t, u), u # mMyUid'[c]
               PROVE  t < n
    BY <1>1 DEF AskBehindShown
  <2>1. Asks(up[u], n) /\ Shows(mMessages[c], t, u) /\ u # mMyUid[c]
    BY <1>1, <1>3, <1>7, <1>9
  <2> QED
    BY <2>1 DEF Ordered, AskBehindShown
<1>15. PushBehindShown'
  <2> SUFFICES ASSUME NEW c \in User, mClient'[c] # 0, NEW w \in Nat, NEW t \in Nat, NEW n \in Nat,
                      Shows(mMessages'[c], t, w), Pushes(down'[mClient'[c]], n, w), w # mMyUid'[c]
               PROVE  t < n
    BY DEF PushBehindShown
  <2>1. mClient[c] # 0 /\ Shows(mMessages[c], t, w) /\ Pushes(down[mClient[c]], n, w)
    BY <1>4, <1>7, <1>8
  <2>2. w \in Uids
    BY <1>8, <2>1, TextsKnown
  <2>3. w # mMyUid[c]
    BY <1>1, <1>9, <2>2
  <2> QED
    BY <2>1, <2>3 DEF Ordered, PushBehindShown
<1>16. OwnAsk'
  <2> SUFFICES ASSUME NEW u \in Uids, NEW c \in User, NEW t \in Nat, NEW w \in Nat,
                      Asks(up'[u], t), ~ sent[t].early, Shows(mMessages'[c], t, w)
               PROVE  mClient'[c] \in {u, 0}
    BY <1>1 DEF OwnAsk
  <2>1. mClient[c] \in {u, 0}
    BY <1>3, <1>7 DEF Ordered, OwnAsk
  <2> QED
    BY <1>8, <2>1
<1>17. OwnPush'
  <2> SUFFICES ASSUME NEW c \in User, mClient'[c] # 0, NEW t \in Nat, NEW w \in Nat, NEW x \in Nat,
                      Pushes(down'[mClient'[c]], t, w), Shows(mMessages'[c], t, x)
               PROVE  sent[t].from = c /\ (sent[t].early \/ w = mClient'[c])
    BY <1>1 DEF OwnPush
  <2>1. mClient'[c] = mClient[c] /\ mClient[c] # 0 /\ Pushes(down[mClient[c]], t, w) /\ Shows(mMessages[c], t, x)
    BY <1>4, <1>7, <1>8
  <2> QED
    BY <2>1 DEF Ordered, OwnPush
<1> QED
  BY <1>10, <1>11, <1>12, <1>13, <1>14, <1>15, <1>16, <1>17 DEF Ordered

LEMMA OrderedDelivers ==
    ASSUME TypeOK, Right, Ordered, NEW u \in Uids, Delivers(u)
    PROVE  Ordered'
<1> DEFINE r == Head(up[u])
           k == r.text
<1>1. /\ up[u] \in Seq(Messages) /\ up[u] # <<>> /\ r \in Messages
      /\ up'[u] = Tail(up[u]) /\ \A v \in Uids \ {u} : up'[v] = up[v]
      /\ UNCHANGED <<mNextUid, owner, contextVars, windowVars, sent>>
  BY DeliversShape
<1>2. PICK m \in Messages : Delivering(u, r, m)
  BY DeliversShape
<1>3. Uids' = Uids /\ UNCHANGED <<sent, early, mMessages, mState, mClient, mMyUid>>
  BY <1>1, UidsKept DEF contextVars, windowVars
<1>4. /\ \A v \in Uids : down[v] \in Seq(Messages) /\ AsksOrdered(up[v]) /\ PushesOrdered(down[v])
      /\ \A c \in User : mClient[c] # 0 => mClient[c] \in Uids
      /\ u \in Nat
  <2>1. \A v \in Uids : down[v] \in Seq(Messages)
    BY DEF TypeOK, NetOK
  <2>2. \A v \in Uids : AsksOrdered(up[v]) /\ PushesOrdered(down[v])
    BY DEF Ordered, Queued
  <2>3. \A c \in User : mClient[c] # 0 => mClient[c] \in Uids
    BY DEF TypeOK, ProgramOK
  <2>4. u \in Nat
    BY DEF Uids
  <2> QED
    BY <2>1, <2>2, <2>3, <2>4
<1>5. /\ \A t : Asks(Tail(up[u]), t) => Asks(up[u], t)
      /\ Ask(r) => Asks(up[u], r.text)
      /\ AsksOrdered(Tail(up[u])) /\ (Ask(r) => \A n : Asks(Tail(up[u]), n) => r.text < n)
  BY <1>1, <1>4, AsksTail
<1>6. k \in Nat
  BY <1>1, MessageIs
<1> HIDE DEF r
<1>7. /\ Ask(r) /\ Push(m) /\ m.uid = u /\ m.text = k
      /\ \A v \in Uids : down'[v] = down[v] \/ down'[v] = Append(down[v], m)
  BY <1>2 DEF Delivering
<1>8. Asks(up[u], k) /\ \A n : Asks(up'[u], n) => k < n
  BY <1>1, <1>5, <1>7
<1> HIDE DEF k
<1>9. \A v \in Uids : \A t : Asks(up'[v], t) => Asks(up[v], t)
  BY <1>1, <1>5
<1>10. ASSUME NEW v \in Uids, NEW t, NEW w, Pushes(down'[v], t, w)
       PROVE  Pushes(down[v], t, w) \/ (t = k /\ w = u)
  <2>1. down[v] \in Seq(Messages) /\ m \in Messages
    BY <1>4
  <2>2. Pushes(Append(down[v], m), t, w) => Pushes(down[v], t, w) \/ (t = m.text /\ w = m.uid)
    BY <2>1, PushesAppend
  <2>3. down'[v] = down[v] \/ down'[v] = Append(down[v], m)
    BY <1>7
  <2> QED
    BY <1>7, <1>10, <2>2, <2>3
<1>11. /\ \A v \in Uids : \A t : Asks(up[v], t) => t \in Nat
       /\ \A v \in Uids : \A t, w : Pushes(down[v], t, w) => t \in Nat /\ w \in Nat
       /\ \A c \in User : \A t, w : Shows(mMessages[c], t, w) => t \in Nat /\ w \in Nat
  BY TextsKnown
<1>12. \A v \in Uids : \A t, w : Pushes(down[v], t, w) => t # k /\ (w = u => t < k)
  BY <1>6, <1>8, <1>11 DEF Ordered, AskedFirst, AskBehindPush
<1>13. Queued'
  <2>1. \A v \in Uids : AsksOrdered(up'[v])
    BY <1>1, <1>4, <1>5
  <2>2. ASSUME NEW v \in Uids PROVE PushesOrdered(down'[v])
    <3>1. PushesOrdered(Append(down[v], m))
      <4>1. down[v] \in Seq(Messages) /\ m \in Messages /\ PushesOrdered(down[v])
        BY <1>4
      <4>2. \A t, w : Pushes(down[v], t, w) => t # m.text /\ (w = m.uid => t < m.text)
        BY <1>7, <1>12
      <4> QED
        BY <4>1, <4>2, PushesAppend
    <3> QED
      BY <1>4, <1>7, <3>1
  <2> QED
    BY <1>3, <2>1, <2>2 DEF Queued, Ordered
<1>14. AskedOnce'
  BY <1>3, <1>9 DEF Ordered, AskedOnce
<1>15. AskedFirst'
  <2>1. \A v \in Uids : ~ Asks(up'[v], k)
    <3>1. ~ Asks(up'[u], k)
      BY <1>6, <1>8
    <3>2. \A v \in Uids \ {u} : ~ Asks(up'[v], k)
      BY <1>6, <1>8, <1>9 DEF Ordered, AskedOnce
    <3> QED
      BY <3>1, <3>2
  <2>2. \A c \in User : ~ Asks(early[c], k)
    BY <1>6, <1>8 DEF Ordered, AskedOnce
  <2> SUFFICES ASSUME NEW t \in Nat, (\E v \in Uids : Asks(up'[v], t)) \/ (\E c \in User : Asks(early[c], t))
               PROVE  /\ \A v \in Uids : \A w \in Nat : ~ Pushes(down'[v], t, w)
                      /\ \A c \in User : \A w \in Nat : Shows(mMessages[c], t, w) => sent[t].from = c
    BY <1>3 DEF AskedFirst
  <2>3. t # k
    BY <2>1, <2>2
  <2>4. /\ \A v \in Uids : \A w \in Nat : ~ Pushes(down[v], t, w)
        /\ \A c \in User : \A w \in Nat : Shows(mMessages[c], t, w) => sent[t].from = c
    BY <1>9 DEF Ordered, AskedFirst
  <2> QED
    BY <1>10, <2>3, <2>4
<1>16. AskBehindPush'
  <2> SUFFICES ASSUME NEW x \in Uids, NEW v \in Uids, NEW t \in Nat, NEW n \in Nat,
                      Asks(up'[x], n), Pushes(down'[v], t, x)
               PROVE  t < n
    BY <1>3 DEF AskBehindPush
  <2>1. CASE Pushes(down[v], t, x)
    BY <1>9, <2>1 DEF Ordered, AskBehindPush
  <2>2. CASE t = k /\ x = u
    BY <1>8, <2>2
  <2> QED
    BY <1>10, <2>1, <2>2
<1>17. AskBehindShown'
  BY <1>3, <1>9 DEF Ordered, AskBehindShown
<1>18. PushBehindShown'
  <2> SUFFICES ASSUME NEW c \in User, mClient[c] # 0, NEW w \in Nat, NEW t \in Nat, NEW n \in Nat,
                      Shows(mMessages[c], t, w), Pushes(down'[mClient[c]], n, w), w # mMyUid[c]
               PROVE  t < n
    BY <1>3 DEF PushBehindShown
  <2>1. CASE Pushes(down[mClient[c]], n, w)
    BY <2>1 DEF Ordered, PushBehindShown
  <2>2. CASE n = k /\ w = u
    BY <1>8, <2>2 DEF Ordered, AskBehindShown
  <2>3. mClient[c] \in Uids
    BY <1>4
  <2> QED
    BY <1>10, <2>1, <2>2, <2>3
<1>19. OwnAsk'
  BY <1>3, <1>9 DEF Ordered, OwnAsk
<1>20. OwnPush'
  <2> SUFFICES ASSUME NEW c \in User, mClient[c] # 0, NEW t \in Nat, NEW w \in Nat, NEW x \in Nat,
                      Pushes(down'[mClient[c]], t, w), Shows(mMessages[c], t, x)
               PROVE  sent[t].from = c /\ (sent[t].early \/ w = mClient[c])
    BY <1>3 DEF OwnPush
  <2>1. CASE Pushes(down[mClient[c]], t, w)
    BY <2>1 DEF Ordered, OwnPush
  <2>2. CASE t = k /\ w = u
    <3>1. sent[t].from = c
      BY <1>8, <2>2 DEF Ordered, AskedFirst
    <3>2. ~ sent[t].early => mClient[c] = u
      BY <1>8, <2>2 DEF Ordered, OwnAsk
    <3> QED
      BY <2>2, <3>1, <3>2
  <2>3. mClient[c] \in Uids
    BY <1>4
  <2> QED
    BY <1>10, <2>1, <2>2, <2>3
<1> QED
  BY <1>13, <1>14, <1>15, <1>16, <1>17, <1>18, <1>19, <1>20 DEF Ordered

LEMMA OrderedConnected ==
    ASSUME TypeOK, Right, Ordered, NEW c \in User, Connected(c)
    PROVE  Ordered'
<1> DEFINE n == mNextUid
<1>1. /\ mState[c] = "Connecting" /\ mClient[c] = 0
      /\ n \in Nat \ {0} /\ n \notin Uids /\ Uids' = Uids \cup {n}
      /\ down'[n] = <<>>
      /\ \A u \in Uids : up'[u] = up[u] /\ down'[u] = down[u]
      /\ mClient' = [mClient EXCEPT ![c] = n] /\ early' = [early EXCEPT ![c] = <<>>]
      /\ mMyUid' = mMyUid /\ mMessages' = mMessages /\ sent' = sent
  BY ConnectedShape
<1>2. PICK r \in Messages : r.kind = "login" /\ up'[n] = Append(early[c], r)
  BY ConnectedShape
<1> HIDE DEF n
<1>3. /\ DOMAIN mClient = User /\ DOMAIN early = User /\ early[c] \in Seq(Messages)
      /\ \A d \in User : mClient[d] # 0 => mClient[d] \in Uids
  BY DEF TypeOK, NetOK, ProgramOK
<1>4. /\ \A d \in User : AsksOrdered(early[d])
      /\ \A u \in Uids : AsksOrdered(up[u]) /\ PushesOrdered(down[u])
  BY DEF Ordered, Queued
<1>5. ~ Ask(r)
  BY <1>2 DEF Ask
<1>6. /\ \A t : Asks(up'[n], t) => Asks(early[c], t)
      /\ AsksOrdered(up'[n])
  <2>1. \A t : Asks(Append(early[c], r), t) => Asks(early[c], t)
    BY <1>3, <1>5, AsksAppend
  <2>2. AsksOrdered(Append(early[c], r))
    BY <1>3, <1>4, <1>5, AsksAppend
  <2> QED
    BY <1>2, <2>1, <2>2
<1>7. \A t, w : ~ Pushes(down'[n], t, w)
  BY <1>1 DEF Pushes
<1>8. early'[c] = <<>> /\ \A d \in User \ {c} : early'[d] = early[d]
  BY <1>1, <1>3
<1>9. \A d \in User : \A t : Asks(early'[d], t) => d # c /\ Asks(early[d], t)
  <2>1. \A t : ~ Asks(early'[c], t)
    BY <1>8 DEF Asks
  <2> QED
    BY <1>8, <2>1
<1>10. mClient'[c] = n /\ \A d \in User \ {c} : mClient'[d] = mClient[d]
  BY <1>1, <1>3
<1>11. ASSUME NEW u \in Uids', NEW t, Asks(up'[u], t)
       PROVE  (u \in Uids /\ Asks(up[u], t)) \/ (u = n /\ Asks(early[c], t))
  BY <1>1, <1>6, <1>11
<1>12. ASSUME NEW v \in Uids', NEW t, NEW w, Pushes(down'[v], t, w)
       PROVE  v \in Uids /\ Pushes(down[v], t, w) /\ w \in Uids
  <2>1. v \in Uids /\ Pushes(down[v], t, w)
    BY <1>1, <1>7, <1>12
  <2> QED
    BY <2>1, TextsKnown
<1>13. \A d \in User : \A t, w : Shows(mMessages[d], t, w) => w \in {0} \cup Uids
  BY TextsKnown
<1>14. \A d \in User : \A t : Asks(early[d], t) => sent[t].from = d /\ sent[t].early
  BY TextsKnown
<1>15. Queued'
  <2>1. \A d \in User : AsksOrdered(early'[d])
    <3>1. AsksOrdered(<<>>)
      BY DEF AsksOrdered
    <3> QED
      BY <1>4, <1>8, <3>1
  <2>2. \A u \in Uids' : AsksOrdered(up'[u])
    BY <1>1, <1>4, <1>6
  <2>3. \A u \in Uids' : PushesOrdered(down'[u])
    <3>1. PushesOrdered(<<>>)
      BY DEF PushesOrdered
    <3> QED
      BY <1>1, <1>4, <3>1
  <2> QED
    BY <2>1, <2>2, <2>3 DEF Queued
<1>16. AskedOnce'
  <2>1. ASSUME NEW u \in Uids', NEW w \in Uids', NEW t \in Nat, Asks(up'[u], t), Asks(up'[w], t)
        PROVE  u = w
    BY <1>11, <2>1 DEF Ordered, AskedOnce
  <2>2. ASSUME NEW u \in Uids', NEW d \in User, NEW t \in Nat, Asks(up'[u], t), Asks(early'[d], t)
        PROVE  FALSE
    <3>1. d # c /\ Asks(early[d], t)
      BY <1>9, <2>2
    <3>2. CASE u \in Uids /\ Asks(up[u], t)
      BY <3>1, <3>2 DEF Ordered, AskedOnce
    <3>3. CASE Asks(early[c], t)
      BY <1>14, <3>1, <3>3
    <3> QED
      BY <1>11, <2>2, <3>2, <3>3
  <2> QED
    BY <2>1, <2>2 DEF AskedOnce
<1>17. AskedFirst'
  <2> SUFFICES ASSUME NEW t \in Nat, (\E u \in Uids' : Asks(up'[u], t)) \/ (\E d \in User : Asks(early'[d], t))
               PROVE  /\ \A v \in Uids' : \A w \in Nat : ~ Pushes(down'[v], t, w)
                      /\ \A d \in User : \A w \in Nat : Shows(mMessages[d], t, w) => sent[t].from = d
    BY <1>1 DEF AskedFirst
  <2>1. (\E u \in Uids : Asks(up[u], t)) \/ (\E d \in User : Asks(early[d], t))
    BY <1>9, <1>11
  <2>2. /\ \A v \in Uids : \A w \in Nat : ~ Pushes(down[v], t, w)
        /\ \A d \in User : \A w \in Nat : Shows(mMessages[d], t, w) => sent[t].from = d
    BY <2>1 DEF Ordered, AskedFirst
  <2> QED
    BY <1>12, <2>2
<1>18. AskBehindPush'
  <2> SUFFICES ASSUME NEW u \in Uids', NEW v \in Uids', NEW t \in Nat, NEW k \in Nat,
                      Asks(up'[u], k), Pushes(down'[v], t, u)
               PROVE  t < k
    BY DEF AskBehindPush
  <2>1. v \in Uids /\ Pushes(down[v], t, u) /\ u \in Uids
    BY <1>12
  <2>2. Asks(up[u], k)
    BY <1>1, <2>1
  <2> QED
    BY <2>1, <2>2 DEF Ordered, AskBehindPush
<1>19. AskBehindShown'
  <2> SUFFICES ASSUME NEW u \in Uids', NEW d \in User, NEW t \in Nat, NEW k \in Nat,
                      Asks(up'[u], k), Shows(mMessages[d], t, u), u # mMyUid[d]
               PROVE  t < k
    BY <1>1 DEF AskBehindShown
  <2>1. u \in Uids
    BY <1>1, <1>13
  <2>2. Asks(up[u], k)
    BY <1>1, <2>1
  <2> QED
    BY <2>1, <2>2 DEF Ordered, AskBehindShown
<1>20. PushBehindShown'
  <2> SUFFICES ASSUME NEW d \in User, mClient'[d] # 0, NEW w \in Nat, NEW t \in Nat, NEW k \in Nat,
                      Shows(mMessages[d], t, w), Pushes(down'[mClient'[d]], k, w), w # mMyUid[d]
               PROVE  t < k
    BY <1>1 DEF PushBehindShown
  <2>1. d # c
    BY <1>7, <1>10
  <2>2. mClient[d] # 0 /\ mClient[d] \in Uids /\ Pushes(down[mClient[d]], k, w)
    BY <1>1, <1>3, <1>10, <2>1
  <2> QED
    BY <2>2 DEF Ordered, PushBehindShown
<1>21. OwnAsk'
  <2> SUFFICES ASSUME NEW u \in Uids', NEW d \in User, NEW t \in Nat, NEW w \in Nat,
                      Asks(up'[u], t), ~ sent[t].early, Shows(mMessages[d], t, w)
               PROVE  mClient'[d] \in {u, 0}
    BY <1>1 DEF OwnAsk
  <2>1. u \in Uids /\ Asks(up[u], t)
    BY <1>11, <1>14
  <2>2. d # c
    BY <1>1 DEF Right, AllTypedEarly, Shows
  <2>3. mClient[d] \in {u, 0}
    BY <2>1 DEF Ordered, OwnAsk
  <2> QED
    BY <1>10, <2>2, <2>3
<1>22. OwnPush'
  <2> SUFFICES ASSUME NEW d \in User, mClient'[d] # 0, NEW t \in Nat, NEW w \in Nat, NEW x \in Nat,
                      Pushes(down'[mClient'[d]], t, w), Shows(mMessages[d], t, x)
               PROVE  sent[t].from = d /\ (sent[t].early \/ w = mClient'[d])
    BY <1>1 DEF OwnPush
  <2>1. d # c
    BY <1>7, <1>10
  <2>2. mClient'[d] = mClient[d] /\ mClient[d] # 0 /\ mClient[d] \in Uids /\ Pushes(down[mClient[d]], t, w)
    BY <1>1, <1>3, <1>10, <2>1
  <2> QED
    BY <2>2 DEF Ordered, OwnPush
<1> QED
  BY <1>15, <1>16, <1>17, <1>18, <1>19, <1>20, <1>21, <1>22 DEF Ordered

LEMMA OrderedReceives ==
    ASSUME TypeOK, Right, Ordered, NEW c \in User, Receives(c)
    PROVE  Ordered'
<1> DEFINE v == mClient[c]
           m == Head(down[v])
<1>1. /\ v \in Uids /\ v # 0 /\ down[v] \in Seq(Messages) /\ down[v] # <<>>
      /\ down'[v] = Tail(down[v]) /\ \A x \in Uids \ {v} : down'[x] = down[x]
      /\ m \in Messages /\ Push(m) /\ m.uid # mMyUid[c]
      /\ UNCHANGED <<serverVars, up, mClient, mMyUid, early, sent>>
  BY ReceivesShape
<1>2. PICK e \in Entries : e.uid = m.uid /\ e.text = m.text /\ mMessages' = [mMessages EXCEPT ![c] = Append(mMessages[c], e)]
  BY ReceivesShape
<1>3. /\ DOMAIN mMessages = User /\ mMessages[c] \in Seq(Entries)
      /\ \A d \in User : mClient[d] # 0 => mClient[d] \in Uids
  BY DEF TypeOK, TextsOK, Entries, ProgramOK
<1>4. Uids' = Uids /\ UNCHANGED <<up, mClient, mMyUid, early, sent>>
  BY <1>1, UidsKept DEF serverVars
<1>5. m.text \in Nat /\ m.uid \in Nat
  BY <1>1, MessageIs
<1>6. /\ Pushes(down[v], m.text, m.uid) /\ \A t, w : Pushes(down'[v], t, w) => Pushes(down[v], t, w)
      /\ PushesOrdered(down'[v]) /\ \A w : ~ Pushes(down'[v], m.text, w)
      /\ \A k : Pushes(down'[v], k, m.uid) => m.text < k
  <2>1. PushesOrdered(down[v])
    BY <1>1 DEF Ordered, Queued
  <2> HIDE DEF m
  <2>2. Push(m) /\ m = Head(down[v])
    BY <1>1 DEF m
  <2> HIDE DEF v
  <2>3. down[v] \in Seq(Messages) /\ down[v] # <<>> /\ down'[v] = Tail(down[v])
    BY <1>1
  <2>4. Pushes(down[v], m.text, m.uid) /\ \A t, w : Pushes(Tail(down[v]), t, w) => Pushes(down[v], t, w)
    BY <2>2, <2>3, PushesTail
  <2>5. PushesOrdered(Tail(down[v])) /\ \A w : ~ Pushes(Tail(down[v]), m.text, w)
    BY <2>1, <2>2, <2>3, PushesTail
  <2>6. \A k : Pushes(Tail(down[v]), k, m.uid) => m.text < k
    BY <2>1, <2>2, <2>3, PushesTail
  <2> QED
    BY <2>3, <2>4, <2>5, <2>6
<1> HIDE DEF m
<1>7. \A x \in Uids : \A t, w : Pushes(down'[x], t, w) => Pushes(down[x], t, w)
  BY <1>1, <1>6
<1>8. ASSUME NEW d \in User, NEW t, NEW w, Shows(mMessages'[d], t, w)
      PROVE  Shows(mMessages[d], t, w) \/ (d = c /\ t = m.text /\ w = m.uid)
  <2>1. Shows(Append(mMessages[c], e), t, w) => Shows(mMessages[c], t, w) \/ (t = m.text /\ w = m.uid)
    BY <1>2, <1>3, ShowsAppend
  <2>2. mMessages'[d] = IF d = c THEN Append(mMessages[c], e) ELSE mMessages[d]
    BY <1>2, <1>3
  <2> QED
    BY <1>8, <2>1, <2>2
<1>9. /\ \A u \in Uids : ~ Asks(up[u], m.text)
      /\ \A d \in User : ~ Asks(early[d], m.text)
  BY <1>1, <1>5, <1>6 DEF Ordered, AskedFirst
<1>10. Queued'
  <2>1. \A x \in Uids : PushesOrdered(down[x]) /\ AsksOrdered(up[x])
    BY DEF Ordered, Queued
  <2>2. \A x \in Uids : PushesOrdered(down'[x])
    BY <1>1, <1>6, <2>1
  <2> QED
    BY <1>4, <2>1, <2>2 DEF Ordered, Queued
<1>11. AskedOnce'
  BY <1>4 DEF Ordered, AskedOnce
<1>12. AskedFirst'
  <2> SUFFICES ASSUME NEW t \in Nat, (\E u \in Uids : Asks(up[u], t)) \/ (\E d \in User : Asks(early[d], t))
               PROVE  /\ \A x \in Uids : \A w \in Nat : ~ Pushes(down'[x], t, w)
                      /\ \A d \in User : \A w \in Nat : Shows(mMessages'[d], t, w) => sent[t].from = d
    BY <1>4 DEF AskedFirst
  <2>1. /\ \A x \in Uids : \A w \in Nat : ~ Pushes(down[x], t, w)
        /\ \A d \in User : \A w \in Nat : Shows(mMessages[d], t, w) => sent[t].from = d
    BY DEF Ordered, AskedFirst
  <2>2. t # m.text
    BY <1>9
  <2> QED
    BY <1>7, <1>8, <2>1, <2>2
<1>13. AskBehindPush'
  BY <1>4, <1>7 DEF Ordered, AskBehindPush
<1>14. AskBehindShown'
  <2> SUFFICES ASSUME NEW u \in Uids, NEW d \in User, NEW t \in Nat, NEW k \in Nat,
                      Asks(up[u], k), Shows(mMessages'[d], t, u), u # mMyUid[d]
               PROVE  t < k
    BY <1>4 DEF AskBehindShown
  <2>1. CASE Shows(mMessages[d], t, u)
    BY <2>1 DEF Ordered, AskBehindShown
  <2>2. CASE t = m.text /\ u = m.uid
    BY <1>1, <1>6, <2>2 DEF Ordered, AskBehindPush
  <2> QED
    BY <1>8, <2>1, <2>2
<1>15. PushBehindShown'
  <2> SUFFICES ASSUME NEW d \in User, mClient[d] # 0, NEW w \in Nat, NEW t \in Nat, NEW k \in Nat,
                      Shows(mMessages'[d], t, w), Pushes(down'[mClient[d]], k, w), w # mMyUid[d]
               PROVE  t < k
    BY <1>4 DEF PushBehindShown
  <2>1. CASE Shows(mMessages[d], t, w)
    BY <1>3, <1>7, <2>1 DEF Ordered, PushBehindShown
  <2>2. CASE d = c /\ t = m.text /\ w = m.uid
    BY <1>6, <2>2
  <2> QED
    BY <1>8, <2>1, <2>2
<1>16. OwnAsk'
  <2> SUFFICES ASSUME NEW u \in Uids, NEW d \in User, NEW t \in Nat, NEW w \in Nat,
                      Asks(up[u], t), ~ sent[t].early, Shows(mMessages'[d], t, w)
               PROVE  mClient[d] \in {u, 0}
    BY <1>4 DEF OwnAsk
  <2>1. Shows(mMessages[d], t, w)
    BY <1>8, <1>9
  <2> QED
    BY <2>1 DEF Ordered, OwnAsk
<1>17. OwnPush'
  <2> SUFFICES ASSUME NEW d \in User, mClient[d] # 0, NEW t \in Nat, NEW w \in Nat, NEW x \in Nat,
                      Pushes(down'[mClient[d]], t, w), Shows(mMessages'[d], t, x)
               PROVE  sent[t].from = d /\ (sent[t].early \/ w = mClient[d])
    BY <1>4 DEF OwnPush
  <2>1. Pushes(down[mClient[d]], t, w)
    BY <1>3, <1>7
  <2>2. Shows(mMessages[d], t, x)
    BY <1>6, <1>8
  <2> QED
    BY <2>1, <2>2 DEF Ordered, OwnPush
<1> QED
  BY <1>10, <1>11, <1>12, <1>13, <1>14, <1>15, <1>16, <1>17 DEF Ordered

LEMMA OrderedSays ==
    ASSUME TypeOK, Right, Ordered, NEW c \in User, NEW to \in Nat, Say(c, to)
    PROVE  Ordered'
<1>1. PICK n \in Nat, r \in Messages, e \in Entries : Saying(c, to, n, r, e)
  BY SayShape
<1>2. /\ n \notin DOMAIN sent /\ \A t \in DOMAIN sent : sent'[t] = sent[t] /\ t \in Nat /\ t < n
      /\ sent'[n].from = c /\ Ask(r) /\ r.text = n /\ e.uid = mMyUid[c] /\ e.text = n
      /\ mMessages' = [mMessages EXCEPT ![c] = Append(mMessages[c], e)]
      /\ \/ mClient[c] = 0 /\ early' = [early EXCEPT ![c] = Append(early[c], r)] /\ up' = up
         \/ /\ mClient[c] # 0 /\ early' = early
            /\ up'[mClient[c]] \in {up[mClient[c]], Append(up[mClient[c]], r)}
            /\ \A v \in Uids \ {mClient[c]} : up'[v] = up[v]
      /\ UNCHANGED <<serverVars, down, mClient, mMyUid>>
  BY <1>1 DEF Saying
<1>3. Uids' = Uids /\ UNCHANGED <<down, mClient, mMyUid>>
  BY <1>2, UidsKept DEF serverVars
<1>4. /\ DOMAIN mMessages = User /\ mMessages[c] \in Seq(Entries)
      /\ DOMAIN early = User /\ early[c] \in Seq(Messages)
      /\ mClient[c] # 0 => mClient[c] \in Uids /\ up[mClient[c]] \in Seq(Messages)
  BY DEF TypeOK, TextsOK, Entries, NetOK, ProgramOK
<1>5. ASSUME NEW q \in Seq(Messages), AsksOrdered(q), \A t : Asks(q, t) => t \in DOMAIN sent
      PROVE  /\ AsksOrdered(Append(q, r))
             /\ \A t : Asks(Append(q, r), t) => Asks(q, t) \/ t = n
  <2>1. \A t : Asks(q, t) => t < r.text
    BY <1>2, <1>5
  <2>2. AsksOrdered(Append(q, r))
    BY <1>5, <2>1, AsksAppend
  <2>3. \A t : Asks(Append(q, r), t) => Asks(q, t) \/ t = r.text
    BY AsksAppend
  <2> QED
    BY <1>2, <2>2, <2>3
<1>6. /\ \A u \in Uids : \A t : Asks(up[u], t) => t \in DOMAIN sent
      /\ \A d \in User : \A t : Asks(early[d], t) => t \in DOMAIN sent
      /\ \A v \in Uids : \A t, w : Pushes(down[v], t, w) => t \in DOMAIN sent
      /\ \A d \in User : \A t, w : Shows(mMessages[d], t, w) => t \in DOMAIN sent
  BY TextsKnown
<1>7. /\ \A d \in User : AsksOrdered(early[d])
      /\ \A u \in Uids : AsksOrdered(up[u]) /\ PushesOrdered(down[u])
  BY DEF Ordered, Queued
<1>8. ASSUME NEW u \in Uids
      PROVE  /\ AsksOrdered(up'[u])
             /\ \A t : Asks(up'[u], t) => Asks(up[u], t) \/ (t = n /\ u = mClient[c] /\ mClient[c] # 0)
  <2>1. CASE up'[u] = up[u]
    BY <1>7, <2>1
  <2>2. CASE u = mClient[c] /\ mClient[c] # 0 /\ up'[u] = Append(up[u], r)
    <3>1. AsksOrdered(Append(up[u], r)) /\ \A t : Asks(Append(up[u], r), t) => Asks(up[u], t) \/ t = n
      BY <1>4, <1>5, <1>6, <1>7, <2>2
    <3> QED
      BY <2>2, <3>1
  <2> QED
    BY <1>2, <2>1, <2>2
<1>9. ASSUME NEW d \in User
      PROVE  /\ AsksOrdered(early'[d])
             /\ \A t : Asks(early'[d], t) => Asks(early[d], t) \/ (t = n /\ d = c /\ mClient[c] = 0)
  <2>1. CASE early'[d] = early[d]
    BY <1>7, <2>1
  <2>2. CASE d = c /\ mClient[c] = 0 /\ early'[c] = Append(early[c], r)
    <3>1. AsksOrdered(Append(early[c], r)) /\ \A t : Asks(Append(early[c], r), t) => Asks(early[c], t) \/ t = n
      BY <1>4, <1>5, <1>6, <1>7
    <3> QED
      BY <2>2, <3>1
  <2> QED
    BY <1>2, <1>4, <2>1, <2>2
<1>10. ASSUME NEW d \in User, NEW t, NEW w, Shows(mMessages'[d], t, w)
       PROVE  Shows(mMessages[d], t, w) \/ (d = c /\ t = n /\ w = mMyUid[c])
  <2>1. Shows(Append(mMessages[c], e), t, w) => Shows(mMessages[c], t, w) \/ (t = n /\ w = mMyUid[c])
    BY <1>2, <1>4, ShowsAppend
  <2>2. mMessages'[d] = IF d = c THEN Append(mMessages[c], e) ELSE mMessages[d]
    BY <1>2, <1>4
  <2> QED
    BY <1>10, <2>1, <2>2
<1>11. /\ \A u \in Uids : ~ Asks(up[u], n)
       /\ \A d \in User : ~ Asks(early[d], n)
       /\ \A v \in Uids : \A w : ~ Pushes(down[v], n, w)
       /\ \A d \in User : \A w : ~ Shows(mMessages[d], n, w)
  BY <1>2, <1>6
<1>12. Queued'
  BY <1>3, <1>7, <1>8, <1>9 DEF Queued
<1>13. AskedOnce'
  <2>1. ASSUME NEW u \in Uids, NEW w \in Uids, NEW t \in Nat, Asks(up'[u], t), Asks(up'[w], t)
        PROVE  u = w
    <3>1. Asks(up[u], t) \/ (t = n /\ u = mClient[c])
      BY <1>8, <2>1
    <3>2. Asks(up[w], t) \/ (t = n /\ w = mClient[c])
      BY <1>8, <2>1
    <3> QED
      BY <1>11, <3>1, <3>2 DEF Ordered, AskedOnce
  <2>2. ASSUME NEW u \in Uids, NEW d \in User, NEW t \in Nat, Asks(up'[u], t), Asks(early'[d], t)
        PROVE  FALSE
    <3>1. Asks(up[u], t) \/ (t = n /\ mClient[c] # 0)
      BY <1>8, <2>2
    <3>2. Asks(early[d], t) \/ (t = n /\ mClient[c] = 0)
      BY <1>9, <2>2
    <3> QED
      BY <1>11, <3>1, <3>2 DEF Ordered, AskedOnce
  <2> QED
    BY <1>3, <2>1, <2>2 DEF AskedOnce
<1>14. AskedFirst'
  <2> SUFFICES ASSUME NEW t \in Nat, (\E u \in Uids : Asks(up'[u], t)) \/ (\E d \in User : Asks(early'[d], t))
               PROVE  /\ \A v \in Uids : \A w \in Nat : ~ Pushes(down[v], t, w)
                      /\ \A d \in User : \A w \in Nat : Shows(mMessages'[d], t, w) => sent'[t].from = d
    BY <1>3 DEF AskedFirst
  <2>1. CASE t = n
    <3>1. \A d \in User : \A w \in Nat : Shows(mMessages'[d], t, w) => d = c
      BY <1>10, <1>11, <2>1
    <3> QED
      BY <1>2, <1>11, <2>1, <3>1
  <2>2. CASE t # n
    <3>1. (\E u \in Uids : Asks(up[u], t)) \/ (\E d \in User : Asks(early[d], t))
      BY <1>8, <1>9, <2>2
    <3>2. /\ \A v \in Uids : \A w \in Nat : ~ Pushes(down[v], t, w)
          /\ \A d \in User : \A w \in Nat : Shows(mMessages[d], t, w) => sent[t].from = d
      BY <3>1 DEF Ordered, AskedFirst
    <3>3. sent'[t] = sent[t]
      BY <1>2, <1>6, <3>1
    <3> QED
      BY <1>10, <2>2, <3>2, <3>3
  <2> QED
    BY <2>1, <2>2
<1>15. AskBehindPush'
  <2> SUFFICES ASSUME NEW u \in Uids, NEW v \in Uids, NEW t \in Nat, NEW k \in Nat,
                      Asks(up'[u], k), Pushes(down[v], t, u)
               PROVE  t < k
    BY <1>3 DEF AskBehindPush
  <2>1. CASE Asks(up[u], k)
    BY <2>1 DEF Ordered, AskBehindPush
  <2>2. CASE k = n
    BY <1>2, <1>6, <2>2
  <2> QED
    BY <1>8, <2>1, <2>2
<1>16. AskBehindShown'
  <2> SUFFICES ASSUME NEW u \in Uids, NEW d \in User, NEW t \in Nat, NEW k \in Nat,
                      Asks(up'[u], k), Shows(mMessages'[d], t, u), u # mMyUid[d]
               PROVE  t < k
    BY <1>3 DEF AskBehindShown
  <2>1. Shows(mMessages[d], t, u)
    BY <1>10
  <2>2. CASE Asks(up[u], k)
    BY <2>1, <2>2 DEF Ordered, AskBehindShown
  <2>3. CASE k = n
    BY <1>2, <1>6, <2>1, <2>3
  <2> QED
    BY <1>8, <2>2, <2>3
<1>17. PushBehindShown'
  <2> SUFFICES ASSUME NEW d \in User, mClient[d] # 0, NEW w \in Nat, NEW t \in Nat, NEW k \in Nat,
                      Shows(mMessages'[d], t, w), Pushes(down[mClient[d]], k, w), w # mMyUid[d]
               PROVE  t < k
    BY <1>3 DEF PushBehindShown
  <2>1. Shows(mMessages[d], t, w)
    BY <1>10
  <2> QED
    BY <2>1 DEF Ordered, PushBehindShown
<1>18. OwnAsk'
  <2> SUFFICES ASSUME NEW u \in Uids, NEW d \in User, NEW t \in Nat, NEW w \in Nat,
                      Asks(up'[u], t), ~ sent'[t].early, Shows(mMessages'[d], t, w)
               PROVE  mClient[d] \in {u, 0}
    BY <1>3 DEF OwnAsk
  <2>1. CASE t = n
    <3>1. u = mClient[c]
      BY <1>8, <1>11, <2>1
    <3>2. d = c
      BY <1>10, <1>11, <2>1
    <3> QED
      BY <3>1, <3>2
  <2>2. CASE t # n
    <3>1. Asks(up[u], t) /\ Shows(mMessages[d], t, w)
      BY <1>8, <1>10, <2>2
    <3>2. ~ sent[t].early
      BY <1>2, <1>6, <3>1
    <3> QED
      BY <3>1, <3>2 DEF Ordered, OwnAsk
  <2> QED
    BY <2>1, <2>2
<1>19. OwnPush'
  <2> SUFFICES ASSUME NEW d \in User, mClient[d] # 0, NEW t \in Nat, NEW w \in Nat, NEW x \in Nat,
                      Pushes(down[mClient[d]], t, w), Shows(mMessages'[d], t, x)
               PROVE  sent'[t].from = d /\ (sent'[t].early \/ w = mClient[d])
    BY <1>3 DEF OwnPush
  <2>1. mClient[d] \in Uids
    BY DEF TypeOK, ProgramOK
  <2>2. t \in DOMAIN sent /\ t # n /\ sent'[t] = sent[t]
    BY <1>2, <1>6, <2>1
  <2>3. Shows(mMessages[d], t, x)
    BY <1>10, <2>2
  <2> QED
    BY <2>2, <2>3 DEF Ordered, OwnPush
<1> QED
  BY <1>12, <1>13, <1>14, <1>15, <1>16, <1>17, <1>18, <1>19 DEF Ordered

LEMMA OrderedStays ==
    ASSUME TypeOK, Addressed, Links, Right, Ordered, [Next]_vars
    PROVE  Ordered'
BY Steps, OrderedQuiet, OrderedDelivers, OrderedConnected, OrderedReceives, OrderedSays

-----------------------------------------------------------------------------
(* A client learns its uid before its own messages come back.              *)

\* Introduced for a client with connection v, over the queues d and u of v.
Met(v, uid, l, u, d, s) ==
    v # 0 /\ uid = 0 => WelcomeAhead(d, v, s) /\ (l = "up" /\ NoWelcome(d) => LoginAhead(u, s))

LEMMA IntroducedParts ==
    Introduced <=> \A c \in User : Met(mClient[c], mMyUid[c], link[mClient[c]], up[mClient[c]], down[mClient[c]], sent)
BY DEF Introduced, Met

LEMMA IntroducedPartsNext ==
    Introduced' <=> \A c \in User :
        Met(mClient'[c], mMyUid'[c], link'[mClient'[c]], up'[mClient'[c]], down'[mClient'[c]], sent')
BY DEF Introduced, Met

LEMMA LoginQueue ==
    ASSUME NEW u \in Seq(Messages), NEW m \in Messages, NEW s
    PROVE  /\ LoginAhead(u, s) => LoginAhead(Append(u, m), s)
           /\ LoginAhead(u, s) => u # <<>> /\ ~ LateAsk(Head(u), s)
           /\ LoginAhead(u, s) /\ u # <<>> /\ Head(u).kind # "login" => LoginAhead(Tail(u), s)
           /\ AllPostedEarly(u, s) /\ m.kind = "login" => LoginAhead(Append(u, m), s)
<1>1. ASSUME LoginAhead(u, s) PROVE LoginAhead(Append(u, m), s)
  <2>1. PICK k \in DOMAIN u : u[k].kind = "login" /\ \A i \in DOMAIN u : LateAsk(u[i], s) => k < i
    BY <1>1 DEF LoginAhead
  <2>2. k \in DOMAIN Append(u, m) /\ Append(u, m)[k].kind = "login"
    BY <2>1, AppendIs
  <2>3. \A i \in DOMAIN Append(u, m) : LateAsk(Append(u, m)[i], s) => k < i
    BY <2>1, AppendIs
  <2> QED
    BY <2>2, <2>3 DEF LoginAhead
<1>2. ASSUME LoginAhead(u, s) PROVE u # <<>> /\ ~ LateAsk(Head(u), s)
  <2>1. PICK k \in DOMAIN u : u[k].kind = "login" /\ \A i \in DOMAIN u : LateAsk(u[i], s) => k < i
    BY <1>2 DEF LoginAhead
  <2>2. u # <<>> /\ k \in Nat /\ ~ (k < 1)
    BY <2>1
  <2>3. 1 \in DOMAIN u /\ u[1] = Head(u)
    BY <2>2, TailIs
  <2> QED
    BY <2>1, <2>2, <2>3
<1>3. ASSUME LoginAhead(u, s), u # <<>>, Head(u).kind # "login" PROVE LoginAhead(Tail(u), s)
  <2>1. PICK k \in DOMAIN u : u[k].kind = "login" /\ \A i \in DOMAIN u : LateAsk(u[i], s) => k < i
    BY <1>3 DEF LoginAhead
  <2>2. k # 1
    BY <1>3, <2>1, TailIs
  <2>3. k - 1 \in DOMAIN Tail(u) /\ Tail(u)[k - 1].kind = "login" /\ k \in Nat
    BY <1>3, <2>1, <2>2, TailIs
  <2>4. ASSUME NEW i \in DOMAIN Tail(u), LateAsk(Tail(u)[i], s) PROVE k - 1 < i
    <3>1. i \in Nat /\ i + 1 \in DOMAIN u /\ Tail(u)[i] = u[i + 1]
      BY <1>3, TailIs
    <3>2. k < i + 1
      BY <2>1, <2>4, <3>1
    <3> QED
      BY <2>3, <3>1, <3>2
  <2> QED
    BY <2>3, <2>4 DEF LoginAhead
<1>4. ASSUME AllPostedEarly(u, s), m.kind = "login" PROVE LoginAhead(Append(u, m), s)
  <2>1. Len(u) + 1 \in DOMAIN Append(u, m) /\ Append(u, m)[Len(u) + 1] = m
    BY AppendIs
  <2>2. ~ Ask(m)
    BY <1>4 DEF Ask
  <2>3. \A i \in DOMAIN Append(u, m) : ~ LateAsk(Append(u, m)[i], s)
    BY <1>4, <2>2, AppendIs DEF AllPostedEarly, LateAsk
  <2> QED
    BY <1>4, <2>1, <2>3 DEF LoginAhead
<1> QED
  BY <1>1, <1>2, <1>3, <1>4

LEMMA WelcomeQueue ==
    ASSUME NEW d \in Seq(Messages), NEW m \in Messages, NEW v, NEW s
    PROVE  /\ WelcomeAhead(d, v, s) /\ (LateOwn(m, v, s) => ~ NoWelcome(d)) => WelcomeAhead(Append(d, m), v, s)
           /\ NoWelcome(Append(d, m)) => NoWelcome(d) /\ m.kind # "welcome"
           /\ WelcomeAhead(d, v, s) /\ d # <<>> => ~ LateOwn(Head(d), v, s)
           /\ d # <<>> /\ Head(d).kind # "welcome" =>
                 /\ WelcomeAhead(d, v, s) => WelcomeAhead(Tail(d), v, s)
                 /\ NoWelcome(Tail(d)) => NoWelcome(d)
<1>1. ASSUME WelcomeAhead(d, v, s), LateOwn(m, v, s) => ~ NoWelcome(d)
      PROVE  WelcomeAhead(Append(d, m), v, s)
  <2> SUFFICES ASSUME NEW j \in DOMAIN Append(d, m), LateOwn(Append(d, m)[j], v, s)
               PROVE  \E i \in DOMAIN Append(d, m) : i < j /\ Append(d, m)[i].kind = "welcome"
    BY DEF WelcomeAhead
  <2>1. CASE j \in DOMAIN d /\ Append(d, m)[j] = d[j]
    <3>1. PICK i \in DOMAIN d : i < j /\ d[i].kind = "welcome"
      BY <1>1, <2>1 DEF WelcomeAhead
    <3> QED
      BY <3>1, AppendIs
  <2>2. CASE j = Len(d) + 1 /\ Append(d, m)[j] = m
    <3>1. PICK i \in DOMAIN d : d[i].kind = "welcome"
      BY <1>1, <2>2 DEF NoWelcome
    <3> QED
      BY <2>2, <3>1, AppendIs
  <2> QED
    BY <2>1, <2>2, AppendIs
<1>2. NoWelcome(Append(d, m)) => NoWelcome(d) /\ m.kind # "welcome"
  BY AppendIs DEF NoWelcome
<1>3. ASSUME WelcomeAhead(d, v, s), d # <<>> PROVE ~ LateOwn(Head(d), v, s)
  <2>1. 1 \in DOMAIN d /\ d[1] = Head(d) /\ \A i \in DOMAIN d : ~ (i < 1)
    BY <1>3, TailIs
  <2> QED
    BY <1>3, <2>1 DEF WelcomeAhead
<1>4. ASSUME d # <<>>, Head(d).kind # "welcome", WelcomeAhead(d, v, s) PROVE WelcomeAhead(Tail(d), v, s)
  <2> SUFFICES ASSUME NEW j \in DOMAIN Tail(d), LateOwn(Tail(d)[j], v, s)
               PROVE  \E i \in DOMAIN Tail(d) : i < j /\ Tail(d)[i].kind = "welcome"
    BY DEF WelcomeAhead
  <2>1. j \in Nat /\ j + 1 \in DOMAIN d /\ Tail(d)[j] = d[j + 1]
    BY <1>4, TailIs
  <2>2. PICK i \in DOMAIN d : i < j + 1 /\ d[i].kind = "welcome"
    BY <1>4, <2>1 DEF WelcomeAhead
  <2>3. i \in Nat /\ i # 1
    BY <1>4, <2>2, TailIs
  <2>4. i - 1 \in DOMAIN Tail(d) /\ Tail(d)[i - 1].kind = "welcome" /\ i - 1 < j
    BY <1>4, <2>1, <2>2, <2>3, TailIs
  <2> QED
    BY <2>4
<1>5. ASSUME d # <<>>, Head(d).kind # "welcome", NoWelcome(Tail(d)) PROVE NoWelcome(d)
  <2> SUFFICES ASSUME NEW i \in DOMAIN d PROVE d[i].kind # "welcome"
    BY DEF NoWelcome
  <2>1. i # 1 => i - 1 \in DOMAIN Tail(d) /\ Tail(d)[i - 1] = d[i]
    BY <1>5, TailIs
  <2> QED
    BY <1>5, <2>1, TailIs DEF NoWelcome
<1> QED
  BY <1>1, <1>2, <1>3, <1>4, <1>5

\* More typed changes nothing about what is on its way.
LEMMA LateGrows ==
    ASSUME NEW s, NEW s2, Grows(s, s2)
    PROVE  /\ \A u, c : AllAsksRight(u, c, s) /\ LoginAhead(u, s) => LoginAhead(u, s2)
           /\ \A d, v, o : AllPushesRight(d, v, s, o) /\ WelcomeAhead(d, v, s) => WelcomeAhead(d, v, s2)
<1>1. ASSUME NEW u, NEW c, AllAsksRight(u, c, s), LoginAhead(u, s) PROVE LoginAhead(u, s2)
  <2>1. \A i \in DOMAIN u : LateAsk(u[i], s2) => LateAsk(u[i], s)
    BY <1>1 DEF LateAsk, AllAsksRight, AskRight, Grows
  <2> QED
    BY <1>1, <2>1 DEF LoginAhead
<1>2. ASSUME NEW d, NEW v, NEW o, AllPushesRight(d, v, s, o), WelcomeAhead(d, v, s) PROVE WelcomeAhead(d, v, s2)
  <2>1. \A i \in DOMAIN d : LateOwn(d[i], v, s2) => LateOwn(d[i], v, s)
    BY <1>2 DEF LateOwn, AllPushesRight, PushRight, Grows
  <2> QED
    BY <1>2, <2>1 DEF WelcomeAhead
<1> QED
  BY <1>1, <1>2

\* What the server's handling of session u's next request does for another session v.
LEMMA ServeOthers ==
    ASSUME TypeOK, NEW u \in Uids, Serve(u), NEW v \in Uids, v # u
    PROVE  /\ up'[v] = up[v]
           /\ \/ down'[v] = down[v]
              \/ \E m \in Messages : /\ down'[v] = Append(down[v], m) /\ m.uid = u
                                     /\ m.kind \in {"user_joined", "public_message", "private_message"}
<1> DEFINE r == Head(up[u])
<1>1. /\ ServerOK /\ NetOK /\ u \in DOMAIN mSessions /\ r \in Messages /\ up'[v] = up[v]
      /\ ServeLogin(u, r) \/ ServeList(u, r) \/ ServePublic(u, r) \/ ServePrivate(u, r)
  BY ServeShape DEF TypeOK
<1> HIDE DEF r
<1>2. CASE ServeLogin(u, r)
  <2>1. PICK joined \in Messages, welcome \in Messages :
           /\ joined.kind = "user_joined" /\ joined.uid = u
           /\ \A w \in Uids \ {u} :
                 down'[w] = IF Reached(w) THEN Append(down[w], joined) ELSE down[w]
    BY <1>1, <1>2, LoginShape
  <2> QED
    BY <1>1, <2>1
<1>3. CASE ServeList(u, r)
  BY <1>1, <1>3, ListShape
<1>4. CASE ServePublic(u, r)
  <2>1. PICK m \in Messages :
           /\ m.kind = "public_message" /\ m.uid = u
           /\ \A w \in Uids : down'[w] = IF Reached(w) THEN Append(down[w], m) ELSE down[w]
    BY <1>1, <1>4, PublicShape
  <2> QED
    BY <1>1, <2>1
<1>5. CASE ServePrivate(u, r)
  <2>1. PICK m \in Messages :
           /\ m.kind = "private_message" /\ m.uid = u
           /\ \A w \in Uids : down'[w] = IF w = r.uid /\ Reached(w) THEN Append(down[w], m) ELSE down[w]
    <3>1. ServerOK /\ NetOK /\ u \in DOMAIN mSessions /\ r \in Messages /\ ServePrivate(u, r)
      BY <1>1, <1>5
    <3> QED
      BY <3>1, PrivateShape
  <2> QED
    BY <1>1, <2>1
<1> QED
  BY <1>1, <1>2, <1>3, <1>4, <1>5

\* And for session v itself.
LEMMA ServeOwn ==
    ASSUME TypeOK, NEW v \in Uids, Serve(v), WelcomeAhead(down[v], v, sent),
           link[v] = "up" /\ NoWelcome(down[v]) => LoginAhead(up[v], sent)
    PROVE  /\ WelcomeAhead(down'[v], v, sent)
           /\ link[v] = "up" /\ NoWelcome(down'[v]) => LoginAhead(up'[v], sent)
<1> DEFINE r == Head(up[v])
           q == down[v]
<1>1. /\ ServerOK /\ NetOK /\ v \in DOMAIN mSessions /\ r \in Messages
      /\ up[v] \in Seq(Messages) /\ up[v] # <<>> /\ up'[v] = Tail(up[v])
      /\ ServeLogin(v, r) \/ ServeList(v, r) \/ ServePublic(v, r) \/ ServePrivate(v, r)
  BY ServeShape DEF TypeOK
<1>2. q \in Seq(Messages)
  BY DEF TypeOK, NetOK
<1>3. /\ LoginAhead(up[v], sent) => ~ LateAsk(r, sent)
      /\ LoginAhead(up[v], sent) /\ r.kind # "login" => LoginAhead(up'[v], sent)
  <2>1. r \in Messages /\ up[v] \in Seq(Messages)
    BY <1>1
  <2>2. LoginAhead(up[v], sent) => ~ LateAsk(r, sent)
    BY <2>1, LoginQueue
  <2>3. LoginAhead(up[v], sent) /\ r.kind # "login" => LoginAhead(Tail(up[v]), sent)
    BY <1>1, <2>1, LoginQueue
  <2> QED
    BY <1>1, <2>2, <2>3
<1> HIDE DEF r
<1>4. CASE ServeLogin(v, r)
  <2>1. PICK joined \in Messages, welcome \in Messages :
           /\ joined.kind = "user_joined" /\ welcome.kind = "welcome"
           /\ down'[v] = IF Reached(v) THEN Append(Append(q, joined), welcome) ELSE q
    BY <1>1, <1>4, LoginShape
  <2>2. CASE Reached(v)
    <3>1. ~ LateOwn(joined, v, sent) /\ ~ LateOwn(welcome, v, sent)
      BY <2>1 DEF LateOwn, Push
    <3>2. Append(q, joined) \in Seq(Messages) /\ WelcomeAhead(Append(q, joined), v, sent)
      BY <1>2, <2>1, <3>1, WelcomeQueue, AppendIs
    <3>3. /\ WelcomeAhead(Append(Append(q, joined), welcome), v, sent)
          /\ ~ NoWelcome(Append(Append(q, joined), welcome))
      BY <2>1, <3>1, <3>2, WelcomeQueue
    <3> QED
      BY <2>1, <2>2, <3>3
  <2>3. CASE ~ Reached(v)
    BY <1>1, <2>1, <2>3 DEF Reached
  <2> QED
    BY <2>2, <2>3
<1>5. CASE ServeList(v, r)
  <2>1. PICK m \in Messages :
           /\ r.kind = "client_list" /\ m.kind = "clients"
           /\ down'[v] = IF link[v] = "up" THEN Append(q, m) ELSE q
    BY <1>1, <1>5, ListShape
  <2>2. ~ LateOwn(m, v, sent)
    BY <2>1 DEF LateOwn, Push
  <2>3. WelcomeAhead(Append(q, m), v, sent) /\ (NoWelcome(Append(q, m)) => NoWelcome(q))
    BY <1>2, <2>2, WelcomeQueue
  <2> QED
    BY <1>3, <2>1, <2>3
<1>6. CASE ServePublic(v, r) \/ ServePrivate(v, r)
  <2>1. Delivers(v)
    BY <1>6 DEF Delivers, r
  <2>2. PICK m \in Messages : Delivering(v, r, m)
    BY <2>1, DeliversShape DEF r
  <2>3. /\ Ask(r) /\ m.text = r.text
        /\ down'[v] = q \/ (down'[v] = Append(q, m) /\ Reached(v))
    BY <2>2 DEF Delivering
  <2>4. r.kind # "login" /\ (LateOwn(m, v, sent) => LateAsk(r, sent))
    BY <2>3 DEF Ask, LateOwn, LateAsk
  <2>5. CASE down'[v] = q
    BY <1>3, <2>4, <2>5
  <2>6. CASE down'[v] = Append(q, m) /\ Reached(v)
    <3>1. LateOwn(m, v, sent) => ~ NoWelcome(q)
      BY <1>3, <2>4, <2>6 DEF Reached
    <3>2. WelcomeAhead(Append(q, m), v, sent) /\ (NoWelcome(Append(q, m)) => NoWelcome(q))
      BY <1>2, <3>1, WelcomeQueue
    <3> QED
      BY <1>3, <2>4, <2>6, <3>2
  <2> QED
    BY <2>3, <2>5, <2>6
<1> QED
  BY <1>1, <1>4, <1>5, <1>6

LEMMA IntroducedStays ==
    ASSUME TypeOK, Addressed, Links, Right, Introduced, [Next]_vars
    PROVE  Introduced'
<1>1. /\ DOMAIN mClient = User /\ DOMAIN mMyUid = User /\ DOMAIN link = Uids /\ DOMAIN early = User
      /\ up \in [Uids -> Seq(Messages)] /\ down \in [Uids -> Seq(Messages)]
      /\ \A c \in User : mClient[c] # 0 => mClient[c] \in Uids /\ owner[mClient[c]] = c
      /\ \A c \in User : early[c] \in Seq(Messages)
  BY DEF TypeOK, NetOK, ProgramOK
<1> DEFINE Now(c) == Met(mClient[c], mMyUid[c], link[mClient[c]], up[mClient[c]], down[mClient[c]], sent)
           Later(c) == Met(mClient'[c], mMyUid'[c], link'[mClient'[c]], up'[mClient'[c]], down'[mClient'[c]], sent')
<1>2. \A c \in User : Now(c)
  BY IntroducedParts
<1> SUFFICES ASSUME NEW c \in User PROVE Later(c)
  BY IntroducedPartsNext
<1> DEFINE v == mClient[c]
<1>3. v # 0 => v \in Uids /\ owner[v] = c /\ down[v] \in Seq(Messages) /\ up[v] \in Seq(Messages)
  BY <1>1
<1>4. mClient'[c] = 0 \/ mMyUid'[c] # 0 => Later(c)
  BY DEF Met
<1>5. v # 0 /\ mMyUid[c] = 0 =>
         WelcomeAhead(down[v], v, sent) /\ (link[v] = "up" /\ NoWelcome(down[v]) => LoginAhead(up[v], sent))
  BY <1>2 DEF Met
<1>6. ASSUME mClient'[c] = v, mMyUid'[c] = mMyUid[c], sent' = sent,
             v # 0 => link'[v] \in {link[v], "lost"} /\ up'[v] = up[v] /\ down'[v] = down[v]
      PROVE  Later(c)
  BY <1>5, <1>6 DEF Met
<1> HIDE DEF Later
<1>7. ASSUME NEW u \in Uids, Serve(u) PROVE Later(c)
  <2>1. UNCHANGED <<link, mClient, mMyUid, sent>>
    BY <1>7, ServeShape DEF TypeOK, contextVars
  <2> SUFFICES ASSUME v # 0, mMyUid[c] = 0
               PROVE  /\ WelcomeAhead(down'[v], v, sent)
                      /\ link[v] = "up" /\ NoWelcome(down'[v]) => LoginAhead(up'[v], sent)
    BY <2>1 DEF Later, Met
  <2>2. CASE v = u
    BY <1>3, <1>5, <1>7, <2>2, ServeOwn
  <2>3. CASE v # u
    <3>1. up'[v] = up[v]
      BY <1>3, <1>7, <2>3, ServeOthers
    <3>2. CASE down'[v] = down[v]
      BY <1>5, <3>1, <3>2
    <3>3. ASSUME NEW m \in Messages, down'[v] = Append(down[v], m), m.uid = u,
                 m.kind \in {"user_joined", "public_message", "private_message"}
          PROVE  /\ WelcomeAhead(down'[v], v, sent) /\ (NoWelcome(down'[v]) => NoWelcome(down[v]))
      <4>1. ~ LateOwn(m, v, sent)
        BY <2>3, <3>3 DEF LateOwn
      <4>2. WelcomeAhead(Append(down[v], m), v, sent) /\ (NoWelcome(Append(down[v], m)) => NoWelcome(down[v]))
        BY <1>3, <1>5, <4>1, WelcomeQueue
      <4> QED
        BY <3>3, <4>2
    <3> QED
      BY <1>3, <1>5, <1>7, <2>3, <3>1, <3>2, <3>3, ServeOthers
  <2> QED
    BY <2>2, <2>3
<1>8. ASSUME NEW u \in Uids, Leave(u) PROVE Later(c)
  <2>1. UNCHANGED <<link, up, mClient, mMyUid, sent>>
    BY <1>8, LeaveShape DEF TypeOK, contextVars
  <2>2. PICK m \in Messages :
           /\ m.kind = "user_left"
           /\ \A w \in Uids : down'[w] = IF Reached(w) THEN Append(down[w], m) ELSE down[w]
    BY <1>8, LeaveShape DEF TypeOK
  <2> SUFFICES ASSUME v # 0, mMyUid[c] = 0
               PROVE  /\ WelcomeAhead(down'[v], v, sent)
                      /\ link[v] = "up" /\ NoWelcome(down'[v]) => LoginAhead(up[v], sent)
    BY <2>1 DEF Later, Met
  <2>3. ~ LateOwn(m, v, sent)
    BY <2>2 DEF LateOwn, Push
  <2>4. WelcomeAhead(Append(down[v], m), v, sent) /\ (NoWelcome(Append(down[v], m)) => NoWelcome(down[v]))
    BY <1>3, <1>5, <2>3, WelcomeQueue
  <2>5. down'[v] = down[v] \/ down'[v] = Append(down[v], m)
    BY <1>3, <2>2
  <2> QED
    BY <1>5, <2>4, <2>5
<1>9. ASSUME NEW u \in Uids, Lose(u) PROVE Later(c)
  <2>1. link' = [link EXCEPT ![u] = "lost"] /\ UNCHANGED <<up, down, mClient, mMyUid, sent>>
    BY <1>9 DEF Lose, contextVars
  <2> QED
    BY <1>1, <1>3, <1>6, <2>1
<1>10. ASSUME NEW d \in User, StartConnection(d) \/ StartRefused(d) \/ Launch(d) PROVE Later(c)
  <2>1. /\ mClient' = [mClient EXCEPT ![d] = 0] /\ mMyUid' = [mMyUid EXCEPT ![d] = 0]
        /\ UNCHANGED <<link, up, down, sent>>
    BY <1>10, ForgetShape DEF Forget, netVars
  <2>2. CASE c = d
    BY <1>1, <1>4, <2>1, <2>2
  <2>3. CASE c # d
    BY <1>1, <1>6, <2>1, <2>3
  <2> QED
    BY <2>2, <2>3
<1>11. ASSUME NEW d \in User, Connected(d) PROVE Later(c)
  <2> DEFINE n == mNextUid
  <2>1. /\ n \in Nat \ {0} /\ n \notin Uids /\ down'[n] = <<>>
        /\ \A u \in Uids : link'[u] = link[u] /\ up'[u] = up[u] /\ down'[u] = down[u]
        /\ mClient' = [mClient EXCEPT ![d] = n] /\ mMyUid' = mMyUid /\ sent' = sent
    BY <1>11, ConnectedShape
  <2>2. PICK r \in Messages : r.kind = "login" /\ up'[n] = Append(early[d], r)
    BY <1>11, ConnectedShape
  <2> HIDE DEF n
  <2>3. CASE c = d
    <3>1. mClient'[c] = n
      BY <1>1, <2>1, <2>3
    <3>2. early[c] \in Seq(Messages) /\ AllPostedEarly(early[c], sent)
      BY <1>1 DEF Right
    <3>3. LoginAhead(up'[n], sent)
      BY <2>2, <2>3, <3>2, LoginQueue
    <3>4. WelcomeAhead(down'[n], n, sent)
      BY <2>1 DEF WelcomeAhead
    <3> QED
      BY <2>1, <3>1, <3>3, <3>4 DEF Later, Met
  <2>4. CASE c # d
    BY <1>1, <1>3, <1>6, <2>1, <2>4
  <2> QED
    BY <2>3, <2>4
<1>12. ASSUME NEW d \in User, Disconnected(d) \/ Quit(d) PROVE Later(c)
  <2>1. /\ mClient' = [mClient EXCEPT ![d] = 0] /\ UNCHANGED <<up, down, mMyUid, sent>>
        /\ \/ link' = link
           \/ mClient[d] # 0 /\ link' = [link EXCEPT ![mClient[d]] = "lost"]
    BY <1>12 DEF Disconnected, Quit, netVars
  <2>2. CASE c = d
    BY <1>1, <1>4, <2>1, <2>2
  <2>3. CASE c # d
    BY <1>1, <1>3, <1>6, <2>1, <2>3
  <2> QED
    BY <2>2, <2>3
<1>13. ASSUME NEW d \in User, Poll(d) PROVE Later(c)
  <2> DEFINE m == Head(down[mClient[d]])
  <2>1. /\ mClient[d] \in Uids /\ mClient[d] # 0 /\ owner[mClient[d]] = d
        /\ down[mClient[d]] \in Seq(Messages) /\ down[mClient[d]] # <<>> /\ m \in Messages
        /\ down'[mClient[d]] = Tail(down[mClient[d]])
        /\ \A w \in Uids \ {mClient[d]} : down'[w] = down[w]
        /\ Welcome(d, m) \/ Clients(d, m) \/ UserJoined(d, m) \/ UserLeft(d, m) \/ Arrives(d, m)
        /\ UNCHANGED <<link, mClient, sent>>
    BY <1>13, PollShape
  <2>2. MeantFor(m, mClient[d], Uids)
    BY <2>1, MeantTail DEF Addressed
  <2> HIDE DEF m
  <2>3. CASE Welcome(d, m)
    <3>1. m.kind = "welcome" /\ mMyUid' = [mMyUid EXCEPT ![d] = m.uid]
      BY <2>3 DEF Welcome
    <3>2. \A w \in Uids \ {mClient[d]} : up'[w] = up[w]
      BY <2>1, <2>3, WelcomeShape
    <3>3. CASE c = d
      BY <1>1, <1>4, <2>1, <2>2, <3>1, <3>3 DEF MeantFor
    <3>4. CASE c # d
      <4>1. mMyUid'[c] = mMyUid[c]
        BY <1>1, <3>1, <3>4
      <4> QED
        BY <1>3, <1>6, <2>1, <3>2, <3>4, <4>1
    <3> QED
      BY <3>3, <3>4
  <2>4. CASE ~ Welcome(d, m)
    <3>1. m.kind # "welcome" /\ mMyUid' = mMyUid /\ up' = up
      BY <2>1, <2>4 DEF Clients, UserJoined, UserLeft, Arrives
    <3>2. CASE c # d
      BY <1>3, <1>6, <2>1, <3>1, <3>2
    <3>3. CASE c = d
      <4> SUFFICES ASSUME v # 0, mMyUid[c] = 0
                   PROVE  /\ WelcomeAhead(Tail(down[v]), v, sent)
                          /\ link[v] = "up" /\ NoWelcome(Tail(down[v])) => LoginAhead(up[v], sent)
        BY <2>1, <3>1, <3>3 DEF Later, Met
      <4>1. down[v] \in Seq(Messages) /\ down[v] # <<>> /\ Head(down[v]).kind # "welcome" /\ m \in Messages
        BY <2>1, <3>1, <3>3 DEF m
      <4>2. WelcomeAhead(Tail(down[v]), v, sent) /\ (NoWelcome(Tail(down[v])) => NoWelcome(down[v]))
        BY <1>5, <4>1, WelcomeQueue
      <4> QED
        BY <1>5, <4>2
    <3> QED
      BY <3>2, <3>3
  <2> QED
    BY <2>3, <2>4
<1>14. ASSUME NEW d \in User, RenderHeader(d) \/ \E u \in 0 .. mNextUid : Select(d, u) PROVE Later(c)
  <2>1. UNCHANGED <<link, up, down, mClient, mMyUid, sent>>
    BY <1>14 DEF RenderHeader, Select, netVars, contextVars
  <2> QED
    BY <1>6, <2>1
<1>15. ASSUME NEW d \in User, NEW to \in Nat, Say(d, to) PROVE Later(c)
  <2>1. PICK n \in Nat, r \in Messages, e \in Entries : Saying(d, to, n, r, e)
    BY <1>15, SayShape
  <2>2. /\ DOMAIN sent' = DOMAIN sent \cup {n} /\ \A t \in DOMAIN sent : sent'[t] = sent[t]
        /\ UNCHANGED <<link, down, mClient, mMyUid>>
        /\ \/ up' = up
           \/ /\ mClient[d] # 0
              /\ up'[mClient[d]] \in {up[mClient[d]], Append(up[mClient[d]], r)}
              /\ \A w \in Uids \ {mClient[d]} : up'[w] = up[w]
    BY <2>1 DEF Saying
  <2>3. Grows(sent, sent')
    BY <2>2 DEF Grows
  <2> SUFFICES ASSUME v # 0, mMyUid[c] = 0
               PROVE  /\ WelcomeAhead(down[v], v, sent')
                      /\ link[v] = "up" /\ NoWelcome(down[v]) => LoginAhead(up'[v], sent')
    BY <2>2 DEF Later, Met
  <2>4. AllAsksRight(up[v], owner[v], sent) /\ AllPushesRight(down[v], v, sent, owner)
    BY <1>3 DEF Right
  <2>5. WelcomeAhead(down[v], v, sent')
    BY <1>5, <2>3, <2>4, LateGrows
  <2>6. LoginAhead(up[v], sent) => LoginAhead(up[v], sent')
    BY <2>3, <2>4, LateGrows
  <2>7. LoginAhead(up[v], sent') => LoginAhead(Append(up[v], r), sent')
    BY <1>3, LoginQueue
  <2>8. up'[v] \in {up[v], Append(up[v], r)}
    BY <1>3, <2>2
  <2> QED
    BY <1>5, <2>5, <2>6, <2>7, <2>8
<1>16. CASE UNCHANGED vars
  BY <1>6, <1>16 DEF vars, netVars, contextVars
<1> QED
  BY <1>7, <1>8, <1>9, <1>10, <1>11, <1>12, <1>13, <1>14, <1>15, <1>16, NextIs

-----------------------------------------------------------------------------
(* What is shown.                                                          *)

ListedOnce(list, c, s) ==
    \A i, j \in DOMAIN list : i < j /\ list[i].text = list[j].text =>
        c = s[list[i].text].from /\ c \in Terminal /\ s[list[i].text].early
ListedInOrder(list) ==
    \A i, j \in DOMAIN list : i < j /\ list[i].uid = list[j].uid => list[i].text < list[j].text

LEMMA ListParts ==
    /\ ShownOnce <=> \A c \in User : ListedOnce(mMessages[c], c, sent)
    /\ InOrder <=> \A c \in User : ListedInOrder(mMessages[c])
BY DEF ShownOnce, InOrder, ListedOnce, ListedInOrder

LEMMA ListPartsNext ==
    /\ ShownOnce' <=> \A c \in User : ListedOnce(mMessages'[c], c, sent')
    /\ InOrder' <=> \A c \in User : ListedInOrder(mMessages'[c])
BY DEF ShownOnce, InOrder, ListedOnce, ListedInOrder

LEMMA ListAppend ==
    ASSUME NEW list \in Seq(Entries), NEW e \in Entries
    PROVE  /\ \A c, s : /\ ListedOnce(list, c, s)
                        /\ \A w : Shows(list, e.text, w) => c = s[e.text].from /\ c \in Terminal /\ s[e.text].early
                        => ListedOnce(Append(list, e), c, s)
           /\ ListedInOrder(list) /\ (\A t : Shows(list, t, e.uid) => t < e.text) => ListedInOrder(Append(list, e))
<1>1. ASSUME NEW i \in DOMAIN Append(list, e), NEW j \in DOMAIN Append(list, e), i < j
      PROVE  /\ i \in DOMAIN list /\ Append(list, e)[i] = list[i]
             /\ (j \in DOMAIN list /\ Append(list, e)[j] = list[j]) \/ Append(list, e)[j] = e
  <2>1. i = Len(list) + 1 => ~ (i < j)
    BY AppendIs
  <2> QED
    BY <1>1, <2>1, AppendIs
<1>2. \A i \in DOMAIN list : Shows(list, list[i].text, list[i].uid)
  BY DEF Shows
<1>3. ASSUME NEW c, NEW s, ListedOnce(list, c, s),
             \A w : Shows(list, e.text, w) => c = s[e.text].from /\ c \in Terminal /\ s[e.text].early
      PROVE  ListedOnce(Append(list, e), c, s)
  <2> SUFFICES ASSUME NEW i \in DOMAIN Append(list, e), NEW j \in DOMAIN Append(list, e), i < j,
                      Append(list, e)[i].text = Append(list, e)[j].text
               PROVE  /\ c = s[Append(list, e)[i].text].from /\ c \in Terminal
                      /\ s[Append(list, e)[i].text].early
    BY DEF ListedOnce
  <2>1. i \in DOMAIN list /\ Append(list, e)[i] = list[i]
    BY <1>1
  <2>2. CASE j \in DOMAIN list /\ Append(list, e)[j] = list[j]
    BY <1>3, <2>1, <2>2 DEF ListedOnce
  <2>3. CASE Append(list, e)[j] = e
    BY <1>2, <1>3, <2>1, <2>3
  <2> QED
    BY <1>1, <2>2, <2>3
<1>4. ASSUME ListedInOrder(list), \A t : Shows(list, t, e.uid) => t < e.text
      PROVE  ListedInOrder(Append(list, e))
  <2> SUFFICES ASSUME NEW i \in DOMAIN Append(list, e), NEW j \in DOMAIN Append(list, e), i < j,
                      Append(list, e)[i].uid = Append(list, e)[j].uid
               PROVE  Append(list, e)[i].text < Append(list, e)[j].text
    BY DEF ListedInOrder
  <2>1. i \in DOMAIN list /\ Append(list, e)[i] = list[i]
    BY <1>1
  <2>2. CASE j \in DOMAIN list /\ Append(list, e)[j] = list[j]
    BY <1>4, <2>1, <2>2 DEF ListedInOrder
  <2>3. CASE Append(list, e)[j] = e
    BY <1>2, <1>4, <2>1, <2>3
  <2> QED
    BY <1>1, <2>2, <2>3
<1> QED
  BY <1>3, <1>4

LEMMA ListsStay ==
    ASSUME TypeOK, Addressed, Links, Right, Ordered, Introduced, ShownOnce, InOrder, [Next]_vars
    PROVE  ShownOnce' /\ InOrder'
<1>1. \A c \in User : mMessages[c] \in Seq(Entries)
  BY DEF TypeOK, TextsOK, Entries
<1>2. DOMAIN mMessages = User
  BY DEF TypeOK, TextsOK
<1>3. \A c \in User : ListedOnce(mMessages[c], c, sent) /\ ListedInOrder(mMessages[c])
  BY ListParts
<1>4. \A c \in User : ListedOnce(<<>>, c, sent) /\ ListedInOrder(<<>>)
  BY DEF ListedOnce, ListedInOrder
<1>5. ASSUME sent' = sent, \A c \in User : mMessages'[c] \in {mMessages[c], <<>>}
      PROVE  ShownOnce' /\ InOrder'
  BY <1>3, <1>4, <1>5, ListPartsNext
<1>6. CASE QuietStep
  BY <1>5, <1>6 DEF QuietStep
<1>7. ASSUME NEW u \in Uids, Delivers(u) PROVE ShownOnce' /\ InOrder'
  BY <1>5, <1>7, DeliversShape DEF contextVars
<1>8. ASSUME NEW c \in User, Connected(c) PROVE ShownOnce' /\ InOrder'
  BY <1>5, <1>8, ConnectedShape
<1>9. ASSUME NEW c \in User, Receives(c) PROVE ShownOnce' /\ InOrder'
  <2> DEFINE v == mClient[c]
             m == Head(down[v])
  <2>1. /\ v \in Uids /\ v # 0 /\ down[v] \in Seq(Messages) /\ down[v] # <<>>
        /\ m \in Messages /\ Push(m) /\ m.uid # mMyUid[c] /\ sent' = sent
    BY <1>9, ReceivesShape
  <2>2. PICK e \in Entries :
           /\ e.uid = m.uid /\ e.text = m.text
           /\ mMessages' = [mMessages EXCEPT ![c] = Append(mMessages[c], e)]
    BY <1>9, ReceivesShape
  <2>3. m.text \in Nat /\ m.uid \in Nat /\ m.uid \in Uids /\ m.text \in DOMAIN sent
    <3>1. PushRight(m, v, sent, owner)
      BY <2>1, RightTail DEF Right
    <3>2. DOMAIN owner = Uids
      BY DEF TypeOK, ServerOK
    <3> QED
      BY <2>1, <3>1, <3>2, MessageIs DEF PushRight
  <2>4. Pushes(down[v], m.text, m.uid)
    BY <2>1, TailIs DEF Pushes
  <2>5. mMyUid[c] = 0 => WelcomeAhead(down[v], v, sent)
    BY <2>1 DEF Introduced
  <2>6. WelcomeAhead(down[v], v, sent) => ~ LateOwn(m, v, sent)
    <3>1. down[v] \in Seq(Messages) /\ m \in Messages /\ down[v] # <<>>
      BY <2>1
    <3> QED
      BY <3>1, WelcomeQueue
  <2> HIDE DEF m
  <2>7. \A t, w : Shows(mMessages[c], t, w) => t \in Nat /\ w \in Nat
    BY TextsKnown
  <2>8. ASSUME NEW w, Shows(mMessages[c], m.text, w)
        PROVE  c = sent[m.text].from /\ c \in Terminal /\ sent[m.text].early
    <3>1. sent[m.text].from = c /\ (sent[m.text].early \/ m.uid = v)
      BY <2>1, <2>3, <2>4, <2>7, <2>8 DEF Ordered, OwnPush
    <3>2. sent[m.text].early
      <4> SUFFICES ASSUME ~ sent[m.text].early PROVE FALSE
        OBVIOUS
      <4>1. m.uid = v /\ mMyUid[c] = 0
        BY <2>1, <3>1 DEF Links
      <4> QED
        BY <2>1, <2>5, <2>6, <4>1 DEF LateOwn
    <3>3. c \in Terminal
      BY <2>3, <3>1, <3>2 DEF Right
    <3> QED
      BY <3>1, <3>2, <3>3
  <2>9. ASSUME NEW t, Shows(mMessages[c], t, m.uid) PROVE t < m.text
    BY <2>1, <2>3, <2>4, <2>7, <2>9 DEF Ordered, PushBehindShown
  <2>10. mMessages[c] \in Seq(Entries) /\ ListedOnce(mMessages[c], c, sent) /\ ListedInOrder(mMessages[c])
    BY <1>1, <1>3
  <2>11. ListedOnce(Append(mMessages[c], e), c, sent)
    BY <2>2, <2>8, <2>10, ListAppend
  <2>12. ListedInOrder(Append(mMessages[c], e))
    BY <2>2, <2>9, <2>10, ListAppend
  <2>13. \A d \in User : mMessages'[d] = IF d = c THEN Append(mMessages[c], e) ELSE mMessages[d]
    BY <1>2, <2>2
  <2> QED
    BY <1>3, <2>1, <2>11, <2>12, <2>13, ListPartsNext
<1>10. ASSUME NEW c \in User, NEW to \in Nat, Say(c, to) PROVE ShownOnce' /\ InOrder'
  <2>1. PICK n \in Nat, r \in Messages, e \in Entries : Saying(c, to, n, r, e)
    BY <1>10, SayShape
  <2>2. /\ n \notin DOMAIN sent /\ \A t \in DOMAIN sent : sent'[t] = sent[t] /\ t < n
        /\ e.uid = mMyUid[c] /\ e.text = n
        /\ mMessages' = [mMessages EXCEPT ![c] = Append(mMessages[c], e)]
    BY <2>1 DEF Saying
  <2>3. \A d \in User : \A t, w : Shows(mMessages[d], t, w) => t \in DOMAIN sent
    BY TextsKnown
  <2>4. ASSUME NEW d \in User PROVE ListedOnce(mMessages[d], d, sent')
    <3>1. \A i \in DOMAIN mMessages[d] : sent'[mMessages[d][i].text] = sent[mMessages[d][i].text]
      BY <2>2, <2>3 DEF Shows
    <3> QED
      BY <1>3, <3>1 DEF ListedOnce
  <2>5. \A w : ~ Shows(mMessages[c], e.text, w)
    BY <2>2, <2>3
  <2>6. \A t : Shows(mMessages[c], t, e.uid) => t < e.text
    BY <2>2, <2>3
  <2>7. mMessages[c] \in Seq(Entries) /\ ListedOnce(mMessages[c], c, sent') /\ ListedInOrder(mMessages[c])
    BY <1>1, <1>3, <2>4
  <2>8. ListedOnce(Append(mMessages[c], e), c, sent')
    BY <2>5, <2>7, ListAppend
  <2>9. ListedInOrder(Append(mMessages[c], e))
    BY <2>6, <2>7, ListAppend
  <2>10. \A d \in User : mMessages'[d] = IF d = c THEN Append(mMessages[c], e) ELSE mMessages[d]
    BY <1>2, <2>2
  <2> QED
    BY <1>3, <2>4, <2>8, <2>9, <2>10, ListPartsNext
<1> QED
  BY <1>6, <1>7, <1>8, <1>9, <1>10, Steps

-----------------------------------------------------------------------------
(* What a client knows of the others.                                      *)

LEMMA WordAppend ==
    ASSUME NEW q \in Seq(Messages), NEW m \in Messages, NEW v
    PROVE  /\ ~ Mentions(m, v) =>
                 /\ \A n : SaysName(q, v, n) => SaysName(Append(q, m), v, n)
                 /\ SaysLeft(q, v) => SaysLeft(Append(q, m), v)
                 /\ Silent(q, v) => Silent(Append(q, m), v)
           /\ Mentions(m, v) =>
                 /\ \A n : Announces(m, v, n) => SaysName(Append(q, m), v, n)
                 /\ m.kind = "user_left" => SaysLeft(Append(q, m), v)
           /\ NoList(q) /\ m.kind # "clients" => NoList(Append(q, m))
<1> DEFINE p == Append(q, m)
<1>1. /\ \A i \in DOMAIN p : i \in Nat /\ ((i \in DOMAIN q /\ p[i] = q[i]) \/ (i = Len(q) + 1 /\ p[i] = m))
      /\ \A i \in DOMAIN q : i \in Nat /\ i \in DOMAIN p /\ p[i] = q[i] /\ i < Len(q) + 1
      /\ Len(q) \in Nat /\ Len(q) + 1 \in DOMAIN p /\ p[Len(q) + 1] = m
  BY AppendIs
<1> HIDE DEF p
<1>2. ASSUME ~ Mentions(m, v), NEW k \in DOMAIN q, LastWord(q, k, v)
      PROVE  k \in DOMAIN p /\ p[k] = q[k] /\ LastWord(p, k, v)
  <2>1. k \in DOMAIN p /\ p[k] = q[k] /\ Mentions(q[k], v)
    BY <1>1, <1>2 DEF LastWord
  <2>2. ASSUME NEW j \in DOMAIN p, k < j PROVE ~ Mentions(p[j], v)
    BY <1>1, <1>2, <2>2 DEF LastWord
  <2> QED
    BY <2>1, <2>2 DEF LastWord
<1>3. ASSUME Mentions(m, v) PROVE LastWord(p, Len(q) + 1, v)
  <2>1. \A j \in DOMAIN p : ~ (Len(q) + 1 < j)
    BY <1>1
  <2> QED
    BY <1>1, <1>3, <2>1 DEF LastWord
<1>4. ~ Mentions(m, v) =>
         /\ \A n : SaysName(q, v, n) => SaysName(p, v, n)
         /\ SaysLeft(q, v) => SaysLeft(p, v)
  BY <1>2 DEF SaysName, SaysLeft
<1>5. ~ Mentions(m, v) /\ Silent(q, v) => Silent(p, v)
  BY <1>1 DEF Silent
<1>6. Mentions(m, v) =>
         /\ \A n : Announces(m, v, n) => SaysName(p, v, n)
         /\ m.kind = "user_left" => SaysLeft(p, v)
  BY <1>1, <1>3 DEF SaysName, SaysLeft
<1>7. NoList(q) /\ m.kind # "clients" => NoList(p)
  BY <1>1 DEF NoList
<1> QED
  BY <1>4, <1>5, <1>6, <1>7 DEF p

LEMMA WordTail ==
    ASSUME NEW q \in Seq(Messages), q # <<>>, NEW v
    PROVE  /\ \A n : SaysName(q, v, n) =>
                 \/ SaysName(Tail(q), v, n)
                 \/ Silent(Tail(q), v) /\ Mentions(Head(q), v) /\ Announces(Head(q), v, n)
           /\ SaysLeft(q, v) =>
                 \/ SaysLeft(Tail(q), v)
                 \/ Silent(Tail(q), v) /\ Mentions(Head(q), v) /\ Head(q).kind = "user_left"
           /\ Silent(q, v) => Silent(Tail(q), v) /\ ~ Mentions(Head(q), v)
           /\ NoList(q) => NoList(Tail(q)) /\ Head(q).kind # "clients"
<1> DEFINE p == Tail(q)
           h == Head(q)
<1>1. /\ 1 \in DOMAIN q /\ q[1] = h
      /\ \A i \in DOMAIN p : i \in Nat \ {0} /\ i + 1 \in DOMAIN q /\ p[i] = q[i + 1]
      /\ \A i \in DOMAIN q : i \in Nat /\ (i # 1 => i - 1 \in DOMAIN p /\ p[i - 1] = q[i])
  BY TailIs
<1> HIDE DEF p, h
<1>2. ASSUME NEW k \in DOMAIN q, LastWord(q, k, v)
      PROVE  \/ k = 1 /\ q[k] = h /\ Mentions(h, v) /\ Silent(p, v)
             \/ k - 1 \in DOMAIN p /\ p[k - 1] = q[k] /\ LastWord(p, k - 1, v)
  <2>1. Mentions(q[k], v) /\ \A j \in DOMAIN q : k < j => ~ Mentions(q[j], v)
    BY <1>2 DEF LastWord
  <2>2. ASSUME NEW j \in DOMAIN p, k < j + 1 PROVE ~ Mentions(p[j], v)
    BY <1>1, <2>1, <2>2
  <2>3. CASE k = 1
    <3>1. \A j \in DOMAIN p : 1 < j + 1
      BY <1>1
    <3>2. Silent(p, v)
      BY <2>2, <2>3, <3>1 DEF Silent
    <3> QED
      BY <1>1, <2>1, <2>3, <3>2
  <2>4. CASE k # 1
    <3>1. k \in Nat /\ k - 1 \in DOMAIN p /\ p[k - 1] = q[k]
      BY <1>1, <2>4
    <3>2. \A j \in DOMAIN p : j \in Nat /\ (k - 1 < j => k < j + 1)
      BY <1>1, <3>1
    <3>3. LastWord(p, k - 1, v)
      BY <2>1, <2>2, <3>1, <3>2 DEF LastWord
    <3> QED
      BY <3>1, <3>3
  <2> QED
    BY <2>3, <2>4
<1>3. ASSUME NEW n, SaysName(q, v, n)
      PROVE  SaysName(p, v, n) \/ (Silent(p, v) /\ Mentions(h, v) /\ Announces(h, v, n))
  <2>1. PICK k \in DOMAIN q : LastWord(q, k, v) /\ Announces(q[k], v, n)
    BY <1>3 DEF SaysName
  <2> QED
    BY <1>2, <2>1 DEF SaysName
<1>4. ASSUME SaysLeft(q, v)
      PROVE  SaysLeft(p, v) \/ (Silent(p, v) /\ Mentions(h, v) /\ h.kind = "user_left")
  <2>1. PICK k \in DOMAIN q : LastWord(q, k, v) /\ q[k].kind = "user_left"
    BY <1>4 DEF SaysLeft
  <2> QED
    BY <1>2, <2>1 DEF SaysLeft
<1>5. Silent(q, v) => Silent(p, v) /\ ~ Mentions(h, v)
  BY <1>1 DEF Silent
<1>6. NoList(q) => NoList(p) /\ h.kind # "clients"
  BY <1>1 DEF NoList
<1> QED
  BY <1>3, <1>4, <1>5, <1>6 DEF p, h

\* What one client knows, or is told, about a user v, there by the name n or gone.
Told(q, state, users, v, there, n) ==
    /\ there /\ n # Guest => Knows(q, state, users, v, n)
    /\ ~ there => Forgets(q, users, v)

LEMMA RosterParts ==
    Roster <=> \A c \in User : mClient[c] # 0 /\ link[mClient[c]] = "up" => \A v \in Uids :
                  Told(down[mClient[c]], mState[c], mUsers[c], v, v \in DOMAIN mSessions, mSessions[v])
BY DEF Roster, Told

LEMMA RosterPartsNext ==
    Roster' <=> \A c \in User : mClient'[c] # 0 /\ link'[mClient'[c]] = "up" => \A v \in Uids' :
                  Told(down'[mClient'[c]], mState'[c], mUsers'[c], v, v \in DOMAIN mSessions', mSessions'[v])
BY DEF Roster, Told

LEMMA ToldAppend ==
    ASSUME NEW q \in Seq(Messages), NEW m \in Messages, NEW state, NEW users, NEW v, NEW there, NEW n
    PROVE  /\ Told(q, state, users, v, there, n) /\ ~ Mentions(m, v) /\ (m.kind # "clients" \/ ~ there) =>
                 Told(Append(q, m), state, users, v, there, n)
           /\ there /\ Mentions(m, v) /\ Announces(m, v, n) => Told(Append(q, m), state, users, v, there, n)
           /\ ~ there /\ Mentions(m, v) /\ m.kind = "user_left" => Told(Append(q, m), state, users, v, there, n)
<1>1. ASSUME Told(q, state, users, v, there, n), ~ Mentions(m, v), m.kind # "clients" \/ ~ there
      PROVE  Told(Append(q, m), state, users, v, there, n)
  <2>1. CASE there
    <3>1. ASSUME Knows(q, state, users, v, n) PROVE Knows(Append(q, m), state, users, v, n)
      BY <1>1, <2>1, <3>1, WordAppend DEF Knows
    <3> QED
      BY <1>1, <2>1, <3>1 DEF Told
  <2>2. CASE ~ there
    <3>1. ASSUME Forgets(q, users, v) PROVE Forgets(Append(q, m), users, v)
      BY <1>1, <3>1, WordAppend DEF Forgets
    <3> QED
      BY <1>1, <2>2, <3>1 DEF Told
  <2> QED
    BY <2>1, <2>2
<1>2. ASSUME there, Mentions(m, v), Announces(m, v, n)
      PROVE  Told(Append(q, m), state, users, v, there, n)
  BY <1>2, WordAppend DEF Told, Knows
<1>3. ASSUME ~ there, Mentions(m, v), m.kind = "user_left"
      PROVE  Told(Append(q, m), state, users, v, there, n)
  BY <1>3, WordAppend DEF Told, Forgets
<1> QED
  BY <1>1, <1>2, <1>3

\* What a client that handles m learns from it.
Learns(m, users, users2, state, state2) ==
    /\ \A v : Mentions(m, v) => \A n : Announces(m, v, n) => v \in DOMAIN users2 /\ users2[v].name = n
    /\ \A v : Mentions(m, v) /\ m.kind = "user_left" => v \notin DOMAIN users2
    /\ \A v : ~ Mentions(m, v) =>
          /\ v \in DOMAIN users2 <=> v \in DOMAIN users
          /\ v \in DOMAIN users => users2[v].name = users[v].name
    /\ m.kind # "clients" => state2 = state

LEMMA ToldTail ==
    ASSUME NEW q \in Seq(Messages), q # <<>>, NEW users, NEW users2, NEW state, NEW state2,
           Learns(Head(q), users, users2, state, state2), NEW v, NEW there, NEW n,
           Told(q, state, users, v, there, n)
    PROVE  Told(Tail(q), state2, users2, v, there, n)
<1> DEFINE h == Head(q)
<1>1. /\ SaysName(q, v, n) => \/ SaysName(Tail(q), v, n)
                              \/ Silent(Tail(q), v) /\ Mentions(h, v) /\ Announces(h, v, n)
      /\ SaysLeft(q, v) => \/ SaysLeft(Tail(q), v)
                           \/ Silent(Tail(q), v) /\ Mentions(h, v) /\ h.kind = "user_left"
      /\ Silent(q, v) => Silent(Tail(q), v) /\ ~ Mentions(h, v)
      /\ NoList(q) => NoList(Tail(q)) /\ h.kind # "clients"
  BY WordTail
<1>2. Learns(h, users, users2, state, state2)
  OBVIOUS
<1> HIDE DEF h
<1>3. ASSUME Knows(q, state, users, v, n) PROVE Knows(Tail(q), state2, users2, v, n)
  BY <1>1, <1>2, <1>3 DEF Knows, Learns
<1>4. ASSUME Forgets(q, users, v) PROVE Forgets(Tail(q), users2, v)
  BY <1>1, <1>2, <1>4 DEF Forgets, Learns
<1> QED
  BY <1>3, <1>4 DEF Told

LEMMA PollLearns ==
    ASSUME TypeOK, NEW c \in User, Poll(c)
    PROVE  Learns(Head(down[mClient[c]]), mUsers[c], mUsers'[c], mState[c], mState'[c])
<1> DEFINE m == Head(down[mClient[c]])
<1>1. /\ Welcome(c, m) \/ Clients(c, m) \/ UserJoined(c, m) \/ UserLeft(c, m) \/ Arrives(c, m)
  BY PollShape
<1> SUFFICES Learns(m, mUsers[c], mUsers'[c], mState[c], mState'[c])
  OBVIOUS
<1> HIDE DEF m
<1>2. DOMAIN mUsers = User /\ DOMAIN mState = User /\ mUsers[c] \in [DOMAIN mUsers[c] -> Views]
  BY DEF TypeOK, UsersOK, ProgramOK
<1>3. CASE Welcome(c, m)
  <2>1. mUsers'[c] = mUsers[c] /\ mState'[c] = mState[c]
    BY <1>3 DEF Welcome
  <2>2. \A v : ~ Mentions(m, v)
    BY <1>3 DEF Welcome, Mentions
  <2> QED
    BY <2>1, <2>2 DEF Learns
<1>4. CASE Clients(c, m)
  <2> DEFINE list == m.list
             new == [u \in DOMAIN mUsers[c] \cup {e.uid : e \in list} |->
                IF \E e \in list : e.uid = u
                THEN [name |-> (CHOOSE e \in list : e.uid = u).name, unreadCount |-> 0]
                ELSE mUsers[c][u]]
  <2>1. m.kind = "clients" /\ mUsers' = [mUsers EXCEPT ![c] = new]
    BY <1>4 DEF Clients
  <2>2. \A v : Mentions(m, v) <=> \E e \in list : e.uid = v
    BY <2>1 DEF Mentions
  <2>3. ASSUME NEW v, \E e \in list : e.uid = v
        PROVE  v \in DOMAIN new /\ \A n : Announces(m, v, n) => new[v].name = n
    <3>1. (CHOOSE e \in list : e.uid = v) \in list /\ (CHOOSE e \in list : e.uid = v).uid = v
      BY <2>3
    <3>2. v \in DOMAIN new /\ new[v].name = (CHOOSE e \in list : e.uid = v).name
      BY <2>3
    <3> QED
      BY <2>1, <3>1, <3>2 DEF Announces
  <2>4. ASSUME NEW v, ~ \E e \in list : e.uid = v
        PROVE  /\ v \in DOMAIN new <=> v \in DOMAIN mUsers[c]
               /\ v \in DOMAIN mUsers[c] => new[v] = mUsers[c][v]
    BY <2>4
  <2> HIDE DEF new
  <2>5. mUsers'[c] = new
    BY <1>2, <2>1
  <2> QED
    BY <2>1, <2>2, <2>3, <2>4, <2>5 DEF Learns
<1>5. CASE UserJoined(c, m)
  <2> DEFINE new == [u \in DOMAIN mUsers[c] \cup {m.uid} |->
                IF u = m.uid THEN [name |-> m.name, unreadCount |-> 0] ELSE mUsers[c][u]]
  <2>1. m.kind = "user_joined" /\ mUsers' = [mUsers EXCEPT ![c] = new] /\ mState' = mState
    BY <1>5 DEF UserJoined
  <2>2. /\ DOMAIN new = DOMAIN mUsers[c] \cup {m.uid} /\ new[m.uid].name = m.name
        /\ \A v \in DOMAIN mUsers[c] : v # m.uid => new[v] = mUsers[c][v]
    OBVIOUS
  <2> HIDE DEF new
  <2>3. mUsers'[c] = new
    BY <1>2, <2>1
  <2> QED
    BY <2>1, <2>2, <2>3 DEF Learns, Mentions, Announces
<1>6. CASE UserLeft(c, m)
  <2> DEFINE new == [u \in DOMAIN mUsers[c] \ {m.uid} |-> mUsers[c][u]]
  <2>1. m.kind = "user_left" /\ mUsers' = [mUsers EXCEPT ![c] = new] /\ mState' = mState
    BY <1>6 DEF UserLeft
  <2>2. DOMAIN new = DOMAIN mUsers[c] \ {m.uid} /\ \A v \in DOMAIN new : new[v] = mUsers[c][v]
    OBVIOUS
  <2> HIDE DEF new
  <2>3. mUsers'[c] = new
    BY <1>2, <2>1
  <2> QED
    BY <2>1, <2>2, <2>3 DEF Learns, Mentions, Announces
<1>7. CASE Arrives(c, m)
  <2> DEFINE new == [mUsers[c] EXCEPT ![m.uid].unreadCount = @ + 1]
  <2>1. /\ m.kind \in {"public_message", "private_message"} /\ mState' = mState
        /\ mUsers' = mUsers \/ (m.uid \in DOMAIN mUsers[c] /\ mUsers' = [mUsers EXCEPT ![c][m.uid].unreadCount = @ + 1])
    BY <1>7 DEF Arrives
  <2>2. m.uid \in DOMAIN mUsers[c] =>
           /\ [mUsers EXCEPT ![c][m.uid].unreadCount = @ + 1] = [mUsers EXCEPT ![c] = new]
           /\ DOMAIN new = DOMAIN mUsers[c]
           /\ \A v \in DOMAIN mUsers[c] : new[v].name = mUsers[c][v].name
    BY <1>2 DEF Views
  <2> HIDE DEF new
  <2>3. /\ DOMAIN mUsers'[c] = DOMAIN mUsers[c]
        /\ \A v \in DOMAIN mUsers[c] : mUsers'[c][v].name = mUsers[c][v].name
    BY <1>2, <2>1, <2>2
  <2>4. \A v : ~ Mentions(m, v)
    BY <2>1 DEF Mentions
  <2> QED
    BY <2>1, <2>3, <2>4 DEF Learns
<1> QED
  BY <1>1, <1>3, <1>4, <1>5, <1>6, <1>7

LEMMA RosterStays ==
    ASSUME TypeOK, Addressed, Links, Roster, [Next]_vars
    PROVE  Roster'
<1>1. /\ ServerOK /\ NetOK /\ DOMAIN mClient = User /\ DOMAIN mUsers = User /\ DOMAIN mState = User
      /\ DOMAIN link = Uids /\ down \in [Uids -> Seq(Messages)] /\ DOMAIN mSessions \subseteq Uids
      /\ \A c \in User : mClient[c] # 0 => mClient[c] \in Uids /\ owner[mClient[c]] = c
  BY DEF TypeOK, ServerOK, NetOK, UsersOK, ProgramOK
<1> DEFINE Word(c, v) == Told(down[mClient[c]], mState[c], mUsers[c], v, v \in DOMAIN mSessions, mSessions[v])
           Later(c, v) == Told(down'[mClient'[c]], mState'[c], mUsers'[c], v, v \in DOMAIN mSessions', mSessions'[v])
           Goal(c) == mClient'[c] # 0 /\ link'[mClient'[c]] = "up" => \A v \in Uids' : Later(c, v)
<1>2. \A c \in User : mClient[c] # 0 /\ link[mClient[c]] = "up" => \A v \in Uids : Word(c, v)
  BY RosterParts
<1> SUFFICES ASSUME NEW c \in User PROVE Goal(c)
  BY RosterPartsNext
<1> DEFINE u == mClient[c]
           q == down[u]
<1>3. u # 0 => u \in Uids /\ owner[u] = c /\ q \in Seq(Messages)
  BY <1>1
<1>4. u # 0 /\ link[u] = "up" => Reached(u) /\ \A v \in Uids : Word(c, v)
  BY <1>2, <1>3 DEF Links, Reached
<1>5. mClient'[c] = 0 => Goal(c)
  OBVIOUS
<1>6. ASSUME mClient'[c] = u, mState'[c] = mState[c], mUsers'[c] = mUsers[c], mSessions' = mSessions, Uids' = Uids,
             u # 0 => link'[u] \in {link[u], "lost"} /\ down'[u] = q
      PROVE  Goal(c)
  BY <1>4, <1>6
<1>7. ASSUME mClient'[c] = u, mState'[c] = mState[c], mUsers'[c] = mUsers[c], Uids' = Uids, link' = link,
             u # 0 /\ link[u] = "up" => \A v \in Uids :
                Told(down'[u], mState[c], mUsers[c], v, v \in DOMAIN mSessions', mSessions'[v])
      PROVE  Goal(c)
  BY <1>7
<1> HIDE DEF Goal
<1>8. ASSUME NEW s \in Uids, Serve(s) PROVE Goal(c)
  <2> DEFINE r == Head(up[s])
  <2>1. /\ s \in DOMAIN mSessions /\ r \in Messages
        /\ ServeLogin(s, r) \/ ServeList(s, r) \/ ServePublic(s, r) \/ ServePrivate(s, r)
        /\ UNCHANGED <<mNextUid, link, mClient, mState, mUsers>>
    BY <1>1, <1>8, ServeShape DEF contextVars, windowVars
  <2>2. Uids' = Uids
    BY <2>1, UidsKept
  <2> SUFFICES ASSUME u # 0, link[u] = "up", NEW v \in Uids
               PROVE  Told(down'[u], mState[c], mUsers[c], v, v \in DOMAIN mSessions', mSessions'[v])
    BY <1>7, <2>1, <2>2
  <2>3. /\ q \in Seq(Messages) /\ u \in Uids /\ Reached(u)
        /\ Told(q, mState[c], mUsers[c], v, v \in DOMAIN mSessions, mSessions[v])
    BY <1>3, <1>4
  <2> DEFINE users == mUsers[c]
             state == mState[c]
  <2> HIDE DEF r, users, state
  <2>4. ASSUME mSessions' = mSessions, NEW m \in Messages, down'[u] = q \/ down'[u] = Append(q, m), Push(m)
        PROVE  Told(down'[u], state, users, v, v \in DOMAIN mSessions', mSessions'[v])
    <3>1. ~ Mentions(m, v) /\ m.kind # "clients"
      BY <2>4 DEF Push, Mentions
    <3>2. Told(q, state, users, v, v \in DOMAIN mSessions, mSessions[v])
      BY <2>3 DEF state, users
    <3>3. Told(Append(q, m), state, users, v, v \in DOMAIN mSessions, mSessions[v])
      BY <2>3, <3>1, <3>2, ToldAppend
    <3> QED
      BY <2>4, <3>2, <3>3
  <2>5. CASE ServeLogin(s, r)
    <3>1. /\ DOMAIN mSessions' = DOMAIN mSessions /\ mSessions'[s] = r.name
          /\ \A w \in DOMAIN mSessions \ {s} : mSessions'[w] = mSessions[w]
      BY <1>1, <2>1, <2>5, LoginShape
    <3>2. PICK joined \in Messages, welcome \in Messages :
             /\ joined.kind = "user_joined" /\ joined.uid = s /\ joined.name = r.name
             /\ welcome.kind = "welcome" /\ welcome.uid = s
             /\ \A w \in Uids \ {s} :
                   down'[w] = IF Reached(w) THEN Append(down[w], joined) ELSE down[w]
             /\ down'[s] = IF Reached(s) THEN Append(Append(down[s], joined), welcome) ELSE down[s]
      BY <1>1, <2>1, <2>5, LoginShape
    <3> DEFINE n == mSessions'[v]
               there == v \in DOMAIN mSessions'
    <3>3. Told(Append(q, joined), state, users, v, there, n)
      <4>1. CASE v = s
        <5>1. there /\ Mentions(joined, v) /\ Announces(joined, v, n)
          BY <2>1, <3>1, <3>2, <4>1 DEF Mentions, Announces
        <5> QED
          BY <2>3, <5>1, ToldAppend
      <4>2. CASE v # s
        <5>1. ~ Mentions(joined, v) /\ joined.kind # "clients"
          BY <3>2, <4>2 DEF Mentions
        <5>2. Told(q, state, users, v, there, n)
          <6>1. there <=> v \in DOMAIN mSessions
            BY <3>1
          <6>2. there => n = mSessions[v]
            BY <3>1, <4>2
          <6>3. Told(q, state, users, v, v \in DOMAIN mSessions, mSessions[v])
            BY <2>3 DEF state, users
          <6> HIDE DEF n, there
          <6> QED
            BY <6>1, <6>2, <6>3 DEF Told
        <5> HIDE DEF n, there
        <5> QED
          BY <2>3, <5>1, <5>2, ToldAppend
      <4> QED
        BY <4>1, <4>2
    <3>4. Append(q, joined) \in Seq(Messages) /\ ~ Mentions(welcome, v) /\ welcome.kind # "clients"
      BY <2>3, <3>2, AppendIs DEF Mentions
    <3> HIDE DEF n, there
    <3>5. Told(Append(Append(q, joined), welcome), state, users, v, there, n)
      BY <3>3, <3>4, ToldAppend
    <3>6. Told(down'[u], state, users, v, there, n)
      BY <2>3, <3>2, <3>3, <3>5
    <3> QED
      BY <3>6 DEF state, users, n, there
  <2>6. CASE ServeList(s, r)
    <3>1. mSessions' = mSessions
      BY <1>1, <2>1, <2>6, ListShape
    <3>2. PICK m \in Messages :
             /\ m.kind = "clients"
             /\ m.list = {[uid |-> w, name |-> mSessions[w]] : w \in DOMAIN mSessions}
             /\ \A w \in Uids \ {s} : down'[w] = down[w]
             /\ down'[s] = IF link[s] = "up" THEN Append(down[s], m) ELSE down[s]
      BY <1>1, <2>1, <2>6, ListShape
    <3> DEFINE n == mSessions[v]
               there == v \in DOMAIN mSessions
    <3>3. Told(q, state, users, v, there, n)
      BY <2>3 DEF state, users
    <3>4. Told(Append(q, m), state, users, v, there, n)
      <4>1. CASE there
        <5>1. Mentions(m, v) /\ Announces(m, v, n)
          <6>1. [uid |-> v, name |-> n] \in m.list
            BY <3>2, <4>1
          <6>2. \A e \in m.list : e.uid = v => e.name = n
            BY <3>2
          <6> HIDE DEF n, there
          <6> QED
            BY <3>2, <6>1, <6>2 DEF Mentions, Announces
        <5> HIDE DEF n, there
        <5> QED
          BY <2>3, <4>1, <5>1, ToldAppend
      <4>2. CASE ~ there
        <5>1. ~ Mentions(m, v)
          BY <3>2, <4>2 DEF Mentions
        <5> HIDE DEF n, there
        <5> QED
          BY <2>3, <3>3, <4>2, <5>1, ToldAppend
      <4> QED
        BY <4>1, <4>2
    <3>5. down'[u] = q \/ down'[u] = Append(q, m)
      BY <2>3, <3>2
    <3> QED
      BY <3>1, <3>3, <3>4, <3>5 DEF state, users
  <2>7. CASE ServePublic(s, r) \/ ServePrivate(s, r)
    <3>1. Delivers(s)
      BY <1>8, <2>7 DEF Delivers, r
    <3>2. mSessions' = mSessions
      BY <3>1, DeliversShape
    <3>3. PICK m \in Messages : Delivering(s, r, m)
      BY <3>1, DeliversShape DEF r
    <3>4. Push(m) /\ (down'[u] = q \/ down'[u] = Append(q, m))
      BY <2>3, <3>3 DEF Delivering
    <3> QED
      BY <2>4, <3>2, <3>4 DEF state, users
  <2> QED
    BY <2>1, <2>5, <2>6, <2>7
<1>9. ASSUME NEW s \in Uids, Leave(s) PROVE Goal(c)
  <2>1. /\ link[s] = "lost" /\ DOMAIN mSessions' = DOMAIN mSessions \ {s}
        /\ \A w \in DOMAIN mSessions' : mSessions'[w] = mSessions[w]
        /\ UNCHANGED <<mNextUid, link, mClient, mState, mUsers>>
    BY <1>1, <1>9, LeaveShape DEF contextVars, windowVars
  <2>2. PICK m \in Messages :
           /\ m.kind = "user_left" /\ m.uid = s
           /\ \A w \in Uids : down'[w] = IF Reached(w) THEN Append(down[w], m) ELSE down[w]
    BY <1>1, <1>9, LeaveShape
  <2>3. Uids' = Uids
    BY <2>1, UidsKept
  <2> SUFFICES ASSUME u # 0, link[u] = "up", NEW v \in Uids
               PROVE  Told(down'[u], mState[c], mUsers[c], v, v \in DOMAIN mSessions', mSessions'[v])
    BY <1>7, <2>1, <2>3
  <2>4. /\ q \in Seq(Messages) /\ u \in Uids /\ Reached(u)
        /\ Told(q, mState[c], mUsers[c], v, v \in DOMAIN mSessions, mSessions[v])
    BY <1>3, <1>4
  <2>5. down'[u] = Append(q, m)
    BY <2>2, <2>4
  <2>6. CASE v = s
    <3>1. v \notin DOMAIN mSessions' /\ Mentions(m, v)
      BY <2>1, <2>2, <2>6 DEF Mentions
    <3> QED
      BY <2>2, <2>4, <2>5, <3>1, WordAppend DEF Told, Forgets
  <2>7. CASE v # s
    <3>1. ~ Mentions(m, v) /\ m.kind # "clients"
      BY <2>2, <2>7 DEF Mentions
    <3>2. Told(Append(q, m), mState[c], mUsers[c], v, v \in DOMAIN mSessions, mSessions[v])
      BY <2>4, <3>1, ToldAppend
    <3>3. v \in DOMAIN mSessions' <=> v \in DOMAIN mSessions
      BY <2>1, <2>7
    <3>4. v \in DOMAIN mSessions' => mSessions'[v] = mSessions[v]
      BY <2>1
    <3> QED
      BY <2>5, <3>2, <3>3, <3>4 DEF Told
  <2> QED
    BY <2>6, <2>7
<1>10. ASSUME NEW s \in Uids, Lose(s) PROVE Goal(c)
  <2>1. /\ link' = [link EXCEPT ![s] = "lost"]
        /\ UNCHANGED <<mNextUid, mSessions, down, mClient, mState, mUsers>>
    BY <1>10 DEF Lose, contextVars, windowVars, serverVars
  <2> QED
    BY <1>1, <1>3, <1>6, <2>1, UidsKept
<1>11. ASSUME NEW d \in User, StartConnection(d) \/ StartRefused(d) \/ Launch(d) PROVE Goal(c)
  <2>1. /\ mClient' = [mClient EXCEPT ![d] = 0] /\ mUsers' = [mUsers EXCEPT ![d] = Nobody]
        /\ mState' = mState \/ \E s \in {"Connecting", "Gone"} : mState' = [mState EXCEPT ![d] = s]
        /\ UNCHANGED <<mNextUid, mSessions, link, down>>
    BY <1>11, ForgetShape DEF Forget, netVars, serverVars
  <2>2. CASE c = d
    BY <1>1, <1>5, <2>1, <2>2
  <2>3. CASE c # d
    <3>1. mClient'[c] = u /\ mState'[c] = mState[c] /\ mUsers'[c] = mUsers[c]
      BY <1>1, <2>1, <2>3
    <3> QED
      BY <1>6, <2>1, <3>1, UidsKept
  <2> QED
    BY <2>2, <2>3
<1>12. ASSUME NEW d \in User, Connected(d) PROVE Goal(c)
  <2> DEFINE new == mNextUid
  <2>1. /\ mState[d] = "Connecting" /\ mClient[d] = 0 /\ new # 0 /\ new \notin Uids /\ Uids' = Uids \cup {new}
        /\ down'[new] = <<>>
        /\ \A w \in Uids : link'[w] = link[w] /\ down'[w] = down[w]
        /\ DOMAIN mSessions' = DOMAIN mSessions \cup {new} /\ mSessions'[new] = Guest
        /\ \A w \in DOMAIN mSessions : mSessions'[w] = mSessions[w]
        /\ mClient' = [mClient EXCEPT ![d] = new]
        /\ UNCHANGED <<mUsers, mState>>
    BY <1>12, ConnectedShape DEF windowVars
  <2> HIDE DEF new
  <2>2. CASE c = d
    <3>1. mClient'[c] = new
      BY <1>1, <2>1, <2>2
    <3>2. mUsers[c] = Nobody /\ mState[c] = "Connecting"
      BY <2>1, <2>2 DEF Links
    <3>3. ASSUME NEW v, NEW there, NEW n PROVE Told(<<>>, mState[c], mUsers[c], v, there, n)
      <4>1. Silent(<<>>, v) /\ NoList(<<>>)
        BY DEF Silent, NoList
      <4>2. v \notin DOMAIN mUsers[c]
        BY <3>2 DEF Nobody
      <4> QED
        BY <3>2, <4>1, <4>2 DEF Told, Knows, Forgets
    <3> QED
      BY <2>1, <3>1, <3>3 DEF Goal
  <2>3. CASE c # d
    <3>1. mClient'[c] = u
      BY <1>1, <2>1, <2>3
    <3> SUFFICES ASSUME u # 0, link[u] = "up", NEW v \in Uids'
                 PROVE  Told(q, mState[c], mUsers[c], v, v \in DOMAIN mSessions', mSessions'[v])
      BY <1>3, <2>1, <3>1 DEF Goal
    <3>2. CASE v = new
      BY <2>1, <3>2 DEF Told
    <3>3. CASE v \in Uids
      <4>1. Told(q, mState[c], mUsers[c], v, v \in DOMAIN mSessions, mSessions[v])
        BY <1>4, <3>3
      <4>2. v \in DOMAIN mSessions' <=> v \in DOMAIN mSessions
        BY <2>1, <3>3
      <4>3. v \in DOMAIN mSessions => mSessions'[v] = mSessions[v]
        BY <2>1
      <4> QED
        BY <4>1, <4>2, <4>3 DEF Told
    <3> QED
      BY <2>1, <3>2, <3>3
  <2> QED
    BY <2>2, <2>3
<1>13. ASSUME NEW d \in User, Disconnected(d) \/ Quit(d) PROVE Goal(c)
  <2>1. /\ mClient' = [mClient EXCEPT ![d] = 0] /\ \E s : mState' = [mState EXCEPT ![d] = s]
        /\ \/ link' = link
           \/ mClient[d] # 0 /\ link' = [link EXCEPT ![mClient[d]] = "lost"]
        /\ UNCHANGED <<mNextUid, mSessions, down, mUsers>>
    BY <1>13 DEF Disconnected, Quit, netVars, serverVars
  <2>2. CASE c = d
    BY <1>1, <1>5, <2>1, <2>2
  <2>3. CASE c # d
    <3>1. mClient'[c] = u /\ mState'[c] = mState[c]
      BY <1>1, <2>1, <2>3
    <3>2. u # 0 => link'[u] \in {link[u], "lost"}
      BY <1>1, <1>3, <2>1
    <3> QED
      BY <1>6, <2>1, <3>1, <3>2, UidsKept
  <2> QED
    BY <2>2, <2>3
<1>14. ASSUME NEW d \in User, Poll(d) PROVE Goal(c)
  <2>1. /\ mClient[d] \in Uids /\ mClient[d] # 0 /\ owner[mClient[d]] = d
        /\ down[mClient[d]] \in Seq(Messages) /\ down[mClient[d]] # <<>>
        /\ down'[mClient[d]] = Tail(down[mClient[d]])
        /\ \A w \in Uids \ {mClient[d]} : down'[w] = down[w]
        /\ UNCHANGED <<mNextUid, mSessions, link, mClient>>
    BY <1>14, PollShape DEF serverVars
  <2>2. Uids' = Uids
    BY <2>1, UidsKept
  <2>3. CASE c = d
    <3>1. Learns(Head(q), mUsers[c], mUsers'[c], mState[c], mState'[c])
      BY <1>14, <2>3, PollLearns
    <3>2. q \in Seq(Messages) /\ q # <<>> /\ down'[u] = Tail(q)
      BY <2>1, <2>3
    <3> SUFFICES ASSUME u # 0, link[u] = "up", NEW v \in Uids
                 PROVE  Told(Tail(q), mState'[c], mUsers'[c], v, v \in DOMAIN mSessions, mSessions[v])
      BY <2>1, <2>2, <3>2 DEF Goal
    <3>3. Told(q, mState[c], mUsers[c], v, v \in DOMAIN mSessions, mSessions[v])
      BY <1>4
    <3> HIDE DEF q
    <3> QED
      BY <3>1, <3>2, <3>3, ToldTail
  <2>4. CASE c # d
    <3>1. mState'[c] = mState[c] /\ mUsers'[c] = mUsers[c]
      <4> DEFINE m == Head(down[mClient[d]])
      <4>1. Welcome(d, m) \/ Clients(d, m) \/ UserJoined(d, m) \/ UserLeft(d, m) \/ Arrives(d, m)
        BY <1>14, PollShape
      <4> HIDE DEF m
      <4>2. mState' = mState \/ mState' = [mState EXCEPT ![d] = "MainUI"]
        BY <4>1 DEF Welcome, Clients, UserJoined, UserLeft, Arrives
      <4>3. Welcome(d, m) => mUsers'[c] = mUsers[c]
        BY DEF Welcome
      <4>4. Clients(d, m) => mUsers'[c] = mUsers[c]
        BY <1>1, <2>4 DEF Clients
      <4>5. UserJoined(d, m) => mUsers'[c] = mUsers[c]
        BY <1>1, <2>4 DEF UserJoined
      <4>6. UserLeft(d, m) => mUsers'[c] = mUsers[c]
        BY <1>1, <2>4 DEF UserLeft
      <4>7. Arrives(d, m) => mUsers'[c] = mUsers[c]
        BY <1>1, <2>4 DEF Arrives
      <4> QED
        BY <1>1, <2>4, <4>1, <4>2, <4>3, <4>4, <4>5, <4>6, <4>7
    <3>2. u # 0 => down'[u] = q
      BY <1>3, <2>1, <2>4
    <3> QED
      BY <1>6, <2>1, <2>2, <3>1, <3>2
  <2> QED
    BY <2>3, <2>4
<1>15. ASSUME NEW d \in User, RenderHeader(d) \/ \E s \in 0 .. mNextUid : Select(d, s) PROVE Goal(c)
  <2>1. UNCHANGED <<mNextUid, mSessions, link, down, mClient, mState, mUsers>>
    BY <1>15 DEF RenderHeader, Select, serverVars, netVars, contextVars
  <2> QED
    BY <1>6, <2>1, UidsKept
<1>16. ASSUME NEW d \in User, NEW to \in Nat, Say(d, to) PROVE Goal(c)
  <2>1. UNCHANGED <<mNextUid, mSessions, link, down, mClient, mState, mUsers>>
    BY <1>16 DEF Say, serverVars
  <2> QED
    BY <1>6, <2>1, UidsKept
<1>17. CASE UNCHANGED vars
  BY <1>6, <1>17, UidsKept DEF vars, serverVars, netVars, contextVars, windowVars
<1> QED
  BY <1>8, <1>9, <1>10, <1>11, <1>12, <1>13, <1>14, <1>15, <1>16, <1>17, NextIs

-----------------------------------------------------------------------------
(* The theorems.                                                           *)

LEMMA RoomStarts ==
    ASSUME Init
    PROVE  IInv
<1>1. /\ Uids = {} /\ sent = <<>>
      /\ \A c \in User : /\ mClient[c] = 0 /\ mMyUid[c] = 0 /\ mState[c] = "Login"
                         /\ early[c] = <<>> /\ mMessages[c] = <<>>
  BY DEF Init, Uids
<1>2. \A t, w : ~ Asks(<<>>, t) /\ ~ Shows(<<>>, t, w)
  BY DEF Asks, Shows
<1>3. Addressed /\ Links
  BY <1>1 DEF Addressed, Links
<1>4. Right
  BY <1>1 DEF Right, AllPostedEarly, AllAsksRight, AllEntriesRight
<1>5. Queued /\ AskedOnce /\ AskedFirst
  BY <1>1, <1>2 DEF Queued, AskedOnce, AskedFirst, AsksOrdered
<1>6. AskBehindPush /\ AskBehindShown /\ PushBehindShown /\ OwnAsk /\ OwnPush
  BY <1>1 DEF AskBehindPush, AskBehindShown, PushBehindShown, OwnAsk, OwnPush
<1>7. Introduced /\ Roster
  BY <1>1 DEF Introduced, Roster
<1>8. ShownOnce /\ InOrder
  <2>1. \A c, s : ListedOnce(<<>>, c, s) /\ ListedInOrder(<<>>)
    BY DEF ListedOnce, ListedInOrder
  <2> QED
    BY <1>1, <2>1, ListParts
<1>9. WindowFollows
  BY <1>1, WindowParts
<1> QED
  BY <1>3, <1>4, <1>5, <1>6, <1>7, <1>8, <1>9 DEF IInv, Ordered

\* In every reachable state the server, the clients and the windows hold what they may,
\* and what is on its way is in an order from which the properties below follow.
THEOREM RoomInvariant == Spec => [](TypeOK /\ IInv)
<1>1. Init => TypeOK /\ IInv
  BY TypesStart, RoomStarts
<1>2. TypeOK /\ IInv /\ [Next]_vars => TypeOK' /\ IInv'
  <2> SUFFICES ASSUME TypeOK, IInv, [Next]_vars PROVE TypeOK' /\ IInv'
    OBVIOUS
  <2>1. Addressed /\ Links /\ Right /\ Ordered /\ Introduced /\ Roster /\ ShownOnce /\ InOrder /\ WindowFollows
    BY DEF IInv
  <2>2. TypeOK'
    BY <2>1, TypesStay
  <2>3. Addressed' /\ Links'
    BY <2>1, AddressedStays, LinksStay
  <2>4. Right' /\ Ordered'
    BY <2>1, RightStays, OrderedStays
  <2>5. Introduced' /\ Roster'
    BY <2>1, IntroducedStays, RosterStays
  <2>6. ShownOnce' /\ InOrder' /\ WindowFollows'
    BY <2>1, <2>2, ListsStay, WindowStays
  <2> QED
    BY <2>2, <2>3, <2>4, <2>5, <2>6 DEF IInv
<1> QED
  BY <1>1, <1>2, PTL DEF Spec

\* A private message is shown to its sender and to the owner of the uid it was addressed
\* to, and to nobody else: send_private pushes to one session, and a uid is given once.
THEOREM PrivateMessages == Spec => []PrivateStaysPrivate
<1>1. TypeOK /\ IInv => PrivateStaysPrivate
  <2> SUFFICES ASSUME TypeOK, IInv, NEW c \in User, NEW i \in DOMAIN mMessages[c]
               PROVE  LET m == mMessages[c][i]
                          s == sent[m.text]
                      IN  /\ m.isPrivate = (s.to # 0)
                          /\ IF m.uid = 0 THEN c = s.from ELSE owner[m.uid] = s.from
                          /\ s.to # 0 => c = s.from \/ (s.to \in Uids /\ owner[s.to] = c)
    BY DEF PrivateStaysPrivate
  <2>1. EntryRight(mMessages[c][i], c, sent, owner)
    BY DEF IInv, Right, AllEntriesRight
  <2>2. DOMAIN owner = Uids
    BY DEF TypeOK, ServerOK
  <2> QED
    BY <2>1, <2>2 DEF EntryRight
<1> QED
  BY <1>1, RoomInvariant, PTL

\* No text is shown twice, not even to the sender who has shown it himself and gets it
\* back from the server; the exception is a terminal's line typed before the connection.
THEOREM NothingTwice == Spec => []ShownOnce
<1>1. TypeOK /\ IInv => ShownOnce
  BY DEF IInv
<1> QED
  BY <1>1, RoomInvariant, PTL

\* What a user typed on one connection is shown to everybody in the order he typed it.
THEOREM OrderIsKept == Spec => []InOrder
<1>1. TypeOK /\ IInv => InOrder
  BY DEF IInv
<1> QED
  BY <1>1, RoomInvariant, PTL

\* The window's copy of the users agrees with the context's, apart from unread counts
\* it has cleared and nameless lines of users who left with their chat open.
THEOREM WindowIsCurrent == Spec => []WindowFollows
<1>1. TypeOK /\ IInv => WindowFollows
  BY DEF IInv
<1> QED
  BY <1>1, RoomInvariant, PTL

\* A client in the chat that has handled all it was sent knows exactly the users who have
\* logged in and not left, by the right names.
THEOREM RosterAddsUp == Spec => []RosterRight
<1>1. TypeOK /\ IInv => RosterRight
  <2> SUFFICES ASSUME TypeOK, IInv, NEW c \in User, mState[c] = "MainUI", mClient[c] # 0,
                      link[mClient[c]] = "up", down[mClient[c]] = <<>>
               PROVE  /\ DOMAIN mUsers[c] \subseteq DOMAIN mSessions
                      /\ \A v \in DOMAIN mSessions :
                            mSessions[v] # Guest =>
                                v \in DOMAIN mUsers[c] /\ mUsers[c][v].name = mSessions[v]
    BY DEF RosterRight
  <2>1. DOMAIN mUsers[c] \subseteq Uids /\ DOMAIN mSessions \subseteq Uids
    BY DEF TypeOK, UsersOK, ServerOK
  <2>2. \A v \in Uids : /\ v \in DOMAIN mSessions /\ mSessions[v] # Guest =>
                              Knows(<<>>, "MainUI", mUsers[c], v, mSessions[v])
                        /\ v \notin DOMAIN mSessions => Forgets(<<>>, mUsers[c], v)
    BY DEF IInv, Roster
  <2>3. \A v, n : ~ SaysName(<<>>, v, n) /\ ~ SaysLeft(<<>>, v)
    BY DEF SaysName, SaysLeft
  <2> QED
    BY <2>1, <2>2, <2>3 DEF Knows, Forgets
<1> QED
  BY <1>1, RoomInvariant, PTL

=============================================================================
