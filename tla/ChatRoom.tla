------------------------------ MODULE ChatRoom ------------------------------
(***************************************************************************)
(* The chat as its users see it: the ClientAppContext of each user, with   *)
(* the chat window or the terminal program around it, and the routes of a  *)
(* server with one port.                                                   *)
(*                                                                         *)
(* A server with one io thread handles a request in one step (ChatServer   *)
(* has the steps inside).  A connection delivers in order what was written *)
(* until it is lost.  A client handles one message at a time, in poll().   *)
(***************************************************************************)
EXTENDS Naturals, Sequences

CONSTANTS
    User,            \* who runs a chat client; also the name to log in with
    Terminal,        \* those who run it in a terminal
    MaxConnections,  \* bound: connections the server accepts
    MaxTexts,        \* bound: messages typed
    MaxLosses,       \* bound: connections lost or given up
    MaxSelects       \* bound: channels opened

ASSUME RoomAssumption ==
    /\ Terminal \subseteq User
    /\ MaxConnections \in Nat /\ MaxTexts \in Nat /\ MaxLosses \in Nat /\ MaxSelects \in Nat

VARIABLES
    mNextUid, mSessions,  \* the server: the registered uids and their names
    owner, link,          \* per uid: whose connection it is, and up or lost
    up, down,             \* per uid: messages to the server, and to the client
    mClient,              \* per user: the uid of the connection of mClient, 0 if none
    mMyUid, mUsers, mMessages,  \* per user: ClientAppContext's domain state
    early,                \* per user: requests posted to a client that is still connecting
    mState, mSelectedUid, shown,  \* per user: the program's state, and its copy of mUsers
    losses, selects,      \* connections lost, channels opened
    sent                  \* auxiliary: the texts typed, each with sender and addressee

serverVars == <<mNextUid, mSessions, owner>>
netVars == <<link, up, down>>
contextVars == <<mClient, mMyUid, mUsers, mMessages, early>>
windowVars == <<mState, mSelectedUid, shown>>
vars == <<serverVars, netVars, contextVars, windowVars, losses, selects, sent>>

Guest == "guest"
Nobody == [u \in {} |-> [name |-> Guest, unreadCount |-> 0]]
Uids == 1 .. mNextUid - 1

Message(kind, uid, name, text) ==
    [kind |-> kind, uid |-> uid, name |-> name, text |-> text, list |-> {}]

Init ==
    /\ mNextUid = 1 /\ mSessions = [u \in {} |-> Guest] /\ owner = <<>>
    /\ link = <<>> /\ up = <<>> /\ down = <<>>
    /\ mClient = [c \in User |-> 0] /\ mMyUid = [c \in User |-> 0]
    /\ mUsers = [c \in User |-> Nobody]
    /\ mMessages = [c \in User |-> <<>>] /\ early = [c \in User |-> <<>>]
    /\ mState = [c \in User |-> "Login"] /\ mSelectedUid = [c \in User |-> 0]
    /\ shown = [c \in User |-> Nobody]
    /\ losses = 0 /\ selects = 0 /\ sent = <<>>

-----------------------------------------------------------------------------
(* The server.                                                             *)

\* Queues with m put on its way to session u; a lost connection takes nothing.
Put(queues, u, m) == IF link[u] = "up" THEN [queues EXCEPT ![u] = Append(@, m)] ELSE queues

\* broadcast(): every registered session gets m.
Broadcast(queues, m) ==
    [v \in DOMAIN queues |->
        IF v \in DOMAIN mSessions THEN Put(queues, v, m)[v] ELSE queues[v]]

\* A login that is not answered.
ServeLogin_NoAnswer(u, r) ==
    /\ r.kind = "login"
    /\ mSessions' = [mSessions EXCEPT ![u] = r.name]
    /\ down' = Broadcast(down, Message("user_joined", u, r.name, 0))

\* The routes: what the request r of session u leaves in the queues.
ServeLogin(u, r) ==
    /\ r.kind = "login"
    /\ mSessions' = [mSessions EXCEPT ![u] = r.name]
    /\ down' = Put(Broadcast(down, Message("user_joined", u, r.name, 0)),
                     u, Message("welcome", u, r.name, 0))

ServeList(u, r) ==
    /\ r.kind = "client_list"
    /\ down' = Put(down, u,
          [Message("clients", u, Guest, 0) EXCEPT !.list =
              {[uid |-> v, name |-> mSessions[v]] : v \in DOMAIN mSessions}])
    /\ UNCHANGED mSessions

ServePublic(u, r) ==
    /\ r.kind = "send_public"
    /\ down' = Broadcast(down, Message("public_message", u, mSessions[u], r.text))
    /\ UNCHANGED mSessions

\* A send_private that broadcasts.
ServePrivate_ToAll(u, r) ==
    /\ r.kind = "send_private"
    /\ down' = Broadcast(down, Message("private_message", u, mSessions[u], r.text))
    /\ UNCHANGED mSessions

ServePrivate(u, r) ==
    /\ r.kind = "send_private"
    /\ down' = IF r.uid \in DOMAIN mSessions
               THEN Put(down, r.uid, Message("private_message", u, mSessions[u], r.text))
               ELSE down
    /\ UNCHANGED mSessions

\* The next request of session u.  The replies of send_public and send_private
\* mean nothing to the client and are left out.
Serve(u) ==
    /\ u \in DOMAIN mSessions /\ up[u] # <<>>
    /\ LET r == Head(up[u])
       IN  ServeLogin(u, r) \/ ServeList(u, r) \/ ServePublic(u, r) \/ ServePrivate(u, r)
    /\ up' = [up EXCEPT ![u] = Tail(@)]
    /\ UNCHANGED <<mNextUid, owner, link, contextVars, windowVars, losses, selects, sent>>

\* A close() whose callback only removes the session.
Leave_Silent(u) ==
    /\ u \in DOMAIN mSessions /\ link[u] = "lost"
    /\ mSessions' = [v \in DOMAIN mSessions \ {u} |-> mSessions[v]]
    /\ UNCHANGED <<mNextUid, owner, netVars, contextVars, windowVars, losses, selects, sent>>

\* The server finds the connection lost: remove(), then broadcast user_left,
\* which cannot reach u itself.
Leave(u) ==
    /\ u \in DOMAIN mSessions /\ link[u] = "lost"
    /\ mSessions' = [v \in DOMAIN mSessions \ {u} |-> mSessions[v]]
    /\ down' = Broadcast(down, Message("user_left", u, Guest, 0))
    /\ UNCHANGED <<mNextUid, owner, link, up, contextVars, windowVars, losses, selects, sent>>

\* The network or either end gives a connection up: what the server has not
\* read is lost, what is on its way to the client may still arrive.
Lose(u) ==
    /\ link[u] = "up" /\ losses < MaxLosses
    /\ losses' = losses + 1
    /\ link' = [link EXCEPT ![u] = "lost"]
    /\ UNCHANGED <<serverVars, up, down, contextVars, windowVars, selects, sent>>

-----------------------------------------------------------------------------
(* ClientAppContext and the window.                                        *)

\* onStateUpdated: the window takes a fresh copy of the users.
Refresh(c) == shown' = [shown EXCEPT ![c] = mUsers'[c]]

\* What connect() begins with: it drops the old client and forgets its state.
Forget(c) ==
    /\ mClient' = [mClient EXCEPT ![c] = 0] /\ mMyUid' = [mMyUid EXCEPT ![c] = 0]
    /\ mUsers' = [mUsers EXCEPT ![c] = Nobody]
    /\ mMessages' = [mMessages EXCEPT ![c] = <<>>]
    /\ early' = [early EXCEPT ![c] = <<>>]

\* The screen the window draws decides what can be pressed.
On(c, screen) == c \notin Terminal /\ mState[c] = screen

\* startConnection()
StartConnection(c) ==
    /\ On(c, "Login")
    /\ mState' = [mState EXCEPT ![c] = "Connecting"]
    /\ Forget(c)
    /\ UNCHANGED <<serverVars, netVars, mSelectedUid, shown, losses, selects, sent>>

\* Port 0: the factory throws when the old client has gone already.
StartRefused(c) ==
    /\ On(c, "Login")
    /\ Forget(c)
    /\ UNCHANGED <<serverVars, netVars, windowVars, losses, selects, sent>>

\* parseClientArgs(): a terminal program goes on or ends.
Parsed == {"Connecting", "Gone"}

\* A terminal program connects at once.
Launch(c) ==
    /\ c \in Terminal /\ mState[c] = "Login"
    /\ mState' \in {[mState EXCEPT ![c] = s] : s \in Parsed}
    /\ Forget(c)
    /\ UNCHANGED <<serverVars, netVars, mSelectedUid, shown, losses, selects, sent>>

\* The server accepts the connection and onConnect sends the login request, behind
\* what was typed already.
Connected(c) ==
    /\ mState[c] = "Connecting" /\ mClient[c] = 0
    /\ mNextUid <= MaxConnections
    /\ mNextUid' = mNextUid + 1
    /\ mSessions' = [u \in DOMAIN mSessions \cup {mNextUid} |->
                        IF u = mNextUid THEN Guest ELSE mSessions[u]]
    /\ owner' = Append(owner, c) /\ link' = Append(link, "up")
    /\ up' = Append(up, Append(early[c], Message("login", 0, c, 0))) /\ down' = Append(down, <<>>)
    /\ mClient' = [mClient EXCEPT ![c] = mNextUid]
    /\ early' = [early EXCEPT ![c] = <<>>]
    /\ UNCHANGED <<mMyUid, mUsers, mMessages, windowVars, losses, selects, sent>>

\* onError, then onDisconnected: the connect failed, by itself or because something
\* was written before it was up, or the connection is lost.  The window goes back to
\* its login screen and forgets its copies, but not its selection nor the context's
\* state; a terminal's loop ends.
Disconnected(c) ==
    /\ \/ mState[c] = "Connecting" /\ mClient[c] = 0
       \/ mClient[c] # 0 /\ link[mClient[c]] = "lost"
    /\ mClient' = [mClient EXCEPT ![c] = 0]
    /\ early' = [early EXCEPT ![c] = <<>>]
    /\ mState' = [mState EXCEPT ![c] = IF c \in Terminal THEN "Gone" ELSE "Login"]
    /\ shown' = [shown EXCEPT ![c] = Nobody]
    /\ UNCHANGED <<serverVars, netVars, mMyUid, mUsers, mMessages, mSelectedUid, losses,
                   selects, sent>>

\* The window is closed, or a terminal's user types /q, or a /w that names no
\* number: main() ends and closes the connection.
Quit(c) ==
    /\ mState[c] # "Gone" /\ losses < MaxLosses
    /\ losses' = losses + 1
    /\ mState' = [mState EXCEPT ![c] = "Gone"]
    /\ mClient' = [mClient EXCEPT ![c] = 0]
    /\ link' = IF mClient[c] = 0 THEN link ELSE [link EXCEPT ![mClient[c]] = "lost"]
    /\ UNCHANGED <<serverVars, up, down, mMyUid, mUsers, mMessages, early, mSelectedUid, shown,
                   selects, sent>>

\* The login response: who I am; ask for the list.
Welcome(c, m) ==
    /\ m.kind = "welcome"
    /\ mMyUid' = [mMyUid EXCEPT ![c] = m.uid]
    /\ up' = Put(up, mClient[c], Message("client_list", 0, Guest, 0))
    /\ UNCHANGED <<mUsers, mMessages, mState, shown>>

\* The client_list response overwrites what is known of the users it names.
Clients(c, m) ==
    /\ m.kind = "clients"
    /\ mUsers' = [mUsers EXCEPT ![c] =
          [u \in DOMAIN @ \cup {e.uid : e \in m.list} |->
              IF \E e \in m.list : e.uid = u
              THEN [name |-> (CHOOSE e \in m.list : e.uid = u).name, unreadCount |-> 0]
              ELSE @[u]]]
    /\ mState' = [mState EXCEPT ![c] = "MainUI"]
    /\ Refresh(c)
    /\ UNCHANGED <<mMyUid, mMessages, up>>

UserJoined(c, m) ==
    /\ m.kind = "user_joined"
    /\ mUsers' = [mUsers EXCEPT ![c] =
          [u \in DOMAIN @ \cup {m.uid} |->
              IF u = m.uid THEN [name |-> m.name, unreadCount |-> 0] ELSE @[u]]]
    /\ Refresh(c)
    /\ UNCHANGED <<mMyUid, mMessages, mState, up>>

\* A departure the window is not told of.
UserLeft_NoRefresh(c, m) ==
    /\ m.kind = "user_left"
    /\ mUsers' = [mUsers EXCEPT ![c] = [u \in DOMAIN @ \ {m.uid} |-> @[u]]]
    /\ UNCHANGED <<shown, mMyUid, mMessages, mState, up>>

UserLeft(c, m) ==
    /\ m.kind = "user_left"
    /\ mUsers' = [mUsers EXCEPT ![c] = [u \in DOMAIN @ \ {m.uid} |-> @[u]]]
    /\ Refresh(c)
    /\ UNCHANGED <<mMyUid, mMessages, mState, up>>

\* A push of a public or a private message that does not look who sent it.
Arrives_OwnToo(c, m) ==
    /\ m.kind \in {"public_message", "private_message"}
    /\ mMessages' = [mMessages EXCEPT ![c] =
          Append(@, [uid |-> m.uid, text |-> m.text, isPrivate |-> m.kind = "private_message"])]
    /\ UNCHANGED mUsers
    /\ Refresh(c)
    /\ UNCHANGED <<mMyUid, mState, up>>

\* A push of a public or a private message: the sender has shown it already.
Arrives(c, m) ==
    /\ m.kind \in {"public_message", "private_message"}
    /\ LET isPrivate == m.kind = "private_message"
       IN  /\ mMessages' = IF m.uid = mMyUid[c] THEN mMessages
                 ELSE [mMessages EXCEPT ![c] =
                           Append(@, [uid |-> m.uid, text |-> m.text, isPrivate |-> isPrivate])]
           /\ mUsers' = IF isPrivate /\ m.uid # mMyUid[c] /\ m.uid \in DOMAIN mUsers[c]
                 THEN [mUsers EXCEPT ![c][m.uid].unreadCount = @ + 1] ELSE mUsers
    /\ Refresh(c)
    /\ UNCHANGED <<mMyUid, mState, up>>

\* A client that handles what came last first.
Poll_Latest(c) ==
    /\ mClient[c] # 0 /\ down[mClient[c]] # <<>>
    /\ LET q == down[mClient[c]]
           m == q[Len(q)]
       IN  /\ Welcome(c, m) \/ Clients(c, m) \/ UserJoined(c, m) \/ UserLeft(c, m) \/ Arrives(c, m)
           /\ down' = [down EXCEPT ![mClient[c]] = SubSeq(q, 1, Len(q) - 1)]
    /\ UNCHANGED <<serverVars, link, mClient, early, mSelectedUid, losses, selects, sent>>

\* poll() hands the client the next message.
Poll(c) ==
    /\ mClient[c] # 0 /\ down[mClient[c]] # <<>>
    /\ LET m == Head(down[mClient[c]])
       IN  Welcome(c, m) \/ Clients(c, m) \/ UserJoined(c, m) \/ UserLeft(c, m) \/ Arrives(c, m)
    /\ down' = [down EXCEPT ![mClient[c]] = Tail(@)]
    /\ UNCHANGED <<serverVars, link, mClient, early, mSelectedUid, losses, selects, sent>>

\* The user opens a channel: the public one is 0.  The badge of the window's
\* own copy of the user is cleared.
Select(c, u) ==
    /\ On(c, "MainUI") /\ selects < MaxSelects
    /\ u # mSelectedUid[c]
    /\ selects' = selects + 1
    /\ u = 0 \/ u \in DOMAIN shown[c] \ {mMyUid[c]}
    /\ mSelectedUid' = [mSelectedUid EXCEPT ![c] = u]
    /\ shown' = IF u = 0 THEN shown ELSE [shown EXCEPT ![c][u].unreadCount = 0]
    /\ UNCHANGED <<serverVars, netVars, contextVars, mState, losses, sent>>

\* The header of a private chat looks the user up with operator[], which puts a
\* nameless user into the window's copy when the one selected has left.
RenderHeader(c) ==
    /\ On(c, "MainUI")
    /\ mSelectedUid[c] # 0 /\ mSelectedUid[c] \notin DOMAIN shown[c]
    /\ shown' = [shown EXCEPT ![c] =
          [u \in DOMAIN @ \cup {mSelectedUid[c]} |->
              IF u \in DOMAIN @ THEN @[u] ELSE [name |-> "", unreadCount |-> 0]]]
    /\ UNCHANGED <<serverVars, netVars, contextVars, mState, mSelectedUid, losses, selects, sent>>

\* sendPublic() or sendPrivate(): shown at once, then requested.  A client that is
\* still connecting posts the request all the same, one whose connection is lost
\* sends nothing.
Say(c, to) ==
    /\ Len(sent) < MaxTexts
    /\ LET text == Len(sent) + 1
           request == Message(IF to = 0 THEN "send_public" ELSE "send_private", to, Guest, text)
       IN  /\ sent' = Append(sent, [from |-> c, to |-> to, early |-> mClient[c] = 0])
           /\ mMessages' = [mMessages EXCEPT ![c] =
                 Append(@, [uid |-> mMyUid[c], text |-> text, isPrivate |-> to # 0])]
           /\ \/ mClient[c] = 0 /\ early' = [early EXCEPT ![c] = Append(@, request)] /\ UNCHANGED up
              \/ mClient[c] # 0 /\ up' = Put(up, mClient[c], request) /\ UNCHANGED early
    /\ UNCHANGED mUsers
    /\ Refresh(c)
    /\ UNCHANGED <<serverVars, link, down, mClient, mMyUid, mState, mSelectedUid, losses,
                   selects>>

\* sendMessage(), to everybody or to the selected user.
SendMessage(c) ==
    /\ On(c, "MainUI")
    /\ Say(c, mSelectedUid[c])

\* A line typed in a terminal, or "/w <uid> <msg>" with any uid: the loop takes it
\* whether the login is through or not.
Type(c) ==
    /\ c \in Terminal /\ mState[c] \in {"Connecting", "MainUI"}
    /\ \E to \in 0 .. MaxConnections : Say(c, to)

-----------------------------------------------------------------------------
Server == \E u \in Uids : Serve(u) \/ Leave(u)
Network == \E u \in Uids : Lose(u)
Client(c) == Connected(c) \/ Disconnected(c) \/ Poll(c)
Window(c) ==
    \/ StartConnection(c) \/ StartRefused(c) \/ Launch(c) \/ Quit(c)
    \/ RenderHeader(c) \/ SendMessage(c) \/ Type(c)
    \/ \E u \in 0 .. mNextUid : Select(c, u)

Next == Server \/ Network \/ \E c \in User : Client(c) \/ Window(c)

Spec == Init /\ [][Next]_vars

\* The io thread serves what it has read and finds lost connections; a client
\* polls once a frame, and a connect ends one way or the other.
Fairness ==
    /\ \A u \in 1 .. MaxConnections :
          WF_vars(u \in Uids /\ Serve(u)) /\ WF_vars(u \in Uids /\ Leave(u))
    /\ \A c \in User : WF_vars(Poll(c)) /\ WF_vars(Connected(c) \/ Disconnected(c))

FairSpec == Spec /\ Fairness

-----------------------------------------------------------------------------
Names == User \cup {Guest, ""}
Views == [name : Names, unreadCount : Nat]
Kinds == {"login", "client_list", "send_public", "send_private",
          "welcome", "clients", "user_joined", "user_left", "public_message", "private_message"}
Messages == [kind : Kinds, uid : Nat, name : Names, text : Nat,
             list : SUBSET [uid : Nat, name : Names]]

ServerOK ==
    /\ mNextUid \in 1 .. MaxConnections + 1
    /\ DOMAIN mSessions \subseteq Uids /\ mSessions \in [DOMAIN mSessions -> Names]
    /\ owner \in [Uids -> User]
NetOK ==
    /\ link \in [Uids -> {"up", "lost"}]
    /\ up \in [Uids -> Seq(Messages)] /\ down \in [Uids -> Seq(Messages)]
    /\ early \in [User -> Seq(Messages)]
UsersOK ==
    \A users \in {mUsers, shown} : DOMAIN users = User /\ \A c \in User :
        DOMAIN users[c] \subseteq Uids /\ users[c] \in [DOMAIN users[c] -> Views]
TextsOK ==
    /\ sent \in Seq([from : User, to : Nat, early : BOOLEAN])
    /\ mMessages \in [User -> Seq([uid : Nat, text : Nat, isPrivate : BOOLEAN])]
ProgramOK ==
    /\ mClient \in [User -> Nat] /\ mMyUid \in [User -> Nat]
    /\ \A c \in User :
          /\ mClient[c] # 0 => mClient[c] \in Uids /\ owner[mClient[c]] = c
          /\ mMyUid[c] # 0 => mMyUid[c] \in Uids /\ owner[mMyUid[c]] = c
    /\ mState \in [User -> {"Login", "Connecting", "MainUI", "Gone"}]
    /\ mSelectedUid \in [User -> {0} \cup Uids]
    /\ losses \in 0 .. MaxLosses /\ selects \in 0 .. MaxSelects

\* Type invariant: the values of the server's, the contexts' and the windows' state.
TypeOK == ServerOK /\ NetOK /\ UsersOK /\ TextsOK /\ ProgramOK

\* A client in the chat that has handled everything sent to it knows every user
\* who has logged in, by the right name, and nobody who has left: the list
\* and the pushes before and after it add up, however they were interleaved
\* with other logins, departures and reconnects.
RosterRight ==
    \A c \in User :
        LET u == mClient[c]
        IN  mState[c] = "MainUI" /\ u # 0 /\ link[u] = "up" /\ down[u] = <<>> =>
                /\ DOMAIN mUsers[c] \subseteq DOMAIN mSessions
                /\ \A v \in DOMAIN mSessions :
                      mSessions[v] # Guest =>
                          v \in DOMAIN mUsers[c] /\ mUsers[c][v].name = mSessions[v]

\* What a window shows of the others is what its context knows, whatever was
\* selected, cleared or sent meanwhile.  Beyond that only nameless lines stay until
\* the next event, of users whose chat was still open when they left.
WindowFollows ==
    \A c \in User \ Terminal : mState[c] = "MainUI" =>
        /\ DOMAIN mUsers[c] \subseteq DOMAIN shown[c]
        /\ \A u \in DOMAIN shown[c] \ DOMAIN mUsers[c] : shown[c][u].name = ""
        /\ \A u \in DOMAIN mUsers[c] :
              /\ shown[c][u].name = mUsers[c][u].name
              /\ shown[c][u].unreadCount <= mUsers[c][u].unreadCount

\* A message is shown once, its sender's copy included, which the server sends back
\* to him too.  The exception is a line typed in a terminal before the connection was
\* up: it goes out ahead of the login and comes back to a client without a uid.
ShownOnce ==
    \A c \in User : \A i, j \in DOMAIN mMessages[c] :
        i < j /\ mMessages[c][i].text = mMessages[c][j].text =>
            LET s == sent[mMessages[c][i].text]
            IN  c = s.from /\ c \in Terminal /\ s.early

\* A private message is shown to its sender and to the user it was addressed to and
\* to nobody else, even when it was typed before that user had logged in.
PrivateStaysPrivate ==
    \A c \in User : \A i \in DOMAIN mMessages[c] :
        LET m == mMessages[c][i]
            s == sent[m.text]
        IN  /\ m.isPrivate = (s.to # 0)
            /\ IF m.uid = 0 THEN c = s.from ELSE owner[m.uid] = s.from
            /\ s.to # 0 => c = s.from \/ (s.to \in Uids /\ owner[s.to] = c)

\* What a user typed on one connection is shown to everybody in the order he typed it.
InOrder ==
    \A c \in User : \A i, j \in DOMAIN mMessages[c] :
        i < j /\ mMessages[c][i].uid = mMessages[c][j].uid =>
            mMessages[c][i].text < mMessages[c][j].text

\* Nobody stays at the connecting screen: the chat opens or the login screen is back.
LoginCompletes == \A c \in User : mState[c] = "Connecting" ~> mState[c] # "Connecting"

=============================================================================
