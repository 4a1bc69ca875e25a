----------------------------- MODULE ChatServer -----------------------------
(***************************************************************************)
(* The server side of the chat: the connection factory of                  *)
(* ServerController::start, the sessions it creates, the SessionManager    *)
(* they share and the routes of ServerAppContext.                          *)
(*                                                                         *)
(* Each started port has one io thread (io->run()), which takes one        *)
(* handler at a time and runs it to its end; the dashboard runs on the GUI *)
(* thread and calls the same objects.  A step of this module is one atomic *)
(* step of one thread: a SessionManager operation under its mutex, one     *)
(* atomic exchange, one socket operation, one post to an executor.         *)
(***************************************************************************)
EXTENDS SessionManager, Sequences, FiniteSets

CONSTANTS
    Port,         \* the started ports, each with its io thread
    Gui,          \* the dashboard's thread
    PortOf,       \* the port each session is accepted on
    MaxRequests,  \* bound: requests read from each session
    MaxKicks,     \* bound: sessions kicked from the dashboard
    MaxNotices    \* bound: system messages broadcast from the dashboard

Thread == Port \cup {Gui}

ASSUME ServerAssumption ==
    /\ Session # {}
    /\ Gui \notin Port
    /\ PortOf \in [Session -> Port]
    /\ MaxRequests \in [Session -> Nat] /\ MaxKicks \in Nat /\ MaxNotices \in Nat

VARIABLES
    mNextUid,     \* SessionManager::mNextUid
    mSessions,    \* SessionManager::mSessions
    mUid,         \* the uid of a session: the local the callbacks capture
    stage,        \* how far the factory and the read loop of a session are
    mIsClosed,    \* the sessions whose atomic flag is set
    conn,         \* its socket: up, lost (by the peer or the network), closed
    outbox,       \* writes posted to its executor and not yet run
    wire,         \* messages written to its socket
    closePosted,  \* the sessions whose executor holds a close() a failed write posted
    requests,     \* requests read from it
    at, cur,      \* per thread: the next step, and the session it is about
    msg,          \* per thread: the message being built or sent
    ids,          \* per thread: uids still to be looked up
    todo,         \* per thread: sessions of the snapshot not yet sent to
    kicks, notices,  \* operations the dashboard has made
    missed        \* auxiliary: sessions whose close() found no close callback

sessionVars == <<mUid, stage, mIsClosed, conn, closePosted, requests>>
queueVars == <<outbox, wire>>
threadVars == <<at, cur, msg, ids, todo>>
guiVars == <<kicks, notices>>
vars == <<mNextUid, mSessions, sessionVars, queueVars, threadVars, guiVars, missed>>

Stages == {"none", "accepted", "added", "wired", "reading", "done"}
Wired == {"wired", "reading", "done"}  \* mCloseSessionCallback is set
Conns == {"none", "up", "lost", "closed"}
Events == {"joined", "left", "public", "private", "system", "response", "clients"}
Labels == {"idle", "adding", "wiring", "starting", "close", "shutdown", "notify",
           "remove", "snapshot", "send", "naming", "lookup", "respond"}

ListEntry == [uid : Nat, name : Names]
Message == [ev : Events, uid : Nat, name : Names, list : SUBSET ListEntry]
Msg(ev, uid, name) == [ev |-> ev, uid |-> uid, name |-> name, list |-> {}]
WithEntry(m, e) == [ev |-> m.ev, uid |-> m.uid, name |-> m.name, list |-> m.list \cup {e}]
NoMsg == Msg("response", 0, UnknownName)
AnySession == CHOOSE c \in Session : TRUE

\* What session c has been sent, in the order it was posted.
Posted(c) == wire[c] \o outbox[c]

-----------------------------------------------------------------------------
Init ==
    /\ mNextUid = 1
    /\ mSessions = [u \in {} |-> [session |-> AnySession, username |-> GuestName]]
    /\ mUid = [c \in Session |-> 0]
    /\ stage = [c \in Session |-> "none"]
    /\ mIsClosed = {}
    /\ conn = [c \in Session |-> "none"]
    /\ outbox = [c \in Session |-> <<>>]
    /\ wire = [c \in Session |-> <<>>]
    /\ closePosted = {}
    /\ requests = [c \in Session |-> 0]
    /\ at = [t \in Thread |-> "idle"]
    /\ cur = [t \in Thread |-> AnySession]
    /\ msg = [t \in Thread |-> NoMsg]
    /\ ids = [t \in Thread |-> {}]
    /\ todo = [t \in Thread |-> {}]
    /\ kicks = 0 /\ notices = 0
    /\ missed = {}

\* Thread t goes on with step l (of the work it is doing).
Goto(t, l) == at' = [at EXCEPT ![t] = l]

\* Thread t returns from its handler: its locals are gone.
Return(t) ==
    /\ Goto(t, "idle")
    /\ cur' = [cur EXCEPT ![t] = AnySession]
    /\ msg' = [msg EXCEPT ![t] = NoMsg]

\* Idle thread t starts working on session c at step l.
Begin(t, c, l) ==
    /\ at[t] = "idle"
    /\ Goto(t, l)
    /\ cur' = [cur EXCEPT ![t] = c]

\* Thread t may run a handler of session c: c lives on t's port.
Serves(t, c) == t = PortOf[c] /\ at[t] = "idle"

-----------------------------------------------------------------------------
(* The connection factory: add(), onClose(), onMessage() and start().      *)

\* A uid taken from the size of the registry instead of a counter.
DrawUid_FromSize(t, c) ==
    /\ mUid' = [mUid EXCEPT ![c] = Cardinality(DOMAIN mSessions) + 1]
    /\ mNextUid' = mNextUid + 1

\* mNextUid.fetch_add(1), before the lock is taken.
DrawUid(t, c) ==
    /\ mUid' = [mUid EXCEPT ![c] = mNextUid]
    /\ mNextUid' = mNextUid + 1

\* async_accept completes: make the session and draw its uid.
Accept(t, c) ==
    /\ Serves(t, c)
    /\ stage[c] = "none"
    /\ Begin(t, c, "adding")
    /\ DrawUid(t, c)
    /\ stage' = [stage EXCEPT ![c] = "accepted"]
    /\ conn' = [conn EXCEPT ![c] = "up"]
    /\ UNCHANGED <<mSessions, mIsClosed, closePosted, requests, queueVars, msg, ids, todo,
                   guiVars, missed>>

\* The insertion into mSessions.
AddSession(t) ==
    /\ at[t] = "adding"
    /\ mSessions' = AddTo(mSessions, mUid[cur[t]], cur[t])
    /\ stage' = [stage EXCEPT ![cur[t]] = "added"]
    /\ Goto(t, "wiring")
    /\ UNCHANGED <<mNextUid, mUid, mIsClosed, conn, closePosted, requests, queueVars, cur, msg,
                   ids, todo, guiVars, missed>>

\* session->onClose(...): from here on a close() announces the departure.
Wire(t) ==
    /\ at[t] = "wiring"
    /\ stage' = [stage EXCEPT ![cur[t]] = "wired"]
    /\ Goto(t, "starting")
    /\ UNCHANGED <<mNextUid, mSessions, mUid, mIsClosed, conn, closePosted, requests, queueVars,
                   cur, msg, ids, todo, guiVars, missed>>

\* session->onMessage(...) and start(): the first header read is pending.
Start(t) ==
    /\ at[t] = "starting"
    /\ stage' = [stage EXCEPT ![cur[t]] = "reading"]
    /\ Return(t)
    /\ UNCHANGED <<mNextUid, mSessions, mUid, mIsClosed, conn, closePosted, requests, queueVars,
                   ids, todo, guiVars, missed>>

-----------------------------------------------------------------------------
(* Closing a session: any thread, any number of times.                     *)

\* The peer goes away or the connection breaks.
LoseConnection(c) ==
    /\ conn[c] = "up"
    /\ conn' = [conn EXCEPT ![c] = "lost"]
    /\ UNCHANGED <<mNextUid, mSessions, mUid, stage, mIsClosed, closePosted, requests,
                   queueVars, threadVars, guiVars, missed>>

\* A read completes with an error, the frame is refused, or decoding or the
\* handler throws: the read loop ends in close().
EndRead(t, c) ==
    /\ Serves(t, c)
    /\ stage[c] = "reading"
    /\ stage' = [stage EXCEPT ![c] = "done"]
    /\ Begin(t, c, "close")
    /\ UNCHANGED <<mNextUid, mSessions, mUid, mIsClosed, conn, closePosted, requests, queueVars,
                   msg, ids, todo, guiVars, missed>>

\* The close() a failed write posted.
RunPostedClose(t, c) ==
    /\ Serves(t, c)
    /\ c \in closePosted
    /\ closePosted' = closePosted \ {c}
    /\ Begin(t, c, "close")
    /\ UNCHANGED <<mNextUid, mSessions, mUid, stage, mIsClosed, conn, requests, queueVars, msg,
                   ids, todo, guiVars, missed>>

\* The dashboard kicks a listed user: get(uid) finds the session, close() follows.
Kick(u) ==
    /\ kicks < MaxKicks
    /\ u \in DOMAIN mSessions
    /\ kicks' = kicks + 1
    /\ Begin(Gui, mSessions[u].session, "close")
    /\ UNCHANGED <<mNextUid, mSessions, sessionVars, queueVars, msg, ids, todo, notices, missed>>

\* A close() that ignores what the exchange returned.
MarkClosed_NoTest(t) ==
    /\ at[t] = "close"
    /\ mIsClosed' = mIsClosed \cup {cur[t]}
    /\ Goto(t, "shutdown")
    /\ UNCHANGED <<mNextUid, mSessions, mUid, stage, conn, closePosted, requests, queueVars,
                   cur, msg, ids, todo, guiVars, missed>>

\* mIsClosed.exchange(true): only the first caller goes on.
MarkClosed(t) ==
    /\ at[t] = "close"
    /\ mIsClosed' = mIsClosed \cup {cur[t]}
    /\ \/ cur[t] \notin mIsClosed /\ Goto(t, "shutdown") /\ UNCHANGED <<cur, msg>>
       \/ cur[t] \in mIsClosed /\ Return(t)
    /\ UNCHANGED <<mNextUid, mSessions, mUid, stage, conn, closePosted, requests, queueVars,
                   ids, todo, guiVars, missed>>

\* A close() that forgets the socket.
Shutdown_LeavesOpen(t) ==
    /\ at[t] = "shutdown"
    /\ Goto(t, "notify")
    /\ UNCHANGED <<mNextUid, mSessions, sessionVars, queueVars, cur, msg, ids, todo, guiVars,
                   missed>>

\* Shut down and close the socket.
Shutdown(t) ==
    /\ at[t] = "shutdown"
    /\ conn' = [conn EXCEPT ![cur[t]] = "closed"]
    /\ Goto(t, "notify")
    /\ UNCHANGED <<mNextUid, mSessions, mUid, stage, mIsClosed, closePosted, requests,
                   queueVars, cur, msg, ids, todo, guiVars, missed>>

\* A close() that returns without telling the server.
Notify_Silent(t) ==
    /\ at[t] = "notify"
    /\ Return(t)
    /\ UNCHANGED <<mNextUid, mSessions, sessionVars, queueVars, ids, todo, guiVars, missed>>

\* if (mCloseSessionCallback): it is empty until the factory has set it.
Notify(t) ==
    /\ at[t] = "notify"
    /\ \/ /\ stage[cur[t]] \in Wired
          /\ Goto(t, "remove")
          /\ UNCHANGED <<cur, msg, missed>>
       \/ /\ stage[cur[t]] \notin Wired
          /\ Return(t)
          /\ missed' = missed \cup {cur[t]}
    /\ UNCHANGED <<mNextUid, mSessions, sessionVars, queueVars, ids, todo, guiVars>>

\* The close callback: remove(uid), then the user_left push to broadcast.
Remove(t) ==
    /\ at[t] = "remove"
    /\ mSessions' = RemoveFrom(mSessions, mUid[cur[t]])
    /\ msg' = [msg EXCEPT ![t] = Msg("left", mUid[cur[t]], UnknownName)]
    /\ Goto(t, "snapshot")
    /\ UNCHANGED <<mNextUid, sessionVars, queueVars, cur, ids, todo, guiVars, missed>>

-----------------------------------------------------------------------------
(* Sending: broadcast() and sendTo() copy the recipients under the lock    *)
(* and post one write per recipient after it.                              *)

\* broadcast(): the snapshot.
Snapshot(t) ==
    /\ at[t] = "snapshot"
    /\ todo' = [todo EXCEPT ![t] = AllSessions(mSessions)]
    /\ Goto(t, "send")
    /\ UNCHANGED <<mNextUid, mSessions, sessionVars, queueVars, cur, msg, ids, guiVars, missed>>

\* sendTo(): the snapshot of the recipients asked for.
Lookup(t) ==
    /\ at[t] = "lookup"
    /\ todo' = [todo EXCEPT ![t] = Targets(mSessions, ids[t])]
    /\ ids' = [ids EXCEPT ![t] = {}]
    /\ Goto(t, "send")
    /\ UNCHANGED <<mNextUid, mSessions, sessionVars, queueVars, cur, msg, guiVars, missed>>

\* send() to one recipient of the snapshot, in the map's arbitrary order.
SendOne(t, d) ==
    /\ at[t] = "send"
    /\ d \in todo[t]
    /\ outbox' = [outbox EXCEPT ![d] = Append(@, msg[t])]
    /\ todo' = [todo EXCEPT ![t] = @ \ {d}]
    /\ UNCHANGED <<mNextUid, mSessions, sessionVars, wire, at, cur, msg, ids, guiVars, missed>>

\* A send loop after which nobody answers the request.
SendDone_NoReply(t) ==
    /\ at[t] = "send"
    /\ todo[t] = {}
    /\ Return(t)
    /\ UNCHANGED <<mNextUid, mSessions, sessionVars, queueVars, ids, todo, guiVars, missed>>

\* The loop ends: a handler answers its request, a close or a notice is over.
SendDone(t) ==
    /\ at[t] = "send"
    /\ todo[t] = {}
    /\ \/ msg[t].ev \in {"left", "system"} /\ Return(t)
       \/ msg[t].ev \notin {"left", "system"} /\ Goto(t, "respond") /\ UNCHANGED <<cur, msg>>
    /\ UNCHANGED <<mNextUid, mSessions, sessionVars, queueVars, ids, todo, guiVars, missed>>

\* The io thread runs a posted write: it reaches the socket, or fails and
\* posts close().
Write(t, c) ==
    /\ Serves(t, c)
    /\ outbox[c] # <<>>
    /\ outbox' = [outbox EXCEPT ![c] = Tail(@)]
    /\ \/ /\ conn[c] = "up"
          /\ wire' = [wire EXCEPT ![c] = Append(@, Head(outbox[c]))]
          /\ UNCHANGED closePosted
       \/ /\ conn[c] # "up"
          /\ closePosted' = closePosted \cup {c}
          /\ UNCHANGED wire
    /\ UNCHANGED <<mNextUid, mSessions, mUid, stage, mIsClosed, conn, requests, threadVars,
                   guiVars, missed>>

-----------------------------------------------------------------------------
(* Requests: Router::handle runs the route's handler, the factory's        *)
(* message callback sends the response.                                    *)

\* A request of session c has been read; its handler starts at step l.
Receive(t, c, l) ==
    /\ Serves(t, c)
    /\ stage[c] = "reading"
    /\ requests[c] < MaxRequests[c]
    /\ requests' = [requests EXCEPT ![c] = @ + 1]
    /\ Begin(t, c, l)

\* login: setName(), then broadcast user_joined.
Login(t, c, name) ==
    /\ Receive(t, c, "snapshot")
    /\ mSessions' = SetName(mSessions, mUid[c], name)
    /\ msg' = [msg EXCEPT ![t] = Msg("joined", mUid[c], name)]
    /\ UNCHANGED <<mNextUid, mUid, stage, mIsClosed, conn, closePosted, queueVars, ids, todo,
                   guiVars, missed>>

\* A client_list over every uid ever drawn.
ClientList_AllUids(t, c) ==
    /\ Receive(t, c, "naming")
    /\ ids' = [ids EXCEPT ![t] = 1 .. mNextUid - 1]
    /\ msg' = [msg EXCEPT ![t] = Msg("clients", mUid[c], UnknownName)]
    /\ UNCHANGED <<mNextUid, mSessions, mUid, stage, mIsClosed, conn, closePosted, queueVars,
                   todo, guiVars, missed>>

\* client_list: listIds(), then getName() for each id.
ClientList(t, c) ==
    /\ Receive(t, c, "naming")
    /\ ids' = [ids EXCEPT ![t] = DOMAIN mSessions]
    /\ msg' = [msg EXCEPT ![t] = Msg("clients", mUid[c], UnknownName)]
    /\ UNCHANGED <<mNextUid, mSessions, mUid, stage, mIsClosed, conn, closePosted, queueVars,
                   todo, guiVars, missed>>

\* One getName() of client_list.
NameOne(t, u) ==
    /\ at[t] = "naming"
    /\ u \in ids[t]
    /\ ids' = [ids EXCEPT ![t] = @ \ {u}]
    /\ msg' = [msg EXCEPT ![t] = WithEntry(@, [uid |-> u, name |-> GetName(mSessions, u)])]
    /\ UNCHANGED <<mNextUid, mSessions, sessionVars, queueVars, at, cur, todo, guiVars, missed>>

\* The list is complete.
NameDone(t) ==
    /\ at[t] = "naming"
    /\ ids[t] = {}
    /\ Goto(t, "respond")
    /\ UNCHANGED <<mNextUid, mSessions, sessionVars, queueVars, cur, msg, ids, todo, guiVars,
                   missed>>

\* send_public: getName(), then broadcast.
SendPublic(t, c) ==
    /\ Receive(t, c, "snapshot")
    /\ msg' = [msg EXCEPT ![t] = Msg("public", mUid[c], GetName(mSessions, mUid[c]))]
    /\ UNCHANGED <<mNextUid, mSessions, mUid, stage, mIsClosed, conn, closePosted, queueVars,
                   ids, todo, guiVars, missed>>

\* send_private: getName(), then sendTo({to}).
SendPrivate(t, c, to) ==
    /\ Receive(t, c, "lookup")
    /\ ids' = [ids EXCEPT ![t] = {to}]
    /\ msg' = [msg EXCEPT ![t] = Msg("private", mUid[c], GetName(mSessions, mUid[c]))]
    /\ UNCHANGED <<mNextUid, mSessions, mUid, stage, mIsClosed, conn, closePosted, queueVars,
                   todo, guiVars, missed>>

\* ping, and every request the router answers with an error.
Ping(t, c) ==
    /\ Receive(t, c, "respond")
    /\ msg' = [msg EXCEPT ![t] = Msg("response", mUid[c], UnknownName)]
    /\ UNCHANGED <<mNextUid, mSessions, mUid, stage, mIsClosed, conn, closePosted, queueVars,
                   ids, todo, guiVars, missed>>

\* s->send(response), then the next header read, which fails on a closed socket.
Respond(t) ==
    /\ at[t] = "respond"
    /\ LET c == cur[t]
           reply == IF msg[t].ev = "clients" THEN msg[t]
                    ELSE Msg("response", mUid[c], UnknownName)
       IN  /\ outbox' = [outbox EXCEPT ![c] = Append(@, reply)]
           /\ stage' = [stage EXCEPT ![c] = IF conn[c] = "closed" THEN "done" ELSE @]
    /\ Return(t)
    /\ UNCHANGED <<mNextUid, mSessions, mUid, mIsClosed, conn, closePosted, requests, wire, ids,
                   todo, guiVars, missed>>

\* The dashboard broadcasts a system message.
Notice ==
    /\ notices < MaxNotices
    /\ notices' = notices + 1
    /\ at[Gui] = "idle"
    /\ Goto(Gui, "snapshot")
    /\ msg' = [msg EXCEPT ![Gui] = Msg("system", 0, UnknownName)]
    /\ UNCHANGED <<mNextUid, mSessions, sessionVars, queueVars, cur, ids, todo, kicks, missed>>

-----------------------------------------------------------------------------
\* The thread goes on with what it is doing.
Continue(t) ==
    \/ AddSession(t) \/ Wire(t) \/ Start(t)
    \/ MarkClosed(t) \/ Shutdown(t) \/ Notify(t) \/ Remove(t)
    \/ Snapshot(t) \/ Lookup(t) \/ SendDone(t) \/ NameDone(t) \/ Respond(t)
    \/ \E d \in Session : SendOne(t, d)
    \/ \E u \in ids[t] : NameOne(t, u)

\* The io thread takes a completion or a posted function of session c.
Request(t, c) ==
    \/ \E name \in Name : Login(t, c, name)
    \/ ClientList(t, c)
    \/ SendPublic(t, c)
    \/ \E to \in 1 .. mNextUid : SendPrivate(t, c, to)
    \/ Ping(t, c)

Dispatch(t, c) ==
    \/ Accept(t, c) \/ EndRead(t, c) \/ RunPostedClose(t, c) \/ Write(t, c)
    \/ Request(t, c)

Dashboard == Notice \/ \E u \in DOMAIN mSessions : Kick(u)

Next ==
    \/ \E t \in Thread : Continue(t)
    \/ \E t \in Port, c \in Session : Dispatch(t, c)
    \/ \E c \in Session : LoseConnection(c)
    \/ Dashboard

Spec == Init /\ [][Next]_vars

\* A thread that has begun a handler finishes it.  io->run() takes the queued
\* completions in order, so a posted write, a posted close and the completion
\* of a read on a dead socket have their turn although the thread is busy
\* again and again in between.
Fairness ==
    /\ \A t \in Thread : WF_vars(Continue(t))
    /\ \A c \in Session :
          /\ SF_vars(Write(PortOf[c], c))
          /\ SF_vars(RunPostedClose(PortOf[c], c))
          /\ SF_vars(conn[c] # "up" /\ EndRead(PortOf[c], c))

FairSpec == Spec /\ Fairness

-----------------------------------------------------------------------------
Closing == {"shutdown", "notify", "remove"}

\* Sessions in the registry, and threads on their way to take c out of it.
Registered == AllSessions(mSessions)
Closers(c) == {t \in Thread : at[t] \in Closing /\ cur[t] = c}

\* Type invariant: the values each variable of the server and its threads has.
RegistryOK ==
    /\ mNextUid \in Nat \ {0}
    /\ DOMAIN mSessions \subseteq Nat
    /\ mSessions \in [DOMAIN mSessions -> SessionInfo]
SessionOK ==
    /\ mUid \in [Session -> Nat]
    /\ stage \in [Session -> Stages]
    /\ conn \in [Session -> Conns]
    /\ requests \in [Session -> Nat]
    /\ mIsClosed \subseteq Session /\ closePosted \subseteq Session /\ missed \subseteq Session
QueueOK == outbox \in [Session -> Seq(Message)] /\ wire \in [Session -> Seq(Message)]
ThreadOK ==
    /\ at \in [Thread -> Labels]
    /\ cur \in [Thread -> Session]
    /\ msg \in [Thread -> Message]
    /\ ids \in [Thread -> SUBSET Nat]
    /\ todo \in [Thread -> SUBSET Session]
GuiOK == kicks \in 0 .. MaxKicks /\ notices \in 0 .. MaxNotices
TypeOK == RegistryOK /\ SessionOK /\ QueueOK /\ ThreadOK /\ GuiOK

\* Sessions accepted by different io threads at the same time never share a
\* uid, and an entry of mSessions is filed under its session's own uid: add()
\* draws the number outside the lock.
UidsDistinct ==
    /\ \A c, d \in Session :
          stage[c] # "none" /\ stage[d] # "none" /\ mUid[c] = mUid[d] => c = d
    /\ \A u \in DOMAIN mSessions : mUid[mSessions[u].session] = u

\* Of all the callers of close() - the read loop, a failed write, the dashboard -
\* at most one closes the socket and calls the close callback.
SingleCloser ==
    \A c \in Session : \A t1, t2 \in Thread :
        t1 \in Closers(c) /\ t2 \in Closers(c) => t1 = t2

\* A closed session stays in mSessions only while the thread that closed it is
\* on its way to remove(), or when that thread found no close callback.
ClosedIsForgotten ==
    \A c \in Registered : c \in mIsClosed => c \in missed \/ Closers(c) # {}

\* Once user_left has been posted to anybody, its uid is out of mSessions: nobody
\* who asks for client_list after hearing it is told of the user again.
LeftIsFinal ==
    \A d \in Session : \A i \in DOMAIN Posted(d) :
        Posted(d)[i].ev = "left" => Posted(d)[i].uid \notin DOMAIN mSessions

\* After a user's user_left at most one more push of or from that user reaches a
\* listener: the one of the handler that was already running, or already queued
\* with a completed read, when another thread or a failed write closed the session.
LastWordOnly ==
    \A d \in Session : \A i, j, k \in DOMAIN Posted(d) :
        LET P == Posted(d)
            Late(n) == P[n].ev \in {"joined", "public", "private"} /\ P[n].uid = P[i].uid
        IN  P[i].ev = "left" /\ i < j /\ i < k /\ Late(j) /\ Late(k) => j = k

\* A client_list answer names nobody the listener was already told had left, and
\* every name in it is real.  It holds on one port and while nobody is kicked:
\* listIds() and the getName() calls are separate critical sections.
ListIsCurrent ==
    kicks = 0 =>
        \A d \in Session : \A j \in DOMAIN Posted(d) : \A e \in Posted(d)[j].list :
            /\ e.name # UnknownName
            /\ \A i \in 1 .. j : Posted(d)[i].ev = "left" => Posted(d)[i].uid # e.uid

\* A uid enters mSessions once, by add() and before the session can be heard
\* from: no late setName() or second insertion brings back a user who left.
NoResurrection ==
    [][\A u \in DOMAIN mSessions' \ DOMAIN mSessions :
          stage[mSessions'[u].session] = "accepted"]_vars

\* Whoever is connected when somebody leaves is told, unless his own connection
\* ends; only a close() that found no callback is passed over in silence.
DepartureHeard ==
    \A c, d \in Session :
        (c \in mIsClosed /\ {c, d} \subseteq Registered) ~>
            \/ \E i \in DOMAIN wire[d] : wire[d][i] = Msg("left", mUid[c], UnknownName)
            \/ conn[d] # "up"
            \/ c \in missed

\* Every request read is answered on the connection it came from while that
\* connection lasts, whatever the route does in between.
Answers(c) ==
    Cardinality({i \in DOMAIN wire[c] : wire[c][i].ev \in {"response", "clients"}})
RequestAnswered ==
    \A c \in Session : \A k \in 1 .. MaxRequests[c] :
        requests[c] = k ~> (Answers(c) >= k \/ conn[c] # "up")
-----------------------------------------------------------------------------
(* The strengthening that makes the safety of the registry inductive.      *)

\* Session c has not been inserted into mSessions yet: nobody can know it.
Fresh(c) == stage[c] \in {"none", "accepted"}

UidsDrawn ==
    /\ \A c \in Session : stage[c] # "none" => mUid[c] < mNextUid
    /\ \A u \in DOMAIN mSessions : ~Fresh(mSessions[u].session)

FreshUntouched ==
    \A c \in Session :
        Fresh(c) => c \notin mIsClosed /\ c \notin closePosted /\ outbox[c] = <<>>

\* What a thread at a step knows of the session it works for.
InStep(t) ==
    /\ at[t] = "adding" => stage[cur[t]] = "accepted" /\ t = PortOf[cur[t]]
    /\ at[t] \in {"wiring", "starting", "close", "naming", "lookup", "respond"} \cup Closing
          => ~Fresh(cur[t])
    /\ at[t] \in {"snapshot", "send"} => msg[t].ev = "system" \/ ~Fresh(cur[t])
    /\ at[t] \in Closing => cur[t] \in mIsClosed
    /\ \A d \in todo[t] : ~Fresh(d)

IInv ==
    /\ TypeOK
    /\ UidsDistinct
    /\ UidsDrawn
    /\ FreshUntouched
    /\ \A t \in Thread : InStep(t)
    /\ SingleCloser
    /\ ClosedIsForgotten

\* uid u can never be registered (again).
Gone(u) ==
    /\ u \notin DOMAIN mSessions
    /\ u < mNextUid
    /\ \A c \in Session : stage[c] = "accepted" => mUid[c] # u

-----------------------------------------------------------------------------
\* The server implements Membership.  A session is a member while it is in
\* mSessions; its departure is announced when the snapshot of the recipients
\* of its user_left is taken.
status ==
    [c \in Session |->
        IF c \in Registered THEN "member"
        ELSE IF stage[c] \in Wired THEN "left" ELSE "new"]
\* Thread t has taken a session out of mSessions and has not announced it yet.
Departing(t) == at[t] = "snapshot" /\ msg[t].ev = "left"
announced ==
    {c \in Session : status[c] = "left" /\ \A t \in Thread : ~(Departing(t) /\ cur[t] = c)}

Abstract == INSTANCE Membership WITH ghost <- missed
ImplementsMembership == Abstract!Spec

\* Every step of the server's is a step of Membership's, or none.
StepsAreMembership == Abstract!Init /\ [][Abstract!Next]_(Abstract!mvars)

-----------------------------------------------------------------------------
\* What the proof of StepsAreMembership needs besides IInv: who is in mSessions,
\* and what a thread knows that takes a session out and announces it.
InTheRegistry ==
    /\ missed \subseteq mIsClosed
    /\ \A c \in Session :
          stage[c] = "added" \/ (~Fresh(c) /\ c \notin mIsClosed) => c \in Registered

OnTheWayOut(t) ==
    /\ at[t] \in Closing => cur[t] \in Registered /\ cur[t] \notin missed
    /\ at[t] = "remove" => stage[cur[t]] \in Wired
    /\ Departing(t) => cur[t] \notin Registered /\ stage[cur[t]] \in Wired

OneAnnouncer ==
    \A t1, t2 \in Thread : Departing(t1) /\ Departing(t2) /\ cur[t1] = cur[t2] => t1 = t2

MInv ==
    /\ InTheRegistry
    /\ \A t \in Thread : OnTheWayOut(t)
    /\ OneAnnouncer

=============================================================================
