------------------------------- MODULE Client -------------------------------
(***************************************************************************)
(* net::client::Client: its connection, its requests and its thread, used  *)
(* by one user thread.  In Threaded mode an io thread of its own runs the  *)
(* handlers, in Manual mode the user's calls of poll() do.                 *)
(*                                                                         *)
(* The io_context outlives a close(): what was posted to it, and what was  *)
(* under way on the socket, is still there at the next connect().          *)
(***************************************************************************)
EXTENDS Naturals, Sequences, FiniteSets

CONSTANTS
    RunModes,     \* the RunMode values clients are constructed with
    MaxConnects,  \* bound: successful calls of connect()
    MaxRequests,  \* bound: requests made
    MaxPushes     \* bound: messages the server pushes

ASSUME ClientAssumption ==
    /\ RunModes \subseteq {"Threaded", "Manual"}
    /\ MaxConnects \in Nat /\ MaxRequests \in Nat /\ MaxPushes \in Nat

VARIABLES
    mRunMode,    \* the constructor's argument
    mIsRunning,
    mThread,     \* the std::thread: none, run, or ended and not joined
    stopped,     \* mIoContext.stopped()
    epoch,       \* how many connects there were
    conn,        \* the socket: none, connecting, up, lost, closed
    dials,       \* the connects whose result has not been handled
    reads,       \* the connects on which an async_read is under way
    posted,      \* functions posted to mIoContext
    callbacks,   \* the ids in mResponseCallbacks
    mNextRequestId,
    inbox,       \* requests on their way to the server
    toClient,    \* messages on their way from the server: a request's id, or 0
    pushes,      \* pushes made by the server
    user,        \* what the user thread is doing
    waiting,     \* the request request() waits for, 0 if none
    answered,    \* the requests whose callback has been called
    fired,       \* how often onConnect, onDisconnect and onError have fired
    selfClosed   \* auxiliary: a handler closed the client, or a connect failed

netVars == <<epoch, conn, dials, reads>>
serverVars == <<inbox, toClient, pushes>>
requestVars == <<callbacks, mNextRequestId, answered>>
vars == <<mRunMode, mIsRunning, mThread, stopped, netVars, posted, requestVars, serverVars,
          user, waiting, fired, selfClosed>>

Threaded == mRunMode = "Threaded"

Init ==
    /\ mRunMode \in RunModes
    /\ mIsRunning = FALSE /\ mThread = "none" /\ stopped = FALSE
    /\ epoch = 0 /\ conn = "none" /\ dials = {} /\ reads = {}
    /\ posted = <<>>
    /\ callbacks = {} /\ mNextRequestId = 1 /\ answered = {}
    /\ inbox = <<>> /\ toClient = <<>> /\ pushes = 0
    /\ user = "idle" /\ waiting = 0
    /\ fired = [connect |-> 0, disconnect |-> 0, error |-> 0]
    /\ selfClosed = FALSE

\* A message from the server that does not decode.
Torn == MaxRequests + 1

\* A posted function: a write of a request, the handler of a write that failed,
\* or the call of the disconnect callback.
Fn(kind, id) == [kind |-> kind, id |-> id]

Fire(f, event) == [f EXCEPT ![event] = @ + 1]

\* Handlers run on the io thread until it is stopped, or in the user's poll().
CanRun ==
    IF Threaded THEN mThread = "run" /\ ~stopped /\ user # "terminated" ELSE user = "idle"

-----------------------------------------------------------------------------
(* connect()                                                               *)

\* A std::thread that is overwritten or destroyed before it is joined ends the
\* program.
Connect ==
    /\ user = "idle" /\ epoch < MaxConnects
    /\ ~mIsRunning
    /\ mIsRunning' = TRUE
    /\ epoch' = epoch + 1 /\ conn' = "connecting" /\ dials' = dials \cup {epoch + 1}
    /\ \/ Threaded /\ mThread = "none" /\ mThread' = "run" /\ UNCHANGED user
       \/ Threaded /\ mThread # "none" /\ user' = "terminated" /\ UNCHANGED mThread
       \/ ~Threaded /\ UNCHANGED <<mThread, user>>
    /\ inbox' = <<>> /\ toClient' = <<>>
    /\ UNCHANGED <<mRunMode, stopped, reads, posted, requestVars, pushes, waiting, fired,
                   selfClosed>>

\* handleConnectResult() with no error: a result queued before the socket was
\* closed is still handled.
ConnectOk(e) ==
    /\ CanRun /\ e \in dials
    /\ conn \in {"connecting", "closed"} \/ e # epoch
    /\ dials' = dials \ {e}
    /\ conn' = IF e = epoch /\ conn = "connecting" THEN "up" ELSE conn
    /\ reads' = reads \cup {epoch}
    /\ fired' = Fire(fired, "connect")
    /\ UNCHANGED <<mRunMode, mIsRunning, mThread, stopped, epoch, posted, requestVars,
                   serverVars, user, waiting, selfClosed>>

\* handleConnectResult() with an error: the io thread stays as it is.
ConnectFailed(e) ==
    /\ CanRun /\ e \in dials
    /\ dials' = dials \ {e}
    /\ conn' = IF e = epoch /\ conn = "connecting" THEN "none" ELSE conn
    /\ mIsRunning' = FALSE
    /\ fired' = Fire(Fire(fired, "error"), "disconnect")
    /\ selfClosed' = TRUE
    /\ UNCHANGED <<mRunMode, mThread, stopped, epoch, reads, posted, requestVars, serverVars,
                   user, waiting>>

-----------------------------------------------------------------------------
(* close(), called by a handler and called by the user.                    *)

\* close() on the thread that runs the handlers.  In Threaded mode stopIo()
\* joins its own thread: the exception it throws ends run() with the io_context
\* stopped and the thread unjoined.
CloseFromHandler(rest) ==
    /\ mIsRunning' = FALSE
    /\ posted' = Append(rest, Fn("disconnect", 0))
    /\ conn' = "closed"
    /\ stopped' = Threaded
    /\ mThread' = IF Threaded THEN "ended" ELSE mThread
    /\ selfClosed' = TRUE

\* handleIoError(): the functions still posted are rest.  What it read of
\* mIsRunning may be older than the user's close().
HandleIoError(rest) ==
    \/ /\ mIsRunning
       /\ fired' = Fire(fired, "error")
       /\ CloseFromHandler(rest)
    \/ /\ ~mIsRunning
       /\ posted' = rest
       /\ UNCHANGED fired \/ (Threaded /\ user = "close" /\ fired' = Fire(fired, "error"))
       /\ UNCHANGED <<mIsRunning, mThread, stopped, conn, selfClosed>>

\* A close() that leaves the disconnect callback to handleIoError().
CloseMark_NoPost ==
    /\ user = "idle" /\ mIsRunning
    /\ mIsRunning' = FALSE
    /\ user' = "close"
    /\ UNCHANGED <<mRunMode, mThread, stopped, netVars, posted, requestVars, serverVars,
                   waiting, fired, selfClosed>>

\* close() by the user; a client that is not running has nothing to close.
CloseMark ==
    /\ user = "idle" /\ mIsRunning
    /\ mIsRunning' = FALSE
    /\ posted' = Append(posted, Fn("disconnect", 0))
    /\ user' = "close"
    /\ UNCHANGED <<mRunMode, mThread, stopped, netVars, requestVars, serverVars, waiting, fired,
                   selfClosed>>

\* mTransport->close(): operations under way on the socket fail.
CloseTransport ==
    /\ user = "close"
    /\ conn' = "closed"
    /\ user' = "stop"
    /\ UNCHANGED <<mRunMode, mIsRunning, mThread, stopped, epoch, dials, reads, posted,
                   requestVars, serverVars, waiting, fired, selfClosed>>

\* stopIo() up to the join.
Stop ==
    /\ user = "stop"
    /\ stopped' = Threaded
    /\ user' = "join"
    /\ UNCHANGED <<mRunMode, mIsRunning, mThread, netVars, posted, requestVars, serverVars,
                   waiting, fired, selfClosed>>

\* run() returns.
IoExit ==
    /\ mThread = "run" /\ stopped
    /\ mThread' = "ended"
    /\ UNCHANGED <<mRunMode, mIsRunning, stopped, netVars, posted, requestVars, serverVars,
                   user, waiting, fired, selfClosed>>

\* A stopIo() without the restart.
Join_NoRestart ==
    /\ user = "join"
    /\ mThread # "run"
    /\ mThread' = "none"
    /\ user' = "idle"
    /\ UNCHANGED <<mRunMode, mIsRunning, stopped, netVars, posted, requestVars, serverVars,
                   waiting, fired, selfClosed>>

\* A stopIo() that does not wait for the io thread.
Join_Detached ==
    /\ user = "join"
    /\ stopped' = FALSE
    /\ user' = "idle"
    /\ UNCHANGED <<mRunMode, mIsRunning, mThread, netVars, posted, requestVars, serverVars,
                   waiting, fired, selfClosed>>

\* The rest of stopIo(): join, then restart().
Join ==
    /\ user = "join"
    /\ mThread # "run"
    /\ mThread' = "none"
    /\ stopped' = FALSE
    /\ user' = "idle"
    /\ UNCHANGED <<mRunMode, mIsRunning, netVars, posted, requestVars, serverVars, waiting,
                   fired, selfClosed>>

\* ~Client() once close() has nothing left to do: the members go, the thread too.
Destroy ==
    /\ user = "idle" /\ ~mIsRunning
    /\ user' = IF mThread = "none" THEN "gone" ELSE "terminated"
    /\ UNCHANGED <<mRunMode, mIsRunning, mThread, stopped, netVars, posted, requestVars,
                   serverVars, waiting, fired, selfClosed>>

-----------------------------------------------------------------------------
(* Requests.                                                               *)

\* requestAsync(): a client that is not running ignores it.
RequestAsync ==
    /\ user = "idle" /\ mIsRunning /\ mNextRequestId <= MaxRequests
    /\ user' = "file"
    /\ UNCHANGED <<mRunMode, mIsRunning, mThread, stopped, netVars, posted, requestVars,
                   serverVars, waiting, fired, selfClosed>>

\* request() finds the client running.
Request ==
    /\ user = "idle" /\ mIsRunning /\ mNextRequestId <= MaxRequests
    /\ user' = "ask"
    /\ UNCHANGED <<mRunMode, mIsRunning, mThread, stopped, netVars, posted, requestVars,
                   serverVars, waiting, fired, selfClosed>>

\* The requestAsync() it calls looks again: when the client has closed in
\* between, nothing is sent and request() waits for it all the same.
Ask ==
    /\ user = "ask"
    /\ user' = IF mIsRunning THEN "fileAndWait" ELSE "wait"
    /\ UNCHANGED <<mRunMode, mIsRunning, mThread, stopped, netVars, posted, requestVars,
                   serverVars, waiting, fired, selfClosed>>

\* A requestAsync() that forgets the callback.
File_NoCallback ==
    /\ user \in {"file", "fileAndWait"}
    /\ mNextRequestId' = mNextRequestId + 1
    /\ user' = IF user = "file" THEN "post" ELSE "postAndWait"
    /\ waiting' = mNextRequestId
    /\ UNCHANGED <<mRunMode, mIsRunning, mThread, stopped, netVars, posted, callbacks, answered,
                   serverVars, fired, selfClosed>>

\* Draw the id, file the callback under mCallbackMutex.
File ==
    /\ user \in {"file", "fileAndWait"}
    /\ mNextRequestId' = mNextRequestId + 1
    /\ callbacks' = callbacks \cup {mNextRequestId}
    /\ user' = IF user = "file" THEN "post" ELSE "postAndWait"
    /\ waiting' = mNextRequestId
    /\ UNCHANGED <<mRunMode, mIsRunning, mThread, stopped, netVars, posted, answered,
                   serverVars, fired, selfClosed>>

\* writeMessage(): request() then blocks on the future.
Post ==
    /\ user \in {"post", "postAndWait"}
    /\ posted' = Append(posted, Fn("write", waiting))
    /\ \/ user = "post" /\ user' = "idle" /\ waiting' = 0
       \/ user = "postAndWait" /\ user' = "wait" /\ UNCHANGED waiting
    /\ UNCHANGED <<mRunMode, mIsRunning, mThread, stopped, netVars, requestVars, serverVars,
                   fired, selfClosed>>

\* future.get() returns.
Return ==
    /\ user = "wait" /\ waiting \in answered
    /\ user' = "idle" /\ waiting' = 0
    /\ UNCHANGED <<mRunMode, mIsRunning, mThread, stopped, netVars, posted, requestVars,
                   serverVars, fired, selfClosed>>

\* The next posted function runs.
RunPosted ==
    /\ CanRun /\ posted # <<>>
    /\ LET f == Head(posted)
           rest == Tail(posted)
       IN  \/ /\ f.kind = "write" /\ conn \in {"up", "lost"}
              /\ posted' = rest
              /\ inbox' = IF conn = "up" THEN Append(inbox, f.id) ELSE inbox
              /\ UNCHANGED <<mIsRunning, mThread, stopped, conn, fired, selfClosed>>
           \/ /\ f.kind = "write" /\ conn # "up"
              /\ posted' = Append(rest, Fn("writeError", 0))
              /\ UNCHANGED <<mIsRunning, mThread, stopped, conn, fired, selfClosed, inbox>>
           \/ /\ f.kind = "writeError"
              /\ HandleIoError(rest)
              /\ UNCHANGED inbox
           \/ /\ f.kind = "disconnect"
              /\ posted' = rest
              /\ fired' = Fire(fired, "disconnect")
              /\ UNCHANGED <<mIsRunning, mThread, stopped, conn, selfClosed, inbox>>
    /\ UNCHANGED <<mRunMode, epoch, dials, reads, requestVars, toClient, pushes, user, waiting>>

\* A read completes with a message; handleMessage() calls the callback filed
\* under the response's id, and the next read starts while the client runs.
ReadMessage(e) ==
    /\ CanRun /\ e \in reads /\ e = epoch
    /\ conn \in {"up", "lost"} /\ toClient # <<>> /\ Head(toClient) # Torn
    /\ toClient' = Tail(toClient)
    /\ LET id == Head(toClient)
       IN  /\ callbacks' = callbacks \ {id}
           /\ answered' = answered \cup ({id} \cap callbacks)
    /\ reads' = IF mIsRunning THEN reads ELSE reads \ {e}
    /\ UNCHANGED <<mRunMode, mIsRunning, mThread, stopped, epoch, conn, dials, posted,
                   mNextRequestId, inbox, pushes, user, waiting, fired, selfClosed>>

\* A message that does not decode closes the client.
ReadTorn(e) ==
    /\ CanRun /\ e \in reads /\ e = epoch
    /\ conn \in {"up", "lost"} /\ toClient # <<>> /\ Head(toClient) = Torn
    /\ toClient' = Tail(toClient)
    /\ reads' = reads \ {e}
    /\ fired' = Fire(fired, "error")
    /\ \/ mIsRunning /\ CloseFromHandler(posted)
       \/ ~mIsRunning /\ UNCHANGED <<mIsRunning, mThread, stopped, conn, posted, selfClosed>>
    /\ UNCHANGED <<mRunMode, epoch, dials, requestVars, inbox, pushes, user, waiting>>

\* A read fails: its connection is lost, was closed, or never came up.
ReadFailed(e) ==
    /\ CanRun /\ e \in reads
    /\ e # epoch \/ conn # "up"
    /\ reads' = reads \ {e}
    /\ HandleIoError(posted)
    /\ UNCHANGED <<mRunMode, epoch, dials, requestVars, serverVars, user, waiting>>

-----------------------------------------------------------------------------
(* The server and the network.                                             *)

Answer ==
    /\ conn = "up" /\ inbox # <<>>
    /\ inbox' = Tail(inbox) /\ toClient' = Append(toClient, Head(inbox))
    /\ UNCHANGED <<mRunMode, mIsRunning, mThread, stopped, netVars, posted, requestVars, pushes,
                   user, waiting, fired, selfClosed>>

Push ==
    /\ conn = "up" /\ pushes < MaxPushes
    /\ pushes' = pushes + 1
    /\ \E id \in {0, Torn} : toClient' = Append(toClient, id)
    /\ UNCHANGED <<mRunMode, mIsRunning, mThread, stopped, netVars, posted, requestVars, inbox,
                   user, waiting, fired, selfClosed>>

Lose ==
    /\ conn = "up"
    /\ conn' = "lost"
    /\ UNCHANGED <<mRunMode, mIsRunning, mThread, stopped, epoch, dials, reads, posted,
                   requestVars, serverVars, user, waiting, fired, selfClosed>>

-----------------------------------------------------------------------------
ConnectResult == \E e \in dials : ConnectOk(e) \/ ConnectFailed(e)
ReadResult == \E e \in reads : ReadMessage(e) \/ ReadTorn(e) \/ ReadFailed(e)
Handler == ConnectResult \/ RunPosted \/ ReadResult
Closing == CloseTransport \/ Stop \/ Join
User == Connect \/ CloseMark \/ RequestAsync \/ Request \/ Ask \/ File \/ Post \/ Return \/ Destroy
Environment == Answer \/ Push \/ Lose

Next == Handler \/ Closing \/ IoExit \/ User \/ Environment

Spec == Init /\ [][Next]_vars

\* The io thread, or a user who calls poll() again and again, runs what is due; a
\* call of close(), requestAsync() or request() goes on; the server answers.
Fairness ==
    /\ WF_vars(ConnectResult) /\ WF_vars(RunPosted) /\ WF_vars(ReadResult)
    /\ WF_vars(Closing) /\ WF_vars(IoExit)
    /\ WF_vars(Ask) /\ WF_vars(File) /\ WF_vars(Post) /\ WF_vars(Return)
    /\ WF_vars(Answer)

FairSpec == Spec /\ Fairness

-----------------------------------------------------------------------------
Ids == 1 .. MaxRequests

ThreadOK ==
    /\ mRunMode \in RunModes /\ mThread \in {"none", "run", "ended"}
    /\ mIsRunning \in BOOLEAN /\ stopped \in BOOLEAN /\ selfClosed \in BOOLEAN
NetOK ==
    /\ epoch \in 0 .. MaxConnects
    /\ conn \in {"none", "connecting", "up", "lost", "closed"}
    /\ dials \subseteq 1 .. epoch /\ reads \subseteq 1 .. epoch
Function == [kind : {"write"}, id : Ids] \cup [kind : {"writeError", "disconnect"}, id : {0}]
MessagesOK ==
    /\ posted \in Seq(Function)
    /\ inbox \in Seq(Ids) /\ toClient \in Seq(0 .. Torn) /\ pushes \in 0 .. MaxPushes
    /\ callbacks \subseteq Ids /\ answered \subseteq Ids
    /\ mNextRequestId \in 1 .. MaxRequests + 1
UserOK ==
    /\ user \in {"idle", "close", "stop", "join", "ask", "file", "fileAndWait", "post",
                 "postAndWait", "wait", "gone", "terminated"}
    /\ waiting \in 0 .. MaxRequests
    /\ fired \in [{"connect", "disconnect", "error"} -> Nat]

\* Type invariant: the values of the client's, the user's and the server's state.
TypeOK == ThreadOK /\ NetOK /\ MessagesOK /\ UserOK

\* A client that calls itself running has an io thread that runs handlers: no
\* close() or failed attempt before it leaves the io_context stopped.
RunningHasThread ==
    Threaded /\ mIsRunning /\ user # "terminated" => mThread = "run" /\ ~stopped

\* No answer can come back before its callback is filed: a request on its way,
\* written, at the server or returning, has one.
OnItsWay ==
    {posted[i].id : i \in DOMAIN posted} \cup {inbox[i] : i \in DOMAIN inbox}
        \cup {toClient[i] : i \in DOMAIN toClient}
AnswerFindsCallback == OnItsWay \subseteq callbacks \cup {0, Torn}

\* The program ends in std::terminate only after the io thread closed the client
\* itself or a connect failed; closing from the user's thread is always safe.
TerminateCause == user = "terminated" => selfClosed

\* In Threaded mode, once the user's close() has returned no callback is called
\* until the next connect().
QuietAfterClose ==
    [][Threaded /\ user = "idle" /\ ~mIsRunning /\ ~selfClosed
          => fired' = fired /\ answered' = answered]_vars

\* With an io thread request() returns, as long as the connection lasts and no
\* handler has closed the client: the answer cannot be missed.
RequestReturns ==
    Threaded /\ user = "wait" ~> (user # "wait" \/ conn # "up" \/ selfClosed)

\* With a user who polls, a connection that is lost or closed is reported to the
\* disconnect callback, unless the client is destroyed first or the user is stuck
\* in request().
PolledDisconnectFires ==
    ~Threaded /\ conn \in {"lost", "closed"} ~>
        (fired.disconnect > 0 \/ user \in {"gone", "wait"})

=============================================================================
