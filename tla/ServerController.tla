-------------------------- MODULE ServerController --------------------------
(***************************************************************************)
(* net::server::ServerController, the Server (acceptor) of each started    *)
(* port, and the two programs around it: the dashboard, whose GUI thread   *)
(* starts and stops a port, and the console server, which runs one until   *)
(* it is told to exit.  Each port has an io thread that runs the accept    *)
(* loop and everything that happens to the port's sessions.                *)
(*                                                                         *)
(* To close a session of a secure port a thread stays in TLS's shutdown()  *)
(* until its peer is heard of: the io thread when the session's read has   *)
(* failed, the GUI thread when it kicks.                                   *)
(***************************************************************************)
EXTENDS Naturals, FiniteSets, Shell

CONSTANTS
    Port,      \* the ports a configuration may name
    NoPort,    \* port 0, which a command line may name
    Session,   \* the sessions clients may open
    MaxStarts  \* bound: calls of start()

ASSUME ControllerAssumption == Port # {} /\ NoPort \notin Port /\ MaxStarts \in Nat

VARIABLES
    mServers,    \* the started ports
    thread,      \* per port, the io thread: none, run, or ended and not joined
    ioStopped,   \* the ports whose io_context has been stopped
    acceptor,    \* per port: none, open, closed
    loop,        \* per port, the accept loop: none, waiting, factory, aborted, bad, over
    secured,     \* the started ports whose cfg.mode is Secure
    where,       \* per session: new, accepted, up, lost (its read fails), closing (the io
                 \* thread is in its shutdown()), orphan (its io_context is gone), left
    port,        \* per session: the port it was accepted on
    mSessions,   \* the sessions in the registry
    tls,         \* those that are SecureSessions
    kicked,      \* the one the GUI thread is closing, if any
    silent,      \* those in shutdown() whose peer says nothing, its connection up
    stopping,    \* the step of stop() the main thread is at, or none
    mIsRunning,  \* ServerDashboard::mIsRunning; of the console server, that start() succeeded
    configPort,  \* mConfig.port
    secure,      \* mConfig.mode is Secure
    starts,      \* calls of start()
    terminated   \* the program has ended in std::terminate, or in undefined behaviour

instanceVars == <<mServers, thread, ioStopped, acceptor, loop, secured>>
closeVars == <<tls, kicked, silent>>
sessionVars == <<where, port, mSessions, closeVars>>
configVars == <<configPort, secure>>
vars == <<shellVars, instanceVars, sessionVars, stopping, mIsRunning, configVars, starts, terminated>>

Init ==
    /\ ShellInit
    /\ mServers = {} /\ ioStopped = {}
    /\ thread = [p \in Port |-> "none"]
    /\ acceptor = [p \in Port |-> "none"]
    /\ loop = [p \in Port |-> "none"] /\ secured = {}
    /\ where = [s \in Session |-> "new"] /\ mSessions = {}
    /\ port = [s \in Session |-> NoPort]
    /\ tls = {} /\ kicked = {} /\ silent = {}
    /\ stopping = "none" /\ mIsRunning = FALSE
    /\ configPort = NoPort /\ secure = FALSE /\ starts = 0
    /\ terminated = FALSE

Alive == ~terminated

\* Sessions that stay registered when their io_context goes: whoever calls one uses
\* what is gone, and the program may end there.
Orphans == {s \in mSessions : where[s] = "orphan"}
Uses(sessions) ==
    \/ UNCHANGED terminated
    \/ sessions \cap Orphans # {} /\ terminated' = TRUE

\* The rest of a close(), by the close callback: the session is removed and the others
\* are told.
Departs(s) ==
    /\ where' = [where EXCEPT ![s] = "left"]
    /\ mSessions' = mSessions \ {s}
    /\ Uses(mSessions)

-----------------------------------------------------------------------------
(* The programs and the controller, on the main thread.                    *)

\* parseServerArgs(): the configuration, or an exception main() ends with.
ParseArgs ==
    /\ main = "args" /\ configPort = NoPort
    /\ \/ /\ configPort' \in Port \cup {NoPort} /\ secure' \in BOOLEAN
          /\ GoTo(IF program = "gui" THEN "init"
                  ELSE IF configPort' = NoPort THEN "over" ELSE "args")
       \/ GoTo("over") /\ UNCHANGED configVars
    /\ UNCHANGED <<instanceVars, sessionVars, stopping, mIsRunning, starts, terminated>>

OpenWindow ==
    /\ MakeWindow \/ InitializeImGui \/ Dress
    /\ UNCHANGED <<instanceVars, sessionVars, stopping, mIsRunning, configVars, starts, terminated>>

\* A frame of the dashboard.
Frame == program = "gui" /\ main = "loop" /\ stopping = "none" /\ kicked = {} /\ Alive

\* The port can be edited while the server is not running, the mode always.
EditPort(p) ==
    /\ Frame /\ ~mIsRunning
    /\ configPort' = p
    /\ UNCHANGED <<shellVars, instanceVars, sessionVars, stopping, mIsRunning, secure, starts,
                   terminated>>
CheckSecure ==
    /\ Frame
    /\ secure' = ~secure
    /\ UNCHANGED <<shellVars, instanceVars, sessionVars, stopping, mIsRunning, configPort, starts,
                   terminated>>

\* Start Server is pressed, or the console program has its arguments.
Starting ==
    /\ Frame \/ (program = "cli" /\ main = "args" /\ configPort # NoPort)
    /\ ~mIsRunning /\ starts < MaxStarts
    /\ starts' = starts + 1

\* The console program gives up where the dashboard shows its log.
Refused == IF program = "gui" THEN UNCHANGED shellVars ELSE GoTo("over")

\* A start() that reports success whatever became of it.
StartFails_Running ==
    /\ Starting
    /\ mIsRunning' = TRUE
    /\ UNCHANGED <<shellVars, instanceVars, sessionVars, stopping, configVars, terminated>>

\* The configuration is not valid, the port is already started, or bind() fails.
StartFails ==
    /\ Starting /\ Refused
    /\ UNCHANGED <<instanceVars, sessionVars, stopping, mIsRunning, configVars, terminated>>

\* loadTls() throws out of start(), past the dashboard's frame.
StartThrows ==
    /\ Starting /\ secure /\ configPort # NoPort
    /\ IF program = "gui" THEN TakeDown ELSE GoTo("over")
    /\ UNCHANGED <<instanceVars, sessionVars, stopping, mIsRunning, configVars, terminated>>

\* start(): acceptor and io_context, the first async_accept, the thread.
Start ==
    /\ Starting
    /\ configPort \in Port \ mServers
    /\ mServers' = mServers \cup {configPort}
    /\ thread' = [thread EXCEPT ![configPort] = "run"]
    /\ acceptor' = [acceptor EXCEPT ![configPort] = "open"]
    /\ loop' = [loop EXCEPT ![configPort] = "waiting"]
    /\ mIsRunning' = TRUE
    /\ secured' = IF secure THEN secured \cup {configPort} ELSE secured
    /\ IF program = "gui" THEN UNCHANGED shellVars ELSE GoTo("loop")
    /\ UNCHANGED <<ioStopped, sessionVars, stopping, configVars, terminated>>

\* A notice to everybody.
Notice ==
    /\ Frame /\ mIsRunning
    /\ Uses(mSessions)
    /\ UNCHANGED <<shellVars, instanceVars, sessionVars, stopping, mIsRunning, configVars, starts>>

\* Kick User: close() on the GUI thread, which stays in the shutdown() of a
\* SecureSession.  One the io thread is closing is left to it.
Kick(s) ==
    /\ Frame /\ s \in mSessions /\ where[s] # "closing"
    /\ \/ /\ s \notin tls
          /\ Departs(s)
          /\ UNCHANGED kicked
       \/ /\ s \in tls
          /\ kicked' = {s}
          /\ Uses({s})
          /\ UNCHANGED <<where, mSessions>>
    /\ UNCHANGED <<shellVars, instanceVars, port, tls, silent, stopping, mIsRunning, configVars,
                   starts>>

\* The kick's shutdown() returns.
KickReturns(s) ==
    /\ s \in kicked /\ s \notin silent /\ Alive
    /\ kicked' = {}
    /\ Departs(s)
    /\ UNCHANGED <<shellVars, instanceVars, port, tls, silent, stopping, mIsRunning, configVars,
                   starts>>

\* The window is closed, or the console says exit.
Quit ==
    /\ main = "loop" /\ stopping = "none" /\ kicked = {} /\ Alive
    /\ IF program = "gui" THEN TakeDown ELSE GoTo("unwind")
    /\ UNCHANGED <<instanceVars, sessionVars, stopping, mIsRunning, configVars, starts, terminated>>

\* A main() that leaves its servers to the end of the process.
End_NoStop ==
    /\ main = "unwind" /\ stopping = "none" /\ Alive
    /\ GoTo("over") /\ Uses(mSessions)
    /\ UNCHANGED <<instanceVars, sessionVars, stopping, mIsRunning, configVars, starts>>

\* The dashboard's destructor, or stopAll(), has stopped what ran; the registry goes
\* last.
End ==
    /\ main = "unwind" /\ stopping = "none" /\ ~mIsRunning /\ Alive
    /\ GoTo("over") /\ Uses(mSessions)
    /\ UNCHANGED <<instanceVars, sessionVars, stopping, mIsRunning, configVars, starts>>

\* stop(): Server::stop() closes the acceptor, an accept under way is aborted.
CloseAcceptor ==
    /\ stopping = "none" /\ mIsRunning /\ Alive
    /\ Frame \/ main = "unwind"
    /\ configPort \in mServers
    /\ acceptor' = [acceptor EXCEPT ![configPort] = "closed"]
    /\ loop' = [loop EXCEPT ![configPort] = IF @ = "waiting" THEN "aborted" ELSE @]
    /\ stopping' = "stop io"
    /\ UNCHANGED <<shellVars, mServers, thread, ioStopped, secured, sessionVars, mIsRunning,
                   configVars, starts, terminated>>

\* A stop() that leaves the io_context to run out of work.
StopIo_Drain ==
    /\ stopping = "stop io" /\ Alive
    /\ stopping' = "join"
    /\ UNCHANGED <<shellVars, instanceVars, sessionVars, mIsRunning, configVars, starts, terminated>>

\* io->stop()
StopIo ==
    /\ stopping = "stop io" /\ Alive
    /\ ioStopped' = ioStopped \cup {configPort}
    /\ stopping' = "join"
    /\ UNCHANGED <<shellVars, mServers, thread, acceptor, loop, secured, sessionVars, mIsRunning,
                   configVars, starts, terminated>>

\* A stop() that does not wait for the io thread.
Join_NoWait ==
    /\ stopping = "join" /\ Alive
    /\ stopping' = "erase"
    /\ UNCHANGED <<shellVars, instanceVars, sessionVars, mIsRunning, configVars, starts, terminated>>

\* thread.join()
Join ==
    /\ stopping = "join" /\ Alive
    /\ thread[configPort] = "ended"
    /\ thread' = [thread EXCEPT ![configPort] = "none"]
    /\ stopping' = "erase"
    /\ UNCHANGED <<shellVars, mServers, ioStopped, acceptor, loop, secured, sessionVars, mIsRunning,
                   configVars, starts, terminated>>

\* mServers.erase(): the io_context goes, the port's sessions stay registered.
Erase ==
    /\ stopping = "erase" /\ Alive
    /\ mServers' = mServers \ {configPort}
    /\ ioStopped' = ioStopped \ {configPort}
    /\ acceptor' = [acceptor EXCEPT ![configPort] = "none"]
    /\ loop' = [loop EXCEPT ![configPort] = "none"]
    /\ secured' = secured \ {configPort}
    /\ where' = [s \in Session |->
          IF port[s] = configPort /\ where[s] \in {"accepted", "up", "lost"}
          THEN "orphan" ELSE where[s]]
    /\ mIsRunning' = FALSE
    /\ stopping' = "none"
    /\ UNCHANGED <<shellVars, thread, port, mSessions, closeVars, configVars, starts, terminated>>

-----------------------------------------------------------------------------
(* The io thread of port p.                                                *)

otherVars == <<shellVars, stopping, mIsRunning, configVars, starts>>

\* It is in a handler: the connect callback, or a session's close().
Busy(p) == loop[p] = "factory" \/ \E s \in Session : where[s] = "closing" /\ port[s] = p

\* It takes the next handler.
Runs(p) == thread[p] = "run" /\ p \notin ioStopped /\ ~Busy(p) /\ Alive

\* async_accept completes with a connection: the connect callback runs.
Accept(p, s) ==
    /\ Runs(p) /\ loop[p] = "waiting"
    /\ where[s] = "new"
    /\ loop' = [loop EXCEPT ![p] = "factory"]
    /\ where' = [where EXCEPT ![s] = "accepted"]
    /\ port' = [port EXCEPT ![s] = p]
    /\ tls' = IF p \in secured THEN tls \cup {s} ELSE tls
    /\ UNCHANGED <<otherVars, mServers, thread, ioStopped, acceptor, secured, mSessions, kicked,
                   silent, terminated>>

\* The callback registers the session, and accept() is called again; on a closed
\* acceptor it fails at once, with bad_descriptor.
AcceptNext(p) ==
    /\ thread[p] = "run" /\ loop[p] = "factory" /\ Alive
    /\ loop' = [loop EXCEPT ![p] = IF acceptor[p] = "open" THEN "waiting" ELSE "bad"]
    /\ \E s \in Session :
          /\ where[s] = "accepted" /\ port[s] = p
          /\ where' = [where EXCEPT ![s] = "up"]
          /\ mSessions' = mSessions \cup {s}
    /\ UNCHANGED <<otherVars, mServers, thread, ioStopped, acceptor, secured, port, closeVars,
                   terminated>>

\* The accept that stop() aborted.
AcceptAborted(p) ==
    /\ Runs(p) /\ loop[p] = "aborted"
    /\ loop' = [loop EXCEPT ![p] = "over"]
    /\ UNCHANGED <<otherVars, mServers, thread, ioStopped, acceptor, secured, sessionVars, terminated>>

\* Any other error is reported to mErrorCallback, which nobody has set: the call
\* throws, out of io->run() and out of the thread.
AcceptFails(p) ==
    /\ Runs(p) /\ loop[p] \in {"waiting", "bad"}
    /\ terminated' = TRUE
    /\ UNCHANGED <<otherVars, instanceVars, sessionVars>>

\* A session's request, answered by a broadcast.
Talk(s) ==
    /\ where[s] = "up" /\ Runs(port[s])
    /\ Uses(mSessions)
    /\ UNCHANGED <<otherVars, instanceVars, sessionVars>>

\* A session's read is going to fail: its connection is lost or closed, or what it has
\* read does not decode.
Lose(s) ==
    /\ where[s] = "up" /\ Alive
    /\ where' = [where EXCEPT ![s] = "lost"]
    /\ UNCHANGED <<otherVars, instanceVars, port, mSessions, closeVars, terminated>>

\* Its read fails and it closes, unless a kick is closing it.  The io thread goes into
\* the shutdown() of a SecureSession.
Leave(s) ==
    /\ where[s] = "lost" /\ s \notin kicked /\ Runs(port[s])
    /\ \/ /\ s \notin tls
          /\ Departs(s)
       \/ /\ s \in tls
          /\ where' = [where EXCEPT ![s] = "closing"]
          /\ UNCHANGED <<mSessions, terminated>>
    /\ UNCHANGED <<otherVars, instanceVars, port, closeVars>>

\* The io thread's shutdown() returns.
ShutdownReturns(s) ==
    /\ where[s] = "closing" /\ s \notin silent /\ Alive
    /\ Departs(s)
    /\ UNCHANGED <<otherVars, instanceVars, port, closeVars>>

\* The peer of a session in shutdown() falls silent, is heard of again or its connection
\* is reset.
Hang(s) ==
    /\ s \in kicked \/ where[s] = "closing"
    /\ s \notin silent /\ Alive
    /\ silent' = silent \cup {s}
    /\ UNCHANGED <<otherVars, instanceVars, where, port, mSessions, tls, kicked, terminated>>
Reset(s) ==
    /\ s \in silent /\ Alive
    /\ silent' = silent \ {s}
    /\ UNCHANGED <<otherVars, instanceVars, where, port, mSessions, tls, kicked, terminated>>

\* run() returns.
IoExit(p) ==
    /\ thread[p] = "run" /\ p \in ioStopped /\ ~Busy(p) /\ Alive
    /\ thread' = [thread EXCEPT ![p] = "ended"]
    /\ UNCHANGED <<otherVars, mServers, ioStopped, acceptor, loop, secured, sessionVars, terminated>>

-----------------------------------------------------------------------------
Stopping == CloseAcceptor \/ StopIo \/ Join \/ Erase
Dashboard ==
    \/ \E p \in Port : EditPort(p)
    \/ CheckSecure \/ Notice
    \/ \E s \in Session : Kick(s) \/ KickReturns(s)
Main ==
    \/ ParseArgs \/ OpenWindow \/ Dashboard
    \/ StartFails \/ StartThrows \/ Start \/ Stopping \/ Quit \/ End
IoThread(p) ==
    \/ \E s \in Session : Accept(p, s)
    \/ AcceptNext(p) \/ AcceptAborted(p) \/ AcceptFails(p) \/ IoExit(p)

Next ==
    \/ Main
    \/ \E p \in Port : IoThread(p)
    \/ \E s \in Session :
          Talk(s) \/ Lose(s) \/ Leave(s) \/ ShutdownReturns(s) \/ Hang(s) \/ Reset(s)

Spec == Init /\ [][Next]_vars

\* stop() goes on once it has begun, as main() does when it is on its way out.  The io
\* thread finishes its handler, but for a shutdown() whose peer is silent.
Fairness ==
    /\ WF_vars(StopIo) /\ WF_vars(Join) /\ WF_vars(Erase)
    /\ WF_vars(main = "unwind" /\ CloseAcceptor) /\ WF_vars(End)
    /\ \A p \in Port : WF_vars(AcceptNext(p)) /\ WF_vars(IoExit(p))
    /\ \A s \in Session : WF_vars(ShutdownReturns(s))

FairSpec == Spec /\ Fairness

-----------------------------------------------------------------------------
InstanceOK ==
    /\ mServers \subseteq Port /\ ioStopped \subseteq Port /\ secured \subseteq Port
    /\ thread \in [Port -> {"none", "run", "ended"}]
    /\ acceptor \in [Port -> {"none", "open", "closed"}]
    /\ loop \in [Port -> {"none", "waiting", "factory", "aborted", "bad", "over"}]
SessionOK ==
    /\ where \in [Session -> {"new", "accepted", "up", "lost", "closing", "orphan", "left"}]
    /\ port \in [Session -> Port \cup {NoPort}] /\ mSessions \subseteq Session
    /\ tls \subseteq Session /\ kicked \subseteq Session /\ silent \subseteq Session
MainOK ==
    /\ stopping \in {"none", "stop io", "join", "erase"}
    /\ mIsRunning \in BOOLEAN /\ configPort \in Port \cup {NoPort} /\ secure \in BOOLEAN
    /\ starts \in 0 .. MaxStarts
EndOK == terminated \in BOOLEAN

\* Type invariant: the values of the program, the instances, the sessions and the
\* dashboard.
TypeOK == ShellTypeOK /\ InstanceOK /\ SessionOK /\ MainOK /\ EndOK

\* The dashboard says RUNNING exactly when the controller has its port started: the
\* configuration cannot be edited away from under a running server.
DashboardAgrees == stopping = "none" => (mIsRunning <=> configPort \in mServers)

\* No io thread outlives its entry in mServers, and only the port being stopped
\* is without one: erasing an Instance never destroys a running std::thread.
ThreadPerServer ==
    /\ \A p \in Port : thread[p] # "none" => p \in mServers
    /\ \A p \in mServers : thread[p] = "run" \/ (p = configPort /\ stopping \in {"join", "erase"})

\* What the dashboard shows, what the controller has and which threads run never
\* part, through failed starts, stops and every way out of the program.
InStep == DashboardAgrees /\ ThreadPerServer

\* However main() is left - the window closed, loadTls() throwing past a frame, a
\* start refused, the end of the console's input - no server and no io thread
\* outlives it.
EndsStopped == main = "over" => mServers = {} /\ \A p \in Port : thread[p] = "none"

\* Once stop() is past the join nobody enters the registry by that port, and only
\* a kick takes out who came by it: no handler runs while, or after, its io_context
\* is destroyed.
StoppedIsQuiet ==
    [][\A s \in Session :
          (s \in mSessions') # (s \in mSessions) =>
              \/ port[s] \in mServers /\ ~(port[s] = configPort /\ stopping = "erase")
              \/ where[s] = "orphan" /\ main = "loop"]_vars

\* The io thread of the configured port waits in a shutdown() for a silent peer.
HeldUp == \E s \in silent : where[s] = "closing" /\ port[s] = configPort

\* stop() returns, and main() with it when it is on its way out, wherever the accept loop
\* is and whatever the sessions do - but for a secure port's session whose close() waits
\* for a silent peer, and then as soon as the peer is heard of or its connection reset.
StopReturns ==
    /\ stopping # "none" ~> (stopping = "none" \/ terminated \/ HeldUp)
    /\ main = "unwind" ~> (main = "over" \/ terminated \/ HeldUp)

\* As long as no session is registered that outlived its port, stop() can end the program
\* only between closing the acceptor and stopping the io_context, when the accept loop
\* comes back from the connect callback in between; before it a failing accept can, and
\* behind io->stop(), through the join and after it, nothing.
EndsInWindow ==
    [][terminated' # terminated =>
          Orphans # {} \/ (mIsRunning /\ stopping \in {"none", "stop io"})]_vars

=============================================================================
