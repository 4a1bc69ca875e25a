------------------------------ MODULE SecureLink ------------------------------
(***************************************************************************)
(* A port in secure mode: net::server::sessions::SecureSession on the      *)
(* server, net::client::transport::SecureTransport (or PlainTransport, of  *)
(* a user who chose the wrong mode) in the clients.                        *)
(*                                                                         *)
(* Handshakes, reads and writes are asynchronous, but shutdown() is not:   *)
(* the thread that closes a TLS stream sends its close_notify and stays    *)
(* there until the other end has said something.  On the server that is    *)
(* the port's one io thread, or the GUI thread that kicks; in a client     *)
(* the thread of the user interface.                                       *)
(***************************************************************************)
EXTENDS Naturals, Sequences, FiniteSets

CONSTANTS
    Client,     \* the clients; each connects once
    Foreign,    \* those that are not this project's and may send what does not decode
    Nobody,     \* the session of a thread that is not in shutdown()
    MaxSends,   \* bound: messages sent after the login
    MaxKicks    \* bound: kicks

ASSUME LinkAssumption ==
    /\ Foreign \subseteq Client /\ Nobody \notin Client
    /\ MaxSends \in Nat /\ MaxKicks \in Nat

VARIABLES
    srv,        \* the server's end: none, backlog, handshake, open, deaf (reads no more), closed
    mIsClosed,  \* the sessions whose close() has been called
    ended,      \* the sessions whose stream has taken the peer's close_notify
    registered, \* the sessions in the SessionManager
    owed,       \* per session, the messages to it that wait for its handshake
    at,         \* per thread of the server, the session it is shutting down
    secure,     \* the clients whose ClientConfig::mode is Secure
    cli,        \* the client: idle, resolving, dialing, handshake, open, shutting, failed, closed
    hung,       \* the clients that answer nothing any more, their connections up
    up, down,   \* what is on its way to the server and to the client
    sends, kicks,
    saidBad     \* auxiliary: the clients that have sent what does not decode

serverVars == <<srv, mIsClosed, ended, registered, owed, at>>
wireVars == <<up, down>>
vars == <<serverVars, secure, cli, hung, wireVars, sends, kicks, saidBad>>

Thread == {"io", "gui"}

\* What travels: the two flights of the handshake or its failure, a message, one
\* that does not decode, TLS's close_notify, and the end of the TCP stream.
Packet == {"hello", "finished", "alert", "message", "bad", "close_notify", "fin"}

Init ==
    /\ srv = [c \in Client |-> "none"]
    /\ mIsClosed = {} /\ ended = {} /\ registered = {}
    /\ owed = [c \in Client |-> 0] /\ at = [t \in Thread |-> Nobody]
    /\ secure \in SUBSET Client
    /\ cli = [c \in Client |-> "idle"] /\ hung = {}
    /\ up = [c \in Client |-> <<>>] /\ down = [c \in Client |-> <<>>]
    /\ sends = 0 /\ kicks = 0 /\ saidBad = {}

Put(wire, c, packets) == [wire EXCEPT ![c] = @ \o packets]
Took(wire, c) == [wire EXCEPT ![c] = Tail(@)]

-----------------------------------------------------------------------------
(* The server.                                                             *)

\* The io thread takes its next handler.
IoFree == at["io"] = Nobody

\* The connect callback: a SecureSession, registered, starts its handshake.
Accept(c) ==
    /\ IoFree /\ srv[c] = "backlog"
    /\ srv' = [srv EXCEPT ![c] = "handshake"]
    /\ registered' = registered \cup {c}
    /\ UNCHANGED <<mIsClosed, ended, owed, at, secure, cli, hung, wireVars, sends, kicks,
                   saidBad>>

\* The rest of close() once shutdown() has returned: the socket is closed, and the
\* close callback removes the session and tells everybody registered.  A write to a stream
\* that still shakes hands waits until it has; one to a stream shut down fails.
Gone(c) ==
    LET told == (registered \ {c}) \ mIsClosed
    IN  /\ srv' = [srv EXCEPT ![c] = "closed"]
        /\ registered' = registered \ {c}
        /\ down' = [d \in Client |->
              IF d = c THEN Append(down[c], "fin")
              ELSE IF d \in told /\ srv[d] = "open" THEN Append(down[d], "message") ELSE down[d]]
        /\ owed' = [d \in Client |->
              IF d \in told /\ srv[d] = "handshake" THEN owed[d] + 1 ELSE owed[d]]

\* A close() that leaves the peer to guess.
Close_Silent(t, c) ==
    /\ mIsClosed' = mIsClosed \cup {c}
    /\ at' = [at EXCEPT ![t] = c]
    /\ UNCHANGED <<srv, registered, owed, down>>

\* close() by thread t, of a session that was not closed: shutdown() sends the
\* close_notify and waits.  In the middle of a handshake it fails at once.
Close(t, c) ==
    /\ mIsClosed' = mIsClosed \cup {c}
    /\ \/ /\ srv[c] = "open"
          /\ at' = [at EXCEPT ![t] = c]
          /\ down' = Put(down, c, <<"close_notify">>)
          /\ UNCHANGED <<srv, registered, owed>>
       \/ /\ srv[c] = "handshake"
          /\ Gone(c)
          /\ UNCHANGED at

\* shutdown() returns: with the peer's close_notify, or with an error, of the
\* connection or because something else came.
ShutdownReturns(t) ==
    LET c == at[t]
    IN  /\ c # Nobody
        /\ c \in ended \/ up[c] # <<>>
        /\ at' = [at EXCEPT ![t] = Nobody]
        /\ Gone(c)
        /\ UNCHANGED <<mIsClosed, ended, secure, cli, hung, up, sends, kicks, saidBad>>

\* The handshake goes on, completes and starts the reading, with the writes that waited,
\* or fails: what comes is no TLS, the client does not trust the certificate, or is gone.
Handshake(c) ==
    /\ IoFree /\ srv[c] = "handshake" /\ up[c] # <<>>
    /\ up' = IF Head(up[c]) = "fin" THEN up ELSE Took(up, c)
    /\ \/ /\ Head(up[c]) = "hello"
          /\ down' = Put(down, c, <<"hello">>)
          /\ UNCHANGED <<srv, mIsClosed, registered, owed, at>>
       \/ /\ Head(up[c]) = "finished"
          /\ srv' = [srv EXCEPT ![c] = "open"]
          /\ down' = Put(down, c, [i \in 1 .. owed[c] |-> "message"])
          /\ owed' = [owed EXCEPT ![c] = 0]
          /\ UNCHANGED <<mIsClosed, registered, at>>
       \/ /\ Head(up[c]) \notin {"hello", "finished"}
          /\ Close("io", c)
    /\ UNCHANGED <<ended, secure, cli, hung, sends, kicks, saidBad>>

\* A session that closes itself once it has answered.
ReadMessage_Closes(c) ==
    /\ IoFree /\ srv[c] = "open" /\ up[c] # <<>> /\ Head(up[c]) = "message"
    /\ c \notin mIsClosed
    /\ up' = Took(up, c)
    /\ Close("io", c)
    /\ UNCHANGED <<ended, secure, cli, hung, sends, kicks, saidBad>>

\* A read completes.  A message is answered, unless the stream was shut down
\* meanwhile: the write fails, and its close() has nothing left to do.
ReadMessage(c) ==
    /\ IoFree /\ srv[c] = "open" /\ up[c] # <<>> /\ Head(up[c]) = "message"
    /\ up' = Took(up, c)
    /\ down' = IF c \in mIsClosed THEN down ELSE Put(down, c, <<"message">>)
    /\ UNCHANGED <<serverVars, secure, cli, hung, sends, kicks, saidBad>>

\* What does not decode, the peer's close_notify or the end of its stream closes
\* the session; one that a kick is closing is left to the kick.
ReadEnds(c) ==
    /\ IoFree /\ srv[c] = "open" /\ up[c] # <<>> /\ Head(up[c]) # "message"
    /\ up' = IF Head(up[c]) = "fin" THEN up ELSE Took(up, c)
    /\ \/ /\ c \in mIsClosed
          /\ srv' = [srv EXCEPT ![c] = "deaf"]
          /\ UNCHANGED <<mIsClosed, ended, registered, owed, at, down>>
       \/ /\ c \notin mIsClosed
          /\ ended' = IF Head(up[c]) = "close_notify" THEN ended \cup {c} ELSE ended
          /\ Close("io", c)
    /\ UNCHANGED <<secure, cli, hung, sends, kicks, saidBad>>

\* The dashboard's kick: close() on the GUI thread.
Kick(c) ==
    /\ at["gui"] = Nobody /\ kicks < MaxKicks
    /\ c \in registered /\ c \notin mIsClosed
    /\ kicks' = kicks + 1
    /\ Close("gui", c)
    /\ UNCHANGED <<ended, secure, cli, hung, up, sends, saidBad>>

-----------------------------------------------------------------------------
(* The clients; each is one thread that polls and takes the user's clicks.  *)

Awake(c) == c \notin hung

\* connect(): ClientFactory::create() and the transport's resolver.
Connect(c) ==
    /\ Awake(c) /\ cli[c] = "idle"
    /\ cli' = [cli EXCEPT ![c] = "resolving"]
    /\ UNCHANGED <<serverVars, secure, hung, wireVars, sends, kicks, saidBad>>

\* The name is resolved, or is not.
Resolve(c) ==
    /\ Awake(c) /\ cli[c] = "resolving"
    /\ cli' \in {[cli EXCEPT ![c] = s] : s \in {"dialing", "failed"}}
    /\ UNCHANGED <<serverVars, secure, hung, wireVars, sends, kicks, saidBad>>

\* async_connect completes as soon as the port's backlog has the connection.  A
\* secure client then shakes hands, a plain one is connected and logs in.
Dial(c) ==
    /\ Awake(c) /\ cli[c] = "dialing"
    /\ \/ /\ cli' = [cli EXCEPT ![c] = "failed"]
          /\ UNCHANGED <<srv, up>>
       \/ /\ srv' = [srv EXCEPT ![c] = "backlog"]
          /\ cli' = [cli EXCEPT ![c] = IF c \in secure THEN "handshake" ELSE "open"]
          /\ up' = Put(up, c, IF c \in secure THEN <<"hello">> ELSE <<"message">>)
    /\ UNCHANGED <<mIsClosed, ended, registered, owed, at, secure, hung, down, sends, kicks,
                   saidBad>>

\* The server's flight arrives: its certificate is trusted and the client logs in,
\* or it is not and the connect has failed; the socket stays open all the same.
ClientHandshake(c) ==
    /\ Awake(c) /\ cli[c] = "handshake" /\ down[c] # <<>>
    /\ \/ /\ Head(down[c]) = "hello"
          /\ cli' = [cli EXCEPT ![c] = "open"]
          /\ up' = Put(up, c, <<"finished", "message">>)
       \/ /\ Head(down[c]) = "hello"
          /\ cli' = [cli EXCEPT ![c] = "failed"]
          /\ up' = Put(up, c, <<"alert">>)
       \/ /\ Head(down[c]) # "hello"
          /\ cli' = [cli EXCEPT ![c] = "failed"]
          /\ UNCHANGED up
    /\ down' = Took(down, c)
    /\ UNCHANGED <<serverVars, secure, hung, sends, kicks, saidBad>>

ClientReads(c) ==
    /\ Awake(c) /\ cli[c] = "open" /\ down[c] # <<>> /\ Head(down[c]) = "message"
    /\ down' = Took(down, c)
    /\ UNCHANGED <<serverVars, secure, cli, hung, up, sends, kicks, saidBad>>

\* Bytes of a TLS stream that a plain client reads, or the end of the server's
\* stream: handleIoError() closes the client.  A secure one's shutdown() has the
\* server's close_notify already, or nobody to wait for.
ClientReadEnds(c) ==
    /\ Awake(c) /\ cli[c] = "open" /\ down[c] # <<>> /\ Head(down[c]) # "message"
    /\ cli' = [cli EXCEPT ![c] = "closed"]
    /\ down' = Took(down, c)
    /\ up' = Put(up, c, IF c \in secure THEN <<"close_notify", "fin">> ELSE <<"fin">>)
    /\ UNCHANGED <<serverVars, secure, hung, sends, kicks, saidBad>>

\* The user disconnects.  A secure client that is connected sends its close_notify
\* and waits, every other just closes the socket it may have.
Disconnect(c) ==
    /\ Awake(c)
    /\ \/ /\ cli[c] = "open" /\ c \in secure
          /\ cli' = [cli EXCEPT ![c] = "shutting"]
          /\ up' = Put(up, c, <<"close_notify">>)
       \/ /\ cli[c] \in {"resolving", "dialing", "handshake", "failed"}
                \/ (cli[c] = "open" /\ c \notin secure)
          /\ cli' = [cli EXCEPT ![c] = "closed"]
          /\ up' = IF srv[c] = "none" THEN up ELSE Put(up, c, <<"fin">>)
    /\ UNCHANGED <<serverVars, secure, hung, down, sends, kicks, saidBad>>

\* The client's shutdown() returns.
ClientShutdownReturns(c) ==
    /\ Awake(c) /\ cli[c] = "shutting" /\ down[c] # <<>>
    /\ cli' = [cli EXCEPT ![c] = "closed"]
    /\ up' = Put(up, c, <<"fin">>)
    /\ UNCHANGED <<serverVars, secure, hung, down, sends, kicks, saidBad>>

\* A connected client sends a message.
Send(c) ==
    /\ Awake(c) /\ cli[c] = "open" /\ sends < MaxSends
    /\ sends' = sends + 1
    /\ \E m \in {"message"} \cup (IF c \in Foreign THEN {"bad"} ELSE {}) :
          /\ up' = Put(up, c, <<m>>)
          /\ saidBad' = IF m = "bad" THEN saidBad \cup {c} ELSE saidBad
    /\ UNCHANGED <<serverVars, secure, cli, hung, down, kicks>>

\* A client stops doing anything, its machine suspended or unreachable.
Hang(c) ==
    /\ Awake(c) /\ cli[c] \in {"handshake", "open", "shutting"}
    /\ hung' = hung \cup {c}
    /\ UNCHANGED <<serverVars, secure, cli, wireVars, sends, kicks, saidBad>>

\* The connection is reset: both ends read its end.
Lose(c) ==
    /\ srv[c] # "none" /\ cli[c] \in {"handshake", "open", "shutting", "failed"}
    /\ \A w \in {up, down} : \A i \in DOMAIN w[c] : w[c][i] # "fin"
    /\ up' = [up EXCEPT ![c] = <<"fin">>] /\ down' = [down EXCEPT ![c] = <<"fin">>]
    /\ UNCHANGED <<serverVars, secure, cli, hung, sends, kicks, saidBad>>

-----------------------------------------------------------------------------
IoThread ==
    \/ \E c \in Client : Accept(c) \/ Handshake(c) \/ ReadMessage(c) \/ ReadEnds(c)
    \/ ShutdownReturns("io")
GuiThread == ShutdownReturns("gui") \/ \E c \in Client : Kick(c)
Poll(c) ==
    \/ Resolve(c) \/ Dial(c) \/ ClientHandshake(c) \/ ClientReads(c) \/ ClientReadEnds(c)
    \/ ClientShutdownReturns(c)
User(c) == Connect(c) \/ Disconnect(c) \/ Send(c)

Next ==
    \/ IoThread \/ GuiThread
    \/ \E c \in Client : Poll(c) \/ User(c) \/ Hang(c) \/ Lose(c)

Spec == Init /\ [][Next]_vars

\* The server's threads run, the io_context serves its handlers in turn, and a
\* client that has not hung polls.
Fairness ==
    /\ \A t \in Thread : WF_vars(ShutdownReturns(t))
    /\ \A c \in Client :
          /\ WF_vars(Accept(c)) /\ WF_vars(Handshake(c))
          /\ WF_vars(ReadMessage(c) \/ ReadEnds(c)) /\ WF_vars(Poll(c))

FairSpec == Spec /\ Fairness

-----------------------------------------------------------------------------
\* Type invariant: the values of both ends and of the wire between them.
TypeOK ==
    /\ srv \in [Client -> {"none", "backlog", "handshake", "open", "deaf", "closed"}]
    /\ mIsClosed \subseteq Client /\ ended \subseteq Client /\ registered \subseteq Client
    /\ owed \in [Client -> Nat] /\ at \in [Thread -> Client \cup {Nobody}]
    /\ secure \subseteq Client /\ hung \subseteq Client /\ saidBad \subseteq Foreign
    /\ cli \in [Client -> {"idle", "resolving", "dialing", "handshake", "open", "shutting",
                           "failed", "closed"}]
    /\ up \in [Client -> Seq(Packet)] /\ down \in [Client -> Seq(Packet)]
    /\ sends \in 0 .. MaxSends /\ kicks \in 0 .. MaxKicks

\* The port stands still only for a peer that sent what does not decode: every
\* other close() on the io thread finds the peer's close_notify or the end of its
\* stream already there, and returns.
PortWaitsOnlyForBad ==
    \A c \in Client : at["io"] = c => c \in ended \/ up[c] # <<>> \/ c \in saidBad

\* A thread in shutdown(), and a client that shakes hands or shuts down, gets on in
\* the end, unless the peer it waits for has hung, itself or by holding up the port's
\* io thread: no two shutdowns wait for each other.
Stuck(t) == at[t] \in hung
WaitsEnd ==
    /\ \A t \in Thread : at[t] # Nobody ~> at[t] = Nobody \/ Stuck(t)
    /\ \A c \in Client :
          cli[c] \in {"handshake", "shutting"} ~>
              (cli[c] \notin {"handshake", "shutting"} \/ c \in hung \/ Stuck("io"))

=============================================================================
