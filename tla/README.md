# TLA+ models of the chat system and its ciphers

This directory holds the specifications kept beside the code of *networking-and-encryption*:
a chat server with a dashboard, a chat client with a window, the network library both are built
on, hand-written ciphers, and a Qt window to try the ciphers. The specifications are written
from the source. Paths below are relative to the root of the repository.

- *Modules* model a component; *MC modules* give its constants small values; a `.cfg` is one
  question asked of TLC. `PROJECT.json` lists which source lines each definition stands for.
- `tlc -config <run>.cfg <module>` repeats a run, `tlapm <module>Proofs.tla` the proofs about a
  module.
- Most modules have a type invariant `TypeOK`, in named parts. The server's is a property of a run
  and a theorem; the controller's, the client's, the stream's, the link's and the room's are parts
  of what is proved invariant of them.
- Definitions called `X_Something` that stand before a definition `X` are deliberately wrong
  versions of `X`. No specification uses them; putting one in the place of `X` shows that a
  property notices the mistake.

## 1. The system

| part | code | state it keeps | operations |
|---|---|---|---|
| SessionManager | `src/net/server/SessionManager.*` | next uid (atomic), map uid → session, name (mutex) | add, remove, broadcast, sendTo, setName, getName, listIds, get |
| sessions | `src/net/server/sessions/*` | socket, closed flag (atomic), callbacks, read buffer | start, read loop, write, close |
| Server | `src/net/server/Server.*` | acceptor | start, accept loop, stop |
| ServerController | `src/net/server/ServerController.*` | started ports, each with io_context, work guard, thread | start, stop, stopAll, the connection factory |
| Router, routes | `src/net/server/Router.*`, `app/net/server/common/*` | table of handlers | login, client_list, send_public, send_private, ping |
| dashboard, CLI | `app/net/server/gui/*`, `cli/*` | running?, port | start, stop, kick, notice |
| Client | `src/net/client/Client.*` | running flag, io_context, thread, pending callbacks | connect, request(Async), poll, close, read loop |
| transports, factory | `src/net/client/transport/*`, `ClientFactory.*` | socket | connect, read, write, close |
| framing | `src/net/protocol/*` | - | encode, decode |
| ClientAppContext | `app/net/client/common/*` | client, own uid, users, messages | connect, disconnect, handlers of answers and pushes, send |
| chat window, CLI | `app/net/client/gui/*`, `cli/*` | screen, selected uid, copies of users and messages | startConnection, render, select, send |
| ciphers | `src/crypto/classic`, `modern` | key schedule or matrix | setKey/constructor, encrypt, decrypt |
| utilities | `src/crypto/core/utils.*` | - | pad, unpad, toHex, fromHex, gcd, modInverse |
| OpenSSL wrappers | `src/crypto/standard/openssl/*` | - | encrypt, decrypt |
| cipher window | `app/crypto/*` | fields, mode, timer, output | edits, process |
| shell, arguments | `app/net/common/*`, `*Args.*`, the four `main.cpp` | window, ImGui's context | make the window, frames, take it down, parse |

**How they interact.** Each started port has one `io_context` and one thread in `run()`; all
sessions accepted on the port are served by that thread, one handler at a time. All ports share
one SessionManager and one Router. The dashboard runs on the GUI thread and calls
`SessionManager` and `Session::close()` directly, so two ports and the dashboard really are
concurrent. A request goes up a socket, through the read loop, the factory's message callback
and the Router to a route, which changes the registry and posts pushes to other sessions'
executors; its answer is posted to the session it came from. On the client, handlers run on the
client's own thread (Threaded) or inside the user's `poll()` (Manual, what the chat window
uses); they update ClientAppContext, whose events refresh the window's copies.

**What is hard here.** `close()` reached from three sides; a session that can be found before
its close callback is set; sends that use a snapshot taken earlier; frames written by several
overlapping `async_write`s; `stop()` racing the accept loop; a client whose handlers close it
from its own thread, and whose `io_context` carries handlers over into the next connection; a
roster assembled from a list and from pushes that cross it, and a window's copy of it; TLS
shutdowns that block a thread until the peer says something; programs that must not leave a
server running however their `main()` ends; cipher loops whose mistakes cancel
out in a round trip. `PROJECT.json` lists these hazards line by line with the properties that
cover each, or the reason none does.

**What makes each part correct.**

| part | what must hold |
|---|---|
| registry and sessions | uids are unique; one `close()` wins; a closed session is removed and announced once, for good; a late handler resurrects nobody; requests are answered and departures heard while connections last |
| framing | bytes once and in order; frames whole unless two writes cross; what is handed on is what was sent, in order; an oversized frame ends the reading |
| Client | running means there is a thread; no answer precedes its callback; blocking requests return; no callback after `close()`; when the program can end in `std::terminate` |
| controller and its programs | dashboard and controller agree; a thread per started port; `stop()` returns unless a silent peer holds up the io thread; where in `stop()` the program can end; nothing happens on a stopped port; nothing outlives `main()` |
| TLS link | a shutdown waits only for a peer that misbehaves; every wait ends unless the peer hangs |
| room | everybody's roster ends up right, and the window's copy with it; messages shown once, in order, and private ones to two people only; login ends |
| OpenSSL wrappers | how much of a text is enciphered; buffers that are large enough; what a failing call leaves allocated |
| ciphers | deciphering mirrors enciphering round by round; known answers; keys refused exactly when they must be; arithmetic that loses nothing; blocks that are not overrun |
| cipher window | what is shown belongs to what is on the screen |

## 2. Modules

### SessionManager, ChatServer, Membership

`SessionManager` has the registry's operations as operators on a function `mSessions` (uid →
session, name): each public member function takes the mutex once, so each is atomic. The uid is
drawn before the lock, which is a step of its own in ChatServer.

`ChatServer` is the server side without the bytes. Its threads are the ports' io threads and the
dashboard (`Gui`). An io thread that is `idle` takes a completion (`Dispatch`: an accept, a
request, a failed read, a posted write, a posted close) and then works through `Continue` steps;
`at`, `cur`, `msg`, `ids`, `todo` are its program counter and locals. A step ends where another
thread can see or change something: at a critical section, an atomic exchange, a socket
operation, a post. So `Accept`, `AddSession`, `Wire`, `Start` are the factory
(`ServerController.cpp:62-93`), and `MarkClosed`, `Shutdown`, `Notify`, `Remove`, `Snapshot`,
`SendOne`, `SendDone` a `close()` with its callback. `outbox` is what is posted to a session's
executor and `wire` what reached its socket; `missed` records a `close()` that found no callback.

`Membership` is the promise in four actions: a session joins, leaves, its departure is
announced; or it becomes a ghost, closed before anybody was asked to announce it, and never
leaves. ChatServer implements it with `status` computed from registry and stage, `announced`
from who still has a user_left to send, and `ghost <- missed`.

### FrameStream

One direction of a connection: `order` is the sequence of `write()` calls, `queue` the
executor's functions, `pending` the operations waiting for the socket, `wire` the units written,
`pos`, `start`, `phase`, `goal` the reader's loop. An `async_write` is a chain of
`async_write_some`, each issued by the handler of the one before - that is why a message the
socket takes in pieces can be split by another one. Bytes are counted in units (a header of one
unit, bodies of one to three); a frame that does not decode to one message is `Corrupt`, and a
torn header announces any length.

### Client

`Client` in either `RunMode`, with one user thread. `conn`, `dials`, `reads` are the socket and
what is under way on it, by connection number (`epoch`), because the `io_context` survives
`close()` and old results are handled later; `posted` is its queue. `close()` by the user is
`CloseMark`, `CloseTransport`, `Stop`, `Join`; by a handler it is `CloseFromHandler`, where
joining the own thread throws and ends `run()`. `Request`, `Ask`, `File`, `Post`, `Return` are
`request()`, with its two looks at `mIsRunning`.

### Shell, ServerController

`Shell` is what is around a program: `main` says where `main()` is, `mWindow` and `imgui` what
`CoreApplication` has made. `MakeWindow` may fail, and since the constructor ignores the result
the first frame then crashes.

`ServerController` EXTENDS it and is both server programs, from the command line to the end: the
dashboard (`program = "gui"`), whose GUI thread edits the configuration, starts, stops, kicks and
sends notices, and the console server (`"cli"`), which starts one port and stops it at the end.
`CloseAcceptor`, `StopIo`, `Join`, `Erase` are `stop()`, on the GUI thread or in the destructors
(`main = "unwind"`); `loop` is where the accept loop is, `"bad"` meaning that it came back from
the connect callback to an acceptor already closed. Sessions are reduced to where they are; an
`"orphan"` is one whose `io_context` `stop()` has destroyed while it was registered, and `Uses`
says that whoever calls it - a broadcast, a kick, the registry's destructor - may end the
program. A session of a secure port (`tls`) leaves in two steps, because its `close()` stays in
`shutdown()`: on the io thread it is `"closing"`, between `Leave` and `ShutdownReturns`, and the
thread is `Busy`; on the GUI thread it is `kicked`, between `Kick` and `KickReturns`. While its
peer is `silent` neither returns.

### SecureLink

A port in secure mode and the clients that connect to it, each with a `SecureTransport` or, when
its user picked the wrong mode, a `PlainTransport`. `up` and `down` are what is on the wire: TLS's
flights, messages, one that does not decode, a close_notify, the end of the stream. Handlers of
the io thread are guarded by `IoFree`: while `at["io"]` names a session, that thread is inside
its blocking `shutdown()` and serves nobody. `hung` clients answer nothing although their
connection is up. A departure is broadcast to every registered session; what is written to one
still in its handshake is `owed` and reaches its client behind the server's last flight.

### ChatRoom

The chat as users see it: a server of one port that handles each request in one step (sound for
one io thread; ChatServer has the steps inside), connections that deliver in order until lost,
and for each user the ClientAppContext (`mUsers`, `mMessages`, `mMyUid`) and the program around
it: the window (`mState`, `mSelectedUid`, `shown`, its copy of the users) or, for the users in
`Terminal`, the command-line client, whose commands are read from the start, so that a line can
be typed before the connection is up (`early`). The answers to `send_public` and
`send_private` mean nothing to the client and are left out. When a client is dropped, what its
connection still had to say is dropped with it; the code leaves such handlers in the shared
`io_context`, with a pointer to the dead object.

### The ciphers

`DES`, `AES`, `Substitution` (Caesar, Affine, Vigenere), `Hill`, `Playfair`, `RSA` and
`BlockText` are one module each: state is the cipher object and the loop it is in, one step per
round, letter, block or turn of a loop, so that what holds *inside* a loop can be stated, not
only what comes out. `BlockText` is the cipher window's AES branch: the key's hex and the refusal
of one of another length, padding, hex and the block loop, around any block cipher that inverts -
`Enc` and `Dec` are constants, `AES` is the module of the real one. Hex is read as `strtol` reads
two characters, a blank or a sign in front included. `OpenSSL` is the classes around the library: a
row of calls, each of which may fail and then throws, which `outcome` records; a text is its
length, since the bytes are the library's business.
Undefined behaviour is a choice: what a byte behind the buffer holds
(`HeapBytes`), what RSA's mismatched iterators copy (`HeapWords`). RSA's `uint64_t` is a word
of 16 bits that wraps. `Ciphers` puts them side by side: `which` names the one in use and each
module's variables are substituted by a common set.

`CipherWindow` is the panels, fields, mode, timer and file dialogs of the Qt window; a result is
named by what it was computed from. A file dialog runs an event loop of its own, in which the
timer may fire but no widget behind it can be reached.

## 3. Runs

| run | instance | shows |
|---|---|---|
| `server_two_ports` | 2 sessions on 2 ports, 2 requests of one of them, 1 kick, 1 notice | `UidsDistinct`, `SingleCloser`, `ClosedIsForgotten`, `LeftIsFinal`, `LastWordOnly`; every step is one of Membership's or none (`StepsAreMembership`) |
| `server_departure` | 2 sessions on one port, 1 request, fairness | `ListIsCurrent`, `DepartureHeard`, `RequestAnswered`, `ImplementsMembership` with announcements that must happen |
| `client_modes` | both RunModes, 2 connects, 2 requests, 1 push, fairness | `RunningHasThread`, `AnswerFindsCallback`, `RequestReturns`, `QuietAfterClose`, `PolledDisconnectFires`, and with `TerminateCause` when the program may end in `std::terminate` |
| `controller_stop` | both server programs, plain and secure, 2 ports, 3 sessions, 3 starts, fairness | `InStep` (dashboard, controller and threads agree), `EndsStopped`, `StopReturns`, `EndsInWindow` (when `stop()` can end the program), and `StoppedIsQuiet` behind a stop |
| `secure_links` | 2 clients, secure or not, one of which may send what does not decode, 1 kick, fairness | `PortWaitsOnlyForBad`, `WaitsEnd` |
| `frames_tight` | 3 messages, room for 2 units, fairness | `SentInOrder` (whole frames unless writes cross, bytes once and in order), `DeliveredInOrder`, `Arrives`: all promises of the stream but whole frames |
| `frames_torn` | 2 messages | frames can be torn (a counterexample) |
| `room_users` | 2 windows, 3 connections, 1 loss or connection given up, 2 chats opened, fairness | `RosterRight`, `WindowFollows`, `LoginCompletes` |
| `room_texts` | 2 windows (symmetric) and a terminal, 2 texts, 1 selection | `ShownOnce`, `InOrder`, `PrivateStaysPrivate` |
| `ciphers` | the keys and texts of `MCCiphers` | what is enciphered comes back, and what holds in the loops on the way: `ModernRoundTrip` and `Mirror` (DES, AES, RSA), `ClassicRoundTrip` (letters and Playfair), `TextReturns` (key, padding, blocks and hex), `LibraryAccounted` (OpenSSL: lengths, buffers, what is left allocated); what becomes of a key (`KeyRight`) |
| `des_vector` | the test's DES vector | the key schedule is wrong (a counterexample) |
| `window_edits` | 5 panels, 5 actions | `Settled` |

**Bounds.** Two sessions on two ports suffice for every race of the registry: an action of one
thread meets at most the dashboard and one other io thread on a session, and what a third session
would see is what the second sees. The theorems below need no bound. A second request matters
only for what follows a departure: the constraint `OthersStay` explores it of a session that is
being kicked, while the other is up and idle. `OneEnds` lets one connection end where there is
both a kick and a request; two that end together are explored without one of these. `NoticeAlone`
explores a notice only where nobody is kicked or asks anything. Three connections let a user come
back while another is there; two texts make an order. Two chats opened in `room_users` let the
window turn away from the chat of somebody who has left, whose nameless line then stays; one does
not. In `room_texts` the constraint `OneLogin` lets users log in one after the other; logins that
cross are `room_users`' subject. In `controller_stop` three starts are a start, a stop and a
start of the same or the other port, and one more that is refused. In `secure_links` one client
is the peer that misbehaves and one the bystander it holds up. `SendBuffer = Chunk = 2` with
frames of two to four units makes the socket take frames whole and in pieces. `MaxPayload = 2`
puts one body above the limit; the limit in the code is 1 MiB for plain sessions only. Cipher
inputs are chosen for edges: shifts around whole turns, all 2 × 2 matrices over some letters,
parity bits, unkeyed objects, texts that end like a padding, keys of hex with a blank or a digit too
many, texts longer than the `int` (of 7 bits there) they are cut to. Blocks of two bytes and keys of
one are enough for `BlockText`'s loop, which only counts them. Deadlock is not checked where a bounded system stops when its
operations are used up; `des_vector` ends in its counterexample.

**Fairness.** Weak fairness of a thread's `Continue` (and of `Join`, `IoExit`, `Post` …): a
thread in the middle of a function goes on. In ChatServer a posted write, a posted close and the
completion of a read on a dead socket have strong fairness: `run()` takes queued completions in
order, so each has its turn although the thread is busy again and again in between. In Client,
the handlers are weakly fair for the io thread, and in Manual mode for a user who keeps polling,
as the chat window does once a frame; starting requests, connecting and closing are not. In
`controller_stop` `stop()` goes on once begun, a `main()` that is on its way out goes on, and an
io thread finishes its handler, but for a `shutdown()` whose peer is silent: then the join waits
(`HeldUp`), as long as the connection neither says something nor is reset, and nothing makes it.
Nothing makes the user press a button or a client connect either. In
SecureLink a thread leaves `shutdown()` when something has come, the io thread serves each
session's handlers when it is free, and a client polls as long as it has not hung - `Poll` is
disabled for one that has; resets, hanging, kicks and clicks need not happen. In ChatRoom the
server serves, clients poll, and a connection attempt ends one way or the other (the system's own
timeout); users do nothing they must. In CipherWindow nothing is promised of time: `Settled` is
about whenever the timer is not running. The server answering is assumed in Client
(`WF(Answer)`): `RequestReturns` is about the client's half.

### Where the code disagrees with what is said of it

Two disagreements are kept as runs whose counterexample is expected:

- `frames_torn`: `PlainSession.cpp:135` says *"The below prevents concurrent writes from
  effecting each other."* Posting orders the starts of the writes, not the writes: the rest of a
  message the socket took in pieces is issued behind the next message's write.
- `des_vector`: `test_modern.cpp:37` gives the standard ciphertext; `DES.cpp:72` passes a
  56-bit value to a permutation that counts from bit 63. Encryption and decryption agree with
  each other (`Mirror`), so only a known answer shows it.

Others came up while modelling. They are in the models as the code has them, and the properties
say what is left:

- A lost connection leaves the callbacks of pending requests uncalled, though `IClient.h:37`
  speaks of the response; `request()` then blocks for ever, and in Manual mode it always does
  (`Client.cpp:105`). `RequestReturns` claims the rest.
- In Threaded mode `close()` posts the disconnect callback and stops the `io_context` before it
  can run (`Client.cpp:213`, `IClient.h:48`). `PolledDisconnectFires` is about Manual mode.
- `isRunning()` is true before the connection is (`Client.cpp:33`, `IClient.h:29`).
- A session closed between `add()` and `onClose()` stays registered: `missed`, Membership's
  ghosts.
- `stop()` leaves the port's sessions in the registry on an `io_context` that is gone
  (`ServerController.cpp:118`); client_list goes on naming them, and a broadcast, a kick or the
  registry's destruction touches sockets whose context is destroyed: `EndsInWindow` is about a
  program without such a session.
- `CoreApplication` ignores that its window or ImGui could not be made
  (`CoreApplication.cpp:16`) and its first frame uses them.
- `SecureSession::close()` and `SecureTransport::close()` call the blocking `shutdown()`
  (`SecureSession.cpp:40`): a peer that hangs, or that sent what does not decode and then says
  nothing, holds up everybody on the port, or the dashboard's GUI thread, and so `stop()` at its
  join. `WaitsEnd` and `StopReturns` exclude exactly these waits.
- A line typed in the terminal client before it is connected either fails the connection or is
  shown twice (`app/net/client/cli/main.cpp:107`); `ShownOnce` excludes it by name.
- Every private chat of a window shows all private messages the user has sent, whoever they
  went to (the filter in `ChatApplication.cpp:248`); the model stops at `mMessages`.
- When the login request throws, ClientAppContext destroys the client inside its own handler
  (`app/net/client/common/ClientAppContext.cpp:110`).
- Changing the AES key size in the cipher window neither starts the timer nor processes
  (`panels.cpp:125`), and the AES and RSA panels are never added to the stack
  (`Window.cpp:103`), so they lie behind the others. `Settled` leaves the key size out.
- AESCBC and RSA leak what a failing call leaves behind (`AESCBC.cpp:65`, `RSA.cpp:43`);
  `LeftBehind` (in OpenSSL) says what, for each call. AESCBC and DES cut a text's length to an `int`
  (`AESCBC.cpp:69`); `Lengths` says how much of the text is in the ciphertext then.
- An accept on the acceptor `stop()` closed calls an error callback that is not set
  (`Server.cpp:30`), which ends the program, as does an accept that fails by itself:
  `EndsInWindow` says that behind `io->stop()` neither can happen any more.
- Selecting a user clears the badge in the window's copy only (`ChatApplication.cpp:192`), so
  the next refresh brings it back. Drawing the header of a private chat whose user has left
  inserts him again without a name (`:209`), and there he stays until the next refresh:
  `WindowFollows` allows the window such nameless lines and nothing else.
- `RSA::generateKeyPair` inserts between iterators of two temporaries (`RSA.cpp:81`), so its
  pair need not be usable; `mulMod` wraps above 63 bits (`RSA.cpp:25`; `NothingLost` in RSA asks for a
  modulus below).
- Playfair drops any last X (`Playfair.cpp:152`), Hill of one row deciphers to A
  (`Hill.cpp:108`), Affine leaves the alphabet for offsets above 26 and for some factors below zero
  (`Affine.cpp:39`), Vigenere
  does not normalise its key (`Vigenere.cpp:15`), `unpad` does not know the block size
  (`utils.cpp:59`). The ciphers' properties state the inputs for which they hold.

## 4. Proofs

`ChatServerProofs` proves, for every set of sessions, ports and names, any distribution of the
sessions over the ports and any number of requests, kicks and notices, from `ServerAssumption`:

| theorem | says |
|---|---|
| `TypeCorrect` | `TypeOK` is invariant |
| `UidsStayDistinct` | `UidsDistinct`: uids drawn outside the lock are never shared, and an entry is filed under its session's uid |
| `CloseIsOnce` | `SingleCloser` |
| `ClosedSessionsAreForgotten` | `ClosedIsForgotten` |
| `RegistryGrowsOnce` | `NoResurrection`: a uid enters the registry by its own session's `add()` alone |
| `DepartureIsFinal` | `LeftIsFinal` |
| `OneLastWord` | `LastWordOnly`: behind a user_left at most one push of that user |
| `ListsAreCurrent` | `ListIsCurrent`, on one port |
| `ServerImplementsMembership` | `StepsAreMembership`: the safety half of `ImplementsMembership` |

None of these is inductive by itself. The invariant is `IInv` (in ChatServer): the type
invariant, the three properties, and

- `UidsDrawn`: an accepted session's uid is below `mNextUid`, and nobody registered is `Fresh`
  (not yet inserted) - otherwise a fresh uid could collide with one already filed;
- `FreshUntouched`: nothing is posted to, and nobody has closed, a session nobody can know yet;
- `InStep`: what a thread knows at each step: a thread that is adding owns a session that is
  accepted on its port; one that works for a session works for one that is not fresh; one past
  the exchange has the flag set; recipients of a snapshot are not fresh.

Each action has a lemma that it preserves `IInv`. Actions that leave the registry and the flags
alone share `QuietStep`, which needs only that the acting thread's own `InStep` is kept; the
interesting ones are `AcceptInv`, `AddSessionInv`, `MarkClosedInv`, `NotifyInv` and `RemoveInv`.
`NoResurrection` follows from `RegistryStep`: of all actions only `AddSession` enlarges the
domain of `mSessions`. For `LeftIsFinal` the messages in flight must be harmless: a user_left
in a thread's hands, in an outbox or on a wire names a uid that is `Gone` - not registered,
already drawn, and not held by a session still to be inserted. `Gone` is stable because a uid
enters the registry only by its own session's `add()`.

`OneLastWord` and `ListsAreCurrent` rest on two more invariants. `AtWork`: a session moves through
its stages on its own port's thread, one handler at a time, and its socket is closed before its
departure is announced. `Harmless` also says of a user_left that its user's socket is closed
(`Sealed`). Then `LastWords`: behind a user_left stands at most one push of that user, and once one
does, the session has nothing more to say (`Spent`) - it is done, or in the handler of its last
request and has sent to this listener already. For the lists, `Listing` says that on one port the
uids a client_list has collected stay registered until it is posted, because nobody else can run.
`ListsAreCurrent` assumes, besides the one port, that nobody logs in as `Unknown`
(`NobodyIsUnknown`), the name that stands for none: his entry would be right and look wrong.

The refinement needs `MInv` (in ChatServer) on top of `IInv`: a session past its insertion and
not closed is registered and whoever was missed is closed (`InTheRegistry`); a thread in the
middle of `close()` works for a session that is registered and no ghost, a thread about to
remove works for a wired one, and one about to announce for a wired one that is out of the
registry (`OnTheWayOut`); no two threads announce the same departure (`OneAnnouncer`), without
which a second snapshot would be a step Membership forbids. `MInv` was checked with TLC on the
instance of `server_two_ports`. The proof goes by kinds of step: `AddSession` is `Join`,
`Remove` is `Leave`, a `Snapshot` for a user_left is `Announce`, a `Notify` that finds no
callback is `Haunt`, and every other step leaves what Membership sees as it is (`AsideStep`,
`NothingMoves`).

`ServerControllerProofs` proves, for every set of ports and sessions and any number of starts,
from `ControllerAssumption`:

| theorem | says |
|---|---|
| `StaysInStep` | `InStep`: dashboard, controller and threads agree |
| `NothingOutlivesMain` | `EndsStopped` |
| `EndsOnlyInWindow` | `EndsInWindow`: without a session that outlived its port, the program ends of itself before `io->stop()` or not at all |
| `StopIsQuiet` | `StoppedIsQuiet`: past the join, no handler of the port registers or removes a session |

Its inductive invariant `IInv` says that at most the configured port is started, and exactly while
`mIsRunning` (`OneServer`) - the configuration can be edited only while nothing runs -; where the
port's io thread is at each step of `stop()` (`ThreadAt`); that nothing runs before the arguments
are read or after `main()` (`Ways`); that what is registered belongs to the started port or is an
orphan (`Registered`), which is what a kick may remove behind a stop; and that a session the GUI
thread is closing is still registered and none the io thread is in (`Kicking`). It was checked with
TLC on the instance of `controller_stop`. Each action has a lemma with one step per conjunct.

`ClientProofs` proves of `Client`, in both RunModes and for any number of connects, requests and
pushes, from `ClientAssumption`:

| theorem | says |
|---|---|
| `RunningClientHasThread` | `RunningHasThread` |
| `TerminationHasCause` | `TerminateCause` |
| `NoAnswerIsLost` | `AnswerFindsCallback` |
| `QuietClient` | `QuietAfterClose` |

The invariant has two halves. `ThreadInv` says where the io thread is at each step of the user's
`close()`, and that only a client which closed itself is left with a thread it does not call
running - so a `connect()` finds an `io_context` to restart and never a thread to overwrite, unless
a handler closed the client. `RequestInv` says that a request is in one place only, posted, at
the server or coming back (`OnePlace`), and that its callback stays filed until then (`Filed`);
without the first, the answer to one copy could take away the callback of another.

`FrameStreamProofs` proves of `FrameStream`, for any set of messages, sizes, socket buffer, chunk
and way the network cuts the stream, from `FrameAssumption`:

| theorem | says |
|---|---|
| `WritesKeepOrder` | `SentInOrder` |
| `ReaderKeepsOrder` | `DeliveredInOrder` |

The sender's invariant is about `Due`, the writes under way followed by those posted: a message is
due exactly from its `write()` until its last unit, those not begun are due in the order of
`write()` and behind all that have begun (`QueueInv`). With it: a frame is torn only when two writes
crossed (`TornInv`), what is cut short is at the end of the wire (`CutAtEnd`), and on a wire without
a torn frame the frames follow each other whole and in order (`FramesRun`, `NextFollows`). `Counted`
ties `sent` to the units on the wire. The reader's invariant places it: it handed on the first
messages sent and stands at the end of the frame of the last of them (`Handed`, `AtFrame`), and
what it hands on behind a torn frame began before the place where it is (`ReaderInv`).

`SecureLinkProofs` proves of `SecureLink`, for any number of clients, messages, losses and kicks,
from `LinkAssumption`:

| theorem | says |
|---|---|
| `PortIsFree` | `PortWaitsOnlyForBad` |
| `OneThreadCloses` | `ClosedByOne`: the GUI thread and the io thread never shut one stream down both; a session leaves the manager by the `close()` of the one that does |

`LinkInv` says what may be under way between the two ends: nothing before the client dials, one
flight of the handshake at a time, none of it left once a session is open, and messages `owed` only
to a session in its handshake - so that what an open session cannot decode was said by its peer
(`BadSaid`). `CloseInv` relates the closed flag, the
registry and the threads in `shutdown()`.

`ChatRoomProofs` proves of `ChatRoom`, for any users, terminals, connections, texts, losses and
selections, from `RoomAssumption`:

| theorem | says |
|---|---|
| `PrivateMessages` | `PrivateStaysPrivate` |
| `NothingTwice` | `ShownOnce` |
| `OrderIsKept` | `InOrder` |
| `RosterAddsUp` | `RosterRight` |
| `WindowIsCurrent` | `WindowFollows` |

All five speak of what a client has handled, and hold because of what is on its way. So the
invariant is about the queues `up`, `down` and `early`: whom what is in them is about (`Addressed`)
and whose it is (`Right`); that a text is asked for on one connection and before anybody has it,
and that requests, pushes and what is shown come in one order (`Ordered`, eight conjuncts, each of
which another one needs); that a client learns its uid before its own messages come back, those
typed early aside (`Introduced`), which is how `mMyUid` filters the sender's copy; and `Roster`:
for each user the *last* word on its way to a client - his name in a list or a user_joined, or his
user_left - is right, and where nothing is on its way the client's map is right or the list is
still to come. `RosterRight` is `Roster` of an empty queue. `WindowFollows` has to
allow nameless lines of more users than the one whose chat is open: a window that turns away from
the chat of somebody who has left keeps his line until the next event.

`CipherWindowProofs` proves `WindowSettles` (`Settled`) of `CipherWindow`, for any ciphers, texts
and key sizes and any number of edits, from `WindowAssumption`. Besides `Settled` itself the
invariant needs only that the list of key sizes shows one of its entries.

`CiphersProofs` proves of the ciphers, for every key, text and block and any sequence of calls:

| theorem | says | from |
|---|---|---|
| `ModernCiphersGiveBack` | `ModernRoundTrip`: DES, AES and RSA | `DESAssumption`, `AESAssumption`, `RSAAssumption` |
| `RoundsAreUndone` | `Mirror`: DES and AES, round by round | the same |
| `ClassicCiphersGiveBack` | `ClassicRoundTrip`: Caesar, Affine, Vigenere, Playfair | `LettersAssumption`, `PlayfairAssumption` |
| `TextComesBack` | `TextReturns`: key, padding, blocks, hex | `TextAssumption`, `CipherAssumption` |
| `LibraryCallsAccounted` | `LibraryAccounted`: lengths, buffers and leaks of the classes around OpenSSL | `SSLAssumption` |
| `ParityBitsDoNotCount` | the part of `KeyRight` about DES | `DESAssumption` |

The assumptions say what the C++ types say: bytes are 0 .. 255, a `char` is signed, an `int` of a
constructor is far enough from the largest one for the sums made of it, an AES key has one of the
three sizes that select a schedule. `RSAAssumption` also takes what number theory says of a key
pair: that raising a byte to `e` and then to `d` gives it back (`BelongTogether`). That is what
makes two numbers a key pair; the theorem is about the code around it, `mulMod()` by doubling in
words that wrap and the square-and-multiply loop, which must compute those powers. `TextAssumption`
has blocks of at most 255 bytes and a padding limit equal to the block size, which is AES's; of
DES's blocks of 8 the window makes no use. `CipherAssumption` asks of the block cipher that it
inverts under every key of the right length, which `ModernCiphersGiveBack` shows of AES.

Each cipher has an inductive invariant of its own, `Inv` in its module, checked with TLC on the
inputs of `MCCiphers` before it was proved. It says where each loop stands, so that a turn of it is
one application of the cipher's rule:

- *DES*: each half-pair is a `Round` of the one before; deciphering starts on all of them and
  stands on them in reverse order (`Mirror`). A Feistel round undoes itself whatever the subkey and
  whatever `Feistel` computes; what needs the tables is that `FP` undoes `IP`.
- *AES*: the same with States. That `invSubBytes` undoes `subBytes` is a fact about 256 entries,
  that `invShiftRows` undoes `shiftRows` one about indices. `invMixColumns` undoes `mixColumns`
  because `multiply()` is linear over Xor: both are sums of `xtime` powers, bit by bit, and
  the products of the two matrices' rows and columns come out as 1 and 0.
- *RSA*: `result * base ^ exp` is the power asked for, modulo `n`, at every turn (`NothingLost`).
  With twice the modulus in the word, no doubling of `mulMod()` wraps.
- *Caesar, Affine, Vigenere*: what is written so far is the text's letters each moved by its own
  shift, and the key stands at the number of letters met (`LettersIn`), not of characters - so
  deciphering, which starts the key again, meets the same shift at the same letter. Affine's
  factor has an inverse because the constructor's Euclidean algorithm ended with 1.
- *Playfair*: the square is the alphabet in some order, whatever the key; `rest` is a tail of the
  text and what was cut from it is, without the X, the same as the beginning before it; the pairs
  are unlike unless they are XX; each pair of the ciphertext is the rule applied to its own pair,
  and the rule of deciphering takes it back (`PairBack`: same row, same column, rectangle).
- *padding and hex*: every position of what is shown is a digit of the byte at half the position,
  and that byte is one of the padded text, enciphered in its own block (`Enciphered`); under the
  same bytes of a key each block read back is the padded text's.
- *OpenSSL*: what is held before each library call (`Holds`) and after the one that failed
  (`LeftBehind`), how much was written, and that a ciphertext is one this object has made.

What a loop computes is a recursive function here (`Loop`, `gcd`, `PowerMod`, `Doubling`,
`toHex`). That such a function exists at all has to be proved before it can be unfolded:
`Recursion` does it once for functions of a number, by the least number at which a table
would be missing; `DividingExists` does it for `gcd`, whose arguments fall with each remainder.
Invariants that speak of every turn then need no induction but that of `Spec`.

One attempt failed for a reason: Affine with a negative factor. Its round trip was claimed for
every factor the constructor takes, and the inputs had no negative one it does; but it takes -5,
since C's remainders end with 1, and then letters leave the alphabet. `GoodKey` now asks for a
factor above zero, and the inputs have -5.

**What stays with TLC.** Every liveness property, the fairness half of `ImplementsMembership`
included: out of the provers' reach. `KeyRight`: that AES gives the standard's ciphertexts is a
computation; that Hill's adjugate times the matrix is the determinant, by cofactors of any size, is
an induction over data, which the provers cannot do, and the round trip of Hill goes with it.
`ListIsCurrent` is a theorem for one port only because it is false of two, where another port's
session may leave between `listIds()` and the names.

The modules below `Ciphers` take little from the community modules: every definition they reach
through INSTANCE is part of each obligation, eight times over, and the provers then spend most of
their time on it.

## 5. Not modelled

- **The insides of libraries**: certificates and TLS records (a handshake succeeds or fails, a
  packet is one of seven kinds), OpenSSL's bytes, the calls of GLFW and ImGui in a frame.
- **JSON**: a body is one message or corrupt (`EndRead`). Fields of the wrong type inside a request's
  `params` make its handler throw, which the Router answers with an error (`Router.cpp:56`): it changes
  nothing in the registry and is answered like a ping. An `id` or a `method` of the wrong type throws
  before (`Router.cpp:27`), into the read handler, which closes the session as on a corrupt body.
- **Router's table**: filled before any port starts, never changed.
- **Lifetime of objects**: callbacks hold `shared_ptr`s in sessions (nothing to model) and raw
  pointers in Client and ClientAppContext; a handler that outlives its object is named as a
  hazard and not modelled.
- **Wrap-around of uids and request ids** after 2^32 operations, and memory.
- **Drawing, themes, logging**, the contents of files and the spelling of arguments; the conversion
  of a result to UTF-8 in the cipher window.

## 6. Plan

In the order of what matters most:

1. *Done*: all parts of section 2 modelled and checked; the safety properties of the server, the
   controller, the client, the stream, the links, the room, the cipher window and the ciphers
   proved, but for Hill and the known answers, and that the server implements Membership.
2. *ChatRoom*: an abstract roster - who is in the chat, with no queues - that each client's view
   implements once its queue is empty.
3. *Models*: several users of one Client (requests from two threads), and ChatRoom with a server
   that is stopped and started again, so that uids are given a second time.
