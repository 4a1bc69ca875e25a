----------------------- MODULE ServerControllerProofs -----------------------
(***************************************************************************)
(* Proofs about ServerController for every set of ports and sessions and   *)
(* every number of starts: the dashboard, the controller and the threads   *)
(* stay in step, nothing outlives main(), nothing happens behind a stop(), *)
(* and when a program can end of itself.                                   *)
(***************************************************************************)
EXTENDS ServerController, TLAPS

\* The controller has at most one port started, the one of the configuration.
OneServer == mServers = IF mIsRunning THEN {configPort} ELSE {}

\* Where the io thread of the started port is at each step of stop().
ThreadAt ==
    /\ \A p \in Port \ mServers : thread[p] = "none"
    /\ stopping # "none" => mIsRunning
    /\ mIsRunning =>
          \/ stopping \in {"none", "stop io"} /\ thread[configPort] = "run" /\ ioStopped = {}
          \/ /\ stopping = "join" /\ configPort \in ioStopped
             /\ thread[configPort] \in {"run", "ended"}
          \/ stopping = "erase" /\ thread[configPort] = "none"
    /\ ioStopped \subseteq mServers

\* Nothing runs before the arguments are read or after the end of main().
Ways ==
    /\ main = "args" => ~mIsRunning /\ ~terminated
    /\ main = "over" => ~mIsRunning

\* Registered sessions are those of the started port, and orphans.  A thread in a
\* shutdown() runs.
Registered ==
    /\ \A s \in mSessions : where[s] \in {"up", "lost", "closing", "orphan"}
    /\ \A s \in Session :
          where[s] \in {"accepted", "up", "lost", "closing"} => port[s] \in mServers
    /\ \A s \in Session : where[s] = "closing" => thread[port[s]] = "run"

\* A kick keeps the GUI thread, and what it closes the io thread does not.
Kicking ==
    /\ kicked # {} => stopping = "none" /\ main = "loop"
    /\ \A s \in kicked : s \in mSessions /\ where[s] # "closing"

\* The inductive invariant.
IInv == TypeOK /\ OneServer /\ ThreadAt /\ Ways /\ Registered /\ Kicking

LEMMA Count ==
    /\ 0 \in 0 .. MaxStarts
    /\ \A n \in 0 .. MaxStarts : n < MaxStarts => n + 1 \in 0 .. MaxStarts
BY ControllerAssumption DEF ControllerAssumption

LEMMA InvInit == Init => IInv
<1> SUFFICES ASSUME Init PROVE IInv
  OBVIOUS
<1>1. ShellTypeOK /\ InstanceOK /\ EndOK
  BY DEF Init, ShellInit, ShellTypeOK, InstanceOK, EndOK
<1>2. SessionOK
  BY DEF Init, SessionOK
<1>3. MainOK
  BY Count DEF Init, MainOK
<1>4. OneServer /\ ThreadAt
  BY DEF Init, OneServer, ThreadAt
<1>5. Ways /\ Registered /\ Kicking
  BY DEF Init, Ways, Registered, Kicking, ShellInit
<1> QED
  BY <1>1, <1>2, <1>3, <1>4, <1>5 DEF IInv, TypeOK

\* A step that touches only sessions.
LEMMA SessionStep ==
    ASSUME IInv, SessionOK', EndOK', Registered', Kicking',
           UNCHANGED <<shellVars, instanceVars, stopping, mIsRunning, configVars, starts>>,
           main = "args" => UNCHANGED terminated
    PROVE  IInv'
<1>1. /\ UNCHANGED <<program, main, mWindow, imgui, mServers, thread, ioStopped, acceptor, loop>>
      /\ UNCHANGED <<secured, stopping, mIsRunning, configPort, secure, starts>>
  BY DEF shellVars, instanceVars, configVars
<1>2. ShellTypeOK' /\ InstanceOK' /\ MainOK'
  BY <1>1 DEF IInv, TypeOK, ShellTypeOK, InstanceOK, MainOK
<1>3. OneServer' /\ ThreadAt'
  BY DEF IInv, TypeOK, InstanceOK, MainOK, OneServer, ThreadAt, shellVars, instanceVars, configVars
<1>4. Ways'
  <2>1. CASE main = "args"
    BY <1>1, <2>1 DEF IInv, Ways
  <2>2. CASE main # "args"
    BY <1>1, <2>2 DEF IInv, Ways
  <2> QED
    BY <2>1, <2>2
<1> QED
  BY <1>2, <1>3, <1>4 DEF IInv, TypeOK

\* A session that departs, while no kick but its own is under way.
LEMMA DepartsStep ==
    ASSUME NEW s \in Session, IInv, Departs(s), kicked' \subseteq kicked \ {s},
           UNCHANGED <<shellVars, instanceVars, port, tls, silent>>,
           UNCHANGED <<stopping, mIsRunning, configVars, starts>>, main # "args"
    PROVE  IInv'
<1>1. /\ where' = [where EXCEPT ![s] = "left"] /\ mSessions' = mSessions \ {s}
      /\ UNCHANGED <<port, mServers, thread, tls, silent, stopping, main>>
  BY DEF Departs, instanceVars, shellVars
<1>2. SessionOK'
  BY <1>1 DEF IInv, TypeOK, SessionOK
<1>3. EndOK'
  BY DEF IInv, TypeOK, EndOK, Departs, Uses
<1>4. Registered'
  BY <1>1 DEF IInv, TypeOK, SessionOK, Registered
<1>5. Kicking'
  BY <1>1 DEF IInv, TypeOK, SessionOK, Kicking
<1> QED
  BY <1>2, <1>3, <1>4, <1>5, SessionStep

-----------------------------------------------------------------------------
(* The main thread, but for stop().                                        *)

LEMMA ParseArgsInv == ASSUME IInv, ParseArgs PROVE IInv'
<1>1. ShellTypeOK'
  BY DEF IInv, TypeOK, ShellTypeOK, ParseArgs, GoTo
<1>2. InstanceOK'
  BY DEF IInv, TypeOK, InstanceOK, ParseArgs, instanceVars
<1>3. SessionOK'
  BY DEF IInv, TypeOK, SessionOK, ParseArgs, sessionVars, closeVars
<1>4. MainOK'
  BY DEF IInv, TypeOK, MainOK, ParseArgs, configVars
<1>5. EndOK'
  BY DEF IInv, TypeOK, EndOK, ParseArgs
<1>6. OneServer'
  BY ControllerAssumption
  DEF IInv, TypeOK, InstanceOK, MainOK, OneServer, ThreadAt, ParseArgs, GoTo, instanceVars,
      sessionVars, closeVars, configVars, ControllerAssumption
<1>7. ThreadAt'
  BY ControllerAssumption
  DEF IInv, TypeOK, InstanceOK, MainOK, OneServer, ThreadAt, ParseArgs, GoTo, instanceVars,
      sessionVars, closeVars, configVars, ControllerAssumption
<1>8. Ways'
  BY DEF IInv, TypeOK, InstanceOK, MainOK, OneServer, ThreadAt, Ways, ParseArgs, GoTo,
         instanceVars, sessionVars, closeVars, configVars
<1>9. Registered'
  BY DEF IInv, TypeOK, InstanceOK, SessionOK, OneServer, ThreadAt, Registered, ParseArgs, GoTo,
         instanceVars, sessionVars, closeVars, configVars
<1>10. Kicking'
  BY DEF IInv, Kicking, ParseArgs, GoTo, instanceVars, sessionVars, closeVars
<1> QED
  BY <1>1, <1>2, <1>3, <1>4, <1>5, <1>6, <1>7, <1>8, <1>9, <1>10
  DEF IInv, TypeOK

LEMMA OpenWindowInv == ASSUME IInv, OpenWindow PROVE IInv'
<1>1. ShellTypeOK'
  BY DEF IInv, TypeOK, ShellTypeOK, OpenWindow, MakeWindow, InitializeImGui, Dress, GoTo
<1>2. InstanceOK'
  BY DEF IInv, TypeOK, InstanceOK, OpenWindow, MakeWindow, instanceVars
<1>3. SessionOK'
  BY DEF IInv, TypeOK, SessionOK, OpenWindow, sessionVars, closeVars
<1>4. MainOK'
  BY DEF IInv, TypeOK, MainOK, OpenWindow, configVars
<1>5. EndOK'
  BY DEF IInv, TypeOK, EndOK, OpenWindow
<1>6. OneServer'
  BY DEF IInv, TypeOK, InstanceOK, MainOK, OneServer, ThreadAt, OpenWindow, MakeWindow,
         InitializeImGui, Dress, GoTo, instanceVars, sessionVars, closeVars, configVars
<1>7. ThreadAt'
  BY DEF IInv, TypeOK, InstanceOK, MainOK, OneServer, ThreadAt, OpenWindow, MakeWindow,
         InitializeImGui, Dress, GoTo, instanceVars, sessionVars, closeVars, configVars
<1>8. Ways'
  BY DEF IInv, TypeOK, InstanceOK, MainOK, OneServer, ThreadAt, Ways, OpenWindow, MakeWindow,
         InitializeImGui, Dress, GoTo, instanceVars, sessionVars, closeVars, configVars
<1>9. Registered'
  BY DEF IInv, TypeOK, InstanceOK, SessionOK, OneServer, ThreadAt, Registered, OpenWindow,
         MakeWindow, InitializeImGui, Dress, GoTo, instanceVars, sessionVars, closeVars,
         configVars
<1>10. Kicking'
  BY DEF IInv, Kicking, OpenWindow, MakeWindow, InitializeImGui, Dress, GoTo, instanceVars,
         sessionVars, closeVars
<1> QED
  BY <1>1, <1>2, <1>3, <1>4, <1>5, <1>6, <1>7, <1>8, <1>9, <1>10
  DEF IInv, TypeOK

LEMMA EditPortInv == ASSUME NEW p \in Port, IInv, EditPort(p) PROVE IInv'
<1>1. ShellTypeOK'
  BY DEF IInv, TypeOK, ShellTypeOK, EditPort, Frame, shellVars
<1>2. InstanceOK'
  BY DEF IInv, TypeOK, InstanceOK, EditPort, instanceVars
<1>3. SessionOK'
  BY DEF IInv, TypeOK, SessionOK, EditPort, sessionVars, closeVars
<1>4. MainOK'
  BY DEF IInv, TypeOK, MainOK, EditPort, Frame
<1>5. EndOK'
  BY DEF IInv, TypeOK, EndOK, EditPort
<1>6. OneServer'
  BY DEF IInv, TypeOK, InstanceOK, MainOK, OneServer, ThreadAt, EditPort, Frame, shellVars,
         instanceVars, sessionVars, closeVars
<1>7. ThreadAt'
  BY DEF IInv, TypeOK, InstanceOK, MainOK, OneServer, ThreadAt, EditPort, Frame, shellVars,
         instanceVars, sessionVars, closeVars
<1>8. Ways'
  BY DEF IInv, TypeOK, InstanceOK, MainOK, OneServer, ThreadAt, Ways, EditPort, Frame, shellVars,
         instanceVars, sessionVars, closeVars
<1>9. Registered'
  BY DEF IInv, TypeOK, InstanceOK, SessionOK, OneServer, ThreadAt, Registered, EditPort, Frame,
         shellVars, instanceVars, sessionVars, closeVars
<1>10. Kicking'
  BY DEF IInv, Kicking, EditPort, Frame, shellVars, instanceVars, sessionVars, closeVars
<1> QED
  BY <1>1, <1>2, <1>3, <1>4, <1>5, <1>6, <1>7, <1>8, <1>9, <1>10
  DEF IInv, TypeOK

LEMMA CheckSecureInv == ASSUME IInv, CheckSecure PROVE IInv'
<1>1. ShellTypeOK'
  BY DEF IInv, TypeOK, ShellTypeOK, CheckSecure, Frame, shellVars
<1>2. InstanceOK'
  BY DEF IInv, TypeOK, InstanceOK, CheckSecure, instanceVars
<1>3. SessionOK'
  BY DEF IInv, TypeOK, SessionOK, CheckSecure, sessionVars, closeVars
<1>4. MainOK'
  BY DEF IInv, TypeOK, MainOK, CheckSecure, Frame
<1>5. EndOK'
  BY DEF IInv, TypeOK, EndOK, CheckSecure
<1>6. OneServer'
  BY DEF IInv, TypeOK, InstanceOK, MainOK, OneServer, ThreadAt, CheckSecure, Frame, shellVars,
         instanceVars, sessionVars, closeVars
<1>7. ThreadAt'
  BY DEF IInv, TypeOK, InstanceOK, MainOK, OneServer, ThreadAt, CheckSecure, Frame, shellVars,
         instanceVars, sessionVars, closeVars
<1>8. Ways'
  BY DEF IInv, TypeOK, InstanceOK, MainOK, OneServer, ThreadAt, Ways, CheckSecure, Frame,
         shellVars, instanceVars, sessionVars, closeVars
<1>9. Registered'
  BY DEF IInv, TypeOK, InstanceOK, SessionOK, OneServer, ThreadAt, Registered, CheckSecure,
         Frame, shellVars, instanceVars, sessionVars, closeVars
<1>10. Kicking'
  BY DEF IInv, Kicking, CheckSecure, Frame, shellVars, instanceVars, sessionVars, closeVars
<1> QED
  BY <1>1, <1>2, <1>3, <1>4, <1>5, <1>6, <1>7, <1>8, <1>9, <1>10
  DEF IInv, TypeOK

LEMMA NoticeInv == ASSUME IInv, Notice PROVE IInv'
<1>1. ShellTypeOK'
  BY DEF IInv, TypeOK, ShellTypeOK, Notice, Frame, shellVars
<1>2. InstanceOK'
  BY DEF IInv, TypeOK, InstanceOK, Notice, instanceVars
<1>3. SessionOK'
  BY DEF IInv, TypeOK, SessionOK, Notice, sessionVars, closeVars
<1>4. MainOK'
  BY DEF IInv, TypeOK, MainOK, Notice, Frame, configVars
<1>5. EndOK'
  BY DEF IInv, TypeOK, EndOK, Notice, Uses
<1>6. OneServer'
  BY DEF IInv, TypeOK, InstanceOK, MainOK, OneServer, ThreadAt, Notice, Frame, Uses, shellVars,
         instanceVars, sessionVars, closeVars, configVars
<1>7. ThreadAt'
  BY DEF IInv, TypeOK, InstanceOK, MainOK, OneServer, ThreadAt, Notice, Frame, Uses, shellVars,
         instanceVars, sessionVars, closeVars, configVars
<1>8. Ways'
  BY DEF IInv, TypeOK, InstanceOK, MainOK, OneServer, ThreadAt, Ways, Notice, Frame, Uses,
         shellVars, instanceVars, sessionVars, closeVars, configVars
<1>9. Registered'
  BY DEF IInv, TypeOK, InstanceOK, SessionOK, OneServer, ThreadAt, Registered, Notice, Frame,
         Uses, shellVars, instanceVars, sessionVars, closeVars, configVars
<1>10. Kicking'
  BY DEF IInv, Kicking, Notice, Frame, shellVars, instanceVars, sessionVars, closeVars
<1> QED
  BY <1>1, <1>2, <1>3, <1>4, <1>5, <1>6, <1>7, <1>8, <1>9, <1>10
  DEF IInv, TypeOK

LEMMA KickInv == ASSUME NEW s \in Session, IInv, Kick(s) PROVE IInv'
<1>1. /\ UNCHANGED <<shellVars, instanceVars, port, tls, silent, stopping, mIsRunning>>
      /\ UNCHANGED <<configVars, starts>> /\ main = "loop" /\ stopping = "none" /\ kicked = {}
  BY DEF Kick, Frame
<1>2. CASE Departs(s) /\ UNCHANGED kicked
  BY <1>1, <1>2, DepartsStep
<1>3. CASE kicked' = {s} /\ Uses({s}) /\ UNCHANGED <<where, mSessions>>
  <2>1. SessionOK'
    BY <1>1, <1>3 DEF IInv, TypeOK, SessionOK
  <2>2. EndOK'
    BY <1>3 DEF IInv, TypeOK, EndOK, Uses
  <2>3. Registered'
    BY <1>1, <1>3 DEF IInv, Registered, instanceVars
  <2>4. Kicking'
    BY <1>1, <1>3 DEF Kicking, Kick, shellVars
  <2> QED
    BY <1>1, <2>1, <2>2, <2>3, <2>4, SessionStep
<1> QED
  BY <1>2, <1>3 DEF Kick

LEMMA KickReturnsInv == ASSUME NEW s \in Session, IInv, KickReturns(s) PROVE IInv'
<1>1. kicked' = {} /\ Departs(s) /\ s \in kicked
  BY DEF KickReturns
<1>2. main # "args"
  BY <1>1 DEF IInv, Kicking
<1> QED
  BY <1>1, <1>2, DepartsStep DEF KickReturns

LEMMA StartFailsInv == ASSUME IInv, StartFails PROVE IInv'
<1>1. ShellTypeOK'
  BY DEF IInv, TypeOK, ShellTypeOK, StartFails, Starting, Refused, Frame, GoTo, shellVars
<1>2. InstanceOK'
  BY DEF IInv, TypeOK, InstanceOK, StartFails, instanceVars
<1>3. SessionOK'
  BY DEF IInv, TypeOK, SessionOK, StartFails, sessionVars, closeVars
<1>4. MainOK'
  <2>1. starts \in 0 .. MaxStarts
    BY DEF IInv, TypeOK, MainOK
  <2>2. starts' = starts + 1 /\ starts < MaxStarts
    BY DEF StartFails, Starting
  <2>3. starts' \in 0 .. MaxStarts
    BY <2>1, <2>2, Count
  <2> QED
    BY <2>3 DEF IInv, TypeOK, MainOK, StartFails, configVars
<1>5. EndOK'
  BY DEF IInv, TypeOK, EndOK, StartFails
<1>6. OneServer'
  BY DEF IInv, TypeOK, InstanceOK, MainOK, OneServer, ThreadAt, StartFails, Starting, Refused,
         Frame, GoTo, shellVars, instanceVars, sessionVars, closeVars, configVars
<1>7. ThreadAt'
  BY DEF IInv, TypeOK, InstanceOK, MainOK, OneServer, ThreadAt, StartFails, Starting, Refused,
         Frame, GoTo, shellVars, instanceVars, sessionVars, closeVars, configVars
<1>8. Ways'
  BY DEF IInv, TypeOK, InstanceOK, MainOK, OneServer, ThreadAt, Ways, StartFails, Starting,
         Refused, Frame, GoTo, shellVars, instanceVars, sessionVars, closeVars, configVars
<1>9. Registered'
  BY DEF IInv, TypeOK, InstanceOK, SessionOK, OneServer, ThreadAt, Registered, StartFails,
         Starting, Refused, Frame, GoTo, shellVars, instanceVars, sessionVars, closeVars,
         configVars
<1>10. Kicking'
  BY DEF IInv, Kicking, StartFails, Starting, Refused, Frame, GoTo, shellVars, instanceVars,
         sessionVars, closeVars
<1> QED
  BY <1>1, <1>2, <1>3, <1>4, <1>5, <1>6, <1>7, <1>8, <1>9, <1>10
  DEF IInv, TypeOK

LEMMA StartThrowsInv == ASSUME IInv, StartThrows PROVE IInv'
<1>1. ShellTypeOK'
  BY DEF IInv, TypeOK, ShellTypeOK, StartThrows, Starting, TakeDown, Frame, GoTo
<1>2. InstanceOK'
  BY DEF IInv, TypeOK, InstanceOK, StartThrows, instanceVars
<1>3. SessionOK'
  BY DEF IInv, TypeOK, SessionOK, StartThrows, sessionVars, closeVars
<1>4. MainOK'
  <2>1. starts \in 0 .. MaxStarts
    BY DEF IInv, TypeOK, MainOK
  <2>2. starts' = starts + 1 /\ starts < MaxStarts
    BY DEF StartThrows, Starting
  <2>3. starts' \in 0 .. MaxStarts
    BY <2>1, <2>2, Count
  <2> QED
    BY <2>3 DEF IInv, TypeOK, MainOK, StartThrows, configVars
<1>5. EndOK'
  BY DEF IInv, TypeOK, EndOK, StartThrows
<1>6. OneServer'
  BY DEF IInv, TypeOK, InstanceOK, MainOK, OneServer, ThreadAt, StartThrows, Starting, TakeDown,
         Frame, GoTo, instanceVars, sessionVars, closeVars, configVars
<1>7. ThreadAt'
  BY DEF IInv, TypeOK, InstanceOK, MainOK, OneServer, ThreadAt, StartThrows, Starting, TakeDown,
         Frame, GoTo, instanceVars, sessionVars, closeVars, configVars
<1>8. Ways'
  BY DEF IInv, TypeOK, InstanceOK, MainOK, OneServer, ThreadAt, Ways, StartThrows, Starting,
         TakeDown, Frame, GoTo, instanceVars, sessionVars, closeVars, configVars
<1>9. Registered'
  BY DEF IInv, TypeOK, InstanceOK, SessionOK, OneServer, ThreadAt, Registered, StartThrows,
         Starting, TakeDown, Frame, GoTo, instanceVars, sessionVars, closeVars, configVars
<1>10. Kicking'
  BY DEF IInv, Kicking, StartThrows, Starting, TakeDown, Frame, GoTo, instanceVars, sessionVars,
         closeVars
<1> QED
  BY <1>1, <1>2, <1>3, <1>4, <1>5, <1>6, <1>7, <1>8, <1>9, <1>10
  DEF IInv, TypeOK

LEMMA StartInv == ASSUME IInv, Start PROVE IInv'
<1>1. ShellTypeOK'
  BY DEF IInv, TypeOK, ShellTypeOK, Start, Starting, Frame, GoTo, shellVars
<1>2. InstanceOK'
  BY DEF IInv, TypeOK, InstanceOK, MainOK, OneServer, ThreadAt, Start
<1>3. SessionOK'
  BY DEF IInv, TypeOK, SessionOK, Start, sessionVars, closeVars
<1>4. MainOK'
  <2>1. starts \in 0 .. MaxStarts
    BY DEF IInv, TypeOK, MainOK
  <2>2. starts' = starts + 1 /\ starts < MaxStarts
    BY DEF Start, Starting
  <2>3. starts' \in 0 .. MaxStarts
    BY <2>1, <2>2, Count
  <2> QED
    BY <2>3 DEF IInv, TypeOK, MainOK, Start, configVars
<1>5. EndOK'
  BY DEF IInv, TypeOK, EndOK, Start
<1>6. OneServer'
  BY DEF IInv, TypeOK, InstanceOK, MainOK, OneServer, ThreadAt, Start, Starting, Frame, GoTo,
         Alive, shellVars, sessionVars, closeVars, configVars
<1>7. ThreadAt'
  BY DEF IInv, TypeOK, InstanceOK, MainOK, OneServer, ThreadAt, Start, Starting, Frame, GoTo,
         Alive, shellVars, sessionVars, closeVars, configVars
<1>8. Ways'
  BY DEF IInv, TypeOK, InstanceOK, MainOK, OneServer, ThreadAt, Ways, Start, Starting, Frame,
         GoTo, Alive, shellVars, sessionVars, closeVars, configVars
<1>9. Registered'
  BY DEF IInv, TypeOK, InstanceOK, SessionOK, OneServer, ThreadAt, Registered, Start, Starting,
         Frame, GoTo, Alive, shellVars, sessionVars, closeVars, configVars
<1>10. Kicking'
  BY DEF IInv, Kicking, Start, Starting, Frame, GoTo, shellVars, sessionVars, closeVars
<1> QED
  BY <1>1, <1>2, <1>3, <1>4, <1>5, <1>6, <1>7, <1>8, <1>9, <1>10
  DEF IInv, TypeOK

LEMMA QuitInv == ASSUME IInv, Quit PROVE IInv'
<1>1. ShellTypeOK'
  BY DEF IInv, TypeOK, ShellTypeOK, Quit, TakeDown, GoTo
<1>2. InstanceOK'
  BY DEF IInv, TypeOK, InstanceOK, Quit, instanceVars
<1>3. SessionOK'
  BY DEF IInv, TypeOK, SessionOK, Quit, sessionVars, closeVars
<1>4. MainOK'
  BY DEF IInv, TypeOK, MainOK, Quit, configVars
<1>5. EndOK'
  BY DEF IInv, TypeOK, EndOK, Quit
<1>6. OneServer'
  BY DEF IInv, TypeOK, InstanceOK, MainOK, OneServer, ThreadAt, Quit, TakeDown, GoTo,
         instanceVars, sessionVars, closeVars, configVars
<1>7. ThreadAt'
  BY DEF IInv, TypeOK, InstanceOK, MainOK, OneServer, ThreadAt, Quit, TakeDown, GoTo,
         instanceVars, sessionVars, closeVars, configVars
<1>8. Ways'
  BY DEF IInv, TypeOK, InstanceOK, MainOK, OneServer, ThreadAt, Ways, Quit, TakeDown, GoTo,
         instanceVars, sessionVars, closeVars, configVars
<1>9. Registered'
  BY DEF IInv, TypeOK, InstanceOK, SessionOK, OneServer, ThreadAt, Registered, Quit, TakeDown,
         GoTo, instanceVars, sessionVars, closeVars, configVars
<1>10. Kicking'
  BY DEF IInv, Kicking, Quit, TakeDown, GoTo, instanceVars, sessionVars, closeVars
<1> QED
  BY <1>1, <1>2, <1>3, <1>4, <1>5, <1>6, <1>7, <1>8, <1>9, <1>10
  DEF IInv, TypeOK

LEMMA EndInv == ASSUME IInv, End PROVE IInv'
<1>1. ShellTypeOK'
  BY DEF IInv, TypeOK, ShellTypeOK, End, GoTo
<1>2. InstanceOK'
  BY DEF IInv, TypeOK, InstanceOK, End, instanceVars
<1>3. SessionOK'
  BY DEF IInv, TypeOK, SessionOK, End, sessionVars, closeVars
<1>4. MainOK'
  BY DEF IInv, TypeOK, MainOK, End, configVars
<1>5. EndOK'
  BY DEF IInv, TypeOK, EndOK, End, Uses
<1>6. OneServer'
  BY DEF IInv, TypeOK, InstanceOK, MainOK, OneServer, ThreadAt, End, GoTo, Uses, instanceVars,
         sessionVars, closeVars, configVars
<1>7. ThreadAt'
  BY DEF IInv, TypeOK, InstanceOK, MainOK, OneServer, ThreadAt, End, GoTo, Uses, instanceVars,
         sessionVars, closeVars, configVars
<1>8. Ways'
  BY DEF IInv, TypeOK, InstanceOK, MainOK, OneServer, ThreadAt, Ways, End, GoTo, Uses,
         instanceVars, sessionVars, closeVars, configVars
<1>9. Registered'
  BY DEF IInv, TypeOK, InstanceOK, SessionOK, OneServer, ThreadAt, Registered, End, GoTo, Uses,
         instanceVars, sessionVars, closeVars, configVars
<1>10. Kicking'
  BY DEF IInv, Kicking, End, GoTo, instanceVars, sessionVars, closeVars
<1> QED
  BY <1>1, <1>2, <1>3, <1>4, <1>5, <1>6, <1>7, <1>8, <1>9, <1>10
  DEF IInv, TypeOK

-----------------------------------------------------------------------------
(* stop().                                                                 *)

LEMMA CloseAcceptorInv == ASSUME IInv, CloseAcceptor PROVE IInv'
<1>1. ShellTypeOK'
  BY DEF IInv, TypeOK, ShellTypeOK, CloseAcceptor, Frame, shellVars
<1>2. InstanceOK'
  BY DEF IInv, TypeOK, InstanceOK, MainOK, OneServer, ThreadAt, CloseAcceptor
<1>3. SessionOK'
  BY DEF IInv, TypeOK, SessionOK, CloseAcceptor, sessionVars, closeVars
<1>4. MainOK'
  BY DEF IInv, TypeOK, MainOK, CloseAcceptor, Frame, configVars
<1>5. EndOK'
  BY DEF IInv, TypeOK, EndOK, CloseAcceptor
<1>6. OneServer'
  BY DEF IInv, TypeOK, InstanceOK, MainOK, OneServer, ThreadAt, CloseAcceptor, Alive, Frame,
         shellVars, sessionVars, closeVars, configVars
<1>7. ThreadAt'
  BY DEF IInv, TypeOK, InstanceOK, MainOK, OneServer, ThreadAt, CloseAcceptor, Alive, Frame,
         shellVars, sessionVars, closeVars, configVars
<1>8. Ways'
  BY DEF IInv, TypeOK, InstanceOK, MainOK, OneServer, ThreadAt, Ways, CloseAcceptor, Alive,
         Frame, shellVars, sessionVars, closeVars, configVars
<1>9. Registered'
  BY DEF IInv, TypeOK, InstanceOK, SessionOK, OneServer, ThreadAt, Registered, CloseAcceptor,
         Alive, Frame, shellVars, sessionVars, closeVars, configVars
<1>10. Kicking'
  BY DEF IInv, Kicking, CloseAcceptor, Frame, shellVars, sessionVars, closeVars
<1> QED
  BY <1>1, <1>2, <1>3, <1>4, <1>5, <1>6, <1>7, <1>8, <1>9, <1>10
  DEF IInv, TypeOK

LEMMA StopIoInv == ASSUME IInv, StopIo PROVE IInv'
<1>1. ShellTypeOK'
  BY DEF IInv, TypeOK, ShellTypeOK, StopIo, shellVars
<1>2. InstanceOK'
  BY DEF IInv, TypeOK, InstanceOK, MainOK, OneServer, ThreadAt, StopIo
<1>3. SessionOK'
  BY DEF IInv, TypeOK, SessionOK, StopIo, sessionVars, closeVars
<1>4. MainOK'
  BY DEF IInv, TypeOK, MainOK, StopIo, configVars
<1>5. EndOK'
  BY DEF IInv, TypeOK, EndOK, StopIo
<1>6. OneServer'
  BY DEF IInv, TypeOK, InstanceOK, MainOK, OneServer, ThreadAt, StopIo, Alive, shellVars,
         sessionVars, closeVars, configVars
<1>7. ThreadAt'
  BY DEF IInv, TypeOK, InstanceOK, MainOK, OneServer, ThreadAt, StopIo, Alive, shellVars,
         sessionVars, closeVars, configVars
<1>8. Ways'
  BY DEF IInv, TypeOK, InstanceOK, MainOK, OneServer, ThreadAt, Ways, StopIo, Alive, shellVars,
         sessionVars, closeVars, configVars
<1>9. Registered'
  BY DEF IInv, TypeOK, InstanceOK, SessionOK, OneServer, ThreadAt, Registered, StopIo, Alive,
         shellVars, sessionVars, closeVars, configVars
<1>10. Kicking'
  BY DEF IInv, Kicking, StopIo, shellVars, sessionVars, closeVars
<1> QED
  BY <1>1, <1>2, <1>3, <1>4, <1>5, <1>6, <1>7, <1>8, <1>9, <1>10
  DEF IInv, TypeOK

LEMMA JoinInv == ASSUME IInv, Join PROVE IInv'
<1>1. ShellTypeOK'
  BY DEF IInv, TypeOK, ShellTypeOK, Join, shellVars
<1>2. InstanceOK'
  BY DEF IInv, TypeOK, InstanceOK, MainOK, OneServer, ThreadAt, Join
<1>3. SessionOK'
  BY DEF IInv, TypeOK, SessionOK, Join, sessionVars, closeVars
<1>4. MainOK'
  BY DEF IInv, TypeOK, MainOK, Join, configVars
<1>5. EndOK'
  BY DEF IInv, TypeOK, EndOK, Join
<1>6. OneServer'
  BY DEF IInv, TypeOK, InstanceOK, MainOK, OneServer, ThreadAt, Join, Alive, shellVars,
         sessionVars, closeVars, configVars
<1>7. ThreadAt'
  BY DEF IInv, TypeOK, InstanceOK, MainOK, OneServer, ThreadAt, Join, Alive, shellVars,
         sessionVars, closeVars, configVars
<1>8. Ways'
  BY DEF IInv, TypeOK, InstanceOK, MainOK, OneServer, ThreadAt, Ways, Join, Alive, shellVars,
         sessionVars, closeVars, configVars
<1>9. Registered'
  BY DEF IInv, TypeOK, InstanceOK, SessionOK, OneServer, ThreadAt, Registered, Join, Alive,
         shellVars, sessionVars, closeVars, configVars
<1>10. Kicking'
  BY DEF IInv, Kicking, Join, shellVars, sessionVars, closeVars
<1> QED
  BY <1>1, <1>2, <1>3, <1>4, <1>5, <1>6, <1>7, <1>8, <1>9, <1>10
  DEF IInv, TypeOK

LEMMA EraseInv == ASSUME IInv, Erase PROVE IInv'
<1>1. ShellTypeOK'
  BY DEF IInv, TypeOK, ShellTypeOK, Erase, shellVars
<1>2. InstanceOK'
  BY DEF IInv, TypeOK, InstanceOK, Erase
<1>3. SessionOK'
  BY DEF IInv, TypeOK, SessionOK, Erase, closeVars
<1>4. MainOK'
  BY DEF IInv, TypeOK, MainOK, Erase, configVars
<1>5. EndOK'
  BY DEF IInv, TypeOK, EndOK, Erase
<1>6. OneServer'
  BY DEF IInv, TypeOK, InstanceOK, MainOK, OneServer, ThreadAt, Erase, Alive, shellVars,
         configVars
<1>7. ThreadAt'
  BY DEF IInv, TypeOK, InstanceOK, MainOK, OneServer, ThreadAt, Erase, Alive, shellVars,
         configVars
<1>8. Ways'
  BY DEF IInv, TypeOK, InstanceOK, MainOK, OneServer, ThreadAt, Ways, Erase, Alive, shellVars,
         configVars
<1>9. Registered'
  BY DEF IInv, TypeOK, InstanceOK, SessionOK, OneServer, ThreadAt, Registered, Erase, Alive,
         shellVars, configVars
<1>10. Kicking'
  BY DEF IInv, Kicking, Erase, shellVars, closeVars, instanceVars
<1> QED
  BY <1>1, <1>2, <1>3, <1>4, <1>5, <1>6, <1>7, <1>8, <1>9, <1>10
  DEF IInv, TypeOK

-----------------------------------------------------------------------------
(* The io threads.                                                         *)

LEMMA AcceptInv == ASSUME NEW p \in Port, NEW s \in Session, IInv, Accept(p, s) PROVE IInv'
<1>1. ShellTypeOK'
  BY DEF IInv, TypeOK, ShellTypeOK, Accept, otherVars, shellVars
<1>2. InstanceOK'
  BY DEF IInv, TypeOK, InstanceOK, Accept
<1>3. SessionOK'
  BY DEF IInv, TypeOK, SessionOK, Accept, closeVars
<1>4. MainOK'
  BY DEF IInv, TypeOK, MainOK, Accept, otherVars, configVars
<1>5. EndOK'
  BY DEF IInv, TypeOK, EndOK, Accept
<1>6. OneServer'
  BY DEF IInv, TypeOK, InstanceOK, MainOK, OneServer, ThreadAt, Accept, Runs, Alive, otherVars,
         shellVars, configVars
<1>7. ThreadAt'
  BY DEF IInv, TypeOK, InstanceOK, MainOK, OneServer, ThreadAt, Accept, Runs, Alive, otherVars,
         shellVars, configVars
<1>8. Ways'
  BY DEF IInv, TypeOK, InstanceOK, MainOK, OneServer, ThreadAt, Ways, Accept, Runs, Alive,
         otherVars, shellVars, configVars
<1>9. Registered'
  <2>1. /\ where[s] = "new" /\ where' = [where EXCEPT ![s] = "accepted"]
        /\ port' = [port EXCEPT ![s] = p] /\ UNCHANGED <<mSessions, mServers, thread>>
    BY DEF Accept
  <2>2. p \in mServers
    BY DEF IInv, ThreadAt, Accept, Runs
  <2> QED
    BY <2>1, <2>2 DEF IInv, TypeOK, SessionOK, Registered
<1>10. Kicking'
  BY DEF IInv, Kicking, Accept, otherVars, shellVars, closeVars, instanceVars
<1> QED
  BY <1>1, <1>2, <1>3, <1>4, <1>5, <1>6, <1>7, <1>8, <1>9, <1>10
  DEF IInv, TypeOK

LEMMA AcceptNextInv == ASSUME NEW p \in Port, IInv, AcceptNext(p) PROVE IInv'
<1>1. ShellTypeOK'
  BY DEF IInv, TypeOK, ShellTypeOK, AcceptNext, otherVars, shellVars
<1>2. InstanceOK'
  BY DEF IInv, TypeOK, InstanceOK, AcceptNext
<1>3. SessionOK'
  BY DEF IInv, TypeOK, SessionOK, AcceptNext, closeVars
<1>4. MainOK'
  BY DEF IInv, TypeOK, MainOK, AcceptNext, otherVars, configVars
<1>5. EndOK'
  BY DEF IInv, TypeOK, EndOK, AcceptNext
<1>6. OneServer'
  BY DEF IInv, TypeOK, InstanceOK, MainOK, OneServer, ThreadAt, AcceptNext, Alive, otherVars,
         shellVars, configVars
<1>7. ThreadAt'
  BY DEF IInv, TypeOK, InstanceOK, MainOK, OneServer, ThreadAt, AcceptNext, Alive, otherVars,
         shellVars, configVars
<1>8. Ways'
  BY DEF IInv, TypeOK, InstanceOK, MainOK, OneServer, ThreadAt, Ways, AcceptNext, Alive,
         otherVars, shellVars, configVars
<1>9. Registered'
  <2>1. PICK s \in Session : /\ where[s] = "accepted"
                             /\ where' = [where EXCEPT ![s] = "up"]
                             /\ mSessions' = mSessions \cup {s}
    BY DEF AcceptNext
  <2>2. UNCHANGED <<port, mServers, thread>>
    BY DEF AcceptNext
  <2> QED
    BY <2>1, <2>2 DEF IInv, TypeOK, SessionOK, Registered
<1>10. Kicking'
  BY DEF IInv, Kicking, AcceptNext, otherVars, shellVars, closeVars, instanceVars
<1> QED
  BY <1>1, <1>2, <1>3, <1>4, <1>5, <1>6, <1>7, <1>8, <1>9, <1>10
  DEF IInv, TypeOK

LEMMA AcceptAbortedInv == ASSUME NEW p \in Port, IInv, AcceptAborted(p) PROVE IInv'
<1>1. ShellTypeOK'
  BY DEF IInv, TypeOK, ShellTypeOK, AcceptAborted, otherVars, shellVars
<1>2. InstanceOK'
  BY DEF IInv, TypeOK, InstanceOK, AcceptAborted
<1>3. SessionOK'
  BY DEF IInv, TypeOK, SessionOK, AcceptAborted, sessionVars, closeVars
<1>4. MainOK'
  BY DEF IInv, TypeOK, MainOK, AcceptAborted, otherVars, configVars
<1>5. EndOK'
  BY DEF IInv, TypeOK, EndOK, AcceptAborted
<1>6. OneServer'
  BY DEF IInv, TypeOK, InstanceOK, MainOK, OneServer, ThreadAt, AcceptAborted, Runs, Alive,
         otherVars, shellVars, sessionVars, closeVars, configVars
<1>7. ThreadAt'
  BY DEF IInv, TypeOK, InstanceOK, MainOK, OneServer, ThreadAt, AcceptAborted, Runs, Alive,
         otherVars, shellVars, sessionVars, closeVars, configVars
<1>8. Ways'
  BY DEF IInv, TypeOK, InstanceOK, MainOK, OneServer, ThreadAt, Ways, AcceptAborted, Runs, Alive,
         otherVars, shellVars, sessionVars, closeVars, configVars
<1>9. Registered'
  BY DEF IInv, TypeOK, InstanceOK, SessionOK, OneServer, ThreadAt, Registered, AcceptAborted,
         Runs, Alive, otherVars, shellVars, sessionVars, closeVars, configVars
<1>10. Kicking'
  BY DEF IInv, Kicking, AcceptAborted, otherVars, shellVars, sessionVars, closeVars
<1> QED
  BY <1>1, <1>2, <1>3, <1>4, <1>5, <1>6, <1>7, <1>8, <1>9, <1>10
  DEF IInv, TypeOK

LEMMA AcceptFailsInv == ASSUME NEW p \in Port, IInv, AcceptFails(p) PROVE IInv'
<1>1. ShellTypeOK'
  BY DEF IInv, TypeOK, ShellTypeOK, AcceptFails, otherVars, shellVars
<1>2. InstanceOK'
  BY DEF IInv, TypeOK, InstanceOK, AcceptFails, instanceVars
<1>3. SessionOK'
  BY DEF IInv, TypeOK, SessionOK, AcceptFails, sessionVars, closeVars
<1>4. MainOK'
  BY DEF IInv, TypeOK, MainOK, AcceptFails, otherVars, configVars
<1>5. EndOK'
  BY DEF IInv, TypeOK, EndOK, AcceptFails
<1>6. OneServer'
  BY DEF IInv, TypeOK, InstanceOK, MainOK, OneServer, ThreadAt, AcceptFails, Runs, Alive,
         otherVars, shellVars, instanceVars, sessionVars, closeVars, configVars
<1>7. ThreadAt'
  BY DEF IInv, TypeOK, InstanceOK, MainOK, OneServer, ThreadAt, AcceptFails, Runs, Alive,
         otherVars, shellVars, instanceVars, sessionVars, closeVars, configVars
<1>8. Ways'
  BY DEF IInv, TypeOK, InstanceOK, MainOK, OneServer, ThreadAt, Ways, AcceptFails, Runs, Alive,
         otherVars, shellVars, instanceVars, sessionVars, closeVars, configVars
<1>9. Registered'
  BY DEF IInv, TypeOK, InstanceOK, SessionOK, OneServer, ThreadAt, Registered, AcceptFails, Runs,
         Alive, otherVars, shellVars, instanceVars, sessionVars, closeVars, configVars
<1>10. Kicking'
  BY DEF IInv, Kicking, AcceptFails, otherVars, shellVars, instanceVars, sessionVars, closeVars
<1> QED
  BY <1>1, <1>2, <1>3, <1>4, <1>5, <1>6, <1>7, <1>8, <1>9, <1>10
  DEF IInv, TypeOK

LEMMA IoExitInv == ASSUME NEW p \in Port, IInv, IoExit(p) PROVE IInv'
<1>1. ShellTypeOK'
  BY DEF IInv, TypeOK, ShellTypeOK, IoExit, otherVars, shellVars
<1>2. InstanceOK'
  BY DEF IInv, TypeOK, InstanceOK, IoExit
<1>3. SessionOK'
  BY DEF IInv, TypeOK, SessionOK, IoExit, sessionVars, closeVars
<1>4. MainOK'
  BY DEF IInv, TypeOK, MainOK, IoExit, otherVars, configVars
<1>5. EndOK'
  BY DEF IInv, TypeOK, EndOK, IoExit
<1>6. OneServer'
  BY DEF IInv, TypeOK, InstanceOK, MainOK, OneServer, ThreadAt, IoExit, Alive, otherVars,
         shellVars, sessionVars, closeVars, configVars
<1>7. ThreadAt'
  BY DEF IInv, TypeOK, InstanceOK, MainOK, OneServer, ThreadAt, IoExit, Alive, otherVars,
         shellVars, sessionVars, closeVars, configVars
<1>8. Ways'
  BY DEF IInv, TypeOK, InstanceOK, MainOK, OneServer, ThreadAt, Ways, IoExit, Alive, otherVars,
         shellVars, sessionVars, closeVars, configVars
<1>9. Registered'
  <2>1. /\ thread' = [thread EXCEPT ![p] = "ended"]
        /\ UNCHANGED <<where, port, mSessions, mServers>>
        /\ \A s \in Session : where[s] = "closing" => port[s] # p
    BY DEF IoExit, Busy, sessionVars
  <2> QED
    BY <2>1 DEF IInv, TypeOK, InstanceOK, SessionOK, Registered
<1>10. Kicking'
  BY DEF IInv, Kicking, IoExit, otherVars, shellVars, sessionVars, closeVars
<1> QED
  BY <1>1, <1>2, <1>3, <1>4, <1>5, <1>6, <1>7, <1>8, <1>9, <1>10
  DEF IInv, TypeOK

LEMMA TalkInv == ASSUME NEW s \in Session, IInv, Talk(s) PROVE IInv'
<1>1. ShellTypeOK'
  BY DEF IInv, TypeOK, ShellTypeOK, Talk, otherVars, shellVars
<1>2. InstanceOK'
  BY DEF IInv, TypeOK, InstanceOK, Talk, instanceVars
<1>3. SessionOK'
  BY DEF IInv, TypeOK, SessionOK, Talk, sessionVars, closeVars
<1>4. MainOK'
  BY DEF IInv, TypeOK, MainOK, Talk, otherVars, configVars
<1>5. EndOK'
  BY DEF IInv, TypeOK, EndOK, Talk, Uses
<1>6. OneServer'
  BY DEF IInv, TypeOK, InstanceOK, MainOK, OneServer, ThreadAt, Talk, Runs, Uses, Alive,
         otherVars, shellVars, instanceVars, sessionVars, closeVars, configVars
<1>7. ThreadAt'
  BY DEF IInv, TypeOK, InstanceOK, MainOK, OneServer, ThreadAt, Talk, Runs, Uses, Alive,
         otherVars, shellVars, instanceVars, sessionVars, closeVars, configVars
<1>8. Ways'
  BY DEF IInv, TypeOK, SessionOK, OneServer, ThreadAt, Ways, Registered, Talk, Runs, Uses, Alive,
         otherVars, shellVars, instanceVars, sessionVars, closeVars, configVars
<1>9. Registered'
  BY DEF IInv, TypeOK, InstanceOK, SessionOK, OneServer, ThreadAt, Registered, Talk, Runs, Uses,
         Alive, otherVars, shellVars, instanceVars, sessionVars, closeVars, configVars
<1>10. Kicking'
  BY DEF IInv, Kicking, Talk, otherVars, shellVars, instanceVars, sessionVars, closeVars
<1> QED
  BY <1>1, <1>2, <1>3, <1>4, <1>5, <1>6, <1>7, <1>8, <1>9, <1>10
  DEF IInv, TypeOK

LEMMA LoseInv == ASSUME NEW s \in Session, IInv, Lose(s) PROVE IInv'
<1>1. ShellTypeOK'
  BY DEF IInv, TypeOK, ShellTypeOK, Lose, otherVars, shellVars
<1>2. InstanceOK'
  BY DEF IInv, TypeOK, InstanceOK, Lose, instanceVars
<1>3. SessionOK'
  BY DEF IInv, TypeOK, SessionOK, Lose, closeVars
<1>4. MainOK'
  BY DEF IInv, TypeOK, MainOK, Lose, otherVars, configVars
<1>5. EndOK'
  BY DEF IInv, TypeOK, EndOK, Lose
<1>6. OneServer'
  BY DEF IInv, TypeOK, InstanceOK, MainOK, OneServer, ThreadAt, Lose, Alive, otherVars,
         shellVars, instanceVars, configVars
<1>7. ThreadAt'
  BY DEF IInv, TypeOK, InstanceOK, MainOK, OneServer, ThreadAt, Lose, Alive, otherVars,
         shellVars, instanceVars, configVars
<1>8. Ways'
  BY DEF IInv, TypeOK, InstanceOK, MainOK, OneServer, ThreadAt, Ways, Lose, Alive, otherVars,
         shellVars, instanceVars, configVars
<1>9. Registered'
  <2>1. /\ where[s] = "up" /\ where' = [where EXCEPT ![s] = "lost"]
        /\ UNCHANGED <<port, mSessions, mServers, thread>>
    BY DEF Lose, instanceVars
  <2> QED
    BY <2>1 DEF IInv, TypeOK, SessionOK, Registered
<1>10. Kicking'
  BY DEF IInv, Kicking, Lose, otherVars, shellVars, instanceVars, closeVars
<1> QED
  BY <1>1, <1>2, <1>3, <1>4, <1>5, <1>6, <1>7, <1>8, <1>9, <1>10
  DEF IInv, TypeOK

\* A session of a running thread is not met before the program has its arguments.
LEMMA Served == ASSUME NEW s \in Session, IInv, port[s] \in mServers PROVE main # "args"
BY DEF IInv, OneServer, Ways

LEMMA LeaveInv == ASSUME NEW s \in Session, IInv, Leave(s) PROVE IInv'
<1>1. /\ where[s] = "lost" /\ s \notin kicked /\ thread[port[s]] = "run" /\ UNCHANGED otherVars
      /\ UNCHANGED <<instanceVars, port, closeVars>> /\ port[s] \in mServers
  BY DEF IInv, Registered, Leave, Runs
<1>2. CASE Departs(s)
  <2>1. UNCHANGED <<shellVars, stopping, mIsRunning, configVars, starts, kicked, tls, silent>>
    BY <1>1 DEF otherVars, closeVars
  <2> QED
    BY <1>1, <1>2, <2>1, Served, DepartsStep
<1>3. CASE where' = [where EXCEPT ![s] = "closing"] /\ UNCHANGED <<mSessions, terminated>>
  <2>1. SessionOK'
    BY <1>1, <1>3 DEF IInv, TypeOK, SessionOK, closeVars
  <2>2. EndOK'
    BY <1>3 DEF IInv, TypeOK, EndOK
  <2>3. Registered'
    BY <1>1, <1>3 DEF IInv, TypeOK, SessionOK, Registered, instanceVars
  <2>4. Kicking'
    BY <1>1, <1>3 DEF IInv, TypeOK, SessionOK, Kicking, otherVars, shellVars, closeVars
  <2>5. UNCHANGED <<shellVars, instanceVars, stopping, mIsRunning, configVars, starts>>
    BY <1>1 DEF otherVars
  <2> QED
    BY <1>3, <2>1, <2>2, <2>3, <2>4, <2>5, SessionStep
<1> QED
  BY <1>2, <1>3 DEF Leave

LEMMA ShutdownReturnsInv == ASSUME NEW s \in Session, IInv, ShutdownReturns(s) PROVE IInv'
<1>1. where[s] = "closing" /\ Departs(s) /\ UNCHANGED <<otherVars, instanceVars, port, closeVars>>
  BY DEF ShutdownReturns
<1>2. port[s] \in mServers /\ s \notin kicked
  BY <1>1 DEF IInv, Registered, Kicking
<1>3. UNCHANGED <<shellVars, stopping, mIsRunning, configVars, starts, kicked, tls, silent>>
  BY <1>1 DEF otherVars, closeVars
<1> QED
  BY <1>1, <1>2, <1>3, Served, DepartsStep

LEMMA PeerInv == ASSUME NEW s \in Session, IInv, Hang(s) \/ Reset(s) PROVE IInv'
<1>1. /\ UNCHANGED <<otherVars, instanceVars, where, port, mSessions, tls, kicked, terminated>>
      /\ silent' \subseteq silent \cup {s}
  BY DEF Hang, Reset
<1>2. UNCHANGED <<shellVars, instanceVars, stopping, mIsRunning, configVars, starts>>
  BY <1>1 DEF otherVars
<1>3. SessionOK' /\ EndOK'
  BY <1>1 DEF IInv, TypeOK, SessionOK, EndOK
<1>4. Registered' /\ Kicking'
  BY <1>1, <1>2 DEF IInv, Registered, Kicking, instanceVars, shellVars
<1> QED
  BY <1>1, <1>2, <1>3, <1>4, SessionStep

LEMMA InvStep == ASSUME IInv, [Next]_vars PROVE IInv'
<1>1. CASE ParseArgs \/ OpenWindow
  BY <1>1, ParseArgsInv, OpenWindowInv
<1>2. CASE Dashboard
  BY <1>2, EditPortInv, CheckSecureInv, NoticeInv, KickInv, KickReturnsInv DEF Dashboard
<1>3. CASE StartFails \/ StartThrows \/ Start \/ Quit \/ End
  BY <1>3, StartFailsInv, StartThrowsInv, StartInv, QuitInv, EndInv
<1>4. CASE Stopping
  BY <1>4, CloseAcceptorInv, StopIoInv, JoinInv, EraseInv DEF Stopping
<1>5. CASE \E p \in Port : IoThread(p)
  BY <1>5, AcceptInv, AcceptNextInv, AcceptAbortedInv, AcceptFailsInv, IoExitInv DEF IoThread
<1>6. CASE \E s \in Session :
             Talk(s) \/ Lose(s) \/ Leave(s) \/ ShutdownReturns(s) \/ Hang(s) \/ Reset(s)
  BY <1>6, TalkInv, LoseInv, LeaveInv, ShutdownReturnsInv, PeerInv
<1>7. CASE UNCHANGED vars
  <2>1. /\ UNCHANGED <<program, main, mWindow, imgui, mServers, thread, ioStopped, acceptor>>
        /\ UNCHANGED <<loop, where, port, mSessions, stopping, mIsRunning, configPort, secure>>
        /\ UNCHANGED <<starts, terminated, secured, tls, kicked, silent>>
    BY <1>7 DEF vars, shellVars, instanceVars, sessionVars, closeVars, configVars
  <2>2. ShellTypeOK' /\ InstanceOK'
    BY <2>1 DEF IInv, TypeOK, ShellTypeOK, InstanceOK
  <2>3. SessionOK' /\ MainOK' /\ EndOK'
    BY <2>1 DEF IInv, TypeOK, SessionOK, MainOK, EndOK
  <2>4. OneServer' /\ ThreadAt' /\ Ways'
    BY <2>1 DEF IInv, OneServer, ThreadAt, Ways
  <2>5. Registered' /\ Kicking'
    BY <2>1 DEF IInv, Registered, Kicking
  <2> QED
    BY <2>2, <2>3, <2>4, <2>5 DEF IInv, TypeOK
<1> QED
  BY <1>1, <1>2, <1>3, <1>4, <1>5, <1>6, <1>7 DEF Next, Main

\* Every step keeps the invariant, which is inductive.
THEOREM ControllerInvariant == Spec => []IInv
<1>1. Init => IInv
  BY InvInit
<1>2. IInv /\ [Next]_vars => IInv'
  BY InvStep
<1> QED
  BY <1>1, <1>2, PTL DEF Spec

-----------------------------------------------------------------------------
\* What the dashboard shows, what the controller has started and which threads run
\* agree, through failed starts, stops and every way out of either program.
THEOREM StaysInStep == Spec => []InStep
<1>1. IInv => InStep
  <2> SUFFICES ASSUME IInv PROVE InStep
    OBVIOUS
  <2>1. DashboardAgrees
    BY DEF IInv, OneServer, DashboardAgrees
  <2>2. ThreadPerServer
    BY DEF IInv, TypeOK, InstanceOK, OneServer, ThreadAt, ThreadPerServer
  <2> QED
    BY <2>1, <2>2 DEF InStep
<1> QED
  BY <1>1, ControllerInvariant, PTL

\* When main() is over, whichever way it went, no server is started and no io thread
\* runs.
THEOREM NothingOutlivesMain == Spec => []EndsStopped
<1>1. IInv => EndsStopped
  BY DEF IInv, OneServer, ThreadAt, Ways, EndsStopped
<1> QED
  BY <1>1, ControllerInvariant, PTL

-----------------------------------------------------------------------------
\* StoppedIsQuiet of one step.
QuietStep ==
    \A s \in Session :
        (s \in mSessions') # (s \in mSessions) =>
            \/ port[s] \in mServers /\ ~(port[s] = configPort /\ stopping = "erase")
            \/ where[s] = "orphan" /\ main = "loop"

\* Behind the join no thread is left to register or to remove a session.
LEMMA RunningPort ==
    ASSUME IInv, NEW p \in Port \cup {NoPort}, p \in mServers \/ p \in Port, thread[p] = "run"
    PROVE  p \in mServers /\ ~(p = configPort /\ stopping = "erase")
BY DEF IInv, TypeOK, InstanceOK, OneServer, ThreadAt

LEMMA KickQuiet == ASSUME IInv, NEW s \in Session, Kick(s) PROVE QuietStep
<1>1. /\ stopping = "none" /\ main = "loop" /\ s \in mSessions
      /\ mSessions' = mSessions \ {s} \/ UNCHANGED mSessions
  BY DEF Kick, Frame, Departs
<1>2. where[s] = "orphan" \/ port[s] \in mServers
  BY <1>1 DEF IInv, Registered
<1> QED
  BY <1>1, <1>2 DEF QuietStep

LEMMA KickReturnsQuiet == ASSUME IInv, NEW s \in Session, KickReturns(s) PROVE QuietStep
<1>1. s \in kicked /\ mSessions' = mSessions \ {s}
  BY DEF KickReturns, Departs
<1>2. stopping = "none" /\ main = "loop" /\ s \in mSessions
  BY <1>1 DEF IInv, Kicking
<1>3. where[s] = "orphan" \/ port[s] \in mServers
  BY <1>2 DEF IInv, Registered
<1> QED
  BY <1>1, <1>2, <1>3 DEF QuietStep

LEMMA AcceptNextQuiet == ASSUME IInv, NEW p \in Port, AcceptNext(p) PROVE QuietStep
<1>1. PICK s \in Session : port[s] = p /\ mSessions' = mSessions \cup {s}
  BY DEF AcceptNext
<1>2. thread[p] = "run"
  BY DEF AcceptNext
<1> QED
  BY <1>1, <1>2, RunningPort DEF QuietStep

LEMMA LeaveQuiet ==
    ASSUME IInv, NEW s \in Session, Leave(s) \/ ShutdownReturns(s)
    PROVE  QuietStep
<1>1. where[s] \in {"lost", "closing"} /\ (mSessions' = mSessions \ {s} \/ UNCHANGED mSessions)
  BY DEF Leave, ShutdownReturns, Departs
<1>2. thread[port[s]] = "run"
  BY DEF IInv, Registered, Leave, ShutdownReturns, Runs
<1>3. port[s] \in Port \cup {NoPort} /\ port[s] \in mServers
  BY <1>1 DEF IInv, TypeOK, SessionOK, Registered
<1> QED
  BY <1>1, <1>2, <1>3, RunningPort DEF QuietStep

\* Once stop() is past the join, the port's handlers register and remove nobody: the
\* io_context is destroyed in peace, and later only a kick takes out an orphan.
THEOREM StopIsQuiet == Spec => StoppedIsQuiet
<1>1. IInv /\ [Next]_vars => [QuietStep]_vars
  <2> SUFFICES ASSUME IInv, Next PROVE QuietStep \/ UNCHANGED vars
    OBVIOUS
  <2>1. CASE \E s \in Session : Kick(s) \/ KickReturns(s)
    BY <2>1, KickQuiet, KickReturnsQuiet
  <2>2. CASE \E p \in Port : AcceptNext(p)
    BY <2>2, AcceptNextQuiet
  <2>3. CASE \E s \in Session : Leave(s) \/ ShutdownReturns(s)
    BY <2>3, LeaveQuiet
  <2>4. CASE UNCHANGED mSessions
    BY <2>4 DEF QuietStep
  <2>5. CASE Main /\ ~\E s \in Session : Kick(s) \/ KickReturns(s)
    <3>1. UNCHANGED mSessions
      BY <2>5 DEF Main, ParseArgs, OpenWindow, Dashboard, EditPort, CheckSecure, Notice,
                  StartFails, StartThrows, Start, Stopping, CloseAcceptor, StopIo, Join, Erase,
                  Quit, End, sessionVars, closeVars
    <3> QED
      BY <3>1, <2>4
  <2>6. CASE \E p \in Port : IoThread(p) /\ ~AcceptNext(p)
    <3>1. UNCHANGED mSessions
      BY <2>6 DEF IoThread, Accept, AcceptAborted, AcceptFails, IoExit, sessionVars, closeVars
    <3> QED
      BY <3>1, <2>4
  <2>7. CASE \E s \in Session : Talk(s) \/ Lose(s) \/ Hang(s) \/ Reset(s)
    <3>1. UNCHANGED mSessions
      BY <2>7 DEF Talk, Lose, Hang, Reset, sessionVars, closeVars
    <3> QED
      BY <3>1, <2>4
  <2> QED
    BY <2>1, <2>2, <2>3, <2>5, <2>6, <2>7 DEF Next
<1> QED
  BY <1>1, ControllerInvariant, PTL DEF Spec, StoppedIsQuiet, QuietStep

-----------------------------------------------------------------------------
\* EndsInWindow of one step.
WindowStep ==
    terminated' # terminated =>
        Orphans # {} \/ (mIsRunning /\ stopping \in {"none", "stop io"})

\* Using sessions ends the program only when one of them has outlived its port.
LEMMA UsesOrphans == ASSUME NEW T, Uses(T), terminated' # terminated PROVE Orphans # {}
BY DEF Uses

\* A thread that takes a handler is the one of the configured port, before io->stop().
LEMMA AcceptFailsInWindow == ASSUME IInv, NEW p \in Port, AcceptFails(p) PROVE WindowStep
<1>1. thread[p] = "run" /\ p \notin ioStopped
  BY DEF AcceptFails, Runs
<1>2. p \in mServers
  BY <1>1, RunningPort
<1>3. p = configPort /\ mIsRunning
  BY <1>2 DEF IInv, OneServer
<1> QED
  BY <1>1, <1>3 DEF IInv, ThreadAt, WindowStep

\* As long as no session outlived its port, a program ends of itself only while its
\* server runs, or in the moment of stop() between closing the acceptor and stopping
\* the io_context; through the join, the erase and the way out of main() it does not.
THEOREM EndsOnlyInWindow == Spec => EndsInWindow
<1>1. IInv /\ [Next]_vars => [WindowStep]_vars
  <2> SUFFICES ASSUME IInv, Next PROVE WindowStep \/ UNCHANGED vars
    OBVIOUS
  <2>1. CASE \E p \in Port : AcceptFails(p)
    BY <2>1, AcceptFailsInWindow
  <2>2. CASE UNCHANGED terminated
    BY <2>2 DEF WindowStep
  <2>3. CASE \E T \in SUBSET Session : Uses(T)
    BY <2>3, UsesOrphans DEF WindowStep
  <2>4. mSessions \in SUBSET Session
    BY DEF IInv, TypeOK, SessionOK
  <2>5. CASE Main
    <3>1. CASE Notice \/ End
      BY <2>3, <2>4, <3>1 DEF Notice, End
    <3>2. CASE \E s \in Session : Kick(s) \/ KickReturns(s)
      <4>1. PICK s \in Session : Kick(s) \/ KickReturns(s)
        BY <3>2
      <4>2. Uses(mSessions) \/ Uses({s})
        BY <4>1 DEF Kick, KickReturns, Departs
      <4> QED
        BY <2>3, <2>4, <4>2
    <3>3. CASE ~(Notice \/ End) /\ ~\E s \in Session : Kick(s) \/ KickReturns(s)
      <4>1. UNCHANGED terminated
        BY <2>5, <3>3 DEF Main, ParseArgs, OpenWindow, Dashboard, EditPort, CheckSecure,
                          StartFails, StartThrows, Start, Stopping, CloseAcceptor, StopIo, Join,
                          Erase, Quit
      <4> QED
        BY <2>2, <4>1
    <3> QED
      BY <3>1, <3>2, <3>3
  <2>6. CASE \E p \in Port : IoThread(p) /\ ~AcceptFails(p)
    <3>1. UNCHANGED terminated
      BY <2>6 DEF IoThread, Accept, AcceptNext, AcceptAborted, IoExit
    <3> QED
      BY <2>2, <3>1
  <2>7. CASE \E s \in Session :
               Talk(s) \/ Lose(s) \/ Leave(s) \/ ShutdownReturns(s) \/ Hang(s) \/ Reset(s)
    <3>1. UNCHANGED terminated \/ Uses(mSessions)
      BY <2>7 DEF Talk, Lose, Leave, ShutdownReturns, Hang, Reset, Departs
    <3> QED
      BY <2>2, <2>3, <2>4, <3>1
  <2> QED
    BY <2>1, <2>5, <2>6, <2>7 DEF Next
<1> QED
  BY <1>1, ControllerInvariant, PTL DEF Spec, EndsInWindow, WindowStep

=============================================================================
