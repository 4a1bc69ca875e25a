---------------------------- MODULE ClientProofs ----------------------------
(***************************************************************************)
(* Proofs about Client for every number of connects, requests and pushes:  *)
(* where the io thread is whenever the user may call the client, and that  *)
(* the answer to a request finds the callback filed for it.                *)
(***************************************************************************)
EXTENDS Client, TLAPS

-----------------------------------------------------------------------------
(* The io thread.                                                          *)

\* Where the io thread is while the user is in close(), and that only a client
\* that closed itself is left with a thread it does not call running.
Thread ==
    /\ mThread = "none" => ~stopped
    /\ mIsRunning => user \notin {"close", "stop", "join", "gone"}
    /\ user \in {"close", "stop"} /\ Threaded => mThread = "run" /\ ~stopped
    /\ user = "join" /\ Threaded => mThread # "none"
    /\ user \notin {"close", "stop", "join"} /\ ~mIsRunning /\ ~selfClosed => mThread = "none"
    /\ ~Threaded => mThread = "none"

ThreadInv == ThreadOK /\ UserOK /\ Thread /\ RunningHasThread /\ TerminateCause

LEMMA ThreadInit == Init => ThreadOK /\ Thread /\ RunningHasThread /\ TerminateCause
BY ClientAssumption
DEF ClientAssumption, Init, ThreadOK, Thread, RunningHasThread, TerminateCause, Threaded

\* A handler that closes the client leaves a thread that has ended.
LEMMA HandlerCloses ==
    ASSUME ThreadInv, CanRun, mIsRunning, NEW rest, CloseFromHandler(rest),
           UNCHANGED <<mRunMode, user>>
    PROVE  ThreadOK' /\ Thread' /\ RunningHasThread' /\ TerminateCause'
<1>1. /\ mIsRunning' = FALSE /\ stopped' = Threaded /\ selfClosed' = TRUE
      /\ mThread' = IF Threaded THEN "ended" ELSE mThread
  BY DEF CloseFromHandler
<1> QED
  BY <1>1 DEF ThreadInv, ThreadOK, Thread, RunningHasThread, TerminateCause, Threaded, CanRun

LEMMA HandlerThread ==
    ASSUME ThreadInv, Handler
    PROVE  ThreadOK' /\ Thread' /\ RunningHasThread' /\ TerminateCause'
<1>1. ASSUME UNCHANGED <<mRunMode, mIsRunning, mThread, stopped, user, selfClosed>>
      PROVE  ThreadOK' /\ Thread' /\ RunningHasThread' /\ TerminateCause'
  BY <1>1 DEF ThreadInv, ThreadOK, Thread, RunningHasThread, TerminateCause, Threaded
<1>2. ASSUME NEW rest, CanRun, HandleIoError(rest), UNCHANGED <<mRunMode, user>>
      PROVE  ThreadOK' /\ Thread' /\ RunningHasThread' /\ TerminateCause'
  <2>1. CASE mIsRunning /\ CloseFromHandler(rest)
    BY <1>2, <2>1, HandlerCloses
  <2>2. CASE UNCHANGED <<mIsRunning, mThread, stopped, selfClosed>>
    BY <1>1, <1>2, <2>2
  <2> QED
    BY <1>2, <2>1, <2>2 DEF HandleIoError
<1>3. ASSUME NEW e \in dials, ConnectOk(e) \/ ConnectFailed(e)
      PROVE  ThreadOK' /\ Thread' /\ RunningHasThread' /\ TerminateCause'
  <2>1. CASE ConnectOk(e)
    BY <1>1, <2>1 DEF ConnectOk
  <2>2. CASE ConnectFailed(e)
    <3>1. /\ mIsRunning' = FALSE /\ selfClosed' = TRUE
          /\ UNCHANGED <<mRunMode, mThread, stopped, user>>
      BY <2>2 DEF ConnectFailed
    <3> QED
      BY <3>1 DEF ThreadInv, ThreadOK, Thread, RunningHasThread, TerminateCause, Threaded
  <2> QED
    BY <1>3, <2>1, <2>2
<1>4. CASE RunPosted
  <2>1. CASE HandleIoError(Tail(posted))
    BY <1>2, <1>4, <2>1 DEF RunPosted
  <2>2. CASE UNCHANGED <<mIsRunning, mThread, stopped, selfClosed>>
    BY <1>1, <1>4, <2>2 DEF RunPosted
  <2> QED
    BY <1>4, <2>1, <2>2 DEF RunPosted
<1>5. ASSUME NEW e \in reads, ReadMessage(e) \/ ReadTorn(e) \/ ReadFailed(e)
      PROVE  ThreadOK' /\ Thread' /\ RunningHasThread' /\ TerminateCause'
  <2>1. CASE ReadMessage(e)
    BY <1>1, <2>1 DEF ReadMessage
  <2>2. CASE ReadTorn(e)
    <3>1. CASE mIsRunning /\ CloseFromHandler(posted)
      BY <2>2, <3>1, HandlerCloses DEF ReadTorn
    <3>2. CASE UNCHANGED <<mIsRunning, mThread, stopped, selfClosed>>
      BY <1>1, <2>2, <3>2 DEF ReadTorn
    <3> QED
      BY <2>2, <3>1, <3>2 DEF ReadTorn
  <2>3. CASE ReadFailed(e)
    BY <1>2, <2>3 DEF ReadFailed
  <2> QED
    BY <1>5, <2>1, <2>2, <2>3
<1> QED
  BY <1>3, <1>4, <1>5 DEF Handler, ConnectResult, ReadResult

LEMMA ThreadStep ==
    ASSUME ThreadInv, [Next]_vars
    PROVE  ThreadOK' /\ Thread' /\ RunningHasThread' /\ TerminateCause'
<1> USE DEF ThreadInv, ThreadOK, UserOK, Thread, RunningHasThread, TerminateCause, Threaded
<1>1. CASE Handler
  BY <1>1, HandlerThread
<1>2. CASE Connect
  BY <1>2 DEF Connect
<1>3. CASE CloseMark
  BY <1>3 DEF CloseMark
<1>4. CASE CloseTransport
  BY <1>4 DEF CloseTransport
<1>5. CASE Stop
  BY <1>5 DEF Stop
<1>6. CASE Join
  BY <1>6 DEF Join
<1>7. CASE IoExit
  BY <1>7 DEF IoExit
<1>8. CASE Destroy
  BY <1>8 DEF Destroy
<1>9. CASE RequestAsync \/ Request \/ Ask \/ File \/ Post \/ Return
  <2>1. /\ UNCHANGED <<mRunMode, mIsRunning, mThread, stopped, selfClosed>>
        /\ user \notin {"close", "stop", "join", "gone", "terminated"}
        /\ user' \notin {"close", "stop", "join", "gone", "terminated"}
    BY <1>9 DEF RequestAsync, Request, Ask, File, Post, Return
  <2> QED
    BY <2>1
<1>10. CASE Environment \/ UNCHANGED vars
  <2>1. UNCHANGED <<mRunMode, mIsRunning, mThread, stopped, user, selfClosed>>
    BY <1>10 DEF Environment, Answer, Push, Lose, vars
  <2> QED
    BY <2>1
<1> QED
  BY <1>1, <1>2, <1>3, <1>4, <1>5, <1>6, <1>7, <1>8, <1>9, <1>10 DEF Next, Closing, User

-----------------------------------------------------------------------------
(* Types.                                                                  *)

LEMMA TypeInit == Init => NetOK /\ MessagesOK /\ UserOK
BY ClientAssumption DEF ClientAssumption, Init, NetOK, MessagesOK, UserOK, Torn, Ids

LEMMA NetStep == ASSUME NetOK, [Next]_vars PROVE NetOK'
<1> USE ClientAssumption DEF ClientAssumption, NetOK
<1>1. CASE Connect
  BY <1>1 DEF Connect
<1>2. ASSUME NEW e \in dials, ConnectOk(e) PROVE NetOK'
  BY <1>2 DEF ConnectOk
<1>3. ASSUME NEW e \in dials, ConnectFailed(e) PROVE NetOK'
  BY <1>3 DEF ConnectFailed
<1>4. CASE RunPosted
  BY <1>4 DEF RunPosted, HandleIoError, CloseFromHandler
<1>5. CASE ReadResult
  <2>1. /\ conn' \in {conn, "closed"} /\ reads' \subseteq reads
        /\ UNCHANGED <<epoch, dials>>
    BY <1>5 DEF ReadResult, ReadMessage, ReadTorn, ReadFailed, HandleIoError, CloseFromHandler
  <2> QED
    BY <2>1
<1>6. CASE CloseTransport \/ Lose
  BY <1>6 DEF CloseTransport, Lose
<1>7. CASE CloseMark \/ Stop \/ Join \/ IoExit \/ Destroy \/ Answer \/ Push
  BY <1>7 DEF CloseMark, Stop, Join, IoExit, Destroy, Answer, Push, netVars
<1>8. CASE RequestAsync \/ Request \/ Ask \/ File \/ Post \/ Return \/ UNCHANGED vars
  BY <1>8 DEF RequestAsync, Request, Ask, File, Post, Return, vars, netVars
<1> QED
  BY <1>1, <1>2, <1>3, <1>4, <1>5, <1>6, <1>7, <1>8
  DEF Next, Handler, ConnectResult, Closing, User, Environment

\* What the connections, the thread and close() leave of the functions posted: the
\* oldest may go, one that is no write may come.
PostedBy(h) ==
    \/ posted' = posted
    \/ h /\ posted # <<>> /\ posted' = Tail(posted)
    \/ \E kind \in {"writeError", "disconnect"} :
          \/ posted' = Append(posted, Fn(kind, 0))
          \/ h /\ posted # <<>> /\ posted' = Append(Tail(posted), Fn(kind, 0))

LEMMA PostedType ==
    ASSUME posted \in Seq(Function),
           \/ PostedBy(TRUE)
           \/ \E id \in Ids : posted' = Append(posted, Fn("write", id))
    PROVE  posted' \in Seq(Function)
<1>1. \A kind \in {"writeError", "disconnect"} : Fn(kind, 0) \in Function
  BY DEF Fn, Function
<1>2. \A id \in Ids : Fn("write", id) \in Function
  BY DEF Fn, Function
<1>3. \A f \in Function : Append(posted, f) \in Seq(Function)
  OBVIOUS
<1>4. posted # <<>> => Tail(posted) \in Seq(Function)
  OBVIOUS
<1>5. \A f \in Function : posted # <<>> => Append(Tail(posted), f) \in Seq(Function)
  BY <1>4
<1> QED
  BY <1>1, <1>2, <1>3, <1>4, <1>5 DEF PostedBy

-----------------------------------------------------------------------------
(* Requests.                                                               *)

\* The elements of a sequence, and that each request occurs once in it.
Elements(s) == {s[i] : i \in DOMAIN s}
Once(s) == \A i, j \in DOMAIN s : s[i] \in Ids /\ s[i] = s[j] => i = j
Apart(s, t) == Elements(s) \cap Elements(t) \cap Ids = {}

\* The ids of the functions posted.
PostedIds == 0 .. MaxRequests
IdsOf(fs) == [i \in DOMAIN fs |-> fs[i].id]

\* A request is in one place only: not filed yet, posted, at the server or coming
\* back; until then its callback stays.
OnePlace ==
    /\ Once(IdsOf(posted)) /\ Once(inbox) /\ Once(toClient)
    /\ Apart(IdsOf(posted), inbox) /\ Apart(IdsOf(posted), toClient) /\ Apart(inbox, toClient)
Filed ==
    /\ AnswerFindsCallback
    /\ callbacks \subseteq 1 .. mNextRequestId - 1
    /\ user \in {"ask", "file", "fileAndWait"} => mNextRequestId <= MaxRequests
    /\ user \in {"post", "postAndWait"} => waiting \in callbacks \ OnItsWay

LEMMA ElementsOfAppend ==
    ASSUME NEW S, NEW s \in Seq(S), NEW x \in S
    PROVE  /\ Elements(Append(s, x)) = Elements(s) \cup {x}
           /\ Once(s) /\ x \notin Elements(s) \cap Ids => Once(Append(s, x))
<1>1. /\ DOMAIN Append(s, x) = 1 .. Len(s) + 1 /\ DOMAIN s = 1 .. Len(s) /\ Len(s) \in Nat
      /\ \A i \in 1 .. Len(s) : Append(s, x)[i] = s[i]
      /\ Append(s, x)[Len(s) + 1] = x
  OBVIOUS
<1> QED
  BY <1>1 DEF Elements, Once

LEMMA ElementsOfTail ==
    ASSUME NEW S, NEW s \in Seq(S), s # <<>>
    PROVE  /\ Elements(s) = {Head(s)} \cup Elements(Tail(s))
           /\ Once(s) => Once(Tail(s)) /\ Head(s) \notin Elements(Tail(s)) \cap Ids
<1>1. /\ DOMAIN Tail(s) = 1 .. Len(s) - 1 /\ DOMAIN s = 1 .. Len(s)
      /\ Len(s) \in Nat \ {0} /\ Head(s) = s[1]
      /\ \A i \in 1 .. Len(s) - 1 : Tail(s)[i] = s[i + 1]
  OBVIOUS
<1>2. Elements(s) = {Head(s)} \cup Elements(Tail(s))
  <2>1. \A i \in 1 .. Len(s) : i = 1 \/ (i - 1 \in 1 .. Len(s) - 1 /\ s[i] = Tail(s)[i - 1])
    BY <1>1
  <2>2. \A i \in 1 .. Len(s) - 1 : i + 1 \in 1 .. Len(s)
    BY <1>1
  <2>3. Elements(s) = {s[i] : i \in 1 .. Len(s)}
    BY <1>1 DEF Elements
  <2>4. Elements(Tail(s)) = {Tail(s)[i] : i \in 1 .. Len(s) - 1}
    BY <1>1 DEF Elements
  <2>5. ASSUME NEW x \in Elements(s) PROVE x = Head(s) \/ x \in Elements(Tail(s))
    <3>1. PICK i \in 1 .. Len(s) : x = s[i]
      BY <2>3, <2>5
    <3>2. i = 1 \/ (i - 1 \in 1 .. Len(s) - 1 /\ s[i] = Tail(s)[i - 1])
      BY <2>1
    <3>3. CASE i = 1
      BY <1>1, <3>1, <3>3
    <3>4. CASE i # 1
      BY <2>4, <3>1, <3>2, <3>4
    <3> QED
      BY <3>3, <3>4
  <2>6. ASSUME NEW x \in Elements(Tail(s)) PROVE x \in Elements(s)
    BY <1>1, <2>2, <2>3, <2>4
  <2>7. Head(s) \in Elements(s)
    BY <1>1, <2>3
  <2> QED
    BY <2>5, <2>6, <2>7
<1>3. ASSUME Once(s) PROVE Once(Tail(s)) /\ Head(s) \notin Elements(Tail(s)) \cap Ids
  BY <1>1, <1>3 DEF Elements, Once
<1> QED
  BY <1>2, <1>3

LEMMA ElementsType == ASSUME NEW S, NEW s \in Seq(S) PROVE Elements(s) \subseteq S
BY DEF Elements

LEMMA ElementsOfNone == Elements(<<>>) = {} /\ Once(<<>>)
BY DEF Elements, Once

LEMMA Shorter ==
    ASSUME NEW S, NEW s \in Seq(S), Once(s), NEW t,
           t \in {s, <<>>} \/ (s # <<>> /\ t = Tail(s))
    PROVE  t \in Seq(S) /\ Once(t) /\ Elements(t) \subseteq Elements(s)
<1>1. CASE t = s
  BY <1>1
<1>2. CASE t = <<>>
  BY <1>2, ElementsOfNone
<1>3. CASE s # <<>> /\ t = Tail(s)
  <2>1. t \in Seq(S)
    BY <1>3
  <2> QED
    BY <1>3, <2>1, ElementsOfTail
<1> QED
  BY <1>1, <1>2, <1>3

LEMMA IdsOfType ==
    ASSUME NEW fs \in Seq(Function)
    PROVE  /\ IdsOf(fs) = [i \in 1 .. Len(fs) |-> fs[i].id] /\ Len(fs) \in Nat
           /\ IdsOf(fs) \in Seq(PostedIds) /\ Len(IdsOf(fs)) = Len(fs)
<1>1. \A f \in Function : f.id \in PostedIds
  BY ClientAssumption DEF ClientAssumption, Function, Ids, PostedIds
<1>2. DOMAIN fs = 1 .. Len(fs) /\ Len(fs) \in Nat
  OBVIOUS
<1>3. \A i \in 1 .. Len(fs) : fs[i].id \in PostedIds
  BY <1>1
<1>4. IdsOf(fs) = [i \in 1 .. Len(fs) |-> fs[i].id]
  BY <1>2 DEF IdsOf
<1> QED
  BY <1>2, <1>3, <1>4

LEMMA IdsOfAppend ==
    ASSUME NEW fs \in Seq(Function), NEW f \in Function
    PROVE  /\ IdsOf(fs) \in Seq(PostedIds) /\ f.id \in PostedIds
           /\ IdsOf(Append(fs, f)) = Append(IdsOf(fs), f.id)
<1>1. f.id \in PostedIds
  BY ClientAssumption DEF ClientAssumption, Function, Ids, PostedIds
<1>2. IdsOf(fs) \in Seq(PostedIds) /\ Len(IdsOf(fs)) = Len(fs)
  BY IdsOfType
<1> QED
  BY <1>1, <1>2 DEF IdsOf

LEMMA IdsOfTail ==
    ASSUME NEW fs \in Seq(Function), fs # <<>>
    PROVE  /\ IdsOf(fs) \in Seq(PostedIds) /\ IdsOf(fs) # <<>>
           /\ Head(IdsOf(fs)) = Head(fs).id
           /\ IdsOf(Tail(fs)) = Tail(IdsOf(fs))
<1>1. \A f \in Function : f.id \in PostedIds
  BY ClientAssumption DEF ClientAssumption, Function, Ids, PostedIds
<1>2. IdsOf(fs) \in Seq(PostedIds) /\ Len(IdsOf(fs)) = Len(fs)
  BY IdsOfType
<1> QED
  BY <1>1, <1>2 DEF IdsOf

LEMMA WayElements ==
    /\ OnItsWay = Elements(IdsOf(posted)) \cup Elements(inbox) \cup Elements(toClient)
    /\ OnItsWay' = Elements(IdsOf(posted')) \cup Elements(inbox') \cup Elements(toClient')
<1>1. \A fs : Elements(IdsOf(fs)) = {fs[i].id : i \in DOMAIN fs}
  BY DEF Elements, IdsOf
<1> QED
  BY <1>1 DEF OnItsWay, Elements

\* Nothing on its way but requests, 0 and Torn.
LEMMA WayIds ==
    /\ MessagesOK => OnItsWay \subseteq Ids \cup {0, Torn}
    /\ MessagesOK' => OnItsWay' \subseteq Ids \cup {0, Torn}
<1>1. \A s : s \in Seq(Ids) => Elements(s) \subseteq Ids
  BY DEF Elements
<1>2. \A s : s \in Seq(0 .. Torn) => Elements(s) \subseteq Ids \cup {0, Torn}
  <2>1. 0 .. Torn \subseteq Ids \cup {0, Torn}
    BY ClientAssumption DEF ClientAssumption, Ids, Torn
  <2> QED
    BY <2>1, ElementsType
<1>3. \A s : s \in Seq(Function) => Elements(IdsOf(s)) \subseteq Ids \cup {0}
  <2>1. \A f \in Function : f.id \in Ids \cup {0}
    BY DEF Function
  <2> QED
    BY <2>1 DEF Elements, IdsOf
<1> QED
  BY <1>1, <1>2, <1>3, WayElements DEF MessagesOK

\* What the requests need of a step that takes none from one place to another: no
\* sequence gains a request, and none is filed or called back.
LEMMA Fewer ==
    ASSUME MessagesOK', OnePlace, Filed,
           Once(IdsOf(posted')), Once(inbox'), Once(toClient'),
           Elements(IdsOf(posted')) \cap Ids \subseteq Elements(IdsOf(posted)),
           Elements(inbox') \cap Ids \subseteq Elements(inbox),
           Elements(toClient') \cap Ids \subseteq Elements(toClient),
           UNCHANGED <<callbacks, mNextRequestId>>,
           user' \in {"ask", "file", "fileAndWait"} => mNextRequestId <= MaxRequests,
           user' \in {"post", "postAndWait"} => user' = user /\ waiting' = waiting
    PROVE  OnePlace' /\ Filed'
<1>1. OnePlace'
  BY DEF OnePlace, Apart
<1>2. OnItsWay' \cap Ids \subseteq OnItsWay
  BY WayElements
<1>3. AnswerFindsCallback'
  <2>1. OnItsWay' \subseteq Ids \cup {0, Torn}
    BY WayIds
  <2> QED
    BY <1>2, <2>1, ClientAssumption
    DEF Filed, AnswerFindsCallback, Ids, Torn, ClientAssumption
<1>4. callbacks \subseteq Ids
  BY DEF MessagesOK
<1>5. user' \in {"post", "postAndWait"} => waiting' \in callbacks' \ OnItsWay'
  BY <1>2, <1>4 DEF Filed
<1> QED
  BY <1>1, <1>3, <1>5 DEF Filed

LEMMA PostedFewer ==
    ASSUME MessagesOK, OnePlace, PostedBy(TRUE)
    PROVE  /\ Once(IdsOf(posted'))
           /\ Elements(IdsOf(posted')) \cap Ids \subseteq Elements(IdsOf(posted))
<1>1. posted \in Seq(Function) /\ Once(IdsOf(posted))
  BY DEF MessagesOK, OnePlace
<1>2. ASSUME NEW fs \in Seq(Function), Once(IdsOf(fs)), NEW kind \in {"writeError", "disconnect"}
      PROVE  /\ Once(IdsOf(Append(fs, Fn(kind, 0))))
             /\ Elements(IdsOf(Append(fs, Fn(kind, 0)))) = Elements(IdsOf(fs)) \cup {0}
  <2>1. Fn(kind, 0) \in Function /\ Fn(kind, 0).id = 0
    BY DEF Fn, Function
  <2>2. /\ IdsOf(fs) \in Seq(PostedIds)
        /\ IdsOf(Append(fs, Fn(kind, 0))) = Append(IdsOf(fs), 0)
    BY <1>2, <2>1, IdsOfAppend
  <2>3. 0 \notin Ids /\ 0 \in PostedIds
    BY ClientAssumption DEF Ids, PostedIds, ClientAssumption
  <2>4. 0 \notin Elements(IdsOf(fs)) \cap Ids /\ Once(IdsOf(fs))
    BY <1>2, <2>3
  <2>5. /\ Elements(Append(IdsOf(fs), 0)) = Elements(IdsOf(fs)) \cup {0}
        /\ Once(Append(IdsOf(fs), 0))
    BY <2>2, <2>3, <2>4, ElementsOfAppend
  <2> QED
    BY <2>2, <2>5
<1>3. ASSUME posted # <<>>
      PROVE  /\ Tail(posted) \in Seq(Function) /\ Once(IdsOf(Tail(posted)))
             /\ Elements(IdsOf(Tail(posted))) \subseteq Elements(IdsOf(posted))
  <2>1. /\ IdsOf(posted) \in Seq(PostedIds) /\ IdsOf(posted) # <<>>
        /\ IdsOf(Tail(posted)) = Tail(IdsOf(posted))
    BY <1>1, <1>3, IdsOfTail
  <2>2. /\ Elements(Tail(IdsOf(posted))) \subseteq Elements(IdsOf(posted))
        /\ Once(Tail(IdsOf(posted)))
    BY <1>1, <2>1, ElementsOfTail
  <2>3. Tail(posted) \in Seq(Function)
    BY <1>1, <1>3
  <2> QED
    BY <2>1, <2>2, <2>3
<1>4. 0 \notin Ids
  BY DEF Ids
<1> QED
  BY <1>1, <1>2, <1>3, <1>4 DEF PostedBy

RequestInv == MessagesOK /\ OnePlace /\ Filed

LEMMA RequestInit == Init => OnePlace /\ Filed
<1> SUFFICES ASSUME Init PROVE OnePlace /\ Filed
  OBVIOUS
<1>1. posted = <<>> /\ inbox = <<>> /\ toClient = <<>> /\ callbacks = {} /\ user = "idle"
  BY DEF Init
<1>2. Elements(IdsOf(<<>>)) = {} /\ Once(IdsOf(<<>>))
  BY DEF Elements, IdsOf, Once
<1>3. OnePlace
  BY <1>1, <1>2, ElementsOfNone DEF OnePlace, Apart
<1>4. OnItsWay = {}
  BY <1>1, <1>2, ElementsOfNone, WayElements
<1> QED
  BY <1>1, <1>3, <1>4 DEF Filed, AnswerFindsCallback

\* A step that posts, runs or drops no request and touches no message but to drop it.
LEMMA QuietStep ==
    ASSUME RequestInv, PostedBy(TRUE), UNCHANGED <<callbacks, mNextRequestId, pushes>>,
           answered' \subseteq Ids,
           inbox' \in {inbox, <<>>},
           \/ toClient' \in {toClient, <<>>}
           \/ toClient # <<>> /\ toClient' = Tail(toClient),
           user' \in {"ask", "file", "fileAndWait"} => mNextRequestId <= MaxRequests,
           user' \in {"post", "postAndWait"} => user' = user /\ waiting' = waiting
    PROVE  RequestInv'
<1>1. /\ MessagesOK /\ Once(inbox) /\ Once(toClient)
      /\ inbox \in Seq(Ids) /\ toClient \in Seq(0 .. Torn)
  BY DEF RequestInv, MessagesOK, OnePlace
<1>2. posted' \in Seq(Function)
  BY PostedType DEF RequestInv, MessagesOK
<1>3. inbox' \in Seq(Ids) /\ Once(inbox') /\ Elements(inbox') \subseteq Elements(inbox)
  BY <1>1, Shorter
<1>4. /\ toClient' \in Seq(0 .. Torn) /\ Once(toClient')
      /\ Elements(toClient') \subseteq Elements(toClient)
  BY <1>1, Shorter
<1>5. MessagesOK'
  BY <1>1, <1>2, <1>3, <1>4 DEF MessagesOK
<1>6. OnePlace' /\ Filed'
  BY <1>3, <1>4, <1>5, PostedFewer, Fewer DEF RequestInv
<1> QED
  BY <1>5, <1>6 DEF RequestInv

\* What the user does to its requests without filing or posting one.
LEMMA UserQuiet ==
    ASSUME RequestInv,
           \/ Connect \/ CloseMark \/ CloseTransport \/ Stop \/ Join \/ Destroy
           \/ RequestAsync \/ Request \/ Ask \/ Return
    PROVE  RequestInv'
<1>1. UNCHANGED <<callbacks, answered, mNextRequestId, pushes>> /\ PostedBy(TRUE)
  BY DEF Connect, CloseMark, CloseTransport, Stop, Join, Destroy, RequestAsync, Request, Ask,
         Return, requestVars, serverVars, PostedBy
<1>2. inbox' \in {inbox, <<>>} /\ toClient' \in {toClient, <<>>}
  BY DEF Connect, CloseMark, CloseTransport, Stop, Join, Destroy, RequestAsync, Request, Ask,
         Return, serverVars
<1>3. user' \in {"ask", "file", "fileAndWait"} => mNextRequestId <= MaxRequests
  BY DEF RequestInv, Filed, Connect, CloseMark, CloseTransport, Stop, Join, Destroy,
         RequestAsync, Request, Ask, Return
<1>4. user' \in {"post", "postAndWait"} => user' = user /\ waiting' = waiting
  BY DEF Connect, CloseMark, CloseTransport, Stop, Join, Destroy, RequestAsync, Request, Ask,
         Return
<1>5. answered' \subseteq Ids
  BY <1>1 DEF RequestInv, MessagesOK
<1> QED
  BY <1>1, <1>2, <1>3, <1>4, <1>5, QuietStep

\* What the connection, the io thread and the network do without a message.
LEMMA HandlerQuiet ==
    ASSUME RequestInv,
           \/ ConnectResult \/ IoExit \/ Lose \/ UNCHANGED vars
           \/ RunPosted /\ UNCHANGED inbox
           \/ \E e \in reads : ReadTorn(e) \/ ReadFailed(e)
    PROVE  RequestInv'
<1>1. /\ UNCHANGED <<callbacks, answered, mNextRequestId, pushes, inbox, user, waiting>>
      /\ toClient' = toClient \/ (toClient # <<>> /\ toClient' = Tail(toClient))
  BY DEF ConnectResult, ConnectOk, ConnectFailed, IoExit, Lose, vars, RunPosted, ReadTorn,
         ReadFailed, requestVars, serverVars
<1>2. PostedBy(TRUE)
  <2>1. CASE RunPosted
    BY <2>1 DEF RunPosted, HandleIoError, CloseFromHandler, PostedBy
  <2>2. ASSUME NEW e \in reads, ReadTorn(e) \/ ReadFailed(e) PROVE PostedBy(TRUE)
    BY <2>2 DEF ReadTorn, ReadFailed, HandleIoError, CloseFromHandler, PostedBy
  <2>3. CASE ConnectResult \/ IoExit \/ Lose \/ UNCHANGED vars
    BY <2>3 DEF ConnectResult, ConnectOk, ConnectFailed, IoExit, Lose, vars, PostedBy
  <2> QED
    BY <2>1, <2>2, <2>3
<1>3. /\ answered' \subseteq Ids
      /\ user' \in {"ask", "file", "fileAndWait"} => mNextRequestId <= MaxRequests
  BY <1>1 DEF RequestInv, MessagesOK, Filed
<1> QED
  BY <1>1, <1>2, <1>3, QuietStep

\* The head of one sequence goes to the end of another.
LEMMA Moves ==
    ASSUME NEW S, NEW s \in Seq(S), NEW T, NEW t \in Seq(T), s # <<>>, Head(s) \in T,
           Once(s), Once(t), Apart(s, t)
    PROVE  /\ Once(Tail(s)) /\ Once(Append(t, Head(s))) /\ Apart(Tail(s), Append(t, Head(s)))
           /\ Elements(Tail(s)) \cup Elements(Append(t, Head(s))) = Elements(s) \cup Elements(t)
           /\ \A u : Apart(s, u) /\ Apart(t, u) =>
                        Apart(Tail(s), u) /\ Apart(Append(t, Head(s)), u)
<1>1. /\ Elements(s) = {Head(s)} \cup Elements(Tail(s))
      /\ Once(Tail(s)) /\ Head(s) \notin Elements(Tail(s)) \cap Ids
  BY ElementsOfTail
<1>2. Head(s) \notin Elements(t) \cap Ids
  BY <1>1 DEF Apart
<1>3. /\ Elements(Append(t, Head(s))) = Elements(t) \cup {Head(s)}
      /\ Once(Append(t, Head(s)))
  BY <1>2, ElementsOfAppend
<1> QED
  BY <1>1, <1>2, <1>3 DEF Apart

\* The invariant after a step that takes a request from one place to the next.
LEMMA Moved ==
    ASSUME RequestInv, MessagesOK', OnePlace', OnItsWay' = OnItsWay,
           UNCHANGED <<callbacks, mNextRequestId, user, waiting>>
    PROVE  RequestInv'
BY DEF RequestInv, Filed, AnswerFindsCallback

\* A write that reaches the server.
LEMMA WriteStep == ASSUME RequestInv, RunPosted, inbox' # inbox PROVE RequestInv'
<1>1. /\ posted # <<>> /\ Head(posted).kind = "write"
      /\ posted' = Tail(posted) /\ inbox' = Append(inbox, Head(posted).id)
      /\ UNCHANGED <<requestVars, toClient, pushes, user, waiting>>
  BY DEF RunPosted
<1>2. /\ posted \in Seq(Function) /\ inbox \in Seq(Ids)
      /\ Once(IdsOf(posted)) /\ Once(inbox) /\ Apart(IdsOf(posted), inbox)
      /\ Apart(IdsOf(posted), toClient) /\ Apart(inbox, toClient)
  BY DEF RequestInv, MessagesOK, OnePlace
<1>3. Head(posted).id \in Ids
  <2>1. Head(posted) \in Function
    BY <1>1, <1>2
  <2> QED
    BY <1>1, <2>1 DEF Function
<1>4. /\ IdsOf(posted) \in Seq(PostedIds) /\ IdsOf(posted) # <<>>
      /\ Head(IdsOf(posted)) = Head(posted).id /\ IdsOf(posted') = Tail(IdsOf(posted))
  BY <1>1, <1>2, IdsOfTail
<1>5. posted' \in Seq(Function) /\ inbox' \in Seq(Ids)
  BY <1>1, <1>2, <1>3
<1>6. /\ Once(IdsOf(posted')) /\ Once(inbox') /\ Apart(IdsOf(posted'), inbox')
      /\ Elements(IdsOf(posted')) \cup Elements(inbox')
            = Elements(IdsOf(posted)) \cup Elements(inbox)
      /\ Apart(IdsOf(posted'), toClient) /\ Apart(inbox', toClient)
  BY <1>1, <1>2, <1>3, <1>4, Moves
<1>7. MessagesOK'
  BY <1>1, <1>5 DEF RequestInv, MessagesOK, requestVars
<1>8. OnePlace'
  BY <1>1, <1>6 DEF RequestInv, OnePlace
<1>9. OnItsWay' = OnItsWay
  BY <1>1, <1>6, WayElements
<1> QED
  BY <1>1, <1>7, <1>8, <1>9, Moved DEF requestVars

LEMMA AnswerStep == ASSUME RequestInv, Answer PROVE RequestInv'
<1>1. /\ inbox # <<>> /\ inbox' = Tail(inbox) /\ toClient' = Append(toClient, Head(inbox))
      /\ UNCHANGED <<posted, callbacks, answered, mNextRequestId, pushes, user, waiting>>
  BY DEF Answer, requestVars
<1>2. /\ inbox \in Seq(Ids) /\ toClient \in Seq(0 .. Torn)
      /\ Once(inbox) /\ Once(toClient) /\ Apart(inbox, toClient)
      /\ Apart(IdsOf(posted), inbox) /\ Apart(IdsOf(posted), toClient)
  BY DEF RequestInv, MessagesOK, OnePlace
<1>3. Head(inbox) \in Ids /\ Head(inbox) \in 0 .. Torn
  <2>1. Head(inbox) \in Ids
    BY <1>1, <1>2
  <2> QED
    BY <2>1, ClientAssumption DEF Ids, Torn, ClientAssumption
<1>4. inbox' \in Seq(Ids) /\ toClient' \in Seq(0 .. Torn)
  BY <1>1, <1>2, <1>3
<1>5. \A u : Apart(u, inbox) /\ Apart(u, toClient) => Apart(inbox, u) /\ Apart(toClient, u)
  BY DEF Apart
<1>6. /\ Once(inbox') /\ Once(toClient') /\ Apart(inbox', toClient')
      /\ Elements(inbox') \cup Elements(toClient') = Elements(inbox) \cup Elements(toClient)
      /\ Apart(inbox', IdsOf(posted)) /\ Apart(toClient', IdsOf(posted))
  BY <1>1, <1>2, <1>3, <1>5, Moves
<1>7. MessagesOK'
  BY <1>1, <1>4 DEF RequestInv, MessagesOK
<1>8. OnePlace'
  BY <1>1, <1>6 DEF RequestInv, OnePlace, Apart
<1>9. OnItsWay' = OnItsWay
  BY <1>1, <1>6, WayElements
<1> QED
  BY <1>1, <1>7, <1>8, <1>9, Moved

LEMMA PushStep == ASSUME RequestInv, Push PROVE RequestInv'
<1>1. PICK id \in {0, Torn} : toClient' = Append(toClient, id)
  BY DEF Push
<1>2. /\ pushes < MaxPushes /\ pushes' = pushes + 1
      /\ UNCHANGED <<posted, inbox, callbacks, answered, mNextRequestId, user, waiting>>
  BY DEF Push, requestVars
<1>3. toClient \in Seq(0 .. Torn) /\ Once(toClient)
  BY DEF RequestInv, MessagesOK, OnePlace
<1>4. id \in 0 .. Torn /\ id \notin Ids
  BY ClientAssumption DEF ClientAssumption, Torn, Ids
<1>5. /\ toClient' \in Seq(0 .. Torn) /\ Once(toClient')
      /\ Elements(toClient') = Elements(toClient) \cup {id}
  <2> DEFINE MessageIds == 0 .. Torn
  <2>1. toClient \in Seq(MessageIds) /\ id \in MessageIds
    BY <1>3, <1>4
  <2> HIDE DEF MessageIds
  <2>2. /\ Elements(Append(toClient, id)) = Elements(toClient) \cup {id}
        /\ Once(Append(toClient, id))
    BY <1>3, <1>4, <2>1, ElementsOfAppend
  <2>3. Append(toClient, id) \in Seq(0 .. Torn)
    BY <1>3, <1>4
  <2> QED
    BY <1>1, <2>2, <2>3
<1>6. pushes' \in 0 .. MaxPushes
  BY <1>2, ClientAssumption DEF RequestInv, MessagesOK, ClientAssumption
<1>7. MessagesOK'
  BY <1>2, <1>5, <1>6 DEF RequestInv, MessagesOK
<1>8. OnePlace' /\ Filed'
  <2>1. Once(IdsOf(posted')) /\ Once(inbox')
    BY <1>2 DEF RequestInv, OnePlace
  <2>2. /\ user' \in {"ask", "file", "fileAndWait"} => mNextRequestId <= MaxRequests
        /\ Elements(toClient') \cap Ids \subseteq Elements(toClient)
    BY <1>2, <1>4, <1>5 DEF RequestInv, Filed
  <2> QED
    BY <1>2, <1>5, <1>7, <2>1, <2>2, Fewer DEF RequestInv
<1> QED
  BY <1>7, <1>8 DEF RequestInv

LEMMA FileStep == ASSUME RequestInv, File PROVE RequestInv'
<1>1. /\ user \in {"file", "fileAndWait"} /\ user' \in {"post", "postAndWait"}
      /\ mNextRequestId' = mNextRequestId + 1 /\ waiting' = mNextRequestId
      /\ callbacks' = callbacks \cup {mNextRequestId}
      /\ UNCHANGED <<posted, inbox, toClient, pushes, answered>>
  BY DEF File, serverVars
<1>2. /\ mNextRequestId \in 1 .. MaxRequests /\ MaxRequests \in Nat
      /\ callbacks \subseteq 1 .. mNextRequestId - 1 /\ callbacks \subseteq Ids
      /\ OnItsWay \subseteq callbacks \cup {0, Torn}
  BY <1>1, ClientAssumption
  DEF RequestInv, MessagesOK, Filed, AnswerFindsCallback, ClientAssumption
<1>3. OnItsWay' = OnItsWay
  BY <1>1, WayElements
<1>4. mNextRequestId' \in 1 .. MaxRequests + 1 /\ callbacks' \subseteq Ids
  BY <1>1, <1>2 DEF Ids
<1>5. MessagesOK'
  BY <1>1, <1>4 DEF RequestInv, MessagesOK
<1>6. OnePlace'
  BY <1>1 DEF RequestInv, OnePlace
<1>7. AnswerFindsCallback' /\ callbacks' \subseteq 1 .. mNextRequestId' - 1
  BY <1>1, <1>2, <1>3 DEF AnswerFindsCallback
<1>8. waiting' \in callbacks' \ OnItsWay'
  <2>1. mNextRequestId \notin callbacks \cup {0, Torn}
    BY <1>2 DEF Torn
  <2> QED
    BY <1>1, <1>2, <1>3, <2>1
<1> QED
  BY <1>1, <1>5, <1>6, <1>7, <1>8 DEF RequestInv, Filed

LEMMA PostStep == ASSUME RequestInv, Post PROVE RequestInv'
<1>1. /\ user \in {"post", "postAndWait"} /\ user' \in {"idle", "wait"}
      /\ posted' = Append(posted, Fn("write", waiting))
      /\ UNCHANGED <<callbacks, answered, mNextRequestId, inbox, toClient, pushes>>
  BY DEF Post, requestVars, serverVars
<1>2. waiting \in callbacks \ OnItsWay /\ waiting \in Ids /\ posted \in Seq(Function)
  BY <1>1 DEF RequestInv, MessagesOK, Filed
<1>3. Fn("write", waiting) \in Function /\ Fn("write", waiting).id = waiting
  BY <1>2 DEF Fn, Function
<1>4. /\ IdsOf(posted) \in Seq(PostedIds) /\ waiting \in PostedIds
      /\ IdsOf(posted') = Append(IdsOf(posted), waiting)
  BY <1>1, <1>2, <1>3, IdsOfAppend
<1>5. /\ waiting \notin Elements(IdsOf(posted))
      /\ waiting \notin Elements(inbox) /\ waiting \notin Elements(toClient)
  BY <1>2, WayElements
<1>6. /\ Elements(IdsOf(posted')) = Elements(IdsOf(posted)) \cup {waiting}
      /\ Once(IdsOf(posted'))
  BY <1>4, <1>5, ElementsOfAppend DEF RequestInv, OnePlace
<1>7. MessagesOK'
  <2>1. posted' \in Seq(Function)
    BY <1>1, <1>2, PostedType
  <2> QED
    BY <1>1, <2>1 DEF RequestInv, MessagesOK
<1>8. OnePlace'
  BY <1>1, <1>5, <1>6 DEF RequestInv, OnePlace, Apart
<1>9. OnItsWay' = OnItsWay \cup {waiting}
  BY <1>1, <1>6, WayElements
<1> QED
  BY <1>1, <1>2, <1>7, <1>8, <1>9 DEF RequestInv, Filed, AnswerFindsCallback

\* The callback goes with the answer: the request was nowhere else.
LEMMA ReadStep ==
    ASSUME RequestInv, NEW e, ReadMessage(e)
    PROVE  RequestInv'
<1> DEFINE id == Head(toClient)
<1>1. /\ toClient # <<>> /\ toClient' = Tail(toClient) /\ id # Torn
      /\ callbacks' = callbacks \ {id} /\ answered' = answered \cup ({id} \cap callbacks)
      /\ UNCHANGED <<posted, inbox, mNextRequestId, pushes, user, waiting>>
  BY DEF ReadMessage
<1>2. /\ toClient \in Seq(0 .. Torn) /\ Once(toClient) /\ callbacks \subseteq Ids
      /\ OnItsWay \subseteq callbacks \cup {0, Torn}
  BY DEF RequestInv, MessagesOK, OnePlace, Filed, AnswerFindsCallback
<1>3. /\ toClient' \in Seq(0 .. Torn) /\ Once(toClient')
      /\ Elements(toClient) = {id} \cup Elements(toClient')
      /\ id \notin Elements(toClient') \cap Ids
  <2>1. Tail(toClient) \in Seq(0 .. Torn)
    BY <1>1, <1>2
  <2> QED
    BY <1>1, <1>2, <2>1, ElementsOfTail
<1>4. MessagesOK'
  BY <1>1, <1>2, <1>3 DEF RequestInv, MessagesOK
<1>5. OnePlace'
  BY <1>1, <1>3 DEF RequestInv, OnePlace, Apart
<1>6. OnItsWay' \subseteq OnItsWay /\ id \in OnItsWay /\ id \notin OnItsWay' \cap Ids
  BY <1>1, <1>3, WayElements DEF RequestInv, OnePlace, Apart
<1>7. AnswerFindsCallback'
  BY <1>1, <1>2, <1>6 DEF AnswerFindsCallback
<1>8. user \in {"post", "postAndWait"} => waiting' \in callbacks' \ OnItsWay'
  BY <1>1, <1>6 DEF RequestInv, Filed
<1> QED
  BY <1>1, <1>4, <1>5, <1>7, <1>8 DEF RequestInv, Filed

LEMMA RequestStep == ASSUME RequestInv, [Next]_vars PROVE RequestInv'
<1>1. CASE RunPosted
  BY <1>1, HandlerQuiet, WriteStep
<1>2. ASSUME NEW e \in reads, ReadMessage(e) \/ ReadTorn(e) \/ ReadFailed(e)
      PROVE  RequestInv'
  BY <1>2, HandlerQuiet, ReadStep
<1>3. CASE ConnectResult \/ IoExit \/ UNCHANGED vars
  BY <1>3, HandlerQuiet
<1>4. CASE Closing \/ Connect \/ CloseMark \/ Destroy \/ RequestAsync \/ Request \/ Ask \/ Return
  BY <1>4, UserQuiet DEF Closing
<1>5. CASE File \/ Post
  BY <1>5, FileStep, PostStep
<1>6. CASE Environment
  BY <1>6, AnswerStep, PushStep, HandlerQuiet DEF Environment
<1> QED
  BY <1>1, <1>2, <1>3, <1>4, <1>5, <1>6 DEF Next, Handler, ReadResult, User

LEMMA UserStep == ASSUME UserOK, RequestInv, [Next]_vars PROVE UserOK'
<1>1. user' \in {"idle", "close", "stop", "join", "ask", "file", "fileAndWait", "post",
                 "postAndWait", "wait", "gone", "terminated"}
  <2>1. CASE User \/ Closing
    BY <2>1 DEF UserOK, User, Closing, Connect, CloseMark, CloseTransport, Stop, Join, Destroy,
                RequestAsync, Request, Ask, File, Post, Return
  <2>2. CASE Handler
    BY <2>2 DEF UserOK, Handler, ConnectResult, ConnectOk, ConnectFailed, RunPosted, ReadResult,
                ReadMessage, ReadTorn, ReadFailed
  <2>3. CASE IoExit \/ Environment \/ UNCHANGED vars
    BY <2>3 DEF UserOK, IoExit, Environment, Answer, Push, Lose, vars
  <2> QED
    BY <2>1, <2>2, <2>3 DEF Next
<1>2. waiting' \in {waiting, 0} \/ (File /\ waiting' = mNextRequestId)
  <2>1. CASE User \/ Closing
    BY <2>1 DEF User, Closing, Connect, CloseMark, CloseTransport, Stop, Join, Destroy,
                RequestAsync, Request, Ask, File, Post, Return
  <2>2. CASE Handler
    BY <2>2 DEF Handler, ConnectResult, ConnectOk, ConnectFailed, RunPosted, ReadResult,
                ReadMessage, ReadTorn, ReadFailed
  <2>3. CASE IoExit \/ Environment \/ UNCHANGED vars
    BY <2>3 DEF IoExit, Environment, Answer, Push, Lose, vars
  <2> QED
    BY <2>1, <2>2, <2>3 DEF Next
<1>3. waiting' \in 0 .. MaxRequests
  <2>1. File => mNextRequestId \in 1 .. MaxRequests
    BY ClientAssumption DEF ClientAssumption, RequestInv, MessagesOK, Filed, File
  <2>2. waiting \in 0 .. MaxRequests /\ 0 \in 0 .. MaxRequests
    BY ClientAssumption DEF ClientAssumption, UserOK
  <2> QED
    BY <1>2, <2>1, <2>2
<1>4. fired' \in [{"connect", "disconnect", "error"} -> Nat]
  <2>1. \A f \in [{"connect", "disconnect", "error"} -> Nat] :
           \A event \in {"connect", "disconnect", "error"} :
              Fire(f, event) \in [{"connect", "disconnect", "error"} -> Nat]
    BY DEF Fire
  <2>2. CASE ConnectResult
    BY <2>1, <2>2 DEF UserOK, ConnectResult, ConnectOk, ConnectFailed
  <2>3. CASE RunPosted
    BY <2>1, <2>3 DEF UserOK, RunPosted, HandleIoError
  <2>4. CASE ReadResult
    BY <2>1, <2>4 DEF UserOK, ReadResult, ReadMessage, ReadTorn, ReadFailed, HandleIoError
  <2>5. CASE User \/ Closing
    BY <2>5 DEF UserOK, User, Closing, Connect, CloseMark, CloseTransport, Stop, Join, Destroy,
                RequestAsync, Request, Ask, File, Post, Return
  <2>6. CASE IoExit \/ Environment \/ UNCHANGED vars
    BY <2>6 DEF UserOK, IoExit, Environment, Answer, Push, Lose, vars
  <2> QED
    BY <2>2, <2>3, <2>4, <2>5, <2>6 DEF Next, Handler
<1> QED
  BY <1>1, <1>3, <1>4 DEF UserOK

-----------------------------------------------------------------------------
\* The inductive invariant.
IInv == NetOK /\ ThreadInv /\ RequestInv

\* Every step of the client, its user and its server keeps the invariant; its types
\* are part of it.
THEOREM ClientInvariant == Spec => [](TypeOK /\ IInv)
<1>1. Init => IInv
  BY ThreadInit, TypeInit, RequestInit DEF IInv, ThreadInv, RequestInv
<1>2. IInv /\ [Next]_vars => IInv'
  BY NetStep, ThreadStep, UserStep, RequestStep DEF IInv, ThreadInv
<1>3. IInv => TypeOK
  BY DEF IInv, ThreadInv, RequestInv, TypeOK
<1> QED
  BY <1>1, <1>2, <1>3, PTL DEF Spec

\* Whatever closed or failed before, a client that calls itself running has an io
\* thread, and an io_context that is not stopped.
THEOREM RunningClientHasThread == Spec => []RunningHasThread
<1>1. IInv => RunningHasThread
  BY DEF IInv, ThreadInv
<1> QED
  BY <1>1, ClientInvariant, PTL

\* std::terminate only follows a handler that closed the client, or a connect that
\* failed; a user who closes from his own thread never meets it.
THEOREM TerminationHasCause == Spec => []TerminateCause
<1>1. IInv => TerminateCause
  BY DEF IInv, ThreadInv
<1> QED
  BY <1>1, ClientInvariant, PTL

\* For any number of requests over any number of connections: no answer comes back
\* before the callback it is for has been filed, or after it was called.
THEOREM NoAnswerIsLost == Spec => []AnswerFindsCallback
<1>1. IInv => AnswerFindsCallback
  BY DEF IInv, RequestInv, Filed
<1> QED
  BY <1>1, ClientInvariant, PTL

\* QuietAfterClose of one step.
QuietStepAfterClose ==
    Threaded /\ user = "idle" /\ ~mIsRunning /\ ~selfClosed
        => fired' = fired /\ answered' = answered

\* Once close() has returned to the user no callback is called until he connects
\* again: the thread that calls them is gone.
THEOREM QuietClient == Spec => QuietAfterClose
<1>1. ASSUME IInv, [Next]_vars PROVE QuietStepAfterClose
  <2> SUFFICES ASSUME Threaded, user = "idle", ~mIsRunning, ~selfClosed
               PROVE  fired' = fired /\ answered' = answered
    BY DEF QuietStepAfterClose
  <2>1. ~CanRun
    BY <1>1 DEF IInv, ThreadInv, Thread, CanRun
  <2>2. ~Handler
    BY <2>1 DEF Handler, ConnectResult, ConnectOk, ConnectFailed, RunPosted, ReadResult,
                ReadMessage, ReadTorn, ReadFailed
  <2>3. CASE User \/ Closing
    BY <2>3 DEF User, Closing, Connect, CloseMark, CloseTransport, Stop, Join, Destroy,
                RequestAsync, Request, Ask, File, Post, Return, requestVars
  <2>4. CASE IoExit \/ Environment \/ UNCHANGED vars
    BY <2>4 DEF IoExit, Environment, Answer, Push, Lose, vars, requestVars
  <2> QED
    BY <1>1, <2>2, <2>3, <2>4 DEF Next
<1>2. Spec => [][QuietStepAfterClose]_vars
  BY <1>1, ClientInvariant, PTL DEF Spec
<1> QED
  BY <1>2 DEF QuietAfterClose, QuietStepAfterClose

=============================================================================
