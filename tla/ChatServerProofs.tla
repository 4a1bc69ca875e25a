-------------------------- MODULE ChatServerProofs --------------------------
(***************************************************************************)
(* Proofs about ChatServer for every set of sessions, ports and names and  *)
(* every bound: the type invariant, the safety of the registry (by the     *)
(* inductive invariant IInv), that a departure is final, and that the      *)
(* server implements Membership.                                           *)
(***************************************************************************)
EXTENDS ChatServer, SequenceTheorems, TLAPS

LEMMA AnySessionType == AnySession \in Session
BY ServerAssumption DEF AnySession, ServerAssumption

LEMMA MsgType ==
    ASSUME NEW ev \in Events, NEW uid \in Nat, NEW name \in Names
    PROVE  /\ Msg(ev, uid, name) \in Message
           /\ Msg(ev, uid, name).ev = ev
           /\ Msg(ev, uid, name).uid = uid
BY DEF Msg, Message

LEMMA NoMsgType == NoMsg \in Message /\ NoMsg.ev = "response"
BY MsgType DEF NoMsg, Events, Names

\* The registry's operators keep mSessions a function from uids to SessionInfo.
LEMMA AddToType ==
    ASSUME NEW ms, DOMAIN ms \subseteq Nat, ms \in [DOMAIN ms -> SessionInfo],
           NEW uid \in Nat, NEW c \in Session
    PROVE  /\ DOMAIN AddTo(ms, uid, c) = DOMAIN ms \cup {uid}
           /\ DOMAIN AddTo(ms, uid, c) \subseteq Nat
           /\ AddTo(ms, uid, c) \in [DOMAIN AddTo(ms, uid, c) -> SessionInfo]
           /\ AddTo(ms, uid, c)[uid].session = c
           /\ \A u \in DOMAIN ms \ {uid} : AddTo(ms, uid, c)[u] = ms[u]
BY DEF AddTo, SessionInfo, Names

LEMMA RemoveFromType ==
    ASSUME NEW ms, DOMAIN ms \subseteq Nat, ms \in [DOMAIN ms -> SessionInfo],
           NEW uid \in Nat
    PROVE  /\ DOMAIN RemoveFrom(ms, uid) = DOMAIN ms \ {uid}
           /\ DOMAIN RemoveFrom(ms, uid) \subseteq Nat
           /\ RemoveFrom(ms, uid) \in [DOMAIN RemoveFrom(ms, uid) -> SessionInfo]
           /\ \A u \in DOMAIN ms \ {uid} : RemoveFrom(ms, uid)[u] = ms[u]
BY DEF RemoveFrom

LEMMA SetNameType ==
    ASSUME NEW ms, DOMAIN ms \subseteq Nat, ms \in [DOMAIN ms -> SessionInfo],
           NEW uid \in Nat, NEW name \in Names
    PROVE  /\ DOMAIN SetName(ms, uid, name) = DOMAIN ms
           /\ DOMAIN SetName(ms, uid, name) \subseteq Nat
           /\ SetName(ms, uid, name) \in [DOMAIN SetName(ms, uid, name) -> SessionInfo]
           /\ \A u \in DOMAIN ms : SetName(ms, uid, name)[u].session = ms[u].session
BY DEF SetName, SessionInfo

LEMMA GetNameType ==
    ASSUME NEW ms, ms \in [DOMAIN ms -> SessionInfo], NEW uid
    PROVE  GetName(ms, uid) \in Names
BY DEF GetName, SessionInfo, Names

LEMMA AllSessionsType ==
    ASSUME NEW ms, ms \in [DOMAIN ms -> SessionInfo], NEW uids
    PROVE  /\ AllSessions(ms) \subseteq Session
           /\ Targets(ms, uids) \subseteq AllSessions(ms)
BY DEF AllSessions, Targets, SessionInfo

\* The steps every action is made of keep the thread variables in their types.
LEMMA GotoType ==
    ASSUME at \in [Thread -> Labels], NEW t \in Thread, NEW l \in Labels, Goto(t, l)
    PROVE  at' \in [Thread -> Labels]
BY DEF Goto

LEMMA SetMsgType ==
    ASSUME msg \in [Thread -> Message], NEW t \in Thread, NEW m \in Message,
           msg' = [msg EXCEPT ![t] = m]
    PROVE  msg' \in [Thread -> Message]
OBVIOUS

LEMMA ReturnType ==
    ASSUME at \in [Thread -> Labels], cur \in [Thread -> Session],
           msg \in [Thread -> Message], NEW t \in Thread, Return(t)
    PROVE  /\ at' \in [Thread -> Labels]
           /\ cur' \in [Thread -> Session]
           /\ msg' \in [Thread -> Message]
BY AnySessionType, NoMsgType DEF Return, Goto, Labels

LEMMA BeginType ==
    ASSUME at \in [Thread -> Labels], cur \in [Thread -> Session],
           NEW t \in Thread, NEW c \in Session, NEW l \in Labels, Begin(t, c, l)
    PROVE  /\ at' \in [Thread -> Labels]
           /\ cur' \in [Thread -> Session]
BY DEF Begin, Goto

LEMMA ReceiveType ==
    ASSUME at \in [Thread -> Labels], cur \in [Thread -> Session],
           requests \in [Session -> Nat],
           NEW t \in Thread, NEW c \in Session, NEW l \in Labels, Receive(t, c, l)
    PROVE  /\ at' \in [Thread -> Labels]
           /\ cur' \in [Thread -> Session]
           /\ requests' \in [Session -> Nat]
BY BeginType DEF Receive

LEMMA PortIsThread == \A t \in Port : t \in Thread
BY DEF Thread

LEMMA LabelsType ==
    /\ "idle" \in Labels /\ "adding" \in Labels /\ "wiring" \in Labels
    /\ "starting" \in Labels /\ "close" \in Labels /\ "shutdown" \in Labels
    /\ "notify" \in Labels /\ "remove" \in Labels /\ "snapshot" \in Labels
    /\ "send" \in Labels /\ "naming" \in Labels /\ "lookup" \in Labels
    /\ "respond" \in Labels
BY DEF Labels

-----------------------------------------------------------------------------
\* Every step keeps TypeOK.
LEMMA TypeStep == TypeOK /\ [Next]_vars => TypeOK'
<1> SUFFICES ASSUME TypeOK, [Next]_vars PROVE TypeOK'
  OBVIOUS
<1> USE DEF TypeOK, RegistryOK, SessionOK, QueueOK, ThreadOK, GuiOK
<1>u. CASE UNCHANGED vars
  BY <1>u DEF vars, sessionVars, queueVars, threadVars, guiVars
<1>1. ASSUME NEW t \in Thread, AddSession(t) PROVE TypeOK'
  <2>1. QueueOK' /\ GuiOK'
    BY <1>1 DEF AddSession, sessionVars, queueVars, guiVars
  <2>2. RegistryOK'
    BY <1>1, AddToType DEF AddSession
  <2>3. SessionOK'
    BY <1>1 DEF AddSession, Stages
  <2>4. ThreadOK'
    BY <1>1, GotoType, LabelsType DEF AddSession
  <2> QED
    BY <2>1, <2>2, <2>3, <2>4
<1>2. ASSUME NEW t \in Thread, Wire(t) PROVE TypeOK'
  <2>1. RegistryOK' /\ QueueOK' /\ GuiOK'
    BY <1>2 DEF Wire, sessionVars, queueVars, guiVars
  <2>2. SessionOK'
    BY <1>2 DEF Wire, Stages
  <2>3. ThreadOK'
    BY <1>2, GotoType, LabelsType DEF Wire
  <2> QED
    BY <2>1, <2>2, <2>3
<1>3. ASSUME NEW t \in Thread, Start(t) PROVE TypeOK'
  <2>1. RegistryOK' /\ QueueOK' /\ GuiOK'
    BY <1>3 DEF Start, sessionVars, queueVars, guiVars
  <2>2. SessionOK'
    BY <1>3 DEF Start, Stages
  <2>3. ThreadOK'
    BY <1>3, ReturnType DEF Start
  <2> QED
    BY <2>1, <2>2, <2>3
<1>4. ASSUME NEW t \in Thread, MarkClosed(t) PROVE TypeOK'
  <2>1. RegistryOK' /\ QueueOK' /\ GuiOK'
    BY <1>4 DEF MarkClosed, sessionVars, queueVars, guiVars
  <2>2. SessionOK'
    BY <1>4 DEF MarkClosed
  <2>3. ThreadOK'
    BY <1>4, GotoType, ReturnType, LabelsType DEF MarkClosed
  <2> QED
    BY <2>1, <2>2, <2>3
<1>5. ASSUME NEW t \in Thread, Shutdown(t) PROVE TypeOK'
  <2>1. RegistryOK' /\ QueueOK' /\ GuiOK'
    BY <1>5 DEF Shutdown, sessionVars, queueVars, guiVars
  <2>2. SessionOK'
    BY <1>5 DEF Shutdown, Conns
  <2>3. ThreadOK'
    BY <1>5, GotoType, LabelsType DEF Shutdown
  <2> QED
    BY <2>1, <2>2, <2>3
<1>6. ASSUME NEW t \in Thread, Notify(t) PROVE TypeOK'
  <2>1. RegistryOK' /\ QueueOK' /\ GuiOK'
    BY <1>6 DEF Notify, sessionVars, queueVars, guiVars
  <2>2. SessionOK'
    BY <1>6 DEF Notify, sessionVars
  <2>3. ThreadOK'
    BY <1>6, GotoType, ReturnType, LabelsType DEF Notify
  <2> QED
    BY <2>1, <2>2, <2>3
<1>7. ASSUME NEW t \in Thread, Remove(t) PROVE TypeOK'
  <2>1. SessionOK' /\ QueueOK' /\ GuiOK'
    BY <1>7 DEF Remove, sessionVars, queueVars, guiVars
  <2>2. mUid[cur[t]] \in Nat
    OBVIOUS
  <2>3. mSessions' = RemoveFrom(mSessions, mUid[cur[t]]) /\ mNextUid' = mNextUid
    BY <1>7 DEF Remove
  <2>4. DOMAIN mSessions' \subseteq Nat /\ mSessions' \in [DOMAIN mSessions' -> SessionInfo]
    BY <2>2, <2>3, RemoveFromType
  <2>5. RegistryOK'
    BY <2>3, <2>4
  <2>6. Msg("left", mUid[cur[t]], UnknownName) \in Message
    BY MsgType DEF Events, Names
  <2>7. ThreadOK'
    BY <1>7, GotoType, SetMsgType, LabelsType, <2>6 DEF Remove
  <2> QED
    BY <2>1, <2>5, <2>7
<1>8. ASSUME NEW t \in Thread, Snapshot(t) PROVE TypeOK'
  <2>1. RegistryOK' /\ SessionOK' /\ QueueOK' /\ GuiOK'
    BY <1>8 DEF Snapshot, sessionVars, queueVars, guiVars
  <2>2. ThreadOK'
    BY <1>8, GotoType, LabelsType, AllSessionsType DEF Snapshot
  <2> QED
    BY <2>1, <2>2
<1>9. ASSUME NEW t \in Thread, Lookup(t) PROVE TypeOK'
  <2>1. RegistryOK' /\ SessionOK' /\ QueueOK' /\ GuiOK'
    BY <1>9 DEF Lookup, sessionVars, queueVars, guiVars
  <2>2. ThreadOK'
    BY <1>9, GotoType, LabelsType, AllSessionsType DEF Lookup
  <2> QED
    BY <2>1, <2>2
<1>10. ASSUME NEW t \in Thread, SendDone(t) PROVE TypeOK'
  <2>1. RegistryOK' /\ SessionOK' /\ QueueOK' /\ GuiOK'
    BY <1>10 DEF SendDone, sessionVars, queueVars, guiVars
  <2>2. ThreadOK'
    BY <1>10, GotoType, ReturnType, LabelsType DEF SendDone
  <2> QED
    BY <2>1, <2>2
<1>11. ASSUME NEW t \in Thread, NameDone(t) PROVE TypeOK'
  <2>1. RegistryOK' /\ SessionOK' /\ QueueOK' /\ GuiOK'
    BY <1>11 DEF NameDone, sessionVars, queueVars, guiVars
  <2>2. ThreadOK'
    BY <1>11, GotoType, LabelsType DEF NameDone
  <2> QED
    BY <2>1, <2>2
<1>12. ASSUME NEW t \in Thread, Respond(t) PROVE TypeOK'
  <2>1. RegistryOK' /\ GuiOK'
    BY <1>12 DEF Respond, sessionVars, queueVars, guiVars
  <2>2. SessionOK'
    BY <1>12 DEF Respond, Stages
  <2>3. Msg("response", mUid[cur[t]], UnknownName) \in Message
    BY MsgType DEF Events, Names
  <2>4. PICK m \in Message : outbox' = [outbox EXCEPT ![cur[t]] = Append(@, m)]
    BY <1>12, <2>3 DEF Respond
  <2>5. QueueOK'
    BY <1>12, <2>4 DEF Respond
  <2>6. ThreadOK'
    BY <1>12, ReturnType DEF Respond
  <2> QED
    BY <2>1, <2>2, <2>5, <2>6
<1>13. ASSUME NEW t \in Thread, NEW d \in Session, SendOne(t, d) PROVE TypeOK'
  <2>1. RegistryOK' /\ SessionOK' /\ GuiOK'
    BY <1>13 DEF SendOne, sessionVars, queueVars, guiVars
  <2>2. QueueOK'
    BY <1>13 DEF SendOne
  <2>3. ThreadOK'
    BY <1>13 DEF SendOne
  <2> QED
    BY <2>1, <2>2, <2>3
<1>14. ASSUME NEW t \in Thread, NEW u \in ids[t], NameOne(t, u) PROVE TypeOK'
  <2>1. RegistryOK' /\ SessionOK' /\ QueueOK' /\ GuiOK'
    BY <1>14 DEF NameOne, sessionVars, queueVars, guiVars
  <2>2. [uid |-> u, name |-> GetName(mSessions, u)] \in ListEntry
    BY GetNameType DEF ListEntry
  <2>3. WithEntry(msg[t], [uid |-> u, name |-> GetName(mSessions, u)]) \in Message
    BY <2>2 DEF WithEntry, Message
  <2>4. ThreadOK'
    BY <1>14, <2>3 DEF NameOne
  <2> QED
    BY <2>1, <2>4
<1>15. ASSUME NEW t \in Port, NEW c \in Session, Accept(t, c) PROVE TypeOK'
  <2>1. QueueOK' /\ GuiOK'
    BY <1>15 DEF Accept, sessionVars, queueVars, guiVars
  <2>2. RegistryOK'
    BY <1>15 DEF Accept, DrawUid
  <2>3. SessionOK'
    BY <1>15 DEF Accept, DrawUid, Stages, Conns
  <2>4. ThreadOK'
    BY <1>15, PortIsThread, BeginType, LabelsType DEF Accept
  <2> QED
    BY <2>1, <2>2, <2>3, <2>4
<1>16. ASSUME NEW t \in Port, NEW c \in Session, EndRead(t, c) PROVE TypeOK'
  <2>1. RegistryOK' /\ QueueOK' /\ GuiOK'
    BY <1>16 DEF EndRead, sessionVars, queueVars, guiVars
  <2>2. SessionOK'
    BY <1>16 DEF EndRead, Stages
  <2>3. ThreadOK'
    BY <1>16, PortIsThread, BeginType, LabelsType DEF EndRead
  <2> QED
    BY <2>1, <2>2, <2>3
<1>17. ASSUME NEW t \in Port, NEW c \in Session, RunPostedClose(t, c) PROVE TypeOK'
  <2>1. RegistryOK' /\ QueueOK' /\ GuiOK'
    BY <1>17 DEF RunPostedClose, sessionVars, queueVars, guiVars
  <2>2. SessionOK'
    BY <1>17 DEF RunPostedClose
  <2>3. ThreadOK'
    BY <1>17, PortIsThread, BeginType, LabelsType DEF RunPostedClose
  <2> QED
    BY <2>1, <2>2, <2>3
<1>18. ASSUME NEW t \in Port, NEW c \in Session, Write(t, c) PROVE TypeOK'
  <2>1. RegistryOK' /\ GuiOK'
    BY <1>18 DEF Write, sessionVars, queueVars, guiVars
  <2>2. SessionOK'
    BY <1>18 DEF Write
  <2>3. Head(outbox[c]) \in Message /\ Tail(outbox[c]) \in Seq(Message)
    BY <1>18 DEF Write
  <2>4. outbox' \in [Session -> Seq(Message)]
    BY <1>18, <2>3 DEF Write
  <2>5. wire' \in [Session -> Seq(Message)]
    <3>1. CASE UNCHANGED wire
      BY <3>1
    <3>2. CASE wire' = [wire EXCEPT ![c] = Append(@, Head(outbox[c]))]
      <4>1. PICK m \in Message : wire' = [wire EXCEPT ![c] = Append(@, m)]
        BY <2>3, <3>2
      <4> QED
        BY <4>1
    <3> QED
      BY <1>18, <3>1, <3>2 DEF Write
  <2>6. QueueOK'
    BY <2>4, <2>5
  <2>7. ThreadOK'
    BY <1>18 DEF Write, threadVars
  <2> QED
    BY <2>1, <2>2, <2>6, <2>7
<1>19. ASSUME NEW t \in Port, NEW c \in Session, NEW name \in Name, Login(t, c, name)
       PROVE  TypeOK'
  <2>1. QueueOK' /\ GuiOK'
    BY <1>19 DEF Login, sessionVars, queueVars, guiVars
  <2>2. mUid[c] \in Nat /\ name \in Names
    BY DEF Names
  <2>3. mSessions' = SetName(mSessions, mUid[c], name) /\ mNextUid' = mNextUid
    BY <1>19 DEF Login
  <2>4. DOMAIN mSessions' \subseteq Nat /\ mSessions' \in [DOMAIN mSessions' -> SessionInfo]
    BY <2>2, <2>3, SetNameType
  <2>5. RegistryOK'
    BY <2>3, <2>4
  <2>6. SessionOK'
    BY <1>19, PortIsThread, ReceiveType, LabelsType DEF Login
  <2>7. Msg("joined", mUid[c], name) \in Message
    BY MsgType DEF Events, Names
  <2>8. ThreadOK'
    BY <1>19, PortIsThread, ReceiveType, SetMsgType, LabelsType, <2>7 DEF Login
  <2> QED
    BY <2>1, <2>5, <2>6, <2>8
<1>20. ASSUME NEW t \in Port, NEW c \in Session, ClientList(t, c) PROVE TypeOK'
  <2>1. RegistryOK' /\ QueueOK' /\ GuiOK'
    BY <1>20 DEF ClientList, sessionVars, queueVars, guiVars
  <2>2. SessionOK'
    BY <1>20, PortIsThread, ReceiveType, LabelsType DEF ClientList
  <2>3. Msg("clients", mUid[c], UnknownName) \in Message
    BY MsgType DEF Events, Names
  <2>4. ThreadOK'
    BY <1>20, PortIsThread, ReceiveType, SetMsgType, LabelsType, <2>3 DEF ClientList
  <2> QED
    BY <2>1, <2>2, <2>4
<1>21. ASSUME NEW t \in Port, NEW c \in Session, SendPublic(t, c) PROVE TypeOK'
  <2>1. RegistryOK' /\ QueueOK' /\ GuiOK'
    BY <1>21 DEF SendPublic, sessionVars, queueVars, guiVars
  <2>2. SessionOK'
    BY <1>21, PortIsThread, ReceiveType, LabelsType DEF SendPublic
  <2>3. GetName(mSessions, mUid[c]) \in Names
    BY GetNameType
  <2>4. Msg("public", mUid[c], GetName(mSessions, mUid[c])) \in Message
    BY <2>3, MsgType DEF Events
  <2>5. ThreadOK'
    BY <1>21, PortIsThread, ReceiveType, SetMsgType, LabelsType, <2>4 DEF SendPublic
  <2> QED
    BY <2>1, <2>2, <2>5
<1>22. ASSUME NEW t \in Port, NEW c \in Session, NEW to \in 1 .. mNextUid, SendPrivate(t, c, to)
       PROVE  TypeOK'
  <2>1. RegistryOK' /\ QueueOK' /\ GuiOK'
    BY <1>22 DEF SendPrivate, sessionVars, queueVars, guiVars
  <2>2. SessionOK'
    BY <1>22, PortIsThread, ReceiveType, LabelsType DEF SendPrivate
  <2>3. ids' \in [Thread -> SUBSET Nat]
    BY <1>22, PortIsThread DEF SendPrivate
  <2>4. GetName(mSessions, mUid[c]) \in Names
    BY GetNameType
  <2>5. Msg("private", mUid[c], GetName(mSessions, mUid[c])) \in Message
    BY <2>4, MsgType DEF Events
  <2>6. ThreadOK'
    BY <1>22, PortIsThread, ReceiveType, SetMsgType, LabelsType, <2>3, <2>5 DEF SendPrivate
  <2> QED
    BY <2>1, <2>2, <2>3, <2>6
<1>23. ASSUME NEW t \in Port, NEW c \in Session, Ping(t, c) PROVE TypeOK'
  <2>1. RegistryOK' /\ QueueOK' /\ GuiOK'
    BY <1>23 DEF Ping, sessionVars, queueVars, guiVars
  <2>2. SessionOK'
    BY <1>23, PortIsThread, ReceiveType, LabelsType DEF Ping
  <2>3. Msg("response", mUid[c], UnknownName) \in Message
    BY MsgType DEF Events, Names
  <2>4. ThreadOK'
    BY <1>23, PortIsThread, ReceiveType, SetMsgType, LabelsType, <2>3 DEF Ping
  <2> QED
    BY <2>1, <2>2, <2>4
<1>24. ASSUME NEW c \in Session, LoseConnection(c) PROVE TypeOK'
  <2>1. RegistryOK' /\ QueueOK' /\ GuiOK'
    BY <1>24 DEF LoseConnection, sessionVars, queueVars, guiVars
  <2>2. SessionOK'
    BY <1>24 DEF LoseConnection, Conns
  <2>3. ThreadOK'
    BY <1>24 DEF LoseConnection, threadVars
  <2> QED
    BY <2>1, <2>2, <2>3
<1>25. ASSUME Notice PROVE TypeOK'
  <2>1. RegistryOK' /\ SessionOK' /\ QueueOK'
    BY <1>25 DEF Notice, sessionVars, queueVars, guiVars
  <2>2. GuiOK'
    BY <1>25, ServerAssumption DEF Notice, ServerAssumption
  <2>3. Msg("system", 0, UnknownName) \in Message
    BY MsgType DEF Events, Names
  <2>4. ThreadOK'
    BY <1>25, GotoType, SetMsgType, LabelsType, <2>3 DEF Notice, Thread
  <2> QED
    BY <2>1, <2>2, <2>4
<1>26. ASSUME NEW u \in DOMAIN mSessions, Kick(u) PROVE TypeOK'
  <2>1. RegistryOK' /\ SessionOK' /\ QueueOK'
    BY <1>26 DEF Kick, sessionVars, queueVars, guiVars
  <2>2. GuiOK'
    BY <1>26, ServerAssumption DEF Kick, ServerAssumption
  <2>3. mSessions[u].session \in Session /\ Gui \in Thread
    BY DEF SessionInfo, Thread
  <2>4. ThreadOK'
    BY <1>26, <2>3, BeginType, LabelsType DEF Kick
  <2> QED
    BY <2>1, <2>2, <2>4
<1> QED
  BY <1>u, <1>1, <1>2, <1>3, <1>4, <1>5, <1>6, <1>7, <1>8, <1>9, <1>10, <1>11, <1>12,
     <1>13, <1>14, <1>15, <1>16, <1>17, <1>18, <1>19, <1>20, <1>21, <1>22, <1>23,
     <1>24, <1>25, <1>26
  DEF Next, Continue, Dispatch, Request, Dashboard

\* TypeOK holds in every reachable state of every instance.
THEOREM TypeCorrect == Spec => []TypeOK
<1>1. Init => TypeOK
  BY ServerAssumption, AnySessionType, NoMsgType
  DEF Init, TypeOK, RegistryOK, SessionOK, QueueOK, ThreadOK, GuiOK, ServerAssumption,
      SessionInfo, Stages, Conns, Labels
<1>2. TypeOK /\ [Next]_vars => TypeOK'
  BY TypeStep
<1> QED
  BY <1>1, <1>2, PTL DEF Spec

-----------------------------------------------------------------------------
\* The inductive invariant of the registry.  Most steps are quiet: they
\* neither enter nor leave the closing steps, nor register or forget a session.

\* Only thread t moves.
OnlyThread(t) ==
    \A s \in Thread \ {t} :
        at'[s] = at[s] /\ cur'[s] = cur[s] /\ msg'[s] = msg[s] /\ todo'[s] = todo[s]

\* The same uids stand for the same sessions.
SameMembers ==
    /\ mNextUid' = mNextUid /\ mUid' = mUid
    /\ DOMAIN mSessions' = DOMAIN mSessions
    /\ \A u \in DOMAIN mSessions : mSessions'[u].session = mSessions[u].session

\* A session's stage only moves once it is registered, and not back.
StageMoves ==
    \A c \in Session : stage'[c] = stage[c] \/ (~Fresh(c) /\ stage'[c] \in Wired)

Quiet(t) ==
    /\ OnlyThread(t)
    /\ at[t] \notin Closing /\ at'[t] \notin Closing
    /\ SameMembers /\ StageMoves
    /\ mIsClosed' = mIsClosed /\ missed' = missed

\* A thread that does not move knows of its session what it knew before.
LEMMA OtherThread ==
    ASSUME NEW s \in Thread, InStep(s), ThreadOK,
           at'[s] = at[s], cur'[s] = cur[s], msg'[s] = msg[s], todo'[s] = todo[s],
           mIsClosed \subseteq mIsClosed',
           \A c \in Session : ~Fresh(c) => ~Fresh(c)',
           at[s] = "adding" => stage'[cur[s]] = stage[cur[s]]
    PROVE  InStep(s)'
<1>1. cur[s] \in Session /\ todo[s] \subseteq Session
  BY DEF ThreadOK
<1> QED
  BY <1>1 DEF InStep

LEMMA FreshStays ==
    ASSUME StageMoves
    PROVE  \A c \in Session : /\ Fresh(c) <=> Fresh(c)'
                              /\ Fresh(c) => stage'[c] = stage[c]
                              /\ stage[c] = "none" <=> stage'[c] = "none"
BY DEF StageMoves, Fresh, Wired

\* A quiet step that keeps what its own thread knows keeps the invariant.
LEMMA QuietStep ==
    ASSUME IInv, TypeOK', NEW t \in Thread, Quiet(t), InStep(t)', FreshUntouched'
    PROVE  IInv'
<1> USE DEF IInv, Quiet
<1>1. UidsDistinct'
  <2>1. \A c \in Session : stage[c] = "none" <=> stage'[c] = "none"
    BY FreshStays
  <2>2. \A u \in DOMAIN mSessions : mSessions[u].session \in Session
    BY DEF TypeOK, RegistryOK, SessionInfo
  <2> QED
    BY <2>1, <2>2 DEF UidsDistinct, SameMembers
<1>2. UidsDrawn'
  <2>1. \A u \in DOMAIN mSessions : mSessions[u].session \in Session
    BY DEF TypeOK, RegistryOK, SessionInfo
  <2>2. \A c \in Session : stage'[c] # "none" => mUid'[c] < mNextUid'
    BY FreshStays DEF UidsDrawn, SameMembers
  <2>3. \A u \in DOMAIN mSessions' : ~(Fresh(mSessions[u].session)')
    BY <2>1, FreshStays DEF UidsDrawn, SameMembers
  <2> QED
    BY <2>2, <2>3 DEF UidsDrawn, SameMembers, Fresh
<1>3. ASSUME NEW s \in Thread PROVE InStep(s)'
  <2>1. CASE s = t
    BY <2>1
  <2>2. CASE s # t
    <3>1. at[s] = "adding" => stage'[cur[s]] = stage[cur[s]]
      BY FreshStays DEF InStep, Fresh, TypeOK, ThreadOK
    <3> QED
      BY <2>2, <3>1, FreshStays, OtherThread DEF OnlyThread, TypeOK
  <2> QED
    BY <2>1, <2>2
<1>4. \A c \in Session : Closers(c)' = Closers(c)
  BY DEF Closers, OnlyThread
<1>5. SingleCloser'
  BY <1>4 DEF SingleCloser
<1>6. Registered' = Registered
  BY DEF Registered, AllSessions, SameMembers
<1>7. Registered \subseteq Session
  BY AllSessionsType DEF Registered, TypeOK, RegistryOK
<1>8. ClosedIsForgotten'
  BY <1>4, <1>6, <1>7 DEF ClosedIsForgotten
<1> QED
  BY <1>1, <1>2, <1>3, <1>5, <1>8

\* Queues of posted writes: what a step may do to them without touching a
\* session that is not registered yet.
LEMMA QueuesStep ==
    ASSUME FreshUntouched, StageMoves, mIsClosed' = mIsClosed,
           \A c \in Session : Fresh(c) =>
               outbox'[c] = outbox[c] /\ (c \in closePosted' => c \in closePosted)
    PROVE  FreshUntouched'
BY FreshStays DEF FreshUntouched

LEMMA WireInv ==
    ASSUME IInv, TypeOK', NEW t \in Thread, Wire(t)
    PROVE  IInv'
<1> USE PortIsThread DEF IInv, TypeOK, ThreadOK
<1>1. OnlyThread(t) /\ at[t] \notin Closing /\ at'[t] \notin Closing
  BY DEF Wire, Goto, OnlyThread, Closing
<1>2. SameMembers
  BY DEF Wire, SameMembers, sessionVars, queueVars, guiVars
<1>3. StageMoves
  BY DEF Wire, StageMoves, sessionVars, queueVars, guiVars, SessionOK, InStep, Fresh, Wired
<1>4. mIsClosed' = mIsClosed /\ missed' = missed
  BY DEF Wire, sessionVars, queueVars, guiVars
<1>5. \A d \in Session : ~Fresh(d) => ~Fresh(d)'
  BY <1>3, FreshStays
<1>6. InStep(t)'
  BY <1>5 DEF Wire, Goto, InStep, Closing, sessionVars, queueVars, guiVars
<1>8. FreshUntouched'
  BY <1>3, <1>4, QueuesStep DEF Wire, sessionVars, queueVars, guiVars
<1> QED
  BY <1>1, <1>2, <1>3, <1>4, <1>6, <1>8, QuietStep DEF Quiet

LEMMA StartInv ==
    ASSUME IInv, TypeOK', NEW t \in Thread, Start(t)
    PROVE  IInv'
<1> USE PortIsThread DEF IInv, TypeOK, ThreadOK
<1>1. OnlyThread(t) /\ at[t] \notin Closing /\ at'[t] \notin Closing
  BY DEF Start, Return, Goto, OnlyThread, Closing
<1>2. SameMembers
  BY DEF Start, SameMembers, sessionVars, queueVars, guiVars
<1>3. StageMoves
  BY DEF Start, StageMoves, sessionVars, queueVars, guiVars, SessionOK, InStep, Fresh, Wired
<1>4. mIsClosed' = mIsClosed /\ missed' = missed
  BY DEF Start, sessionVars, queueVars, guiVars
<1>5. \A d \in Session : ~Fresh(d) => ~Fresh(d)'
  BY <1>3, FreshStays
<1>6. InStep(t)'
  BY <1>5 DEF Start, Return, Goto, InStep, Closing, sessionVars, queueVars, guiVars
<1>8. FreshUntouched'
  BY <1>3, <1>4, QueuesStep DEF Start, sessionVars, queueVars, guiVars
<1> QED
  BY <1>1, <1>2, <1>3, <1>4, <1>6, <1>8, QuietStep DEF Quiet

LEMMA SnapshotInv ==
    ASSUME IInv, TypeOK', NEW t \in Thread, Snapshot(t)
    PROVE  IInv'
<1> USE PortIsThread DEF IInv, TypeOK, ThreadOK
<1>k. \A d \in todo'[t] : ~Fresh(d)
  BY AllSessionsType DEF Snapshot, RegistryOK, UidsDrawn, AllSessions, Targets
<1> USE <1>k
<1>1. OnlyThread(t) /\ at[t] \notin Closing /\ at'[t] \notin Closing
  BY DEF Snapshot, Goto, OnlyThread, Closing
<1>2. SameMembers
  BY DEF Snapshot, SameMembers, sessionVars, queueVars, guiVars
<1>3. StageMoves
  BY DEF Snapshot, StageMoves, sessionVars, queueVars, guiVars
<1>4. mIsClosed' = mIsClosed /\ missed' = missed
  BY DEF Snapshot, sessionVars, queueVars, guiVars
<1>5. \A d \in Session : Fresh(d) <=> Fresh(d)'
  BY <1>3, FreshStays
<1>6. InStep(t)'
  BY <1>5 DEF Snapshot, Goto, InStep, Closing, sessionVars, queueVars, guiVars
<1>8. FreshUntouched'
  BY <1>3, <1>4, QueuesStep DEF Snapshot, sessionVars, queueVars, guiVars
<1> QED
  BY <1>1, <1>2, <1>3, <1>4, <1>6, <1>8, QuietStep DEF Quiet

LEMMA LookupInv ==
    ASSUME IInv, TypeOK', NEW t \in Thread, Lookup(t)
    PROVE  IInv'
<1> USE PortIsThread DEF IInv, TypeOK, ThreadOK
<1>k. \A d \in todo'[t] : ~Fresh(d)
  BY AllSessionsType DEF Lookup, RegistryOK, UidsDrawn, AllSessions, Targets
<1> USE <1>k
<1>1. OnlyThread(t) /\ at[t] \notin Closing /\ at'[t] \notin Closing
  BY DEF Lookup, Goto, OnlyThread, Closing
<1>2. SameMembers
  BY DEF Lookup, SameMembers, sessionVars, queueVars, guiVars
<1>3. StageMoves
  BY DEF Lookup, StageMoves, sessionVars, queueVars, guiVars
<1>4. mIsClosed' = mIsClosed /\ missed' = missed
  BY DEF Lookup, sessionVars, queueVars, guiVars
<1>5. \A d \in Session : Fresh(d) <=> Fresh(d)'
  BY <1>3, FreshStays
<1>6. InStep(t)'
  BY <1>5 DEF Lookup, Goto, InStep, Closing, sessionVars, queueVars, guiVars
<1>8. FreshUntouched'
  BY <1>3, <1>4, QueuesStep DEF Lookup, sessionVars, queueVars, guiVars
<1> QED
  BY <1>1, <1>2, <1>3, <1>4, <1>6, <1>8, QuietStep DEF Quiet

LEMMA SendDoneInv ==
    ASSUME IInv, TypeOK', NEW t \in Thread, SendDone(t)
    PROVE  IInv'
<1> USE PortIsThread DEF IInv, TypeOK, ThreadOK
<1>1. OnlyThread(t) /\ at[t] \notin Closing /\ at'[t] \notin Closing
  BY DEF SendDone, Return, Goto, OnlyThread, Closing
<1>2. SameMembers
  BY DEF SendDone, SameMembers, sessionVars, queueVars, guiVars
<1>3. StageMoves
  BY DEF SendDone, StageMoves, sessionVars, queueVars, guiVars
<1>4. mIsClosed' = mIsClosed /\ missed' = missed
  BY DEF SendDone, sessionVars, queueVars, guiVars
<1>5. \A d \in Session : Fresh(d) <=> Fresh(d)'
  BY <1>3, FreshStays
<1>6. InStep(t)'
  BY <1>5 DEF SendDone, Return, Goto, InStep, Closing, sessionVars, queueVars, guiVars
<1>8. FreshUntouched'
  BY <1>3, <1>4, QueuesStep DEF SendDone, sessionVars, queueVars, guiVars
<1> QED
  BY <1>1, <1>2, <1>3, <1>4, <1>6, <1>8, QuietStep DEF Quiet

LEMMA NameDoneInv ==
    ASSUME IInv, TypeOK', NEW t \in Thread, NameDone(t)
    PROVE  IInv'
<1> USE PortIsThread DEF IInv, TypeOK, ThreadOK
<1>1. OnlyThread(t) /\ at[t] \notin Closing /\ at'[t] \notin Closing
  BY DEF NameDone, Goto, OnlyThread, Closing
<1>2. SameMembers
  BY DEF NameDone, SameMembers, sessionVars, queueVars, guiVars
<1>3. StageMoves
  BY DEF NameDone, StageMoves, sessionVars, queueVars, guiVars
<1>4. mIsClosed' = mIsClosed /\ missed' = missed
  BY DEF NameDone, sessionVars, queueVars, guiVars
<1>5. \A d \in Session : Fresh(d) <=> Fresh(d)'
  BY <1>3, FreshStays
<1>6. InStep(t)'
  BY <1>5 DEF NameDone, Goto, InStep, Closing, sessionVars, queueVars, guiVars
<1>8. FreshUntouched'
  BY <1>3, <1>4, QueuesStep DEF NameDone, sessionVars, queueVars, guiVars
<1> QED
  BY <1>1, <1>2, <1>3, <1>4, <1>6, <1>8, QuietStep DEF Quiet

LEMMA RespondInv ==
    ASSUME IInv, TypeOK', NEW t \in Thread, Respond(t)
    PROVE  IInv'
<1> USE PortIsThread DEF IInv, TypeOK, ThreadOK
<1>1. OnlyThread(t) /\ at[t] \notin Closing /\ at'[t] \notin Closing
  BY DEF Respond, Return, Goto, OnlyThread, Closing
<1>2. SameMembers
  BY DEF Respond, SameMembers, sessionVars, queueVars, guiVars
<1>3. StageMoves
  BY DEF Respond, StageMoves, sessionVars, queueVars, guiVars, SessionOK, InStep, Fresh, Wired
<1>4. mIsClosed' = mIsClosed /\ missed' = missed
  BY DEF Respond, sessionVars, queueVars, guiVars
<1>5. \A d \in Session : ~Fresh(d) => ~Fresh(d)'
  BY <1>3, FreshStays
<1>6. InStep(t)'
  BY <1>5 DEF Respond, Return, Goto, InStep, Closing, sessionVars, queueVars, guiVars
<1>7. ~Fresh(cur[t])
  BY DEF Respond, InStep
<1>8. FreshUntouched'
  BY <1>3, <1>4, <1>7, QueuesStep DEF Respond, QueueOK, sessionVars
<1> QED
  BY <1>1, <1>2, <1>3, <1>4, <1>6, <1>8, QuietStep DEF Quiet

LEMMA SendOneInv ==
    ASSUME IInv, TypeOK', NEW t \in Thread, NEW d \in Session, SendOne(t, d)
    PROVE  IInv'
<1> USE PortIsThread DEF IInv, TypeOK, ThreadOK
<1>1. OnlyThread(t) /\ at[t] \notin Closing /\ at'[t] \notin Closing
  BY DEF SendOne, OnlyThread, Closing
<1>2. SameMembers
  BY DEF SendOne, SameMembers, sessionVars, queueVars, guiVars
<1>3. StageMoves
  BY DEF SendOne, StageMoves, sessionVars, queueVars, guiVars
<1>4. mIsClosed' = mIsClosed /\ missed' = missed
  BY DEF SendOne, sessionVars, queueVars, guiVars
<1>5. \A e \in Session : Fresh(e) <=> Fresh(e)'
  BY <1>3, FreshStays
<1>6. InStep(t)'
  BY <1>5 DEF SendOne, InStep, Closing, sessionVars, queueVars, guiVars
<1>7. ~Fresh(d)
  BY DEF SendOne, InStep
<1>8. FreshUntouched'
  BY <1>3, <1>4, <1>7, QueuesStep DEF SendOne, QueueOK, sessionVars
<1> QED
  BY <1>1, <1>2, <1>3, <1>4, <1>6, <1>8, QuietStep DEF Quiet

LEMMA NameOneInv ==
    ASSUME IInv, TypeOK', NEW t \in Thread, NEW u \in ids[t], NameOne(t, u)
    PROVE  IInv'
<1> USE PortIsThread DEF IInv, TypeOK, ThreadOK
<1>1. OnlyThread(t) /\ at[t] \notin Closing /\ at'[t] \notin Closing
  BY DEF NameOne, OnlyThread, Closing
<1>2. SameMembers
  BY DEF NameOne, SameMembers, sessionVars, queueVars, guiVars
<1>3. StageMoves
  BY DEF NameOne, StageMoves, sessionVars, queueVars, guiVars
<1>4. mIsClosed' = mIsClosed /\ missed' = missed
  BY DEF NameOne, sessionVars, queueVars, guiVars
<1>5. \A d \in Session : Fresh(d) <=> Fresh(d)'
  BY <1>3, FreshStays
<1>6. InStep(t)'
  BY <1>5 DEF NameOne, InStep, Closing, sessionVars, queueVars, guiVars
<1>8. FreshUntouched'
  BY <1>3, <1>4, QueuesStep DEF NameOne, sessionVars, queueVars, guiVars
<1> QED
  BY <1>1, <1>2, <1>3, <1>4, <1>6, <1>8, QuietStep DEF Quiet

LEMMA EndReadInv ==
    ASSUME IInv, TypeOK', NEW t \in Port, NEW c \in Session, EndRead(t, c)
    PROVE  IInv'
<1> USE PortIsThread DEF IInv, TypeOK, ThreadOK
<1>1. OnlyThread(t) /\ at[t] \notin Closing /\ at'[t] \notin Closing
  BY DEF EndRead, Serves, Begin, Goto, OnlyThread, Closing
<1>2. SameMembers
  BY DEF EndRead, SameMembers, sessionVars, queueVars, guiVars
<1>3. StageMoves
  BY DEF EndRead, StageMoves, sessionVars, queueVars, guiVars, SessionOK, InStep, Fresh, Wired, Serves, Begin
<1>4. mIsClosed' = mIsClosed /\ missed' = missed
  BY DEF EndRead, sessionVars, queueVars, guiVars
<1>5. \A d \in Session : ~Fresh(d) => ~Fresh(d)'
  BY <1>3, FreshStays
<1>6. InStep(t)'
  BY <1>5 DEF EndRead, Serves, Begin, Goto, InStep, Closing, Fresh, sessionVars, queueVars, guiVars
<1>8. FreshUntouched'
  BY <1>3, <1>4, QueuesStep DEF EndRead, sessionVars, queueVars, guiVars
<1> QED
  BY <1>1, <1>2, <1>3, <1>4, <1>6, <1>8, QuietStep DEF Quiet

LEMMA RunPostedCloseInv ==
    ASSUME IInv, TypeOK', NEW t \in Port, NEW c \in Session, RunPostedClose(t, c)
    PROVE  IInv'
<1> USE PortIsThread DEF IInv, TypeOK, ThreadOK
<1>1. OnlyThread(t) /\ at[t] \notin Closing /\ at'[t] \notin Closing
  BY DEF RunPostedClose, Serves, Begin, Goto, OnlyThread, Closing
<1>2. SameMembers
  BY DEF RunPostedClose, SameMembers, sessionVars, queueVars, guiVars
<1>3. StageMoves
  BY DEF RunPostedClose, StageMoves, sessionVars, queueVars, guiVars
<1>4. mIsClosed' = mIsClosed /\ missed' = missed
  BY DEF RunPostedClose, sessionVars, queueVars, guiVars
<1>5. \A d \in Session : Fresh(d) <=> Fresh(d)'
  BY <1>3, FreshStays
<1>6. InStep(t)'
  BY <1>5 DEF RunPostedClose, Serves, Begin, Goto, InStep, Closing, FreshUntouched, sessionVars, queueVars, guiVars
<1>8. FreshUntouched'
  BY <1>3, <1>4, QueuesStep DEF RunPostedClose, sessionVars, queueVars, guiVars
<1> QED
  BY <1>1, <1>2, <1>3, <1>4, <1>6, <1>8, QuietStep DEF Quiet

LEMMA LoginInv ==
    ASSUME IInv, TypeOK', NEW t \in Port, NEW c \in Session, NEW name \in Name, Login(t, c, name)
    PROVE  IInv'
<1> USE PortIsThread DEF IInv, TypeOK, ThreadOK
<1>1. OnlyThread(t) /\ at[t] \notin Closing /\ at'[t] \notin Closing
  BY DEF Login, Receive, Serves, Begin, Goto, OnlyThread, Closing
<1>2. SameMembers
  <2>1. mUid[c] \in Nat /\ name \in Names
    BY DEF SessionOK, Names
  <2>2. /\ mSessions' = SetName(mSessions, mUid[c], name)
        /\ mNextUid' = mNextUid /\ mUid' = mUid
    BY DEF Login
  <2>3. /\ DOMAIN mSessions' = DOMAIN mSessions
        /\ \A u \in DOMAIN mSessions : mSessions'[u].session = mSessions[u].session
    BY <2>1, <2>2, SetNameType DEF RegistryOK
  <2> QED
    BY <2>2, <2>3 DEF SameMembers
<1>3. StageMoves
  BY DEF Login, Receive, StageMoves, sessionVars, queueVars, guiVars
<1>4. mIsClosed' = mIsClosed /\ missed' = missed
  BY DEF Login, sessionVars, queueVars, guiVars
<1>5. \A d \in Session : Fresh(d) <=> Fresh(d)'
  BY <1>3, FreshStays
<1>6. InStep(t)'
  BY <1>5 DEF Login, Receive, Serves, Begin, Goto, InStep, Closing, Fresh, sessionVars, queueVars, guiVars
<1>8. FreshUntouched'
  BY <1>3, <1>4, QueuesStep DEF Login, sessionVars, queueVars, guiVars
<1> QED
  BY <1>1, <1>2, <1>3, <1>4, <1>6, <1>8, QuietStep DEF Quiet

LEMMA ClientListInv ==
    ASSUME IInv, TypeOK', NEW t \in Port, NEW c \in Session, ClientList(t, c)
    PROVE  IInv'
<1> USE PortIsThread DEF IInv, TypeOK, ThreadOK
<1>1. OnlyThread(t) /\ at[t] \notin Closing /\ at'[t] \notin Closing
  BY DEF ClientList, Receive, Serves, Begin, Goto, OnlyThread, Closing
<1>2. SameMembers
  BY DEF ClientList, Receive, SameMembers, sessionVars, queueVars, guiVars
<1>3. StageMoves
  BY DEF ClientList, Receive, StageMoves, sessionVars, queueVars, guiVars
<1>4. mIsClosed' = mIsClosed /\ missed' = missed
  BY DEF ClientList, sessionVars, queueVars, guiVars
<1>5. \A d \in Session : Fresh(d) <=> Fresh(d)'
  BY <1>3, FreshStays
<1>6. InStep(t)'
  BY <1>5 DEF ClientList, Receive, Serves, Begin, Goto, InStep, Closing, Fresh, sessionVars, queueVars, guiVars
<1>8. FreshUntouched'
  BY <1>3, <1>4, QueuesStep DEF ClientList, sessionVars, queueVars, guiVars
<1> QED
  BY <1>1, <1>2, <1>3, <1>4, <1>6, <1>8, QuietStep DEF Quiet

LEMMA SendPublicInv ==
    ASSUME IInv, TypeOK', NEW t \in Port, NEW c \in Session, SendPublic(t, c)
    PROVE  IInv'
<1> USE PortIsThread DEF IInv, TypeOK, ThreadOK
<1>1. OnlyThread(t) /\ at[t] \notin Closing /\ at'[t] \notin Closing
  BY DEF SendPublic, Receive, Serves, Begin, Goto, OnlyThread, Closing
<1>2. SameMembers
  BY DEF SendPublic, Receive, SameMembers, sessionVars, queueVars, guiVars
<1>3. StageMoves
  BY DEF SendPublic, Receive, StageMoves, sessionVars, queueVars, guiVars
<1>4. mIsClosed' = mIsClosed /\ missed' = missed
  BY DEF SendPublic, sessionVars, queueVars, guiVars
<1>5. \A d \in Session : Fresh(d) <=> Fresh(d)'
  BY <1>3, FreshStays
<1>6. InStep(t)'
  BY <1>5 DEF SendPublic, Receive, Serves, Begin, Goto, InStep, Closing, Fresh, sessionVars, queueVars, guiVars
<1>8. FreshUntouched'
  BY <1>3, <1>4, QueuesStep DEF SendPublic, sessionVars, queueVars, guiVars
<1> QED
  BY <1>1, <1>2, <1>3, <1>4, <1>6, <1>8, QuietStep DEF Quiet

LEMMA SendPrivateInv ==
    ASSUME IInv, TypeOK', NEW t \in Port, NEW c \in Session, NEW to \in 1 .. mNextUid, SendPrivate(t, c, to)
    PROVE  IInv'
<1> USE PortIsThread DEF IInv, TypeOK, ThreadOK
<1>1. OnlyThread(t) /\ at[t] \notin Closing /\ at'[t] \notin Closing
  BY DEF SendPrivate, Receive, Serves, Begin, Goto, OnlyThread, Closing
<1>2. SameMembers
  BY DEF SendPrivate, Receive, SameMembers, sessionVars, queueVars, guiVars
<1>3. StageMoves
  BY DEF SendPrivate, Receive, StageMoves, sessionVars, queueVars, guiVars
<1>4. mIsClosed' = mIsClosed /\ missed' = missed
  BY DEF SendPrivate, sessionVars, queueVars, guiVars
<1>5. \A d \in Session : Fresh(d) <=> Fresh(d)'
  BY <1>3, FreshStays
<1>6. InStep(t)'
  BY <1>5 DEF SendPrivate, Receive, Serves, Begin, Goto, InStep, Closing, Fresh, sessionVars, queueVars, guiVars
<1>8. FreshUntouched'
  BY <1>3, <1>4, QueuesStep DEF SendPrivate, sessionVars, queueVars, guiVars
<1> QED
  BY <1>1, <1>2, <1>3, <1>4, <1>6, <1>8, QuietStep DEF Quiet

LEMMA PingInv ==
    ASSUME IInv, TypeOK', NEW t \in Port, NEW c \in Session, Ping(t, c)
    PROVE  IInv'
<1> USE PortIsThread DEF IInv, TypeOK, ThreadOK
<1>1. OnlyThread(t) /\ at[t] \notin Closing /\ at'[t] \notin Closing
  BY DEF Ping, Receive, Serves, Begin, Goto, OnlyThread, Closing
<1>2. SameMembers
  BY DEF Ping, Receive, SameMembers, sessionVars, queueVars, guiVars
<1>3. StageMoves
  BY DEF Ping, Receive, StageMoves, sessionVars, queueVars, guiVars
<1>4. mIsClosed' = mIsClosed /\ missed' = missed
  BY DEF Ping, sessionVars, queueVars, guiVars
<1>5. \A d \in Session : Fresh(d) <=> Fresh(d)'
  BY <1>3, FreshStays
<1>6. InStep(t)'
  BY <1>5 DEF Ping, Receive, Serves, Begin, Goto, InStep, Closing, Fresh, sessionVars, queueVars, guiVars
<1>8. FreshUntouched'
  BY <1>3, <1>4, QueuesStep DEF Ping, sessionVars, queueVars, guiVars
<1> QED
  BY <1>1, <1>2, <1>3, <1>4, <1>6, <1>8, QuietStep DEF Quiet

LEMMA NoticeInv ==
    ASSUME IInv, TypeOK', Notice
    PROVE  IInv'
<1> USE PortIsThread DEF IInv, TypeOK, ThreadOK
<1>g. Gui \in Thread
  BY DEF Thread
<1> USE <1>g
<1>1. OnlyThread(Gui) /\ at[Gui] \notin Closing /\ at'[Gui] \notin Closing
  BY DEF Notice, Goto, OnlyThread, Closing
<1>2. SameMembers
  BY DEF Notice, SameMembers, sessionVars, queueVars, guiVars
<1>3. StageMoves
  BY DEF Notice, StageMoves, sessionVars, queueVars, guiVars
<1>4. mIsClosed' = mIsClosed /\ missed' = missed
  BY DEF Notice, sessionVars, queueVars, guiVars
<1>5. \A d \in Session : Fresh(d) <=> Fresh(d)'
  BY <1>3, FreshStays
<1>6. InStep(Gui)'
  BY <1>5, MsgType DEF Notice, Goto, InStep, Closing, Msg, sessionVars, queueVars, guiVars
<1>8. FreshUntouched'
  BY <1>3, <1>4, QueuesStep DEF Notice, sessionVars, queueVars, guiVars
<1> QED
  BY <1>1, <1>2, <1>3, <1>4, <1>6, <1>8, QuietStep DEF Quiet

LEMMA KickInv ==
    ASSUME IInv, TypeOK', NEW u \in DOMAIN mSessions, Kick(u)
    PROVE  IInv'
<1> USE PortIsThread DEF IInv, TypeOK, ThreadOK
<1>g. Gui \in Thread
  BY DEF Thread
<1> USE <1>g
<1>k. mSessions[u].session \in Session /\ ~Fresh(mSessions[u].session)
  BY DEF RegistryOK, SessionInfo, UidsDrawn
<1> USE <1>k
<1>1. OnlyThread(Gui) /\ at[Gui] \notin Closing /\ at'[Gui] \notin Closing
  BY DEF Kick, Begin, Goto, OnlyThread, Closing
<1>2. SameMembers
  BY DEF Kick, SameMembers, sessionVars, queueVars, guiVars
<1>3. StageMoves
  BY DEF Kick, StageMoves, sessionVars, queueVars, guiVars
<1>4. mIsClosed' = mIsClosed /\ missed' = missed
  BY DEF Kick, sessionVars, queueVars, guiVars
<1>5. \A d \in Session : Fresh(d) <=> Fresh(d)'
  BY <1>3, FreshStays
<1>6. InStep(Gui)'
  BY <1>5 DEF Kick, Begin, Goto, InStep, Closing, sessionVars, queueVars, guiVars
<1>8. FreshUntouched'
  BY <1>3, <1>4, QueuesStep DEF Kick, sessionVars, queueVars, guiVars
<1> QED
  BY <1>1, <1>2, <1>3, <1>4, <1>6, <1>8, QuietStep DEF Quiet

\* A step that moves no thread and registers or closes nobody.
LEMMA StillStep ==
    ASSUME IInv, TypeOK', FreshUntouched',
           UNCHANGED <<mNextUid, mSessions, mUid, stage, mIsClosed, missed, threadVars>>
    PROVE  IInv'
<1> USE DEF IInv, threadVars
<1>1. UidsDistinct' /\ UidsDrawn'
  BY DEF UidsDistinct, UidsDrawn, Fresh
<1>2. \A t \in Thread : InStep(t)'
  BY DEF InStep, Fresh
<1>3. SingleCloser' /\ ClosedIsForgotten'
  BY DEF SingleCloser, ClosedIsForgotten, Closers, Registered
<1> QED
  BY <1>1, <1>2, <1>3

LEMMA WriteInv ==
    ASSUME IInv, TypeOK', NEW t \in Port, NEW c \in Session, Write(t, c)
    PROVE  IInv'
<1>1. ~Fresh(c)
  BY DEF IInv, FreshUntouched, Write
<1>2. FreshUntouched'
  BY <1>1 DEF IInv, FreshUntouched, Write, Fresh, TypeOK, QueueOK
<1> QED
  BY <1>2, StillStep DEF Write, guiVars

LEMMA LoseConnectionInv ==
    ASSUME IInv, TypeOK', NEW c \in Session, LoseConnection(c)
    PROVE  IInv'
<1>1. FreshUntouched'
  BY DEF IInv, FreshUntouched, LoseConnection, Fresh, queueVars
<1> QED
  BY <1>1, StillStep DEF LoseConnection

LEMMA StutterInv ==
    ASSUME IInv, UNCHANGED vars
    PROVE  IInv'
<1> USE DEF vars, sessionVars, queueVars, threadVars, guiVars
<1>1. FreshUntouched'
  BY DEF IInv, FreshUntouched, Fresh
<1>2. TypeOK'
  BY DEF IInv, TypeOK, RegistryOK, SessionOK, QueueOK, ThreadOK, GuiOK
<1> QED
  BY <1>1, <1>2, StillStep

\* Accept draws a uid nobody has.
LEMMA AcceptInv ==
    ASSUME IInv, TypeOK', NEW t \in Port, NEW c \in Session, Accept(t, c)
    PROVE  IInv'
<1> USE PortIsThread DEF IInv, TypeOK, ThreadOK, SessionOK
<1>1. /\ at[t] = "idle" /\ at'[t] = "adding" /\ cur'[t] = c
      /\ stage[c] = "none" /\ t = PortOf[c]
  BY DEF Accept, Serves, Begin, Goto
<1>2. OnlyThread(t) /\ todo' = todo
  BY DEF Accept, Begin, Goto, OnlyThread
<1>3. /\ stage'[c] = "accepted" /\ mUid'[c] = mNextUid
      /\ \A d \in Session \ {c} : stage'[d] = stage[d] /\ mUid'[d] = mUid[d]
      /\ mNextUid' = mNextUid + 1
  BY DEF Accept, DrawUid
<1>4. mSessions' = mSessions /\ mIsClosed' = mIsClosed /\ missed' = missed
  BY DEF Accept
<1>5. \A d \in Session : Fresh(d) <=> Fresh(d)'
  BY <1>1, <1>3 DEF Fresh
<1>6. \A u \in DOMAIN mSessions : mSessions[u].session \in Session \ {c}
  BY <1>1 DEF UidsDrawn, Fresh, RegistryOK, SessionInfo
<1>7. UidsDistinct'
  <2>1. \A u \in DOMAIN mSessions' : mUid'[mSessions'[u].session] = u
    BY <1>3, <1>4, <1>6 DEF UidsDistinct
  <2>2. \A d \in Session \ {c} : stage[d] # "none" => mUid'[d] # mNextUid
    BY <1>3 DEF UidsDrawn, RegistryOK
  <2>3. ASSUME NEW d \in Session, NEW e \in Session,
               stage'[d] # "none", stage'[e] # "none", mUid'[d] = mUid'[e]
        PROVE  d = e
    BY <1>3, <2>2, <2>3 DEF UidsDistinct
  <2> QED
    BY <2>1, <2>3 DEF UidsDistinct
<1>8. UidsDrawn'
  <2>1. ASSUME NEW d \in Session, stage'[d] # "none" PROVE mUid'[d] < mNextUid'
    <3>1. mNextUid \in Nat
      BY DEF RegistryOK
    <3>2. CASE d = c
      BY <1>3, <3>1, <3>2
    <3>3. CASE d # c
      <4>1. mUid'[d] < mNextUid /\ mUid'[d] \in Nat
        BY <1>3, <2>1, <3>3 DEF UidsDrawn
      <4> QED
        BY <1>3, <3>1, <4>1
    <3> QED
      BY <3>2, <3>3
  <2>2. \A u \in DOMAIN mSessions : ~(Fresh(mSessions[u].session)')
    BY <1>4, <1>5, <1>6 DEF UidsDrawn
  <2> QED
    BY <1>4, <2>1, <2>2 DEF UidsDrawn, Fresh
<1>9. FreshUntouched'
  BY <1>4, <1>5 DEF FreshUntouched, Accept, queueVars
<1>10. ASSUME NEW s \in Thread PROVE InStep(s)'
  <2>1. CASE s = t
    BY <1>1, <1>2, <1>3, <1>5, <2>1 DEF InStep, Closing
  <2>2. CASE s # t
    <3>1. at[s] = "adding" => cur[s] # c
      BY <1>1 DEF InStep
    <3> QED
      BY <1>2, <1>3, <1>4, <1>5, <2>2, <3>1, OtherThread DEF OnlyThread
  <2> QED
    BY <2>1, <2>2
<1>11. \A d \in Session : Closers(d)' = Closers(d)
  BY <1>1, <1>2 DEF Closers, OnlyThread, Closing
<1>12. Registered' = Registered /\ Registered \subseteq Session
  BY <1>4, AllSessionsType DEF Registered, RegistryOK
<1>13. SingleCloser'
  BY <1>11 DEF SingleCloser
<1>14. ClosedIsForgotten'
  BY <1>4, <1>11, <1>12 DEF ClosedIsForgotten
<1> QED
  BY <1>7, <1>8, <1>9, <1>10, <1>13, <1>14

\* AddSession files a fresh session under its own uid.
LEMMA AddSessionInv ==
    ASSUME IInv, TypeOK', NEW t \in Thread, AddSession(t)
    PROVE  IInv'
<1> USE DEF IInv, TypeOK, ThreadOK, SessionOK
<1> DEFINE c == cur[t]
           u == mUid[c]
<1>1. /\ at[t] = "adding" /\ at'[t] = "wiring" /\ cur' = cur
      /\ c \in Session /\ u \in Nat
      /\ stage[c] = "accepted" /\ t = PortOf[c]
  BY DEF AddSession, Goto, InStep
<1>2. OnlyThread(t) /\ todo' = todo
  BY DEF AddSession, Goto, OnlyThread
<1>3. /\ stage'[c] = "added"
      /\ \A d \in Session \ {c} : stage'[d] = stage[d]
      /\ UNCHANGED <<mUid, mNextUid, mIsClosed, missed>>
  BY <1>1 DEF AddSession
<1>4. \A d \in Session : ~Fresh(d) => ~(Fresh(d)')
  BY <1>1, <1>3 DEF Fresh
<1>5. ~(Fresh(c)')
  BY <1>1, <1>3 DEF Fresh
<1>6. /\ DOMAIN mSessions' = DOMAIN mSessions \cup {u}
      /\ mSessions'[u].session = c
      /\ \A v \in DOMAIN mSessions \ {u} : mSessions'[v] = mSessions[v]
  <2>1. mSessions' = AddTo(mSessions, u, c)
    BY DEF AddSession
  <2>2. /\ DOMAIN AddTo(mSessions, u, c) = DOMAIN mSessions \cup {u}
        /\ AddTo(mSessions, u, c)[u].session = c
        /\ \A v \in DOMAIN mSessions \ {u} : AddTo(mSessions, u, c)[v] = mSessions[v]
    BY <1>1 DEF AddTo
  <2> QED
    BY <2>1, <2>2
<1>7. u \notin DOMAIN mSessions
  <2>1. \A v \in DOMAIN mSessions : mSessions[v].session \in Session \ {c}
    BY <1>1 DEF UidsDrawn, Fresh, RegistryOK, SessionInfo
  <2>2. ASSUME u \in DOMAIN mSessions PROVE FALSE
    <3> DEFINE d == mSessions[u].session
    <3>1. d \in Session \ {c} /\ mUid[d] = mUid[c]
      BY <2>1, <2>2 DEF UidsDistinct
    <3>2. stage[d] # "none"
      BY <2>2 DEF UidsDrawn, Fresh
    <3> QED
      BY <1>1, <3>1, <3>2 DEF UidsDistinct
  <2> QED
    BY <2>2
<1>8. UidsDistinct'
  <2>1. \A d, e \in Session :
            stage'[d] # "none" /\ stage'[e] # "none" /\ mUid'[d] = mUid'[e] => d = e
    BY <1>1, <1>3 DEF UidsDistinct
  <2>2. ASSUME NEW v \in DOMAIN mSessions' PROVE mUid'[mSessions'[v].session] = v
    <3>1. CASE v = u
      BY <1>3, <1>6, <3>1
    <3>2. CASE v # u
      BY <1>3, <1>6, <3>2 DEF UidsDistinct
    <3> QED
      BY <3>1, <3>2
  <2> QED
    BY <2>1, <2>2 DEF UidsDistinct
<1>9. UidsDrawn'
  <2>1. \A v \in DOMAIN mSessions : mSessions[v].session \in Session
    BY DEF RegistryOK, SessionInfo
  <2>2. ASSUME NEW v \in DOMAIN mSessions'
        PROVE  stage'[mSessions'[v].session] \notin {"none", "accepted"}
    <3>1. CASE v = u
      BY <1>3, <1>6, <3>1
    <3>2. CASE v # u
      <4>1. /\ v \in DOMAIN mSessions /\ mSessions'[v] = mSessions[v]
            /\ ~Fresh(mSessions[v].session)
        BY <1>6, <3>2 DEF UidsDrawn
      <4> QED
        BY <1>3, <2>1, <4>1 DEF Fresh
    <3> QED
      BY <3>1, <3>2
  <2>3. \A d \in Session : stage'[d] # "none" => mUid'[d] < mNextUid'
    BY <1>1, <1>3 DEF UidsDrawn
  <2> QED
    BY <2>2, <2>3 DEF UidsDrawn, Fresh
<1>10. FreshUntouched'
  BY <1>3, <1>5 DEF FreshUntouched, AddSession, queueVars, Fresh
<1>11. ASSUME NEW s \in Thread PROVE InStep(s)'
  <2>1. CASE s = t
    BY <1>1, <1>2, <1>4, <1>5, <2>1 DEF InStep, Closing
  <2>2. CASE s # t
    <3>1. at[s] = "adding" => cur[s] # c
      BY <1>1, <2>2 DEF InStep
    <3>2. at[s] = "adding" => stage'[cur[s]] = stage[cur[s]]
      BY <1>3, <3>1
    <3> QED
      BY <1>2, <1>3, <1>4, <2>2, <3>2, OtherThread DEF OnlyThread
  <2> QED
    BY <2>1, <2>2
<1>12. \A d \in Session : Closers(d)' = Closers(d)
  BY <1>1, <1>2 DEF Closers, OnlyThread, Closing
<1>13. Registered' = Registered \cup {c}
  <2>1. \A v \in DOMAIN mSessions : v # u /\ mSessions'[v] = mSessions[v]
    BY <1>6, <1>7
  <2>2. Registered \cup {c} \subseteq Registered'
    BY <1>6, <2>1 DEF Registered, AllSessions
  <2>3. Registered' \subseteq Registered \cup {c}
    BY <1>6, <2>1 DEF Registered, AllSessions
  <2> QED
    BY <2>2, <2>3
<1>14. Registered \subseteq Session
  BY AllSessionsType DEF Registered, RegistryOK
<1>15. c \notin mIsClosed
  BY <1>1 DEF FreshUntouched, Fresh
<1>16. SingleCloser' /\ ClosedIsForgotten'
  BY <1>1, <1>3, <1>12, <1>13, <1>14, <1>15 DEF SingleCloser, ClosedIsForgotten
<1> QED
  BY <1>8, <1>9, <1>10, <1>11, <1>16

\* The steps of close(): the registry and every session's stage stand still,
\* except for the entry Remove takes out.
LEMMA CloseStep ==
    ASSUME IInv, TypeOK', NEW t \in Thread, OnlyThread(t),
           UNCHANGED <<mNextUid, mUid, stage, outbox, closePosted>>,
           mIsClosed \subseteq mIsClosed',
           \A d \in Session : Fresh(d) /\ d \in mIsClosed' => d \in mIsClosed,
           DOMAIN mSessions' \subseteq DOMAIN mSessions,
           \A u \in DOMAIN mSessions' : mSessions'[u] = mSessions[u],
           InStep(t)', SingleCloser', ClosedIsForgotten'
    PROVE  IInv'
<1> USE DEF IInv, TypeOK, ThreadOK
<1>1. \A d \in Session : Fresh(d) <=> Fresh(d)'
  BY DEF Fresh
<1>2. UidsDistinct'
  BY DEF UidsDistinct
<1>3. UidsDrawn'
  BY DEF UidsDrawn, Fresh
<1>4. FreshUntouched'
  BY <1>1 DEF FreshUntouched
<1>5. ASSUME NEW s \in Thread PROVE InStep(s)'
  <2>1. CASE s = t
    BY <2>1
  <2>2. CASE s # t
    BY <1>1, <2>2, OtherThread DEF OnlyThread
  <2> QED
    BY <2>1, <2>2
<1> QED
  BY <1>2, <1>3, <1>4, <1>5

LEMMA MarkClosedInv ==
    ASSUME IInv, TypeOK', NEW t \in Thread, MarkClosed(t)
    PROVE  IInv'
<1> USE DEF IInv, TypeOK, ThreadOK
<1> DEFINE c == cur[t]
<1>1. /\ at[t] = "close" /\ c \in Session /\ ~Fresh(c)
      /\ mIsClosed' = mIsClosed \cup {c} /\ missed' = missed
      /\ todo' = todo
  BY DEF MarkClosed, InStep
<1>2. OnlyThread(t)
  BY DEF MarkClosed, Return, Goto, OnlyThread
<1>3. /\ mSessions' = mSessions
      /\ UNCHANGED <<mNextUid, mUid, stage, outbox, closePosted>>
  BY DEF MarkClosed, queueVars
<1>4. \/ c \in mIsClosed /\ at'[t] = "idle"
      \/ c \notin mIsClosed /\ at'[t] = "shutdown" /\ cur'[t] = c
  BY DEF MarkClosed, Return, Goto
<1>5. InStep(t)'
  BY <1>1, <1>3, <1>4 DEF InStep, Closing, Fresh
<1>6. \A d \in Session : Closers(d) \subseteq Closers(d)'
  BY <1>1, <1>2 DEF Closers, OnlyThread, Closing
<1>7. \A d \in Session : Closers(d)' \subseteq Closers(d) \cup {t}
  BY <1>2 DEF Closers, OnlyThread
<1>8. CASE c \in mIsClosed
  <2>1. \A d \in Session : Closers(d)' = Closers(d)
    BY <1>1, <1>2, <1>4, <1>8 DEF Closers, OnlyThread, Closing
  <2>2. SingleCloser'
    BY <2>1 DEF SingleCloser
  <2>3. Registered' = Registered /\ Registered \subseteq Session
    BY <1>3, AllSessionsType DEF Registered, RegistryOK
  <2>4. mIsClosed' = mIsClosed
    BY <1>1, <1>8
  <2>5. ClosedIsForgotten'
    BY <1>1, <2>1, <2>3, <2>4 DEF ClosedIsForgotten
  <2> QED
    BY <1>1, <1>2, <1>3, <1>5, <2>2, <2>5, CloseStep
<1>9. CASE c \notin mIsClosed
  <2>1. Closers(c) = {}
    BY <1>9 DEF Closers, InStep
  <2>2. Closers(c)' = {t}
    BY <1>2, <1>4, <1>7, <1>9, <2>1 DEF Closers, Closing
  <2>3. \A d \in Session \ {c} : Closers(d)' = Closers(d)
    BY <1>1, <1>2, <1>4, <1>9 DEF Closers, OnlyThread, Closing
  <2>4. SingleCloser'
    <3> SUFFICES ASSUME NEW d \in Session, NEW t1 \in Closers(d)', NEW t2 \in Closers(d)'
                 PROVE  t1 = t2
      BY DEF SingleCloser
    <3>1. t1 \in Thread /\ t2 \in Thread
      BY DEF Closers
    <3>2. CASE d = c
      BY <1>2, <1>4, <1>9, <2>1, <3>1, <3>2 DEF Closers, OnlyThread, Closing
    <3>3. CASE d # c
      BY <2>3, <3>1, <3>3 DEF SingleCloser
    <3> QED
      BY <3>2, <3>3
  <2>5. Registered' = Registered /\ Registered \subseteq Session
    BY <1>3, AllSessionsType DEF Registered, RegistryOK
  <2>6. ClosedIsForgotten'
    <3> SUFFICES ASSUME NEW d \in Registered', d \in mIsClosed'
                 PROVE  d \in missed' \/ Closers(d)' # {}
      BY DEF ClosedIsForgotten
    <3>1. CASE d = c
      BY <1>4, <1>9, <3>1 DEF Closers, Closing
    <3>2. CASE d # c
      BY <1>1, <2>3, <2>5, <3>2 DEF ClosedIsForgotten
    <3> QED
      BY <3>1, <3>2
  <2> QED
    BY <1>1, <1>2, <1>3, <1>5, <2>4, <2>6, CloseStep
<1> QED
  BY <1>8, <1>9

LEMMA ShutdownInv ==
    ASSUME IInv, TypeOK', NEW t \in Thread, Shutdown(t)
    PROVE  IInv'
<1> USE DEF IInv, TypeOK, ThreadOK
<1>1. OnlyThread(t) /\ at[t] = "shutdown" /\ at'[t] = "notify" /\ UNCHANGED <<cur, todo>>
  BY DEF Shutdown, Goto, OnlyThread
<1>2. /\ UNCHANGED <<mNextUid, mUid, stage, outbox, closePosted>>
      /\ UNCHANGED <<mSessions, mIsClosed, missed>>
  BY DEF Shutdown, queueVars
<1>3. InStep(t)'
  BY <1>1, <1>2 DEF InStep, Closing, Fresh
<1>4. \A d \in Session : Closers(d)' = Closers(d)
  BY <1>1 DEF Closers, OnlyThread, Closing
<1>5. SingleCloser'
  BY <1>4 DEF SingleCloser
<1>6. Registered' = Registered /\ Registered \subseteq Session
  BY <1>2, AllSessionsType DEF Registered, RegistryOK
<1>7. ClosedIsForgotten'
  BY <1>2, <1>4, <1>6 DEF ClosedIsForgotten
<1> QED
  BY <1>1, <1>2, <1>3, <1>5, <1>7, CloseStep

LEMMA NotifyInv ==
    ASSUME IInv, TypeOK', NEW t \in Thread, Notify(t)
    PROVE  IInv'
<1> USE DEF IInv, TypeOK, ThreadOK
<1> DEFINE c == cur[t]
<1>1. OnlyThread(t) /\ at[t] = "notify" /\ c \in Session /\ todo' = todo
  BY DEF Notify, Return, Goto, OnlyThread
<1>2. UNCHANGED <<mNextUid, mUid, stage, outbox, closePosted, mSessions, mIsClosed>>
  BY DEF Notify, sessionVars, queueVars
<1>3. \/ at'[t] = "remove" /\ cur'[t] = c /\ missed' = missed
      \/ at'[t] = "idle" /\ missed' = missed \cup {c}
  BY DEF Notify, Return, Goto
<1>4. InStep(t)'
  BY <1>1, <1>2, <1>3 DEF InStep, Closing, Fresh
<1>5. \A d \in Session : Closers(d)' \subseteq Closers(d)
  BY <1>1, <1>3 DEF Closers, OnlyThread, Closing
<1>6. \A d \in Session \ missed' : Closers(d)' = Closers(d)
  BY <1>1, <1>3 DEF Closers, OnlyThread, Closing
<1>7. SingleCloser'
  BY <1>5 DEF SingleCloser
<1>8. ClosedIsForgotten'
  BY <1>2, <1>3, <1>6, AllSessionsType DEF ClosedIsForgotten, Registered, RegistryOK
<1> QED
  BY <1>1, <1>2, <1>4, <1>7, <1>8, CloseStep

LEMMA RemoveInv ==
    ASSUME IInv, TypeOK', NEW t \in Thread, Remove(t)
    PROVE  IInv'
<1> USE DEF IInv, TypeOK, ThreadOK
<1> DEFINE c == cur[t]
<1>1. OnlyThread(t) /\ at[t] = "remove" /\ at'[t] = "snapshot" /\ c \in Session
  BY DEF Remove, Goto, OnlyThread
<1>2. UNCHANGED <<mNextUid, mUid, stage, outbox, closePosted, mIsClosed, missed, cur, todo>>
  BY DEF Remove, sessionVars, queueVars
<1>3. /\ DOMAIN mSessions' = DOMAIN mSessions \ {mUid[c]}
      /\ \A u \in DOMAIN mSessions' : mSessions'[u] = mSessions[u]
  <2>1. mSessions' = RemoveFrom(mSessions, mUid[c]) /\ mUid[c] \in Nat
    BY <1>1 DEF Remove, SessionOK
  <2>2. /\ DOMAIN RemoveFrom(mSessions, mUid[c]) = DOMAIN mSessions \ {mUid[c]}
        /\ \A u \in DOMAIN mSessions \ {mUid[c]} : RemoveFrom(mSessions, mUid[c])[u] = mSessions[u]
    BY DEF RemoveFrom
  <2> QED
    BY <2>1, <2>2
<1>4. InStep(t)'
  BY <1>1, <1>2 DEF InStep, Closing, Fresh
<1>5. \A d \in Session : Closers(d)' \subseteq Closers(d)
  BY <1>1, <1>2 DEF Closers, OnlyThread, Closing
<1>6. \A d \in Session \ {c} : Closers(d)' = Closers(d)
  BY <1>1, <1>2 DEF Closers, OnlyThread, Closing
<1>7. SingleCloser'
  BY <1>5 DEF SingleCloser
<1>8. Registered \subseteq Session /\ Registered' \subseteq Registered \ {c}
  <2>1. Registered \subseteq Session
    BY AllSessionsType DEF Registered, RegistryOK
  <2>2. ASSUME NEW u \in DOMAIN mSessions' PROVE mSessions'[u].session \in Registered \ {c}
    BY <1>3 DEF Registered, AllSessions, UidsDistinct
  <2>3. ASSUME NEW d \in Registered' PROVE d \in Registered \ {c}
    <3>1. PICK u \in DOMAIN mSessions' : d = mSessions'[u].session
      BY <2>3 DEF Registered, AllSessions
    <3> QED
      BY <2>2, <3>1
  <2>4. Registered' \subseteq Registered \ {c}
    BY <2>3, Zenon
  <2> QED
    BY <2>1, <2>4
<1>9. ClosedIsForgotten'
  BY <1>2, <1>6, <1>8 DEF ClosedIsForgotten
<1> QED
  BY <1>1, <1>2, <1>3, <1>4, <1>7, <1>9, CloseStep

\* Every step keeps the inductive invariant.
LEMMA InvStep == IInv /\ [Next]_vars => IInv'
<1> SUFFICES ASSUME IInv, [Next]_vars PROVE IInv'
  OBVIOUS
<1>t. TypeOK'
  BY TypeStep DEF IInv
<1>u. CASE UNCHANGED vars
  BY <1>u, StutterInv
<1>1. ASSUME NEW t \in Thread, AddSession(t) PROVE IInv'
  BY <1>t, <1>1, AddSessionInv
<1>2. ASSUME NEW t \in Thread, Wire(t) PROVE IInv'
  BY <1>t, <1>2, WireInv
<1>3. ASSUME NEW t \in Thread, Start(t) PROVE IInv'
  BY <1>t, <1>3, StartInv
<1>4. ASSUME NEW t \in Thread, MarkClosed(t) PROVE IInv'
  BY <1>t, <1>4, MarkClosedInv
<1>5. ASSUME NEW t \in Thread, Shutdown(t) PROVE IInv'
  BY <1>t, <1>5, ShutdownInv
<1>6. ASSUME NEW t \in Thread, Notify(t) PROVE IInv'
  BY <1>t, <1>6, NotifyInv
<1>7. ASSUME NEW t \in Thread, Remove(t) PROVE IInv'
  BY <1>t, <1>7, RemoveInv
<1>8. ASSUME NEW t \in Thread, Snapshot(t) PROVE IInv'
  BY <1>t, <1>8, SnapshotInv
<1>9. ASSUME NEW t \in Thread, Lookup(t) PROVE IInv'
  BY <1>t, <1>9, LookupInv
<1>10. ASSUME NEW t \in Thread, SendDone(t) PROVE IInv'
  BY <1>t, <1>10, SendDoneInv
<1>11. ASSUME NEW t \in Thread, NameDone(t) PROVE IInv'
  BY <1>t, <1>11, NameDoneInv
<1>12. ASSUME NEW t \in Thread, Respond(t) PROVE IInv'
  BY <1>t, <1>12, RespondInv
<1>13. ASSUME NEW t \in Thread, NEW d \in Session, SendOne(t, d) PROVE IInv'
  BY <1>t, <1>13, SendOneInv
<1>14. ASSUME NEW t \in Thread, NEW u \in ids[t], NameOne(t, u) PROVE IInv'
  BY <1>t, <1>14, NameOneInv
<1>15. ASSUME NEW t \in Port, NEW c \in Session, Accept(t, c) PROVE IInv'
  BY <1>t, <1>15, AcceptInv
<1>16. ASSUME NEW t \in Port, NEW c \in Session, EndRead(t, c) PROVE IInv'
  BY <1>t, <1>16, EndReadInv
<1>17. ASSUME NEW t \in Port, NEW c \in Session, RunPostedClose(t, c) PROVE IInv'
  BY <1>t, <1>17, RunPostedCloseInv
<1>18. ASSUME NEW t \in Port, NEW c \in Session, Write(t, c) PROVE IInv'
  BY <1>t, <1>18, WriteInv
<1>19. ASSUME NEW t \in Port, NEW c \in Session, NEW name \in Name, Login(t, c, name) PROVE IInv'
  BY <1>t, <1>19, LoginInv
<1>20. ASSUME NEW t \in Port, NEW c \in Session, ClientList(t, c) PROVE IInv'
  BY <1>t, <1>20, ClientListInv
<1>21. ASSUME NEW t \in Port, NEW c \in Session, SendPublic(t, c) PROVE IInv'
  BY <1>t, <1>21, SendPublicInv
<1>22. ASSUME NEW t \in Port, NEW c \in Session, NEW to \in 1 .. mNextUid, SendPrivate(t, c, to) PROVE IInv'
  BY <1>t, <1>22, SendPrivateInv
<1>23. ASSUME NEW t \in Port, NEW c \in Session, Ping(t, c) PROVE IInv'
  BY <1>t, <1>23, PingInv
<1>24. ASSUME NEW c \in Session, LoseConnection(c) PROVE IInv'
  BY <1>t, <1>24, LoseConnectionInv
<1>25. ASSUME Notice PROVE IInv'
  BY <1>t, <1>25, NoticeInv
<1>26. ASSUME NEW u \in DOMAIN mSessions, Kick(u) PROVE IInv'
  BY <1>t, <1>26, KickInv
<1> QED
  BY <1>u, <1>1, <1>2, <1>3, <1>4, <1>5, <1>6, <1>7, <1>8, <1>9, <1>10, <1>11, <1>12,
     <1>13, <1>14, <1>15, <1>16, <1>17, <1>18, <1>19, <1>20, <1>21, <1>22, <1>23,
     <1>24, <1>25, <1>26
  DEF Next, Continue, Dispatch, Request, Dashboard

LEMMA InvInit == Init => IInv
<1> SUFFICES ASSUME Init PROVE IInv
  OBVIOUS
<1> USE DEF Init
<1>1. TypeOK
  BY ServerAssumption, AnySessionType, NoMsgType
  DEF TypeOK, RegistryOK, SessionOK, QueueOK, ThreadOK, GuiOK, ServerAssumption,
      SessionInfo, Stages, Conns, Labels
<1>2. UidsDistinct /\ UidsDrawn
  BY DEF UidsDistinct, UidsDrawn
<1>3. FreshUntouched
  BY DEF FreshUntouched
<1>4. \A t \in Thread : InStep(t)
  BY DEF InStep, Closing
<1>5. SingleCloser /\ ClosedIsForgotten
  BY DEF SingleCloser, ClosedIsForgotten, Closers, Closing
<1> QED
  BY <1>1, <1>2, <1>3, <1>4, <1>5 DEF IInv

\* The inductive invariant holds in every reachable state.
THEOREM InvHolds == Spec => []IInv
BY InvInit, InvStep, PTL DEF Spec

\* Uids are never shared, whatever the io threads accept at the same time.
THEOREM UidsStayDistinct == Spec => []UidsDistinct
<1>1. IInv => UidsDistinct
  BY DEF IInv
<1> QED
  BY <1>1, InvHolds, PTL

\* close() has one effective caller, whatever threads race for it.
THEOREM CloseIsOnce == Spec => []SingleCloser
<1>1. IInv => SingleCloser
  BY DEF IInv
<1> QED
  BY <1>1, InvHolds, PTL

\* A closed session does not stay in the registry, except for the ghosts.
THEOREM ClosedSessionsAreForgotten == Spec => []ClosedIsForgotten
<1>1. IInv => ClosedIsForgotten
  BY DEF IInv
<1> QED
  BY <1>1, InvHolds, PTL

-----------------------------------------------------------------------------
(* Threads at work.                                                        *)

\* What a thread at work knows of its session: a session moves through its stages on
\* its own port's thread, one handler at a time, and only after the socket is closed
\* is a departure announced.
Pushes == {"joined", "public", "private"}
InHandler(t) ==
    \/ at[t] \in {"lookup", "naming", "respond"}
    \/ at[t] \in {"snapshot", "send"} /\ msg[t].ev \notin {"left", "system"}
AtWork(t) ==
    /\ at[t] = "adding" => t = PortOf[cur[t]] /\ stage[cur[t]] = "accepted"
    /\ at[t] = "wiring" => t = PortOf[cur[t]] /\ stage[cur[t]] = "added"
    /\ at[t] = "starting" => t = PortOf[cur[t]] /\ stage[cur[t]] = "wired"
    /\ InHandler(t) => /\ t = PortOf[cur[t]] /\ stage[cur[t]] = "reading"
                       /\ msg[t].uid = mUid[cur[t]]
    /\ at[t] \in {"notify", "remove"} => conn[cur[t]] = "closed"
AllAtWork == \A t \in Thread : AtWork(t)

\* The user u had a session, and its socket is closed.
Sealed(u) == \E c \in Session : stage[c] # "none" /\ mUid[c] = u /\ conn[c] = "closed"

\* Session c has nothing more to push to d: it reads no more, or is in the handler of
\* its last request and has sent to d.
Spent(c, d) ==
    \/ stage[c] = "done"
    \/ /\ at[PortOf[c]] \in {"send", "respond"} /\ cur[PortOf[c]] = c
       /\ msg[PortOf[c]].ev \in Pushes /\ d \notin todo[PortOf[c]]



\* A step of thread t (or of nobody): the other threads stand still, a session's stage
\* is moved by its own port's thread, sessions stay and stay closed, and who is spent
\* stays so.
StageOwned(t) == \A c \in Session : stage'[c] # stage[c] => t = PortOf[c]
SessionsMove ==
    \A c \in Session :
        /\ stage[c] = "none" => stage'[c] \in {"none", "accepted"}
        /\ stage[c] # "none" => /\ stage'[c] # "none" /\ mUid'[c] = mUid[c]
                                /\ conn[c] = "closed" => conn'[c] = "closed"
KeepsSpent(t) ==
    \A c, d \in Session :
        PortOf[c] = t /\ stage[c] # "none" /\ conn[c] = "closed" /\ Spent(c, d) => Spent(c, d)'
Own(t) == OnlyThread(t) /\ StageOwned(t) /\ SessionsMove /\ AtWork(t)' /\ KeepsSpent(t)

LEMMA AtWorkStays ==
    ASSUME IInv, AllAtWork, NEW t \in Thread, Own(t)
    PROVE  AllAtWork'
<1> SUFFICES ASSUME NEW s \in Thread PROVE AtWork(s)'
  BY DEF AllAtWork
<1>1. CASE s = t
  BY <1>1 DEF Own
<1>2. CASE s # t
  <2>1. at'[s] = at[s] /\ cur'[s] = cur[s] /\ msg'[s] = msg[s]
    BY <1>2 DEF Own, OnlyThread
  <2>2. AtWork(s) /\ cur[s] \in Session
    BY DEF AllAtWork, IInv, TypeOK, ThreadOK
  <2>3. stage'[cur[s]] = stage[cur[s]] \/ s # PortOf[cur[s]]
    BY <1>2, <2>2 DEF Own, StageOwned
  <2>4. stage[cur[s]] # "none" =>
            mUid'[cur[s]] = mUid[cur[s]] /\ (conn[cur[s]] = "closed" => conn'[cur[s]] = "closed")
    BY <2>2 DEF Own, SessionsMove
  <2>5. at[s] \in {"notify", "remove"} => stage[cur[s]] # "none"
    BY DEF IInv, InStep, Closing, Fresh
  <2> QED
    BY <2>1, <2>2, <2>3, <2>4, <2>5 DEF AtWork, InHandler
<1> QED
  BY <1>1, <1>2

LEMMA SpentStays ==
    ASSUME IInv, NEW t \in Thread, Own(t), NEW c \in Session, NEW d \in Session,
           stage[c] # "none", conn[c] = "closed", Spent(c, d)
    PROVE  Spent(c, d)'
<1>1. CASE PortOf[c] = t
  BY <1>1 DEF Own, KeepsSpent
<1>2. CASE PortOf[c] # t
  <2>1. PortOf[c] \in Thread \ {t}
    BY <1>2, ServerAssumption DEF Thread
  <2>2. stage'[c] = stage[c]
    BY <1>2 DEF Own, StageOwned
  <2> QED
    BY <2>1, <2>2 DEF Own, OnlyThread, Spent
<1> QED
  BY <1>1, <1>2

LEMMA GuiIsThread == Gui \in Thread
BY DEF Thread

LEMMA AddSessionOwn ==
    ASSUME IInv, AllAtWork, NEW t \in Thread, AddSession(t)
    PROVE  Own(t)
<1> USE PortIsThread, GuiIsThread DEF IInv, TypeOK, ThreadOK, SessionOK
<1>1. OnlyThread(t)
  BY DEF AddSession, Goto, queueVars, guiVars, OnlyThread
<1>2. StageOwned(t)
  BY DEF AddSession, Goto, queueVars, guiVars, StageOwned, AllAtWork, AtWork, InHandler
<1>3. SessionsMove
  BY DEF AddSession, Goto, queueVars, guiVars, SessionsMove, AllAtWork, AtWork, InHandler
<1>4. AtWork(t)'
  BY DEF AddSession, Goto, queueVars, guiVars, AtWork, AllAtWork, InHandler
<1>5. KeepsSpent(t)
  BY DEF AddSession, Goto, queueVars, guiVars, KeepsSpent, Spent, AllAtWork, AtWork
<1> QED
  BY <1>1, <1>2, <1>3, <1>4, <1>5 DEF Own

LEMMA WireOwn ==
    ASSUME IInv, AllAtWork, NEW t \in Thread, Wire(t)
    PROVE  Own(t)
<1> USE PortIsThread, GuiIsThread DEF IInv, TypeOK, ThreadOK, SessionOK
<1>1. OnlyThread(t)
  BY DEF Wire, Goto, queueVars, guiVars, OnlyThread
<1>2. StageOwned(t)
  BY DEF Wire, Goto, queueVars, guiVars, StageOwned, AllAtWork, AtWork, InHandler
<1>3. SessionsMove
  BY DEF Wire, Goto, queueVars, guiVars, SessionsMove, AllAtWork, AtWork, InHandler
<1>4. AtWork(t)'
  BY DEF Wire, Goto, queueVars, guiVars, AtWork, AllAtWork, InHandler
<1>5. KeepsSpent(t)
  BY DEF Wire, Goto, queueVars, guiVars, KeepsSpent, Spent, AllAtWork, AtWork
<1> QED
  BY <1>1, <1>2, <1>3, <1>4, <1>5 DEF Own

LEMMA StartOwn ==
    ASSUME IInv, AllAtWork, NEW t \in Thread, Start(t)
    PROVE  Own(t)
<1> USE PortIsThread, GuiIsThread DEF IInv, TypeOK, ThreadOK, SessionOK
<1>1. OnlyThread(t)
  BY DEF Start, Return, Goto, queueVars, guiVars, OnlyThread
<1>2. StageOwned(t)
  BY DEF Start, Return, Goto, queueVars, guiVars, StageOwned, AllAtWork, AtWork, InHandler
<1>3. SessionsMove
  BY DEF Start, Return, Goto, queueVars, guiVars, SessionsMove, AllAtWork, AtWork, InHandler
<1>4. AtWork(t)'
  BY DEF Start, Return, Goto, queueVars, guiVars, AtWork, AllAtWork, InHandler
<1>5. KeepsSpent(t)
  BY DEF Start, Return, Goto, queueVars, guiVars, KeepsSpent, Spent, AllAtWork, AtWork
<1> QED
  BY <1>1, <1>2, <1>3, <1>4, <1>5 DEF Own

LEMMA MarkClosedOwn ==
    ASSUME IInv, AllAtWork, NEW t \in Thread, MarkClosed(t)
    PROVE  Own(t)
<1> USE PortIsThread, GuiIsThread DEF IInv, TypeOK, ThreadOK, SessionOK
<1>1. OnlyThread(t)
  BY DEF MarkClosed, Return, Goto, queueVars, guiVars, OnlyThread
<1>2. StageOwned(t)
  BY DEF MarkClosed, Return, Goto, queueVars, guiVars, StageOwned, AllAtWork, AtWork, InHandler
<1>3. SessionsMove
  BY DEF MarkClosed, Return, Goto, queueVars, guiVars, SessionsMove
<1>4. AtWork(t)'
  BY DEF MarkClosed, Return, Goto, queueVars, guiVars, AtWork, AllAtWork, InHandler
<1>5. KeepsSpent(t)
  BY DEF MarkClosed, Return, Goto, queueVars, guiVars, KeepsSpent, Spent
<1> QED
  BY <1>1, <1>2, <1>3, <1>4, <1>5 DEF Own

LEMMA ShutdownOwn ==
    ASSUME IInv, AllAtWork, NEW t \in Thread, Shutdown(t)
    PROVE  Own(t)
<1> USE PortIsThread, GuiIsThread DEF IInv, TypeOK, ThreadOK, SessionOK
<1>1. OnlyThread(t)
  BY DEF Shutdown, Goto, queueVars, guiVars, OnlyThread
<1>2. StageOwned(t)
  BY DEF Shutdown, Goto, queueVars, guiVars, StageOwned, AllAtWork, AtWork, InHandler
<1>3. SessionsMove
  BY DEF Shutdown, Goto, queueVars, guiVars, SessionsMove
<1>4. AtWork(t)'
  BY DEF Shutdown, Goto, queueVars, guiVars, AtWork, AllAtWork, InHandler
<1>5. KeepsSpent(t)
  BY DEF Shutdown, Goto, queueVars, guiVars, KeepsSpent, Spent
<1> QED
  BY <1>1, <1>2, <1>3, <1>4, <1>5 DEF Own

LEMMA NotifyOwn ==
    ASSUME IInv, AllAtWork, NEW t \in Thread, Notify(t)
    PROVE  Own(t)
<1> USE PortIsThread, GuiIsThread DEF IInv, TypeOK, ThreadOK, SessionOK
<1>1. OnlyThread(t)
  BY DEF Notify, Return, Goto, sessionVars, queueVars, guiVars, OnlyThread
<1>2. StageOwned(t)
  BY DEF Notify, Return, Goto, sessionVars, queueVars, guiVars, StageOwned, AllAtWork, AtWork, InHandler
<1>3. SessionsMove
  BY DEF Notify, Return, Goto, sessionVars, queueVars, guiVars, SessionsMove
<1>4. AtWork(t)'
  BY DEF Notify, Return, Goto, sessionVars, queueVars, guiVars, AtWork, AllAtWork, InHandler
<1>5. KeepsSpent(t)
  BY DEF Notify, Return, Goto, sessionVars, queueVars, guiVars, KeepsSpent, Spent
<1> QED
  BY <1>1, <1>2, <1>3, <1>4, <1>5 DEF Own

LEMMA RemoveOwn ==
    ASSUME IInv, AllAtWork, NEW t \in Thread, Remove(t)
    PROVE  Own(t)
<1> USE PortIsThread, GuiIsThread DEF IInv, TypeOK, ThreadOK, SessionOK
<1>1. OnlyThread(t)
  BY DEF Remove, Goto, sessionVars, queueVars, guiVars, OnlyThread
<1>2. StageOwned(t)
  BY DEF Remove, Goto, sessionVars, queueVars, guiVars, StageOwned, AllAtWork, AtWork, InHandler
<1>3. SessionsMove
  BY DEF Remove, Goto, sessionVars, queueVars, guiVars, SessionsMove
<1>4. AtWork(t)'
  <2>1. msg'[t].ev = "left" /\ msg'[t].uid = mUid[cur[t]] /\ at'[t] = "snapshot"
    BY DEF Remove, Goto, sessionVars, queueVars, guiVars, Msg
  <2> QED
    BY <2>1 DEF AtWork, InHandler
<1>5. KeepsSpent(t)
  BY DEF Remove, Goto, sessionVars, queueVars, guiVars, KeepsSpent, Spent
<1> QED
  BY <1>1, <1>2, <1>3, <1>4, <1>5 DEF Own

LEMMA SnapshotOwn ==
    ASSUME IInv, AllAtWork, NEW t \in Thread, Snapshot(t)
    PROVE  Own(t)
<1> USE PortIsThread, GuiIsThread DEF IInv, TypeOK, ThreadOK, SessionOK
<1>1. OnlyThread(t)
  BY DEF Snapshot, Goto, sessionVars, queueVars, guiVars, OnlyThread
<1>2. StageOwned(t)
  BY DEF Snapshot, Goto, sessionVars, queueVars, guiVars, StageOwned, AllAtWork, AtWork, InHandler
<1>3. SessionsMove
  BY DEF Snapshot, Goto, sessionVars, queueVars, guiVars, SessionsMove
<1>4. AtWork(t)'
  BY DEF Snapshot, Goto, sessionVars, queueVars, guiVars, AtWork, AllAtWork, InHandler
<1>5. KeepsSpent(t)
  BY DEF Snapshot, Goto, sessionVars, queueVars, guiVars, KeepsSpent, Spent
<1> QED
  BY <1>1, <1>2, <1>3, <1>4, <1>5 DEF Own

LEMMA LookupOwn ==
    ASSUME IInv, AllAtWork, NEW t \in Thread, Lookup(t)
    PROVE  Own(t)
<1> USE PortIsThread, GuiIsThread DEF IInv, TypeOK, ThreadOK, SessionOK
<1>1. OnlyThread(t)
  BY DEF Lookup, Goto, sessionVars, queueVars, guiVars, OnlyThread
<1>2. StageOwned(t)
  BY DEF Lookup, Goto, sessionVars, queueVars, guiVars, StageOwned, AllAtWork, AtWork, InHandler
<1>3. SessionsMove
  BY DEF Lookup, Goto, sessionVars, queueVars, guiVars, SessionsMove
<1>4. AtWork(t)'
  BY DEF Lookup, Goto, sessionVars, queueVars, guiVars, AtWork, AllAtWork, InHandler
<1>5. KeepsSpent(t)
  BY DEF Lookup, Goto, sessionVars, queueVars, guiVars, KeepsSpent, Spent
<1> QED
  BY <1>1, <1>2, <1>3, <1>4, <1>5 DEF Own

LEMMA SendDoneOwn ==
    ASSUME IInv, AllAtWork, NEW t \in Thread, SendDone(t)
    PROVE  Own(t)
<1> USE PortIsThread, GuiIsThread DEF IInv, TypeOK, ThreadOK, SessionOK
<1>1. OnlyThread(t)
  BY DEF SendDone, Return, Goto, sessionVars, queueVars, guiVars, OnlyThread
<1>2. StageOwned(t)
  BY DEF SendDone, Return, Goto, sessionVars, queueVars, guiVars, StageOwned, AllAtWork, AtWork, InHandler
<1>3. SessionsMove
  BY DEF SendDone, Return, Goto, sessionVars, queueVars, guiVars, SessionsMove
<1>4. AtWork(t)'
  BY DEF SendDone, Return, Goto, sessionVars, queueVars, guiVars, AtWork, AllAtWork, InHandler
<1>5. KeepsSpent(t)
  BY DEF SendDone, Return, Goto, sessionVars, queueVars, guiVars, KeepsSpent, Spent, Pushes
<1> QED
  BY <1>1, <1>2, <1>3, <1>4, <1>5 DEF Own

LEMMA NameDoneOwn ==
    ASSUME IInv, AllAtWork, NEW t \in Thread, NameDone(t)
    PROVE  Own(t)
<1> USE PortIsThread, GuiIsThread DEF IInv, TypeOK, ThreadOK, SessionOK
<1>1. OnlyThread(t)
  BY DEF NameDone, Goto, sessionVars, queueVars, guiVars, OnlyThread
<1>2. StageOwned(t)
  BY DEF NameDone, Goto, sessionVars, queueVars, guiVars, StageOwned, AllAtWork, AtWork, InHandler
<1>3. SessionsMove
  BY DEF NameDone, Goto, sessionVars, queueVars, guiVars, SessionsMove
<1>4. AtWork(t)'
  BY DEF NameDone, Goto, sessionVars, queueVars, guiVars, AtWork, AllAtWork, InHandler
<1>5. KeepsSpent(t)
  BY DEF NameDone, Goto, sessionVars, queueVars, guiVars, KeepsSpent, Spent
<1> QED
  BY <1>1, <1>2, <1>3, <1>4, <1>5 DEF Own

LEMMA RespondOwn ==
    ASSUME IInv, AllAtWork, NEW t \in Thread, Respond(t)
    PROVE  Own(t)
<1> USE PortIsThread, GuiIsThread DEF IInv, TypeOK, ThreadOK, SessionOK
<1>1. OnlyThread(t)
  BY DEF Respond, Return, Goto, guiVars, OnlyThread
<1>2. StageOwned(t)
  BY DEF Respond, Return, Goto, guiVars, StageOwned, AllAtWork, AtWork, InHandler
<1>3. SessionsMove
  BY DEF Respond, Return, Goto, guiVars, SessionsMove, AllAtWork, AtWork, InHandler
<1>4. AtWork(t)'
  BY DEF Respond, Return, Goto, guiVars, AtWork, AllAtWork, InHandler
<1>5. KeepsSpent(t)
  BY DEF Respond, Return, Goto, guiVars, KeepsSpent, Spent
<1> QED
  BY <1>1, <1>2, <1>3, <1>4, <1>5 DEF Own

LEMMA SendOneOwn ==
    ASSUME IInv, AllAtWork, NEW t \in Thread, NEW d \in Session, SendOne(t, d)
    PROVE  Own(t)
<1> USE PortIsThread, GuiIsThread DEF IInv, TypeOK, ThreadOK, SessionOK
<1>1. OnlyThread(t)
  BY DEF SendOne, sessionVars, guiVars, OnlyThread
<1>2. StageOwned(t)
  BY DEF SendOne, sessionVars, guiVars, StageOwned, AllAtWork, AtWork, InHandler
<1>3. SessionsMove
  BY DEF SendOne, sessionVars, guiVars, SessionsMove
<1>4. AtWork(t)'
  BY DEF SendOne, sessionVars, guiVars, AtWork, AllAtWork, InHandler
<1>5. KeepsSpent(t)
  BY DEF SendOne, sessionVars, guiVars, KeepsSpent, Spent
<1> QED
  BY <1>1, <1>2, <1>3, <1>4, <1>5 DEF Own

LEMMA NameOneOwn ==
    ASSUME IInv, AllAtWork, NEW t \in Thread, NEW u \in ids[t], NameOne(t, u)
    PROVE  Own(t)
<1> USE PortIsThread, GuiIsThread DEF IInv, TypeOK, ThreadOK, SessionOK
<1>1. OnlyThread(t)
  BY DEF NameOne, WithEntry, sessionVars, queueVars, guiVars, OnlyThread
<1>2. StageOwned(t)
  BY DEF NameOne, WithEntry, sessionVars, queueVars, guiVars, StageOwned, AllAtWork, AtWork, InHandler
<1>3. SessionsMove
  BY DEF NameOne, WithEntry, sessionVars, queueVars, guiVars, SessionsMove
<1>4. AtWork(t)'
  BY DEF NameOne, WithEntry, sessionVars, queueVars, guiVars, AtWork, AllAtWork, InHandler
<1>5. KeepsSpent(t)
  BY DEF NameOne, WithEntry, sessionVars, queueVars, guiVars, KeepsSpent, Spent
<1> QED
  BY <1>1, <1>2, <1>3, <1>4, <1>5 DEF Own

LEMMA AcceptOwn ==
    ASSUME IInv, AllAtWork, NEW t \in Port, NEW c \in Session, Accept(t, c)
    PROVE  Own(t)
<1> USE PortIsThread, GuiIsThread DEF IInv, TypeOK, ThreadOK, SessionOK
<1>1. OnlyThread(t)
  BY DEF Accept, Serves, Begin, Goto, DrawUid, queueVars, guiVars, OnlyThread
<1>2. StageOwned(t)
  BY DEF Accept, Serves, Begin, Goto, DrawUid, queueVars, guiVars, StageOwned, AllAtWork, AtWork, InHandler
<1>3. SessionsMove
  BY DEF Accept, Serves, Begin, Goto, DrawUid, queueVars, guiVars, SessionsMove
<1>4. AtWork(t)'
  BY DEF Accept, Serves, Begin, Goto, DrawUid, queueVars, guiVars, AtWork, AllAtWork, InHandler
<1>5. KeepsSpent(t)
  BY DEF Accept, Serves, Begin, Goto, DrawUid, queueVars, guiVars, KeepsSpent, Spent
<1> QED
  BY <1>1, <1>2, <1>3, <1>4, <1>5 DEF Own

LEMMA EndReadOwn ==
    ASSUME IInv, AllAtWork, NEW t \in Port, NEW c \in Session, EndRead(t, c)
    PROVE  Own(t)
<1> USE PortIsThread, GuiIsThread DEF IInv, TypeOK, ThreadOK, SessionOK
<1>1. OnlyThread(t)
  BY DEF EndRead, Serves, Begin, Goto, queueVars, guiVars, OnlyThread
<1>2. StageOwned(t)
  BY DEF EndRead, Serves, Begin, Goto, queueVars, guiVars, StageOwned, AllAtWork, AtWork, InHandler
<1>3. SessionsMove
  BY DEF EndRead, Serves, Begin, Goto, queueVars, guiVars, SessionsMove
<1>4. AtWork(t)'
  BY DEF EndRead, Serves, Begin, Goto, queueVars, guiVars, AtWork, AllAtWork, InHandler
<1>5. KeepsSpent(t)
  BY DEF EndRead, Serves, Begin, Goto, queueVars, guiVars, KeepsSpent, Spent
<1> QED
  BY <1>1, <1>2, <1>3, <1>4, <1>5 DEF Own

LEMMA RunPostedCloseOwn ==
    ASSUME IInv, AllAtWork, NEW t \in Port, NEW c \in Session, RunPostedClose(t, c)
    PROVE  Own(t)
<1> USE PortIsThread, GuiIsThread DEF IInv, TypeOK, ThreadOK, SessionOK
<1>1. OnlyThread(t)
  BY DEF RunPostedClose, Serves, Begin, Goto, queueVars, guiVars, OnlyThread
<1>2. StageOwned(t)
  BY DEF RunPostedClose, Serves, Begin, Goto, queueVars, guiVars, StageOwned, AllAtWork, AtWork, InHandler
<1>3. SessionsMove
  BY DEF RunPostedClose, Serves, Begin, Goto, queueVars, guiVars, SessionsMove
<1>4. AtWork(t)'
  BY DEF RunPostedClose, Serves, Begin, Goto, queueVars, guiVars, AtWork, AllAtWork, InHandler
<1>5. KeepsSpent(t)
  BY DEF RunPostedClose, Serves, Begin, Goto, queueVars, guiVars, KeepsSpent, Spent
<1> QED
  BY <1>1, <1>2, <1>3, <1>4, <1>5 DEF Own

LEMMA WriteOwn ==
    ASSUME IInv, AllAtWork, NEW t \in Port, NEW c \in Session, Write(t, c)
    PROVE  Own(t)
<1> USE PortIsThread, GuiIsThread DEF IInv, TypeOK, ThreadOK, SessionOK
<1>1. OnlyThread(t)
  BY DEF Write, threadVars, guiVars, OnlyThread
<1>2. StageOwned(t)
  BY DEF Write, threadVars, guiVars, StageOwned, AllAtWork, AtWork, InHandler
<1>3. SessionsMove
  BY DEF Write, threadVars, guiVars, SessionsMove
<1>4. AtWork(t)'
  BY DEF Write, threadVars, guiVars, AtWork, AllAtWork, InHandler
<1>5. KeepsSpent(t)
  BY DEF Write, threadVars, guiVars, KeepsSpent, Spent
<1> QED
  BY <1>1, <1>2, <1>3, <1>4, <1>5 DEF Own

LEMMA LoginOwn ==
    ASSUME IInv, AllAtWork, NEW t \in Port, NEW c \in Session, NEW name \in Name, Login(t, c, name)
    PROVE  Own(t)
<1> USE PortIsThread, GuiIsThread DEF IInv, TypeOK, ThreadOK, SessionOK
<1>1. OnlyThread(t)
  BY DEF Login, Receive, Serves, Begin, Goto, queueVars, guiVars, OnlyThread
<1>2. StageOwned(t)
  BY DEF Login, Receive, Serves, Begin, Goto, queueVars, guiVars, StageOwned, AllAtWork, AtWork, InHandler
<1>3. SessionsMove
  BY DEF Login, Receive, Serves, Begin, Goto, queueVars, guiVars, SessionsMove
<1>4. AtWork(t)'
  <2>1. msg'[t].ev = "joined" /\ msg'[t].uid = mUid[c] /\ at'[t] = "snapshot"
    BY DEF Login, Receive, Serves, Begin, Goto, queueVars, guiVars, Msg
  <2>2. t = PortOf[c] /\ stage[c] = "reading" /\ cur'[t] = c /\ UNCHANGED <<stage, mUid>>
    BY DEF Login, Receive, Serves, Begin, Goto, queueVars, guiVars
  <2> QED
    BY <2>1, <2>2 DEF AtWork, InHandler
<1>5. KeepsSpent(t)
  BY DEF Login, Receive, Serves, Begin, Goto, queueVars, guiVars, KeepsSpent, Spent
<1> QED
  BY <1>1, <1>2, <1>3, <1>4, <1>5 DEF Own

LEMMA ClientListOwn ==
    ASSUME IInv, AllAtWork, NEW t \in Port, NEW c \in Session, ClientList(t, c)
    PROVE  Own(t)
<1> USE PortIsThread, GuiIsThread DEF IInv, TypeOK, ThreadOK, SessionOK
<1>1. OnlyThread(t)
  BY DEF ClientList, Receive, Serves, Begin, Goto, queueVars, guiVars, OnlyThread
<1>2. StageOwned(t)
  BY DEF ClientList, Receive, Serves, Begin, Goto, queueVars, guiVars, StageOwned, AllAtWork, AtWork, InHandler
<1>3. SessionsMove
  BY DEF ClientList, Receive, Serves, Begin, Goto, queueVars, guiVars, SessionsMove
<1>4. AtWork(t)'
  <2>1. msg'[t].ev = "clients" /\ msg'[t].uid = mUid[c] /\ at'[t] = "naming"
    BY DEF ClientList, Receive, Serves, Begin, Goto, queueVars, guiVars, Msg
  <2>2. t = PortOf[c] /\ stage[c] = "reading" /\ cur'[t] = c /\ UNCHANGED <<stage, mUid>>
    BY DEF ClientList, Receive, Serves, Begin, Goto, queueVars, guiVars
  <2> QED
    BY <2>1, <2>2 DEF AtWork, InHandler
<1>5. KeepsSpent(t)
  BY DEF ClientList, Receive, Serves, Begin, Goto, queueVars, guiVars, KeepsSpent, Spent
<1> QED
  BY <1>1, <1>2, <1>3, <1>4, <1>5 DEF Own

LEMMA SendPublicOwn ==
    ASSUME IInv, AllAtWork, NEW t \in Port, NEW c \in Session, SendPublic(t, c)
    PROVE  Own(t)
<1> USE PortIsThread, GuiIsThread DEF IInv, TypeOK, ThreadOK, SessionOK
<1>1. OnlyThread(t)
  BY DEF SendPublic, Receive, Serves, Begin, Goto, queueVars, guiVars, OnlyThread
<1>2. StageOwned(t)
  BY DEF SendPublic, Receive, Serves, Begin, Goto, queueVars, guiVars, StageOwned, AllAtWork, AtWork, InHandler
<1>3. SessionsMove
  BY DEF SendPublic, Receive, Serves, Begin, Goto, queueVars, guiVars, SessionsMove
<1>4. AtWork(t)'
  <2>1. msg'[t].ev = "public" /\ msg'[t].uid = mUid[c] /\ at'[t] = "snapshot"
    BY DEF SendPublic, Receive, Serves, Begin, Goto, queueVars, guiVars, Msg
  <2>2. t = PortOf[c] /\ stage[c] = "reading" /\ cur'[t] = c /\ UNCHANGED <<stage, mUid>>
    BY DEF SendPublic, Receive, Serves, Begin, Goto, queueVars, guiVars
  <2> QED
    BY <2>1, <2>2 DEF AtWork, InHandler
<1>5. KeepsSpent(t)
  BY DEF SendPublic, Receive, Serves, Begin, Goto, queueVars, guiVars, KeepsSpent, Spent
<1> QED
  BY <1>1, <1>2, <1>3, <1>4, <1>5 DEF Own

LEMMA SendPrivateOwn ==
    ASSUME IInv, AllAtWork, NEW t \in Port, NEW c \in Session, NEW to \in 1 .. mNextUid, SendPrivate(t, c, to)
    PROVE  Own(t)
<1> USE PortIsThread, GuiIsThread DEF IInv, TypeOK, ThreadOK, SessionOK
<1>1. OnlyThread(t)
  BY DEF SendPrivate, Receive, Serves, Begin, Goto, queueVars, guiVars, OnlyThread
<1>2. StageOwned(t)
  BY DEF SendPrivate, Receive, Serves, Begin, Goto, queueVars, guiVars, StageOwned, AllAtWork, AtWork, InHandler
<1>3. SessionsMove
  BY DEF SendPrivate, Receive, Serves, Begin, Goto, queueVars, guiVars, SessionsMove
<1>4. AtWork(t)'
  <2>1. msg'[t].ev = "private" /\ msg'[t].uid = mUid[c] /\ at'[t] = "lookup"
    BY DEF SendPrivate, Receive, Serves, Begin, Goto, queueVars, guiVars, Msg
  <2>2. t = PortOf[c] /\ stage[c] = "reading" /\ cur'[t] = c /\ UNCHANGED <<stage, mUid>>
    BY DEF SendPrivate, Receive, Serves, Begin, Goto, queueVars, guiVars
  <2> QED
    BY <2>1, <2>2 DEF AtWork, InHandler
<1>5. KeepsSpent(t)
  BY DEF SendPrivate, Receive, Serves, Begin, Goto, queueVars, guiVars, KeepsSpent, Spent
<1> QED
  BY <1>1, <1>2, <1>3, <1>4, <1>5 DEF Own

LEMMA PingOwn ==
    ASSUME IInv, AllAtWork, NEW t \in Port, NEW c \in Session, Ping(t, c)
    PROVE  Own(t)
<1> USE PortIsThread, GuiIsThread DEF IInv, TypeOK, ThreadOK, SessionOK
<1>1. OnlyThread(t)
  BY DEF Ping, Receive, Serves, Begin, Goto, queueVars, guiVars, OnlyThread
<1>2. StageOwned(t)
  BY DEF Ping, Receive, Serves, Begin, Goto, queueVars, guiVars, StageOwned, AllAtWork, AtWork, InHandler
<1>3. SessionsMove
  BY DEF Ping, Receive, Serves, Begin, Goto, queueVars, guiVars, SessionsMove
<1>4. AtWork(t)'
  <2>1. msg'[t].ev = "response" /\ msg'[t].uid = mUid[c] /\ at'[t] = "respond"
    BY DEF Ping, Receive, Serves, Begin, Goto, queueVars, guiVars, Msg
  <2>2. t = PortOf[c] /\ stage[c] = "reading" /\ cur'[t] = c /\ UNCHANGED <<stage, mUid>>
    BY DEF Ping, Receive, Serves, Begin, Goto, queueVars, guiVars
  <2> QED
    BY <2>1, <2>2 DEF AtWork, InHandler
<1>5. KeepsSpent(t)
  BY DEF Ping, Receive, Serves, Begin, Goto, queueVars, guiVars, KeepsSpent, Spent
<1> QED
  BY <1>1, <1>2, <1>3, <1>4, <1>5 DEF Own

LEMMA LoseConnectionOwn ==
    ASSUME IInv, AllAtWork, NEW c \in Session, LoseConnection(c)
    PROVE  Own(Gui)
<1> USE PortIsThread, GuiIsThread DEF IInv, TypeOK, ThreadOK, SessionOK
<1>1. OnlyThread(Gui)
  BY DEF LoseConnection, queueVars, threadVars, guiVars, OnlyThread
<1>2. StageOwned(Gui)
  BY DEF LoseConnection, queueVars, threadVars, guiVars, StageOwned, AllAtWork, AtWork, InHandler
<1>3. SessionsMove
  BY DEF LoseConnection, queueVars, threadVars, guiVars, SessionsMove
<1>4. AtWork(Gui)'
  BY DEF LoseConnection, queueVars, threadVars, guiVars, AtWork, AllAtWork, InHandler
<1>5. KeepsSpent(Gui)
  BY DEF LoseConnection, queueVars, threadVars, guiVars, KeepsSpent, Spent
<1> QED
  BY <1>1, <1>2, <1>3, <1>4, <1>5 DEF Own

LEMMA NoticeOwn ==
    ASSUME IInv, AllAtWork, Notice
    PROVE  Own(Gui)
<1> USE PortIsThread, GuiIsThread DEF IInv, TypeOK, ThreadOK, SessionOK
<1>1. OnlyThread(Gui)
  BY DEF Notice, Goto, sessionVars, queueVars, OnlyThread
<1>2. StageOwned(Gui)
  BY DEF Notice, Goto, sessionVars, queueVars, StageOwned, AllAtWork, AtWork, InHandler
<1>3. SessionsMove
  BY DEF Notice, Goto, sessionVars, queueVars, SessionsMove
<1>4. AtWork(Gui)'
  <2>1. msg'[Gui].ev = "system" /\ msg'[Gui].uid = 0 /\ at'[Gui] = "snapshot"
    BY DEF Notice, Goto, sessionVars, queueVars, Msg
  <2> QED
    BY <2>1 DEF AtWork, InHandler
<1>5. KeepsSpent(Gui)
  BY DEF Notice, Goto, sessionVars, queueVars, KeepsSpent, Spent
<1> QED
  BY <1>1, <1>2, <1>3, <1>4, <1>5 DEF Own

LEMMA KickOwn ==
    ASSUME IInv, AllAtWork, NEW u \in DOMAIN mSessions, Kick(u)
    PROVE  Own(Gui)
<1> USE PortIsThread, GuiIsThread DEF IInv, TypeOK, ThreadOK, SessionOK
<1>1. OnlyThread(Gui)
  BY DEF Kick, Begin, Goto, sessionVars, queueVars, OnlyThread
<1>2. StageOwned(Gui)
  BY DEF Kick, Begin, Goto, sessionVars, queueVars, StageOwned, AllAtWork, AtWork, InHandler
<1>3. SessionsMove
  BY DEF Kick, Begin, Goto, sessionVars, queueVars, SessionsMove
<1>4. AtWork(Gui)'
  BY DEF Kick, Begin, Goto, sessionVars, queueVars, AtWork, AllAtWork, InHandler
<1>5. KeepsSpent(Gui)
  BY DEF Kick, Begin, Goto, sessionVars, queueVars, KeepsSpent, Spent
<1> QED
  BY <1>1, <1>2, <1>3, <1>4, <1>5 DEF Own

LEMMA StutterOwn ==
    ASSUME IInv, AllAtWork, UNCHANGED vars
    PROVE  Own(Gui)
<1> USE DEF vars, sessionVars, threadVars
<1>1. OnlyThread(Gui) /\ StageOwned(Gui) /\ SessionsMove
  BY DEF OnlyThread, StageOwned, SessionsMove
<1>2. AtWork(Gui)'
  BY GuiIsThread DEF AllAtWork, AtWork, InHandler
<1>3. KeepsSpent(Gui)
  BY DEF KeepsSpent, Spent
<1> QED
  BY <1>1, <1>2, <1>3 DEF Own

LEMMA WorkStep == IInv /\ AllAtWork /\ [Next]_vars => \E t \in Thread : Own(t)
<1> SUFFICES ASSUME IInv, AllAtWork, [Next]_vars PROVE \E s \in Thread : Own(s)
  OBVIOUS
<1>u. CASE UNCHANGED vars
  BY <1>u, GuiIsThread, StutterOwn
<1>1. ASSUME NEW t \in Thread, AddSession(t) PROVE \E s \in Thread : Own(s)
  BY <1>1, PortIsThread, GuiIsThread, AddSessionOwn
<1>2. ASSUME NEW t \in Thread, Wire(t) PROVE \E s \in Thread : Own(s)
  BY <1>2, PortIsThread, GuiIsThread, WireOwn
<1>3. ASSUME NEW t \in Thread, Start(t) PROVE \E s \in Thread : Own(s)
  BY <1>3, PortIsThread, GuiIsThread, StartOwn
<1>4. ASSUME NEW t \in Thread, MarkClosed(t) PROVE \E s \in Thread : Own(s)
  BY <1>4, PortIsThread, GuiIsThread, MarkClosedOwn
<1>5. ASSUME NEW t \in Thread, Shutdown(t) PROVE \E s \in Thread : Own(s)
  BY <1>5, PortIsThread, GuiIsThread, ShutdownOwn
<1>6. ASSUME NEW t \in Thread, Notify(t) PROVE \E s \in Thread : Own(s)
  BY <1>6, PortIsThread, GuiIsThread, NotifyOwn
<1>7. ASSUME NEW t \in Thread, Remove(t) PROVE \E s \in Thread : Own(s)
  BY <1>7, PortIsThread, GuiIsThread, RemoveOwn
<1>8. ASSUME NEW t \in Thread, Snapshot(t) PROVE \E s \in Thread : Own(s)
  BY <1>8, PortIsThread, GuiIsThread, SnapshotOwn
<1>9. ASSUME NEW t \in Thread, Lookup(t) PROVE \E s \in Thread : Own(s)
  BY <1>9, PortIsThread, GuiIsThread, LookupOwn
<1>10. ASSUME NEW t \in Thread, SendDone(t) PROVE \E s \in Thread : Own(s)
  BY <1>10, PortIsThread, GuiIsThread, SendDoneOwn
<1>11. ASSUME NEW t \in Thread, NameDone(t) PROVE \E s \in Thread : Own(s)
  BY <1>11, PortIsThread, GuiIsThread, NameDoneOwn
<1>12. ASSUME NEW t \in Thread, Respond(t) PROVE \E s \in Thread : Own(s)
  BY <1>12, PortIsThread, GuiIsThread, RespondOwn
<1>13. ASSUME NEW t \in Thread, NEW d \in Session, SendOne(t, d) PROVE \E s \in Thread : Own(s)
  BY <1>13, PortIsThread, GuiIsThread, SendOneOwn
<1>14. ASSUME NEW t \in Thread, NEW u \in ids[t], NameOne(t, u) PROVE \E s \in Thread : Own(s)
  BY <1>14, PortIsThread, GuiIsThread, NameOneOwn
<1>15. ASSUME NEW t \in Port, NEW c \in Session, Accept(t, c) PROVE \E s \in Thread : Own(s)
  BY <1>15, PortIsThread, GuiIsThread, AcceptOwn
<1>16. ASSUME NEW t \in Port, NEW c \in Session, EndRead(t, c) PROVE \E s \in Thread : Own(s)
  BY <1>16, PortIsThread, GuiIsThread, EndReadOwn
<1>17. ASSUME NEW t \in Port, NEW c \in Session, RunPostedClose(t, c) PROVE \E s \in Thread : Own(s)
  BY <1>17, PortIsThread, GuiIsThread, RunPostedCloseOwn
<1>18. ASSUME NEW t \in Port, NEW c \in Session, Write(t, c) PROVE \E s \in Thread : Own(s)
  BY <1>18, PortIsThread, GuiIsThread, WriteOwn
<1>19. ASSUME NEW t \in Port, NEW c \in Session, NEW name \in Name, Login(t, c, name) PROVE \E s \in Thread : Own(s)
  BY <1>19, PortIsThread, GuiIsThread, LoginOwn
<1>20. ASSUME NEW t \in Port, NEW c \in Session, ClientList(t, c) PROVE \E s \in Thread : Own(s)
  BY <1>20, PortIsThread, GuiIsThread, ClientListOwn
<1>21. ASSUME NEW t \in Port, NEW c \in Session, SendPublic(t, c) PROVE \E s \in Thread : Own(s)
  BY <1>21, PortIsThread, GuiIsThread, SendPublicOwn
<1>22. ASSUME NEW t \in Port, NEW c \in Session, NEW to \in 1 .. mNextUid, SendPrivate(t, c, to) PROVE \E s \in Thread : Own(s)
  BY <1>22, PortIsThread, GuiIsThread, SendPrivateOwn
<1>23. ASSUME NEW t \in Port, NEW c \in Session, Ping(t, c) PROVE \E s \in Thread : Own(s)
  BY <1>23, PortIsThread, GuiIsThread, PingOwn
<1>24. ASSUME NEW c \in Session, LoseConnection(c) PROVE \E s \in Thread : Own(s)
  BY <1>24, PortIsThread, GuiIsThread, LoseConnectionOwn
<1>25. ASSUME Notice PROVE \E s \in Thread : Own(s)
  BY <1>25, PortIsThread, GuiIsThread, NoticeOwn
<1>26. ASSUME NEW u \in DOMAIN mSessions, Kick(u) PROVE \E s \in Thread : Own(s)
  BY <1>26, PortIsThread, GuiIsThread, KickOwn
<1> QED
  BY <1>u, <1>1, <1>2, <1>3, <1>4, <1>5, <1>6, <1>7, <1>8, <1>9, <1>10, <1>11, <1>12, <1>13,
     <1>14, <1>15, <1>16, <1>17, <1>18, <1>19, <1>20, <1>21, <1>22, <1>23, <1>24, <1>25,
     <1>26
  DEF Next, Continue, Dispatch, Request, Dashboard

-----------------------------------------------------------------------------
(* Who left stays away.                                          *)

\* What a step may do to the registry: it registers only a session that was
\* just accepted, under its own uid, and draws uids in order.
RegistryGrows ==
    /\ \A u \in DOMAIN mSessions' \ DOMAIN mSessions :
          \E c \in Session :
              mSessions'[u].session = c /\ stage[c] = "accepted" /\ mUid[c] = u
    /\ mNextUid' \in {mNextUid, mNextUid + 1}
    /\ \A c \in Session : stage'[c] = "accepted" =>
          \/ stage[c] = "accepted" /\ mUid'[c] = mUid[c]
          \/ mUid'[c] = mNextUid

LEMMA RegistryStep == IInv /\ [Next]_vars => RegistryGrows
<1> SUFFICES ASSUME IInv, [Next]_vars PROVE RegistryGrows
  OBVIOUS
<1> USE PortIsThread DEF RegistryGrows, IInv, TypeOK, SessionOK, ThreadOK
<1>u. CASE UNCHANGED vars
  BY <1>u DEF vars, sessionVars
<1>1. ASSUME NEW t \in Thread, AddSession(t) PROVE RegistryGrows
  <2>1. /\ cur[t] \in Session /\ stage[cur[t]] = "accepted"
        /\ mSessions' = AddTo(mSessions, mUid[cur[t]], cur[t])
        /\ stage' = [stage EXCEPT ![cur[t]] = "added"]
        /\ mNextUid' = mNextUid /\ mUid' = mUid
    BY <1>1 DEF AddSession, InStep
  <2>2. \A u \in DOMAIN mSessions' \ DOMAIN mSessions :
            u = mUid[cur[t]] /\ mSessions'[u].session = cur[t]
    BY <2>1 DEF AddTo
  <2> QED
    BY <2>1, <2>2
<1>2. ASSUME NEW t \in Thread, Wire(t) PROVE RegistryGrows
  BY <1>2 DEF Wire, sessionVars, InStep
<1>3. ASSUME NEW t \in Thread, Start(t) PROVE RegistryGrows
  BY <1>3 DEF Start, sessionVars
<1>4. ASSUME NEW t \in Thread, MarkClosed(t) PROVE RegistryGrows
  BY <1>4 DEF MarkClosed, sessionVars
<1>5. ASSUME NEW t \in Thread, Shutdown(t) PROVE RegistryGrows
  BY <1>5 DEF Shutdown, sessionVars
<1>6. ASSUME NEW t \in Thread, Notify(t) PROVE RegistryGrows
  BY <1>6 DEF Notify, sessionVars
<1>7. ASSUME NEW t \in Thread, Remove(t) PROVE RegistryGrows
  BY <1>7 DEF Remove, RemoveFrom, sessionVars
<1>8. ASSUME NEW t \in Thread, Snapshot(t) PROVE RegistryGrows
  BY <1>8 DEF Snapshot, sessionVars
<1>9. ASSUME NEW t \in Thread, Lookup(t) PROVE RegistryGrows
  BY <1>9 DEF Lookup, sessionVars
<1>10. ASSUME NEW t \in Thread, SendDone(t) PROVE RegistryGrows
  BY <1>10 DEF SendDone, sessionVars
<1>11. ASSUME NEW t \in Thread, NameDone(t) PROVE RegistryGrows
  BY <1>11 DEF NameDone, sessionVars
<1>12. ASSUME NEW t \in Thread, Respond(t) PROVE RegistryGrows
  BY <1>12 DEF Respond, sessionVars
<1>13. ASSUME NEW t \in Thread, NEW d \in Session, SendOne(t, d) PROVE RegistryGrows
  BY <1>13 DEF SendOne, sessionVars
<1>14. ASSUME NEW t \in Thread, NEW u \in ids[t], NameOne(t, u) PROVE RegistryGrows
  BY <1>14 DEF NameOne, sessionVars
<1>15. ASSUME NEW t \in Port, NEW c \in Session, Accept(t, c) PROVE RegistryGrows
  BY <1>15 DEF Accept, DrawUid
<1>16. ASSUME NEW t \in Port, NEW c \in Session, EndRead(t, c) PROVE RegistryGrows
  BY <1>16 DEF EndRead, sessionVars
<1>17. ASSUME NEW t \in Port, NEW c \in Session, RunPostedClose(t, c) PROVE RegistryGrows
  BY <1>17 DEF RunPostedClose, sessionVars
<1>18. ASSUME NEW t \in Port, NEW c \in Session, Write(t, c) PROVE RegistryGrows
  BY <1>18 DEF Write, sessionVars
<1>19. ASSUME NEW t \in Port, NEW c \in Session, NEW name \in Name, Login(t, c, name) PROVE RegistryGrows
  <2>1. DOMAIN SetName(mSessions, mUid[c], name) = DOMAIN mSessions
    BY DEF SetName
  <2> QED
    BY <1>19, <2>1 DEF Login, Receive
<1>20. ASSUME NEW t \in Port, NEW c \in Session, ClientList(t, c) PROVE RegistryGrows
  BY <1>20 DEF ClientList, Receive, sessionVars
<1>21. ASSUME NEW t \in Port, NEW c \in Session, SendPublic(t, c) PROVE RegistryGrows
  BY <1>21 DEF SendPublic, Receive, sessionVars
<1>22. ASSUME NEW t \in Port, NEW c \in Session, NEW to \in 1 .. mNextUid, SendPrivate(t, c, to) PROVE RegistryGrows
  BY <1>22 DEF SendPrivate, Receive, sessionVars
<1>23. ASSUME NEW t \in Port, NEW c \in Session, Ping(t, c) PROVE RegistryGrows
  BY <1>23 DEF Ping, Receive, sessionVars
<1>24. ASSUME NEW c \in Session, LoseConnection(c) PROVE RegistryGrows
  BY <1>24 DEF LoseConnection, sessionVars
<1>25. ASSUME Notice PROVE RegistryGrows
  BY <1>25 DEF Notice, sessionVars
<1>26. ASSUME NEW u \in DOMAIN mSessions, Kick(u) PROVE RegistryGrows
  BY <1>26 DEF Kick, sessionVars
<1> QED
  BY <1>u, <1>1, <1>2, <1>3, <1>4, <1>5, <1>6, <1>7, <1>8, <1>9, <1>10, <1>11, <1>12,
     <1>13, <1>14, <1>15, <1>16, <1>17, <1>18, <1>19, <1>20, <1>21, <1>22, <1>23,
     <1>24, <1>25, <1>26
  DEF Next, Continue, Dispatch, Request, Dashboard

LEMMA GoneStays ==
    ASSUME IInv, [Next]_vars, NEW u \in Nat, Gone(u)
    PROVE  Gone(u)'
<1>1. RegistryGrows
  BY RegistryStep
<1>2. mNextUid \in Nat
  BY DEF IInv, TypeOK, RegistryOK
<1>3. u \notin DOMAIN mSessions' /\ u < mNextUid'
  BY <1>1, <1>2 DEF RegistryGrows, Gone
<1>4. \A c \in Session : stage'[c] = "accepted" => mUid'[c] # u
  BY <1>1, <1>2 DEF RegistryGrows, Gone
<1> QED
  BY <1>3, <1>4 DEF Gone

\* Remove makes the uid it announces a uid that is gone.
LEMMA RemoveGone ==
    ASSUME IInv, AllAtWork, NEW t \in Thread, Remove(t)
    PROVE  Gone(mUid[cur[t]])' /\ Sealed(mUid[cur[t]])'
<1> USE DEF IInv, TypeOK, RegistryOK, SessionOK, ThreadOK
<1> DEFINE c == cur[t]
<1>1. /\ c \in Session /\ ~Fresh(c) /\ mUid[c] \in Nat
      /\ UNCHANGED <<mUid, stage, conn, cur, mNextUid>>
      /\ mSessions' = RemoveFrom(mSessions, mUid[c])
  BY DEF Remove, InStep, Closing, sessionVars
<1>2. mUid[c] \notin DOMAIN mSessions'
  BY <1>1 DEF RemoveFrom
<1>3. mUid[c] < mNextUid
  BY <1>1 DEF UidsDrawn, Fresh
<1>4. \A d \in Session : stage[d] = "accepted" => mUid[d] # mUid[c]
  BY <1>1 DEF UidsDistinct, Fresh
<1>5. Gone(mUid[c])'
  BY <1>1, <1>2, <1>3, <1>4 DEF Gone
<1>6. stage[c] # "none" /\ conn[c] = "closed"
  BY <1>1 DEF AllAtWork, AtWork, Remove, Fresh
<1>7. Sealed(mUid[c])'
  BY <1>1, <1>6 DEF Sealed
<1> QED
  BY <1>1, <1>5, <1>7

\* A message that announces no departure, or that of a uid that is gone and whose
\* socket is closed.
Harmless == {m \in Message : m.ev = "left" => Gone(m.uid) /\ Sealed(m.uid)}

\* A thread sends on what it has at hand, or makes something new that is no
\* user_left; only Remove makes a user_left.
AllHarmless ==
    /\ msg \in [Thread -> Harmless]
    /\ outbox \in [Session -> Seq(Harmless)]
    /\ wire \in [Session -> Seq(Harmless)]

LEMMA SealedStays ==
    ASSUME IInv, AllAtWork, [Next]_vars, NEW u, Sealed(u)
    PROVE  Sealed(u)'
<1>1. PICK c \in Session : stage[c] # "none" /\ mUid[c] = u /\ conn[c] = "closed"
  BY DEF Sealed
<1>2. SessionsMove
  BY WorkStep DEF Own
<1> QED
  BY <1>1, <1>2 DEF Sealed, SessionsMove

LEMMA HarmlessGrows == ASSUME IInv, AllAtWork, [Next]_vars PROVE Harmless \subseteq Harmless'
<1> SUFFICES ASSUME NEW m \in Harmless PROVE m \in Harmless'
  OBVIOUS
<1>1. m \in Message /\ m.uid \in Nat
  BY DEF Harmless, Message
<1>2. CASE m.ev # "left"
  BY <1>1, <1>2 DEF Harmless
<1>3. CASE m.ev = "left"
  <2>1. Gone(m.uid) /\ Sealed(m.uid)
    BY <1>3 DEF Harmless
  <2>2. Gone(m.uid)' /\ Sealed(m.uid)'
    BY <1>1, <2>1, GoneStays, SealedStays
  <2> QED
    BY <1>1, <2>2 DEF Harmless
<1> QED
  BY <1>2, <1>3

LEMMA SeqGrows == ASSUME NEW S, NEW T, S \subseteq T PROVE Seq(S) \subseteq Seq(T)
OBVIOUS

LEMMA MsgHarmless ==
    ASSUME NEW ev \in Events \ {"left"}, NEW uid \in Nat, NEW name \in Names
    PROVE  Msg(ev, uid, name) \in Harmless /\ Msg(ev, uid, name) \in Harmless'
BY MsgType DEF Harmless

LEMMA NoMsgHarmless == NoMsg \in Harmless'
BY NoMsgType DEF Harmless

LEMMA HarmlessStep == IInv /\ AllAtWork /\ AllHarmless /\ [Next]_vars => AllHarmless'
<1> SUFFICES ASSUME IInv, AllAtWork, AllHarmless, [Next]_vars PROVE AllHarmless'
  OBVIOUS
<1> USE PortIsThread DEF IInv, TypeOK, RegistryOK, SessionOK, ThreadOK
<1>g. Harmless \subseteq Harmless' /\ Seq(Harmless) \subseteq Seq(Harmless')
  BY HarmlessGrows, SeqGrows
<1>m. msg \in [Thread -> Harmless']
  BY <1>g DEF AllHarmless
<1>o. outbox \in [Session -> Seq(Harmless')]
  BY <1>g DEF AllHarmless
<1>w. wire \in [Session -> Seq(Harmless')]
  BY <1>g DEF AllHarmless
<1>u. CASE UNCHANGED vars
  BY <1>u, <1>m, <1>o, <1>w DEF vars, queueVars, threadVars, AllHarmless
<1>1. ASSUME NEW t \in Thread, AddSession(t) PROVE AllHarmless'
  <2>1. UNCHANGED <<msg, outbox, wire>>
    BY <1>1 DEF AddSession, queueVars, threadVars
  <2> QED
    BY <2>1, <1>m, <1>o, <1>w DEF AllHarmless
<1>2. ASSUME NEW t \in Thread, Wire(t) PROVE AllHarmless'
  <2>1. UNCHANGED <<msg, outbox, wire>>
    BY <1>2 DEF Wire, queueVars, threadVars
  <2> QED
    BY <2>1, <1>m, <1>o, <1>w DEF AllHarmless
<1>3. ASSUME NEW t \in Thread, Start(t) PROVE AllHarmless'
  <2>1. UNCHANGED msg \/ msg' = [msg EXCEPT ![t] = NoMsg]
    BY <1>3 DEF Start, Return
  <2>2. UNCHANGED queueVars
    BY <1>3 DEF Start
  <2>3. msg' \in [Thread -> Harmless']
    BY <2>1, <1>m, NoMsgHarmless
  <2> QED
    BY <2>2, <2>3, <1>o, <1>w DEF queueVars, AllHarmless
<1>4. ASSUME NEW t \in Thread, MarkClosed(t) PROVE AllHarmless'
  <2>1. UNCHANGED msg \/ msg' = [msg EXCEPT ![t] = NoMsg]
    BY <1>4 DEF MarkClosed, Return
  <2>2. UNCHANGED queueVars
    BY <1>4 DEF MarkClosed
  <2>3. msg' \in [Thread -> Harmless']
    BY <2>1, <1>m, NoMsgHarmless
  <2> QED
    BY <2>2, <2>3, <1>o, <1>w DEF queueVars, AllHarmless
<1>5. ASSUME NEW t \in Thread, Shutdown(t) PROVE AllHarmless'
  <2>1. UNCHANGED <<msg, outbox, wire>>
    BY <1>5 DEF Shutdown, queueVars, threadVars
  <2> QED
    BY <2>1, <1>m, <1>o, <1>w DEF AllHarmless
<1>6. ASSUME NEW t \in Thread, Notify(t) PROVE AllHarmless'
  <2>1. UNCHANGED msg \/ msg' = [msg EXCEPT ![t] = NoMsg]
    BY <1>6 DEF Notify, Return
  <2>2. UNCHANGED queueVars
    BY <1>6 DEF Notify
  <2>3. msg' \in [Thread -> Harmless']
    BY <2>1, <1>m, NoMsgHarmless
  <2> QED
    BY <2>2, <2>3, <1>o, <1>w DEF queueVars, AllHarmless
<1>7. ASSUME NEW t \in Thread, Remove(t) PROVE AllHarmless'
  <2>1. mUid[cur[t]] \in Nat /\ UNCHANGED <<mUid, cur>>
    BY <1>7 DEF Remove, sessionVars
  <2>2. Gone(mUid[cur[t]])' /\ Sealed(mUid[cur[t]])'
    BY <1>7, RemoveGone
  <2>3. Msg("left", mUid[cur[t]], UnknownName) \in Harmless'
    BY <2>1, <2>2, MsgType DEF Harmless, Events, Names
  <2>4. /\ msg' = [msg EXCEPT ![t] = Msg("left", mUid[cur[t]], UnknownName)]
        /\ UNCHANGED queueVars
    BY <1>7 DEF Remove
  <2>5. msg' \in [Thread -> Harmless']
    BY <2>3, <2>4, <1>m
  <2> QED
    BY <2>4, <2>5, <1>o, <1>w DEF queueVars, AllHarmless
<1>8. ASSUME NEW t \in Thread, Snapshot(t) PROVE AllHarmless'
  <2>1. UNCHANGED <<msg, outbox, wire>>
    BY <1>8 DEF Snapshot, queueVars, threadVars
  <2> QED
    BY <2>1, <1>m, <1>o, <1>w DEF AllHarmless
<1>9. ASSUME NEW t \in Thread, Lookup(t) PROVE AllHarmless'
  <2>1. UNCHANGED <<msg, outbox, wire>>
    BY <1>9 DEF Lookup, queueVars, threadVars
  <2> QED
    BY <2>1, <1>m, <1>o, <1>w DEF AllHarmless
<1>10. ASSUME NEW t \in Thread, SendDone(t) PROVE AllHarmless'
  <2>1. UNCHANGED msg \/ msg' = [msg EXCEPT ![t] = NoMsg]
    BY <1>10 DEF SendDone, Return
  <2>2. UNCHANGED queueVars
    BY <1>10 DEF SendDone
  <2>3. msg' \in [Thread -> Harmless']
    BY <2>1, <1>m, NoMsgHarmless
  <2> QED
    BY <2>2, <2>3, <1>o, <1>w DEF queueVars, AllHarmless
<1>11. ASSUME NEW t \in Thread, NameDone(t) PROVE AllHarmless'
  <2>1. UNCHANGED <<msg, outbox, wire>>
    BY <1>11 DEF NameDone, queueVars, threadVars
  <2> QED
    BY <2>1, <1>m, <1>o, <1>w DEF AllHarmless
<1>12. ASSUME NEW t \in Thread, Respond(t) PROVE AllHarmless'
  <2>1. mUid[cur[t]] \in Nat /\ msg[t] \in Harmless'
    BY <1>m
  <2>2. Msg("response", mUid[cur[t]], UnknownName) \in Harmless'
    BY <2>1, MsgHarmless DEF Events, Names
  <2>3. PICK m \in Harmless' : outbox' = [outbox EXCEPT ![cur[t]] = Append(@, m)]
    BY <1>12, <2>1, <2>2 DEF Respond
  <2>4. outbox' \in [Session -> Seq(Harmless')]
    BY <2>3, <1>o
  <2>5. msg' \in [Thread -> Harmless']
    BY <1>12, <1>m, NoMsgHarmless DEF Respond, Return
  <2> QED
    BY <1>12, <2>4, <2>5, <1>w DEF Respond, AllHarmless
<1>13. ASSUME NEW t \in Thread, NEW d \in Session, SendOne(t, d) PROVE AllHarmless'
  <2>1. PICK m \in Harmless' : outbox' = [outbox EXCEPT ![d] = Append(@, m)]
    BY <1>13, <1>m DEF SendOne
  <2>2. UNCHANGED <<msg, wire>>
    BY <1>13 DEF SendOne
  <2>3. outbox' \in [Session -> Seq(Harmless')]
    BY <2>1, <1>o
  <2> QED
    BY <2>2, <2>3, <1>m, <1>w DEF AllHarmless
<1>14. ASSUME NEW t \in Thread, NEW u \in ids[t], NameOne(t, u) PROVE AllHarmless'
  <2>1. [uid |-> u, name |-> GetName(mSessions, u)] \in ListEntry
    BY GetNameType DEF ListEntry
  <2>2. msg[t] \in Message /\ msg[t] \in Harmless'
    BY <1>m
  <2>3. WithEntry(msg[t], [uid |-> u, name |-> GetName(mSessions, u)]) \in Harmless'
    BY <2>1, <2>2 DEF WithEntry, Harmless, Message
  <2>4. PICK m \in Harmless' : msg' = [msg EXCEPT ![t] = m]
    BY <1>14, <2>3 DEF NameOne
  <2>5. msg' \in [Thread -> Harmless']
    BY <2>4, <1>m
  <2> QED
    BY <1>14, <2>5, <1>o, <1>w DEF NameOne, queueVars, AllHarmless
<1>15. ASSUME NEW t \in Port, NEW c \in Session, Accept(t, c) PROVE AllHarmless'
  <2>1. UNCHANGED <<msg, outbox, wire>>
    BY <1>15 DEF Accept, queueVars, threadVars
  <2> QED
    BY <2>1, <1>m, <1>o, <1>w DEF AllHarmless
<1>16. ASSUME NEW t \in Port, NEW c \in Session, EndRead(t, c) PROVE AllHarmless'
  <2>1. UNCHANGED <<msg, outbox, wire>>
    BY <1>16 DEF EndRead, queueVars, threadVars
  <2> QED
    BY <2>1, <1>m, <1>o, <1>w DEF AllHarmless
<1>17. ASSUME NEW t \in Port, NEW c \in Session, RunPostedClose(t, c) PROVE AllHarmless'
  <2>1. UNCHANGED <<msg, outbox, wire>>
    BY <1>17 DEF RunPostedClose, queueVars, threadVars
  <2> QED
    BY <2>1, <1>m, <1>o, <1>w DEF AllHarmless
<1>18. ASSUME NEW t \in Port, NEW c \in Session, Write(t, c) PROVE AllHarmless'
  <2>1. Head(outbox[c]) \in Harmless' /\ Tail(outbox[c]) \in Seq(Harmless')
    BY <1>18, <1>o DEF Write
  <2>2. outbox' \in [Session -> Seq(Harmless')]
    BY <1>18, <2>1, <1>o DEF Write
  <2>3. wire' \in [Session -> Seq(Harmless')]
    <3>1. CASE UNCHANGED wire
      BY <3>1, <1>w
    <3>2. CASE wire' = [wire EXCEPT ![c] = Append(@, Head(outbox[c]))]
      <4>1. PICK m \in Harmless' : wire' = [wire EXCEPT ![c] = Append(@, m)]
        BY <2>1, <3>2
      <4> QED
        BY <4>1, <1>w
    <3> QED
      BY <1>18, <3>1, <3>2 DEF Write
  <2> QED
    BY <1>18, <2>2, <2>3, <1>m DEF Write, threadVars, AllHarmless
<1>19. ASSUME NEW t \in Port, NEW c \in Session, NEW name \in Name, Login(t, c, name) PROVE AllHarmless'
  <2>1. mUid[c] \in Nat /\ name \in Names
    BY DEF Names
  <2>2. Msg("joined", mUid[c], name) \in Harmless'
    BY <2>1, MsgHarmless DEF Events
  <2>3. msg' = [msg EXCEPT ![t] = Msg("joined", mUid[c], name)] /\ UNCHANGED queueVars
    BY <1>19 DEF Login
  <2>4. msg' \in [Thread -> Harmless']
    BY <2>2, <2>3, <1>m
  <2> QED
    BY <2>3, <2>4, <1>o, <1>w DEF queueVars, AllHarmless
<1>20. ASSUME NEW t \in Port, NEW c \in Session, ClientList(t, c) PROVE AllHarmless'
  <2>1. mUid[c] \in Nat /\ UnknownName \in Names
    BY DEF Names
  <2>2. Msg("clients", mUid[c], UnknownName) \in Harmless'
    BY <2>1, MsgHarmless DEF Events
  <2>3. msg' = [msg EXCEPT ![t] = Msg("clients", mUid[c], UnknownName)] /\ UNCHANGED queueVars
    BY <1>20 DEF ClientList
  <2>4. msg' \in [Thread -> Harmless']
    BY <2>2, <2>3, <1>m
  <2> QED
    BY <2>3, <2>4, <1>o, <1>w DEF queueVars, AllHarmless
<1>21. ASSUME NEW t \in Port, NEW c \in Session, SendPublic(t, c) PROVE AllHarmless'
  <2>1. mUid[c] \in Nat /\ GetName(mSessions, mUid[c]) \in Names
    BY GetNameType DEF Names
  <2>2. Msg("public", mUid[c], GetName(mSessions, mUid[c])) \in Harmless'
    BY <2>1, MsgHarmless DEF Events
  <2>3. msg' = [msg EXCEPT ![t] = Msg("public", mUid[c], GetName(mSessions, mUid[c]))] /\ UNCHANGED queueVars
    BY <1>21 DEF SendPublic
  <2>4. msg' \in [Thread -> Harmless']
    BY <2>2, <2>3, <1>m
  <2> QED
    BY <2>3, <2>4, <1>o, <1>w DEF queueVars, AllHarmless
<1>22. ASSUME NEW t \in Port, NEW c \in Session, NEW to \in 1 .. mNextUid, SendPrivate(t, c, to) PROVE AllHarmless'
  <2>1. mUid[c] \in Nat /\ GetName(mSessions, mUid[c]) \in Names
    BY GetNameType DEF Names
  <2>2. Msg("private", mUid[c], GetName(mSessions, mUid[c])) \in Harmless'
    BY <2>1, MsgHarmless DEF Events
  <2>3. msg' = [msg EXCEPT ![t] = Msg("private", mUid[c], GetName(mSessions, mUid[c]))] /\ UNCHANGED queueVars
    BY <1>22 DEF SendPrivate
  <2>4. msg' \in [Thread -> Harmless']
    BY <2>2, <2>3, <1>m
  <2> QED
    BY <2>3, <2>4, <1>o, <1>w DEF queueVars, AllHarmless
<1>23. ASSUME NEW t \in Port, NEW c \in Session, Ping(t, c) PROVE AllHarmless'
  <2>1. mUid[c] \in Nat /\ UnknownName \in Names
    BY DEF Names
  <2>2. Msg("response", mUid[c], UnknownName) \in Harmless'
    BY <2>1, MsgHarmless DEF Events
  <2>3. msg' = [msg EXCEPT ![t] = Msg("response", mUid[c], UnknownName)] /\ UNCHANGED queueVars
    BY <1>23 DEF Ping
  <2>4. msg' \in [Thread -> Harmless']
    BY <2>2, <2>3, <1>m
  <2> QED
    BY <2>3, <2>4, <1>o, <1>w DEF queueVars, AllHarmless
<1>24. ASSUME NEW c \in Session, LoseConnection(c) PROVE AllHarmless'
  <2>1. UNCHANGED <<msg, outbox, wire>>
    BY <1>24 DEF LoseConnection, queueVars, threadVars
  <2> QED
    BY <2>1, <1>m, <1>o, <1>w DEF AllHarmless
<1>25. ASSUME Notice PROVE AllHarmless'
  <2>1. 0 \in Nat /\ UnknownName \in Names
    BY DEF Names
  <2>2. Msg("system", 0, UnknownName) \in Harmless'
    BY <2>1, MsgHarmless DEF Events
  <2>3. msg' = [msg EXCEPT ![Gui] = Msg("system", 0, UnknownName)] /\ UNCHANGED queueVars
    BY <1>25 DEF Notice
  <2>4. msg' \in [Thread -> Harmless']
    BY <2>2, <2>3, <1>m
  <2> QED
    BY <2>3, <2>4, <1>o, <1>w DEF queueVars, AllHarmless
<1>26. ASSUME NEW u \in DOMAIN mSessions, Kick(u) PROVE AllHarmless'
  <2>1. UNCHANGED <<msg, outbox, wire>>
    BY <1>26 DEF Kick, queueVars, threadVars
  <2> QED
    BY <2>1, <1>m, <1>o, <1>w DEF AllHarmless
<1> QED
  BY <1>u, <1>1, <1>2, <1>3, <1>4, <1>5, <1>6, <1>7, <1>8, <1>9, <1>10, <1>11, <1>12,
     <1>13, <1>14, <1>15, <1>16, <1>17, <1>18, <1>19, <1>20, <1>21, <1>22, <1>23,
     <1>24, <1>25, <1>26
  DEF Next, Continue, Dispatch, Request, Dashboard

LEMMA HarmlessInit == Init => AllHarmless
<1> SUFFICES ASSUME Init PROVE AllHarmless
  OBVIOUS
<1>1. NoMsg \in Harmless
  BY NoMsgType DEF Harmless
<1>2. <<>> \in Seq(Harmless)
  OBVIOUS
<1> QED
  BY <1>1, <1>2 DEF Init, AllHarmless

LEMMA HarmlessLeft == IInv /\ AllHarmless => LeftIsFinal
<1> SUFFICES ASSUME IInv, AllHarmless, NEW d \in Session,
                    NEW i \in DOMAIN Posted(d), Posted(d)[i].ev = "left"
             PROVE  Posted(d)[i].uid \notin DOMAIN mSessions
  BY DEF LeftIsFinal
<1>1. wire[d] \in Seq(Harmless) /\ outbox[d] \in Seq(Harmless)
  BY DEF AllHarmless
<1>2. Posted(d) \in Seq(Harmless)
  BY <1>1, ConcatProperties DEF Posted
<1>3. Posted(d)[i] \in Harmless
  BY <1>2
<1> QED
  BY <1>3 DEF Harmless, Gone

LEMMA AtWorkInit == Init => AllAtWork
BY DEF Init, AllAtWork, AtWork, InHandler

LEMMA HarmlessHolds == Spec => [](IInv /\ AllAtWork /\ AllHarmless)
<1>1. Init => IInv /\ AllAtWork /\ AllHarmless
  BY InvInit, AtWorkInit, HarmlessInit
<1>2. IInv /\ AllAtWork /\ AllHarmless /\ [Next]_vars => IInv' /\ AllAtWork' /\ AllHarmless'
  BY InvStep, WorkStep, AtWorkStays, HarmlessStep
<1> QED
  BY <1>1, <1>2, PTL DEF Spec

\* A uid enters the registry once: for every number of sessions, ports and
\* requests, no late setName() brings a user back.
THEOREM RegistryGrowsOnce == Spec => NoResurrection
<1>1. IInv /\ [Next]_vars =>
        [\A u \in DOMAIN mSessions' \ DOMAIN mSessions :
            stage[mSessions'[u].session] = "accepted"]_vars
  BY RegistryStep DEF RegistryGrows
<1> QED
  BY <1>1, InvHolds, PTL DEF Spec, NoResurrection

\* Whoever was told that a user left cannot find that user in a later client_list.
THEOREM DepartureIsFinal == Spec => []LeftIsFinal
<1> QED
  BY HarmlessHolds, HarmlessLeft, PTL

-----------------------------------------------------------------------------
\* What is posted to a session: a send goes to its end, a write moves the oldest posted
\* message to the wire, where it was already counted, or loses it.
Dropped(q, r) ==
    \E p \in DOMAIN q :
        /\ r \in Seq(Message) /\ Len(r) = Len(q) - 1
        /\ \A i \in DOMAIN r : r[i] = IF i < p THEN q[i] ELSE q[i + 1]

LEMMA PostedIs ==
    ASSUME NEW w \in Seq(Message), NEW o \in Seq(Message)
    PROVE  /\ w \o o \in Seq(Message) /\ Len(w \o o) = Len(w) + Len(o)
           /\ \A i \in 1 .. Len(w) + Len(o) : (w \o o)[i] = IF i <= Len(w) THEN w[i] ELSE o[i - Len(w)]
OBVIOUS

LEMMA PostedType == ASSUME TypeOK, NEW d \in Session PROVE Posted(d) \in Seq(Message)
BY PostedIs DEF Posted, TypeOK, QueueOK

LEMMA PostSends ==
    ASSUME NEW w \in Seq(Message), NEW o \in Seq(Message), NEW m \in Message
    PROVE  w \o Append(o, m) = Append(w \o o, m)
<1>1. Append(o, m) \in Seq(Message) /\ w \o o \in Seq(Message)
  BY PostedIs
<1>2. /\ Len(w \o Append(o, m)) = Len(w) + Len(o) + 1
      /\ Len(Append(w \o o, m)) = Len(w) + Len(o) + 1
  BY <1>1, PostedIs
<1>3. ASSUME NEW i \in 1 .. Len(w) + Len(o) + 1
      PROVE  (w \o Append(o, m))[i] = Append(w \o o, m)[i]
  <2>1. /\ Len(Append(o, m)) = Len(o) + 1 /\ Append(o, m)[Len(o) + 1] = m
        /\ \A k \in 1 .. Len(o) : Append(o, m)[k] = o[k]
        /\ Len(w) \in Nat /\ Len(o) \in Nat
    OBVIOUS
  <2>2. (w \o Append(o, m))[i] = IF i <= Len(w) THEN w[i] ELSE Append(o, m)[i - Len(w)]
    <3>1. i \in 1 .. Len(w) + Len(Append(o, m))
      BY <1>1, <2>1
    <3> QED
      BY <1>1, <3>1, PostedIs
  <2>3. CASE i \in 1 .. Len(w) + Len(o)
    <3>1. Append(w \o o, m)[i] = (w \o o)[i]
      BY <1>1, <2>1, <2>3, PostedIs
    <3>2. (w \o o)[i] = IF i <= Len(w) THEN w[i] ELSE o[i - Len(w)]
      BY <2>3, PostedIs
    <3>3. i > Len(w) => i - Len(w) \in 1 .. Len(o)
      BY <2>1, <2>3
    <3> QED
      BY <2>1, <2>2, <2>3, <3>1, <3>2, <3>3
  <2>4. CASE i = Len(w) + Len(o) + 1
    <3>1. Append(w \o o, m)[i] = m
      BY <1>1, <2>1, <2>4, PostedIs
    <3>2. ~(i <= Len(w)) /\ i - Len(w) = Len(o) + 1
      BY <2>1, <2>4
    <3> QED
      BY <2>1, <2>2, <3>1, <3>2
  <2> QED
    BY <2>1, <2>3, <2>4
<1>4. w \o Append(o, m) \in Seq(Message) /\ Append(w \o o, m) \in Seq(Message)
  BY <1>1, PostedIs
<1> QED
  BY <1>2, <1>3, <1>4, SeqEqual

LEMMA PostMoves ==
    ASSUME NEW w \in Seq(Message), NEW o \in Seq(Message), o # <<>>
    PROVE  Append(w, Head(o)) \o Tail(o) = w \o o
<1>1. /\ Head(o) \in Message /\ Tail(o) \in Seq(Message) /\ Len(Tail(o)) = Len(o) - 1
      /\ Len(o) \in Nat \ {0} /\ Head(o) = o[1]
      /\ \A i \in 1 .. Len(o) - 1 : Tail(o)[i] = o[i + 1]
  OBVIOUS
<1>2. /\ Append(w, Head(o)) \in Seq(Message) /\ Len(Append(w, Head(o))) = Len(w) + 1
      /\ \A i \in 1 .. Len(w) : Append(w, Head(o))[i] = w[i]
      /\ Append(w, Head(o))[Len(w) + 1] = o[1]
  BY <1>1
<1>3. Append(w, Head(o)) \o Tail(o) \in Seq(Message) /\ w \o o \in Seq(Message)
  BY <1>1, <1>2, PostedIs
<1>4. /\ Len(Append(w, Head(o)) \o Tail(o)) = Len(w) + Len(o)
      /\ Len(w \o o) = Len(w) + Len(o)
  BY <1>1, <1>2, PostedIs
<1>5. ASSUME NEW i \in 1 .. Len(w) + Len(o)
      PROVE  (Append(w, Head(o)) \o Tail(o))[i] = (w \o o)[i]
  <2>1. (w \o o)[i] = IF i <= Len(w) THEN w[i] ELSE o[i - Len(w)]
    BY PostedIs
  <2>2. (Append(w, Head(o)) \o Tail(o))[i] =
            IF i <= Len(w) + 1 THEN Append(w, Head(o))[i] ELSE Tail(o)[i - (Len(w) + 1)]
    BY <1>1, <1>2, PostedIs
  <2>3. Len(w) \in Nat /\ i \in Nat
    OBVIOUS
  <2>4. CASE i <= Len(w)
    BY <1>2, <2>1, <2>2, <2>3, <2>4
  <2>5. CASE i = Len(w) + 1
    BY <1>2, <2>1, <2>2, <2>3, <2>5
  <2>6. CASE i > Len(w) + 1
    <3>1. i - (Len(w) + 1) \in 1 .. Len(o) - 1 /\ i - (Len(w) + 1) + 1 = i - Len(w)
      BY <1>1, <2>3, <2>6
    <3> QED
      BY <1>1, <2>1, <2>2, <2>3, <2>6, <3>1
  <2> QED
    BY <2>3, <2>4, <2>5, <2>6
<1> QED
  BY <1>3, <1>4, <1>5, SeqEqual

LEMMA PostDrops ==
    ASSUME NEW w \in Seq(Message), NEW o \in Seq(Message), o # <<>>
    PROVE  Dropped(w \o o, w \o Tail(o))
<1>1. /\ Tail(o) \in Seq(Message) /\ Len(Tail(o)) = Len(o) - 1 /\ Len(o) \in Nat \ {0}
      /\ \A i \in 1 .. Len(o) - 1 : Tail(o)[i] = o[i + 1]
  OBVIOUS
<1>2. /\ w \o Tail(o) \in Seq(Message) /\ Len(w \o Tail(o)) = Len(w) + Len(o) - 1
      /\ w \o o \in Seq(Message) /\ Len(w \o o) = Len(w) + Len(o) /\ Len(w) \in Nat
  <2>1. w \o Tail(o) \in Seq(Message) /\ Len(w \o Tail(o)) = Len(w) + Len(Tail(o))
    BY <1>1, PostedIs
  <2>2. w \o o \in Seq(Message) /\ Len(w \o o) = Len(w) + Len(o) /\ Len(w) \in Nat
    BY PostedIs
  <2> QED
    BY <1>1, <2>1, <2>2
<1>3. Len(w) + 1 \in DOMAIN (w \o o)
  BY <1>1, <1>2
<1>4. ASSUME NEW i \in DOMAIN (w \o Tail(o))
      PROVE  (w \o Tail(o))[i] = IF i < Len(w) + 1 THEN (w \o o)[i] ELSE (w \o o)[i + 1]
  <2>1. i \in 1 .. Len(w) + Len(Tail(o)) /\ i \in Nat /\ i <= Len(w) + Len(o) - 1
    BY <1>1, <1>2
  <2>2. (w \o Tail(o))[i] = IF i <= Len(w) THEN w[i] ELSE Tail(o)[i - Len(w)]
    BY <1>1, <2>1, PostedIs
  <2>3. CASE i <= Len(w)
    <3>1. i \in 1 .. Len(w) + Len(o)
      BY <1>1, <1>2, <2>1
    <3>2. (w \o o)[i] = w[i]
      BY <2>3, <3>1, PostedIs
    <3>3. i < Len(w) + 1
      BY <1>2, <2>1, <2>3
    <3> QED
      BY <2>2, <2>3, <3>2, <3>3
  <2>4. CASE i > Len(w)
    <3>1. i + 1 \in 1 .. Len(w) + Len(o)
      BY <1>1, <1>2, <2>1
    <3>2. (w \o o)[i + 1] = o[i + 1 - Len(w)]
      <4>1. ~(i + 1 <= Len(w))
        BY <1>2, <2>1, <2>4
      <4> QED
        BY <3>1, <4>1, PostedIs
    <3>3. i - Len(w) \in 1 .. Len(o) - 1 /\ i - Len(w) + 1 = i + 1 - Len(w)
      BY <1>1, <1>2, <2>1, <2>4
    <3>4. ~(i < Len(w) + 1) /\ ~(i <= Len(w))
      BY <1>2, <2>1, <2>4
    <3> QED
      BY <1>1, <2>2, <3>2, <3>3, <3>4
  <2>5. i <= Len(w) \/ i > Len(w)
    BY <1>2, <2>1
  <2> QED
    BY <2>3, <2>4, <2>5
<1>5. Len(w \o Tail(o)) = Len(w \o o) - 1
  BY <1>2
<1> DEFINE p == Len(w) + 1
           q == w \o o
           r == w \o Tail(o)
<1>6. p \in DOMAIN q /\ r \in Seq(Message) /\ Len(r) = Len(q) - 1
  BY <1>2, <1>3, <1>5
<1>7. \A i \in DOMAIN r : r[i] = IF i < p THEN q[i] ELSE q[i + 1]
  BY <1>4
<1> HIDE DEF p, q, r
<1>8. Dropped(q, r)
  BY <1>6, <1>7 DEF Dropped
<1> QED
  BY <1>8 DEF q, r


\* Only a send, an answer and a write touch the queues.
Reply(t) ==
    IF msg[t].ev = "clients" THEN msg[t] ELSE Msg("response", mUid[cur[t]], UnknownName)
QueueMoves ==
    \/ UNCHANGED queueVars
    \/ \E t \in Thread, d \in Session : SendOne(t, d)
    \/ \E t \in Thread : Respond(t)
    \/ \E t \in Port, c \in Session : Write(t, c)

LEMMA QueueSteps == [Next]_vars => QueueMoves
<1> SUFFICES ASSUME [Next]_vars PROVE QueueMoves
  OBVIOUS
<1>u. CASE UNCHANGED vars
  BY <1>u DEF vars, QueueMoves
<1>1. ASSUME NEW t \in Thread, AddSession(t) PROVE QueueMoves
  BY <1>1 DEF AddSession, QueueMoves
<1>2. ASSUME NEW t \in Thread, Wire(t) PROVE QueueMoves
  BY <1>2 DEF Wire, QueueMoves
<1>3. ASSUME NEW t \in Thread, Start(t) PROVE QueueMoves
  BY <1>3 DEF Start, QueueMoves
<1>4. ASSUME NEW t \in Thread, MarkClosed(t) PROVE QueueMoves
  BY <1>4 DEF MarkClosed, QueueMoves
<1>5. ASSUME NEW t \in Thread, Shutdown(t) PROVE QueueMoves
  BY <1>5 DEF Shutdown, QueueMoves
<1>6. ASSUME NEW t \in Thread, Notify(t) PROVE QueueMoves
  BY <1>6 DEF Notify, QueueMoves
<1>7. ASSUME NEW t \in Thread, Remove(t) PROVE QueueMoves
  BY <1>7 DEF Remove, QueueMoves
<1>8. ASSUME NEW t \in Thread, Snapshot(t) PROVE QueueMoves
  BY <1>8 DEF Snapshot, QueueMoves
<1>9. ASSUME NEW t \in Thread, Lookup(t) PROVE QueueMoves
  BY <1>9 DEF Lookup, QueueMoves
<1>10. ASSUME NEW t \in Thread, SendDone(t) PROVE QueueMoves
  BY <1>10 DEF SendDone, QueueMoves
<1>11. ASSUME NEW t \in Thread, NameDone(t) PROVE QueueMoves
  BY <1>11 DEF NameDone, QueueMoves
<1>12. ASSUME NEW t \in Thread, Respond(t) PROVE QueueMoves
  BY <1>12 DEF QueueMoves
<1>13. ASSUME NEW t \in Thread, NEW d \in Session, SendOne(t, d) PROVE QueueMoves
  BY <1>13 DEF QueueMoves
<1>14. ASSUME NEW t \in Thread, NEW u \in ids[t], NameOne(t, u) PROVE QueueMoves
  BY <1>14 DEF NameOne, QueueMoves
<1>15. ASSUME NEW t \in Port, NEW c \in Session, Accept(t, c) PROVE QueueMoves
  BY <1>15 DEF Accept, QueueMoves
<1>16. ASSUME NEW t \in Port, NEW c \in Session, EndRead(t, c) PROVE QueueMoves
  BY <1>16 DEF EndRead, QueueMoves
<1>17. ASSUME NEW t \in Port, NEW c \in Session, RunPostedClose(t, c) PROVE QueueMoves
  BY <1>17 DEF RunPostedClose, QueueMoves
<1>18. ASSUME NEW t \in Port, NEW c \in Session, Write(t, c) PROVE QueueMoves
  BY <1>18 DEF QueueMoves
<1>19. ASSUME NEW t \in Port, NEW c \in Session, NEW name \in Name, Login(t, c, name) PROVE QueueMoves
  BY <1>19 DEF Login, QueueMoves
<1>20. ASSUME NEW t \in Port, NEW c \in Session, ClientList(t, c) PROVE QueueMoves
  BY <1>20 DEF ClientList, QueueMoves
<1>21. ASSUME NEW t \in Port, NEW c \in Session, SendPublic(t, c) PROVE QueueMoves
  BY <1>21 DEF SendPublic, QueueMoves
<1>22. ASSUME NEW t \in Port, NEW c \in Session, NEW to \in 1 .. mNextUid, SendPrivate(t, c, to) PROVE QueueMoves
  BY <1>22 DEF SendPrivate, QueueMoves
<1>23. ASSUME NEW t \in Port, NEW c \in Session, Ping(t, c) PROVE QueueMoves
  BY <1>23 DEF Ping, QueueMoves
<1>24. ASSUME NEW c \in Session, LoseConnection(c) PROVE QueueMoves
  BY <1>24 DEF LoseConnection, QueueMoves
<1>25. ASSUME Notice PROVE QueueMoves
  BY <1>25 DEF Notice, QueueMoves
<1>26. ASSUME NEW u \in DOMAIN mSessions, Kick(u) PROVE QueueMoves
  BY <1>26 DEF Kick, QueueMoves
<1> QED
  BY <1>u, <1>1, <1>2, <1>3, <1>4, <1>5, <1>6, <1>7, <1>8, <1>9, <1>10, <1>11, <1>12, <1>13,
     <1>14, <1>15, <1>16, <1>17, <1>18, <1>19, <1>20, <1>21, <1>22, <1>23, <1>24, <1>25,
     <1>26
  DEF Next, Continue, Dispatch, Request, Dashboard

Grows(q, r, m) == r = Append(q, m)
PostedMoves(d) ==
    \/ Posted(d)' = Posted(d)
    \/ Dropped(Posted(d), Posted(d)')
    \/ \E t \in Thread : SendOne(t, d) /\ Grows(Posted(d), Posted(d)', msg[t])
    \/ \E t \in Thread : Respond(t) /\ d = cur[t] /\ Grows(Posted(d), Posted(d)', Reply(t))

LEMMA ReplyIs ==
    ASSUME TypeOK, NEW t \in Thread
    PROVE  Reply(t) \in Message /\ Reply(t).ev \in {"clients", "response"}
<1>1. mUid[cur[t]] \in Nat /\ msg[t] \in Message
  BY DEF TypeOK, SessionOK, ThreadOK
<1>2. /\ Msg("response", mUid[cur[t]], UnknownName) \in Message
      /\ Msg("response", mUid[cur[t]], UnknownName).ev = "response"
  BY <1>1, MsgType DEF Events, Names
<1> QED
  BY <1>1, <1>2 DEF Reply

LEMMA PostedSteps ==
    ASSUME TypeOK, [Next]_vars, NEW d \in Session
    PROVE  PostedMoves(d)
<1>1. wire[d] \in Seq(Message) /\ outbox[d] \in Seq(Message)
  BY DEF TypeOK, QueueOK
<1>2. wire \in [Session -> Seq(Message)] /\ outbox \in [Session -> Seq(Message)]
  BY DEF TypeOK, QueueOK
<1>3. CASE UNCHANGED queueVars
  BY <1>3 DEF queueVars, Posted, PostedMoves
<1>4. ASSUME NEW t \in Thread, NEW e \in Session, SendOne(t, e) PROVE PostedMoves(d)
  <2>1. outbox' = [outbox EXCEPT ![e] = Append(@, msg[t])] /\ wire' = wire
    BY <1>4 DEF SendOne
  <2>2. CASE e = d
    <3>1. msg[t] \in Message
      BY DEF TypeOK, ThreadOK
    <3>2. Posted(d)' = wire[d] \o Append(outbox[d], msg[t])
      BY <1>2, <2>1, <2>2 DEF Posted
    <3>3. Grows(Posted(d), Posted(d)', msg[t])
      BY <1>1, <3>1, <3>2, PostSends DEF Posted, Grows
    <3> QED
      BY <1>4, <2>2, <3>3 DEF PostedMoves
  <2>3. CASE e # d
    BY <1>2, <2>1, <2>3 DEF Posted, PostedMoves
  <2> QED
    BY <2>2, <2>3
<1>5. ASSUME NEW t \in Thread, Respond(t) PROVE PostedMoves(d)
  <2>1. outbox' = [outbox EXCEPT ![cur[t]] = Append(@, Reply(t))] /\ wire' = wire
    BY <1>5 DEF Respond, Reply
  <2>2. CASE cur[t] = d
    <3>1. Reply(t) \in Message
      BY ReplyIs
    <3>2. Posted(d)' = wire[d] \o Append(outbox[d], Reply(t))
      BY <1>2, <2>1, <2>2 DEF Posted
    <3>3. Grows(Posted(d), Posted(d)', Reply(t))
      BY <1>1, <3>1, <3>2, PostSends DEF Posted, Grows
    <3> QED
      BY <1>5, <2>2, <3>3 DEF PostedMoves
  <2>3. CASE cur[t] # d
    BY <1>2, <2>1, <2>3 DEF Posted, PostedMoves
  <2> QED
    BY <2>2, <2>3
<1>6. ASSUME NEW t \in Port, NEW c \in Session, Write(t, c) PROVE PostedMoves(d)
  <2>1. /\ outbox[c] # <<>> /\ outbox' = [outbox EXCEPT ![c] = Tail(@)]
        /\ wire' = wire \/ wire' = [wire EXCEPT ![c] = Append(@, Head(outbox[c]))]
    BY <1>6 DEF Write
  <2>2. CASE c # d
    BY <1>2, <2>1, <2>2 DEF Posted, PostedMoves
  <2>3. CASE c = d /\ wire' = wire
    <3>1. Posted(d)' = wire[d] \o Tail(outbox[d]) /\ outbox[d] # <<>>
      BY <1>2, <2>1, <2>3 DEF Posted
    <3>2. Dropped(Posted(d), Posted(d)')
      BY <1>1, <3>1, PostDrops DEF Posted
    <3> QED
      BY <3>2 DEF PostedMoves
  <2>4. CASE c = d /\ wire' = [wire EXCEPT ![c] = Append(@, Head(outbox[c]))]
    <3>1. Posted(d)' = Append(wire[d], Head(outbox[d])) \o Tail(outbox[d]) /\ outbox[d] # <<>>
      BY <1>2, <2>1, <2>4 DEF Posted
    <3>2. Posted(d)' = Posted(d)
      BY <1>1, <3>1, PostMoves DEF Posted
    <3> QED
      BY <3>2 DEF PostedMoves
  <2> QED
    BY <2>1, <2>2, <2>3, <2>4
<1> QED
  BY <1>3, <1>4, <1>5, <1>6, QueueSteps DEF QueueMoves

-----------------------------------------------------------------------------
(* The last word of a user who left.                                       *)

\* In queue q a push of user u stands at j behind u's departure.
LateAt(q, u, j) ==
    /\ j \in DOMAIN q /\ q[j].ev \in Pushes /\ q[j].uid = u
    /\ \E i \in DOMAIN q : i < j /\ q[i].ev = "left" /\ q[i].uid = u
AtMostOneLate(q, u) == \A j, k \in DOMAIN q : LateAt(q, u, j) /\ LateAt(q, u, k) => j = k
SomeLate(q, u) == \E j \in DOMAIN q : LateAt(q, u, j)

LEMMA LateAppend ==
    ASSUME NEW q \in Seq(Message), NEW m \in Message, NEW u
    PROVE  /\ \A j \in DOMAIN q : LateAt(Append(q, m), u, j) <=> LateAt(q, u, j)
           /\ LateAt(Append(q, m), u, Len(q) + 1) => m.ev \in Pushes /\ m.uid = u
           /\ DOMAIN Append(q, m) = DOMAIN q \cup {Len(q) + 1}
<1>1. /\ DOMAIN Append(q, m) = 1 .. Len(q) + 1 /\ DOMAIN q = 1 .. Len(q) /\ Len(q) \in Nat
      /\ \A i \in 1 .. Len(q) : Append(q, m)[i] = q[i]
      /\ Append(q, m)[Len(q) + 1] = m
  OBVIOUS
<1>2. ASSUME NEW j \in DOMAIN q PROVE LateAt(Append(q, m), u, j) <=> LateAt(q, u, j)
  <2>1. \A i \in 1 .. Len(q) + 1 : i < j => i \in 1 .. Len(q)
    BY <1>1
  <2> QED
    BY <1>1, <2>1 DEF LateAt
<1>3. LateAt(Append(q, m), u, Len(q) + 1) => m.ev \in Pushes /\ m.uid = u
  BY <1>1 DEF LateAt
<1>4. DOMAIN Append(q, m) = DOMAIN q \cup {Len(q) + 1}
  BY <1>1
<1> QED
  BY <1>2, <1>3, <1>4

LEMMA LateDropped ==
    ASSUME NEW q \in Seq(Message), NEW r, Dropped(q, r), NEW u
    PROVE  /\ SomeLate(r, u) => SomeLate(q, u)
           /\ AtMostOneLate(q, u) => AtMostOneLate(r, u)
<1>1. PICK p \in DOMAIN q :
        /\ r \in Seq(Message) /\ Len(r) = Len(q) - 1
        /\ \A i \in DOMAIN r : r[i] = IF i < p THEN q[i] ELSE q[i + 1]
  BY DEF Dropped
<1>2. p \in Nat /\ Len(q) \in Nat /\ DOMAIN q = 1 .. Len(q) /\ DOMAIN r = 1 .. Len(q) - 1
  BY <1>1
<1> DEFINE At(j) == IF j < p THEN j ELSE j + 1
<1>3. \A j \in DOMAIN r : j \in Nat /\ At(j) \in DOMAIN q /\ r[j] = q[At(j)]
  BY <1>1, <1>2
<1>4. \A i, j \in DOMAIN r : /\ i < j => At(i) < At(j)
                             /\ At(i) = At(j) => i = j
  BY <1>2
<1> HIDE DEF At
<1>5. ASSUME NEW j \in DOMAIN r, LateAt(r, u, j) PROVE LateAt(q, u, At(j))
  <2>1. PICK i \in DOMAIN r : i < j /\ r[i].ev = "left" /\ r[i].uid = u
    BY <1>5 DEF LateAt
  <2>2. At(i) \in DOMAIN q /\ At(i) < At(j) /\ q[At(i)].ev = "left" /\ q[At(i)].uid = u
    BY <1>3, <1>4, <2>1
  <2>3. At(j) \in DOMAIN q /\ q[At(j)].ev \in Pushes /\ q[At(j)].uid = u
    BY <1>3, <1>5 DEF LateAt
  <2> QED
    BY <2>2, <2>3 DEF LateAt
<1>6. SomeLate(r, u) => SomeLate(q, u)
  BY <1>3, <1>5 DEF SomeLate
<1>7. ASSUME AtMostOneLate(q, u), NEW j \in DOMAIN r, NEW k \in DOMAIN r,
             LateAt(r, u, j), LateAt(r, u, k)
      PROVE  j = k
  <2>1. LateAt(q, u, At(j)) /\ LateAt(q, u, At(k)) /\ At(j) \in DOMAIN q /\ At(k) \in DOMAIN q
    BY <1>3, <1>5, <1>7
  <2> QED
    BY <1>4, <1>7, <2>1 DEF AtMostOneLate
<1> QED
  BY <1>6, <1>7 DEF AtMostOneLate

LEMMA LateSent ==
    ASSUME NEW q \in Seq(Message), NEW m \in Message, NEW u
    PROVE  /\ m.ev \notin Pushes \/ m.uid # u =>
                 /\ SomeLate(Append(q, m), u) => SomeLate(q, u)
                 /\ AtMostOneLate(q, u) => AtMostOneLate(Append(q, m), u)
           /\ ~SomeLate(q, u) => AtMostOneLate(Append(q, m), u)
<1> DEFINE a == Append(q, m)
           n == Len(q) + 1
<1>1. \A j \in DOMAIN q : LateAt(a, u, j) <=> LateAt(q, u, j)
  BY LateAppend
<1>2. LateAt(a, u, n) => m.ev \in Pushes /\ m.uid = u
  BY LateAppend
<1>3. DOMAIN a = DOMAIN q \cup {n}
  BY LateAppend
<1> HIDE DEF a, n
<1>4. m.ev \notin Pushes \/ m.uid # u =>
          /\ SomeLate(a, u) => SomeLate(q, u)
          /\ AtMostOneLate(q, u) => AtMostOneLate(a, u)
  BY <1>1, <1>2, <1>3 DEF SomeLate, AtMostOneLate
<1>5. ~SomeLate(q, u) => AtMostOneLate(a, u)
  BY <1>1, <1>3 DEF SomeLate, AtMostOneLate
<1> QED
  BY <1>4, <1>5 DEF a

\* Once a push of c stands behind its departure in what is posted to d, c is spent for
\* d.  The second conjunct is what makes the first one inductive.
LastWords ==
    \A c, d \in Session :
        stage[c] # "none" =>
            /\ AtMostOneLate(Posted(d), mUid[c])
            /\ SomeLate(Posted(d), mUid[c]) => Spent(c, d)

\* A departure that is posted is that of a session whose socket is closed.
LEMMA LeftIsSealed ==
    ASSUME AllHarmless, NEW d \in Session, NEW i \in DOMAIN Posted(d), Posted(d)[i].ev = "left"
    PROVE  Gone(Posted(d)[i].uid) /\ Sealed(Posted(d)[i].uid)
<1>1. wire[d] \in Seq(Harmless) /\ outbox[d] \in Seq(Harmless)
  BY DEF AllHarmless
<1>2. Posted(d) \in Seq(Harmless)
  BY <1>1, ConcatProperties DEF Posted
<1>3. Posted(d)[i] \in Harmless
  BY <1>2
<1> QED
  BY <1>3 DEF Harmless

LEMMA SomeLateIsClosed ==
    ASSUME IInv, AllHarmless, NEW c \in Session, NEW d \in Session, stage[c] # "none",
           SomeLate(Posted(d), mUid[c])
    PROVE  conn[c] = "closed"
<1>1. PICK i \in DOMAIN Posted(d) : Posted(d)[i].ev = "left" /\ Posted(d)[i].uid = mUid[c]
  BY DEF SomeLate, LateAt
<1>2. Sealed(mUid[c])
  BY <1>1, LeftIsSealed
<1> QED
  BY <1>2 DEF Sealed, IInv, UidsDistinct

\* Of a session that is accepted only now no departure can have been posted.
LEMMA NewHasNoLate ==
    ASSUME AllHarmless, NEW c \in Session, NEW d \in Session, stage[c] = "accepted", NEW j
    PROVE  ~LateAt(Posted(d), mUid[c], j)
<1>1. SUFFICES ASSUME NEW i \in DOMAIN Posted(d), Posted(d)[i].ev = "left",
                      Posted(d)[i].uid = mUid[c]
               PROVE  FALSE
  BY DEF LateAt
<1>2. Gone(mUid[c])
  BY <1>1, LeftIsSealed
<1> QED
  BY <1>2 DEF Gone

LEMMA NewHasNoLateNext ==
    ASSUME AllHarmless', NEW c \in Session, NEW d \in Session, stage'[c] = "accepted", NEW j
    PROVE  ~LateAt(Posted(d)', mUid'[c], j)
<1>1. SUFFICES ASSUME NEW i \in DOMAIN (Posted(d)'), Posted(d)'[i].ev = "left",
                      Posted(d)'[i].uid = mUid'[c]
               PROVE  FALSE
  BY DEF LateAt
<1>2. wire'[d] \in Seq(Harmless') /\ outbox'[d] \in Seq(Harmless')
  BY DEF AllHarmless
<1>3. Posted(d)' \in Seq(Harmless')
  BY <1>2, ConcatProperties DEF Posted
<1>4. Posted(d)'[i] \in Harmless'
  BY <1>3
<1> QED
  BY <1>1, <1>4 DEF Harmless, Gone

LEMMA LastWordsStep == IInv /\ AllAtWork /\ AllHarmless /\ LastWords /\ [Next]_vars => LastWords'
<1> SUFFICES ASSUME IInv, AllAtWork, AllHarmless, LastWords, [Next]_vars,
                    NEW c \in Session, NEW d \in Session, stage'[c] # "none"
             PROVE  /\ AtMostOneLate(Posted(d)', mUid'[c])
                    /\ SomeLate(Posted(d)', mUid'[c]) => Spent(c, d)'
  BY DEF LastWords
<1>1. PICK t \in Thread : Own(t)
  BY WorkStep
<1>2. CASE stage[c] = "none"
  <2>1. stage'[c] = "accepted"
    BY <1>1, <1>2 DEF Own, SessionsMove
  <2>2. AllHarmless'
    BY HarmlessStep
  <2>3. \A j : ~LateAt(Posted(d)', mUid'[c], j)
    BY <2>1, <2>2, NewHasNoLateNext
  <2> QED
    BY <2>3 DEF AtMostOneLate, SomeLate
<1>3. CASE stage[c] # "none"
  <2> DEFINE u == mUid[c]
             q == Posted(d)
             r == Posted(d)'
  <2>1. mUid'[c] = u
    BY <1>1, <1>3 DEF Own, SessionsMove
  <2>2. AtMostOneLate(q, u) /\ (SomeLate(q, u) => Spent(c, d))
    BY <1>3 DEF LastWords
  <2>3. SomeLate(q, u) => Spent(c, d)'
    BY <1>1, <1>3, <2>2, SomeLateIsClosed, SpentStays
  <2>4. TypeOK
    BY DEF IInv
  <2>5. q \in Seq(Message)
    BY <2>4, PostedType
  <2>6. PostedMoves(d)
    BY <2>4, PostedSteps
  <2>7. ASSUME NEW s \in Thread, SendOne(s, d), Grows(q, r, msg[s])
        PROVE  AtMostOneLate(r, u) /\ (SomeLate(r, u) => Spent(c, d)')
    <3>1. msg[s] \in Message /\ cur[s] \in Session
      BY <2>4 DEF TypeOK, ThreadOK
    <3>2. r = Append(q, msg[s])
      BY <2>7 DEF Grows
    <3>3. CASE msg[s].ev \notin Pushes \/ msg[s].uid # u
      BY <2>2, <2>3, <2>5, <3>1, <3>2, <3>3, LateSent
    <3>4. CASE msg[s].ev \in Pushes /\ msg[s].uid = u
      <4>1. at[s] = "send" /\ d \in todo[s]
        BY <2>7 DEF SendOne
      <4>2. InHandler(s)
        BY <3>4, <4>1 DEF InHandler, Pushes
      <4>3. s = PortOf[cur[s]] /\ stage[cur[s]] = "reading" /\ mUid[cur[s]] = u
        BY <3>4, <4>2 DEF AllAtWork, AtWork
      <4>4. cur[s] = c
        BY <1>3, <3>1, <4>3 DEF IInv, UidsDistinct
      <4>5. ~Spent(c, d)
        BY <4>1, <4>3, <4>4 DEF Spent
      <4>6. AtMostOneLate(r, u)
        BY <2>2, <2>5, <3>1, <3>2, <4>5, LateSent
      <4>7. /\ at' = at /\ cur' = cur /\ msg' = msg /\ d \notin todo'[s]
        BY <2>4, <2>7 DEF SendOne, TypeOK, ThreadOK
      <4>8. Spent(c, d)'
        BY <3>4, <4>1, <4>3, <4>4, <4>7 DEF Spent
      <4> QED
        BY <4>6, <4>8
    <3> QED
      BY <3>3, <3>4
  <2>8. ASSUME NEW s \in Thread, Grows(q, r, Reply(s))
        PROVE  AtMostOneLate(r, u) /\ (SomeLate(r, u) => Spent(c, d)')
    <3>1. Reply(s) \in Message /\ Reply(s).ev \notin Pushes
      BY <2>4, ReplyIs DEF Pushes
    <3>2. r = Append(q, Reply(s))
      BY <2>8 DEF Grows
    <3> QED
      BY <2>2, <2>3, <2>5, <3>1, <3>2, LateSent
  <2>9. CASE Dropped(q, r)
    <3>1. SomeLate(r, u) => SomeLate(q, u)
      BY <2>5, <2>9, LateDropped
    <3>2. AtMostOneLate(q, u) => AtMostOneLate(r, u)
      BY <2>5, <2>9, LateDropped
    <3> QED
      BY <2>1, <2>2, <2>3, <3>1, <3>2
  <2> QED
    BY <2>1, <2>2, <2>3, <2>6, <2>7, <2>8, <2>9 DEF PostedMoves
<1> QED
  BY <1>2, <1>3

LEMMA LastWordsInit == Init => LastWords
BY DEF Init, LastWords

LEMMA LastWordsOne == AllHarmless /\ LastWords => LastWordOnly
<1> SUFFICES ASSUME AllHarmless, LastWords, NEW d \in Session,
                    NEW i \in DOMAIN Posted(d), NEW j \in DOMAIN Posted(d), NEW k \in DOMAIN Posted(d),
                    Posted(d)[i].ev = "left", i < j, i < k,
                    Posted(d)[j].ev \in Pushes, Posted(d)[j].uid = Posted(d)[i].uid,
                    Posted(d)[k].ev \in Pushes, Posted(d)[k].uid = Posted(d)[i].uid
             PROVE  j = k
  BY DEF LastWordOnly, Pushes
<1> DEFINE u == Posted(d)[i].uid
<1>1. PICK c \in Session : stage[c] # "none" /\ mUid[c] = u
  BY LeftIsSealed DEF Sealed
<1>2. AtMostOneLate(Posted(d), u)
  BY <1>1 DEF LastWords
<1>3. LateAt(Posted(d), u, j) /\ LateAt(Posted(d), u, k)
  BY DEF LateAt
<1> QED
  BY <1>2, <1>3 DEF AtMostOneLate

\* After a user's user_left at most one more push of that user reaches a listener,
\* whatever threads close the session while its handlers run: for every number of
\* sessions, ports, requests and kicks.
THEOREM OneLastWord == Spec => []LastWordOnly
<1>1. Init => LastWords
  BY LastWordsInit
<1>2. IInv /\ AllAtWork /\ AllHarmless /\ LastWords /\ [Next]_vars => LastWords'
  BY LastWordsStep
<1> QED
  BY <1>1, <1>2, HarmlessHolds, LastWordsOne, PTL DEF Spec

-----------------------------------------------------------------------------
(* The list of the clients is current.                                     *)

\* Everybody in the registry has a name; while the dashboard kicks nobody it closes
\* nothing; and a handler that lists the users lists who is registered still.
ListsOK(t) ==
    /\ at[t] \in {"snapshot", "lookup", "send"} => msg[t].list = {}
    /\ at[t] = "naming" => ids[t] \subseteq DOMAIN mSessions
    /\ at[t] \in {"naming", "respond"} =>
          \A e \in msg[t].list : e.uid \in DOMAIN mSessions /\ e.name # UnknownName
GuiQuiet == kicks = 0 => at[Gui] \in {"idle", "snapshot", "send"}
AllNamed == \A u \in DOMAIN mSessions : mSessions[u].username # UnknownName
AllListsOK == kicks = 0 => \A t \in Thread : ListsOK(t)
Listing == AllNamed /\ GuiQuiet /\ AllListsOK /\ ListIsCurrent

\* One port, and nobody logs in with the name that stands for none.
OnePortOnly == \A p, q \in Port : p = q
NobodyIsUnknown == UnknownName \notin Name

LEMMA GuiIsNoPort == Gui \notin Port
BY ServerAssumption

\* Who changes the registry.
MembersMove ==
    \/ mSessions' = mSessions
    \/ \E t \in Thread : AddSession(t) \/ Remove(t)
    \/ \E t \in Port, c \in Session, name \in Name : Login(t, c, name)

LEMMA MembersSteps == [Next]_vars => MembersMove
<1> SUFFICES ASSUME [Next]_vars PROVE MembersMove
  OBVIOUS
<1>u. CASE UNCHANGED vars
  BY <1>u DEF vars, MembersMove
<1>1. ASSUME NEW t \in Thread, AddSession(t) PROVE MembersMove
  BY <1>1 DEF MembersMove
<1>2. ASSUME NEW t \in Thread, Wire(t) PROVE MembersMove
  BY <1>2 DEF Wire, MembersMove
<1>3. ASSUME NEW t \in Thread, Start(t) PROVE MembersMove
  BY <1>3 DEF Start, MembersMove
<1>4. ASSUME NEW t \in Thread, MarkClosed(t) PROVE MembersMove
  BY <1>4 DEF MarkClosed, MembersMove
<1>5. ASSUME NEW t \in Thread, Shutdown(t) PROVE MembersMove
  BY <1>5 DEF Shutdown, MembersMove
<1>6. ASSUME NEW t \in Thread, Notify(t) PROVE MembersMove
  BY <1>6 DEF Notify, MembersMove
<1>7. ASSUME NEW t \in Thread, Remove(t) PROVE MembersMove
  BY <1>7 DEF MembersMove
<1>8. ASSUME NEW t \in Thread, Snapshot(t) PROVE MembersMove
  BY <1>8 DEF Snapshot, MembersMove
<1>9. ASSUME NEW t \in Thread, Lookup(t) PROVE MembersMove
  BY <1>9 DEF Lookup, MembersMove
<1>10. ASSUME NEW t \in Thread, SendDone(t) PROVE MembersMove
  BY <1>10 DEF SendDone, MembersMove
<1>11. ASSUME NEW t \in Thread, NameDone(t) PROVE MembersMove
  BY <1>11 DEF NameDone, MembersMove
<1>12. ASSUME NEW t \in Thread, Respond(t) PROVE MembersMove
  BY <1>12 DEF Respond, MembersMove
<1>13. ASSUME NEW t \in Thread, NEW d \in Session, SendOne(t, d) PROVE MembersMove
  BY <1>13 DEF SendOne, MembersMove
<1>14. ASSUME NEW t \in Thread, NEW u \in ids[t], NameOne(t, u) PROVE MembersMove
  BY <1>14 DEF NameOne, MembersMove
<1>15. ASSUME NEW t \in Port, NEW c \in Session, Accept(t, c) PROVE MembersMove
  BY <1>15 DEF Accept, MembersMove
<1>16. ASSUME NEW t \in Port, NEW c \in Session, EndRead(t, c) PROVE MembersMove
  BY <1>16 DEF EndRead, MembersMove
<1>17. ASSUME NEW t \in Port, NEW c \in Session, RunPostedClose(t, c) PROVE MembersMove
  BY <1>17 DEF RunPostedClose, MembersMove
<1>18. ASSUME NEW t \in Port, NEW c \in Session, Write(t, c) PROVE MembersMove
  BY <1>18 DEF Write, MembersMove
<1>19. ASSUME NEW t \in Port, NEW c \in Session, NEW name \in Name, Login(t, c, name) PROVE MembersMove
  BY <1>19 DEF MembersMove
<1>20. ASSUME NEW t \in Port, NEW c \in Session, ClientList(t, c) PROVE MembersMove
  BY <1>20 DEF ClientList, MembersMove
<1>21. ASSUME NEW t \in Port, NEW c \in Session, SendPublic(t, c) PROVE MembersMove
  BY <1>21 DEF SendPublic, MembersMove
<1>22. ASSUME NEW t \in Port, NEW c \in Session, NEW to \in 1 .. mNextUid, SendPrivate(t, c, to) PROVE MembersMove
  BY <1>22 DEF SendPrivate, MembersMove
<1>23. ASSUME NEW t \in Port, NEW c \in Session, Ping(t, c) PROVE MembersMove
  BY <1>23 DEF Ping, MembersMove
<1>24. ASSUME NEW c \in Session, LoseConnection(c) PROVE MembersMove
  BY <1>24 DEF LoseConnection, MembersMove
<1>25. ASSUME Notice PROVE MembersMove
  BY <1>25 DEF Notice, MembersMove
<1>26. ASSUME NEW u \in DOMAIN mSessions, Kick(u) PROVE MembersMove
  BY <1>26 DEF Kick, MembersMove
<1> QED
  BY <1>u, <1>1, <1>2, <1>3, <1>4, <1>5, <1>6, <1>7, <1>8, <1>9, <1>10, <1>11, <1>12, <1>13,
     <1>14, <1>15, <1>16, <1>17, <1>18, <1>19, <1>20, <1>21, <1>22, <1>23, <1>24, <1>25,
     <1>26
  DEF Next, Continue, Dispatch, Request, Dashboard

LEMMA NamedStep ==
    ASSUME IInv, NobodyIsUnknown, AllNamed, [Next]_vars
    PROVE  AllNamed'
<1> USE DEF IInv, TypeOK, RegistryOK, SessionOK, ThreadOK
<1>1. CASE mSessions' = mSessions
  BY <1>1 DEF AllNamed
<1>2. ASSUME NEW t \in Thread, AddSession(t) PROVE AllNamed'
  <2>1. mSessions' = AddTo(mSessions, mUid[cur[t]], cur[t])
    BY <1>2 DEF AddSession
  <2> QED
    BY <2>1 DEF AddTo, AllNamed, GuestName, UnknownName
<1>3. ASSUME NEW t \in Thread, Remove(t) PROVE AllNamed'
  <2>1. mSessions' = RemoveFrom(mSessions, mUid[cur[t]])
    BY <1>3 DEF Remove
  <2> QED
    BY <2>1 DEF RemoveFrom, AllNamed
<1>4. ASSUME NEW t \in Port, NEW c \in Session, NEW name \in Name, Login(t, c, name) PROVE AllNamed'
  <2>1. mSessions' = SetName(mSessions, mUid[c], name) /\ name # UnknownName
    BY <1>4 DEF Login, NobodyIsUnknown
  <2>2. CASE mUid[c] \in DOMAIN mSessions
    <3>1. mSessions' = [mSessions EXCEPT ![mUid[c]].username = name]
      BY <2>1, <2>2 DEF SetName
    <3>2. DOMAIN mSessions' = DOMAIN mSessions
      BY <3>1
    <3>3. \A u \in DOMAIN mSessions : mSessions'[u].username \in {mSessions[u].username, name}
      BY <3>1 DEF SessionInfo
    <3> QED
      BY <2>1, <3>2, <3>3 DEF AllNamed
  <2>3. CASE mUid[c] \notin DOMAIN mSessions
    BY <2>1, <2>3 DEF SetName, AllNamed
  <2> QED
    BY <2>2, <2>3
<1> QED
  BY <1>1, <1>2, <1>3, <1>4, MembersSteps DEF MembersMove

LEMMA GuiStep == IInv /\ AllAtWork /\ GuiQuiet /\ [Next]_vars => GuiQuiet'
<1> SUFFICES ASSUME IInv, AllAtWork, GuiQuiet, [Next]_vars PROVE GuiQuiet'
  OBVIOUS
<1> USE DEF IInv, TypeOK, ThreadOK, GuiOK
<1>u. CASE UNCHANGED vars
  BY <1>u DEF vars, threadVars, guiVars, GuiQuiet
<1>1. ASSUME NEW t \in Thread, AddSession(t) PROVE GuiQuiet'
  BY <1>1, GuiIsNoPort, GuiIsThread DEF AddSession, Goto, queueVars, guiVars, GuiQuiet
<1>2. ASSUME NEW t \in Thread, Wire(t) PROVE GuiQuiet'
  BY <1>2, GuiIsNoPort, GuiIsThread DEF Wire, Goto, queueVars, guiVars, GuiQuiet
<1>3. ASSUME NEW t \in Thread, Start(t) PROVE GuiQuiet'
  BY <1>3, GuiIsNoPort, GuiIsThread DEF Start, Return, Goto, queueVars, guiVars, GuiQuiet
<1>4. ASSUME NEW t \in Thread, MarkClosed(t) PROVE GuiQuiet'
  BY <1>4, GuiIsNoPort, GuiIsThread DEF MarkClosed, Return, Goto, queueVars, guiVars, GuiQuiet
<1>5. ASSUME NEW t \in Thread, Shutdown(t) PROVE GuiQuiet'
  BY <1>5, GuiIsNoPort, GuiIsThread DEF Shutdown, Goto, queueVars, guiVars, GuiQuiet
<1>6. ASSUME NEW t \in Thread, Notify(t) PROVE GuiQuiet'
  BY <1>6, GuiIsNoPort, GuiIsThread DEF Notify, Return, Goto, sessionVars, queueVars, guiVars, GuiQuiet
<1>7. ASSUME NEW t \in Thread, Remove(t) PROVE GuiQuiet'
  BY <1>7, GuiIsNoPort, GuiIsThread DEF Remove, Goto, sessionVars, queueVars, guiVars, GuiQuiet
<1>8. ASSUME NEW t \in Thread, Snapshot(t) PROVE GuiQuiet'
  BY <1>8, GuiIsNoPort, GuiIsThread DEF Snapshot, Goto, sessionVars, queueVars, guiVars, GuiQuiet
<1>9. ASSUME NEW t \in Thread, Lookup(t) PROVE GuiQuiet'
  BY <1>9, GuiIsNoPort, GuiIsThread DEF Lookup, Goto, sessionVars, queueVars, guiVars, GuiQuiet
<1>10. ASSUME NEW t \in Thread, SendDone(t) PROVE GuiQuiet'
  <2>1. t # Gui => at'[Gui] = at[Gui]
    BY <1>10, GuiIsThread DEF SendDone, Return, Goto
  <2>2. CASE t = Gui
    <3>1. ~InHandler(Gui)
      BY GuiIsNoPort, GuiIsThread, ServerAssumption DEF AllAtWork, AtWork
    <3>2. at'[Gui] = "idle"
      BY <1>10, <2>2, <3>1, GuiIsThread DEF SendDone, Return, Goto, InHandler
    <3> QED
      BY <1>10, <3>2 DEF SendDone, guiVars, GuiQuiet
  <2> QED
    BY <1>10, <2>1, <2>2 DEF SendDone, guiVars, GuiQuiet
<1>11. ASSUME NEW t \in Thread, NameDone(t) PROVE GuiQuiet'
  BY <1>11, GuiIsNoPort, GuiIsThread DEF NameDone, Goto, sessionVars, queueVars, guiVars, GuiQuiet
<1>12. ASSUME NEW t \in Thread, Respond(t) PROVE GuiQuiet'
  BY <1>12, GuiIsNoPort, GuiIsThread DEF Respond, Return, Goto, guiVars, GuiQuiet
<1>13. ASSUME NEW t \in Thread, NEW d \in Session, SendOne(t, d) PROVE GuiQuiet'
  BY <1>13, GuiIsNoPort, GuiIsThread DEF SendOne, sessionVars, guiVars, GuiQuiet
<1>14. ASSUME NEW t \in Thread, NEW u \in ids[t], NameOne(t, u) PROVE GuiQuiet'
  BY <1>14, GuiIsNoPort, GuiIsThread DEF NameOne, sessionVars, queueVars, guiVars, GuiQuiet
<1>15. ASSUME NEW t \in Port, NEW c \in Session, Accept(t, c) PROVE GuiQuiet'
  BY <1>15, GuiIsNoPort, GuiIsThread DEF Accept, Serves, Begin, Goto, queueVars, guiVars, GuiQuiet
<1>16. ASSUME NEW t \in Port, NEW c \in Session, EndRead(t, c) PROVE GuiQuiet'
  BY <1>16, GuiIsNoPort, GuiIsThread DEF EndRead, Serves, Begin, Goto, queueVars, guiVars, GuiQuiet
<1>17. ASSUME NEW t \in Port, NEW c \in Session, RunPostedClose(t, c) PROVE GuiQuiet'
  BY <1>17, GuiIsNoPort, GuiIsThread DEF RunPostedClose, Serves, Begin, Goto, queueVars, guiVars, GuiQuiet
<1>18. ASSUME NEW t \in Port, NEW c \in Session, Write(t, c) PROVE GuiQuiet'
  BY <1>18, GuiIsNoPort, GuiIsThread DEF Write, threadVars, guiVars, GuiQuiet
<1>19. ASSUME NEW t \in Port, NEW c \in Session, NEW name \in Name, Login(t, c, name) PROVE GuiQuiet'
  BY <1>19, GuiIsNoPort, GuiIsThread DEF Login, Receive, Serves, Begin, Goto, queueVars, guiVars, GuiQuiet
<1>20. ASSUME NEW t \in Port, NEW c \in Session, ClientList(t, c) PROVE GuiQuiet'
  BY <1>20, GuiIsNoPort, GuiIsThread DEF ClientList, Receive, Serves, Begin, Goto, queueVars, guiVars, GuiQuiet
<1>21. ASSUME NEW t \in Port, NEW c \in Session, SendPublic(t, c) PROVE GuiQuiet'
  BY <1>21, GuiIsNoPort, GuiIsThread DEF SendPublic, Receive, Serves, Begin, Goto, queueVars, guiVars, GuiQuiet
<1>22. ASSUME NEW t \in Port, NEW c \in Session, NEW to \in 1 .. mNextUid, SendPrivate(t, c, to) PROVE GuiQuiet'
  BY <1>22, GuiIsNoPort, GuiIsThread DEF SendPrivate, Receive, Serves, Begin, Goto, queueVars, guiVars, GuiQuiet
<1>23. ASSUME NEW t \in Port, NEW c \in Session, Ping(t, c) PROVE GuiQuiet'
  BY <1>23, GuiIsNoPort, GuiIsThread DEF Ping, Receive, Serves, Begin, Goto, queueVars, guiVars, GuiQuiet
<1>24. ASSUME NEW c \in Session, LoseConnection(c) PROVE GuiQuiet'
  BY <1>24, GuiIsNoPort, GuiIsThread DEF LoseConnection, queueVars, threadVars, guiVars, GuiQuiet
<1>25. ASSUME Notice PROVE GuiQuiet'
  BY <1>25, GuiIsNoPort, GuiIsThread DEF Notice, Goto, sessionVars, queueVars, GuiQuiet
<1>26. ASSUME NEW u \in DOMAIN mSessions, Kick(u) PROVE GuiQuiet'
  BY <1>26, GuiIsNoPort, GuiIsThread DEF Kick, Begin, Goto, sessionVars, queueVars, GuiQuiet
<1> QED
  BY <1>u, <1>1, <1>2, <1>3, <1>4, <1>5, <1>6, <1>7, <1>8, <1>9, <1>10, <1>11, <1>12, <1>13,
     <1>14, <1>15, <1>16, <1>17, <1>18, <1>19, <1>20, <1>21, <1>22, <1>23, <1>24, <1>25,
     <1>26
  DEF Next, Continue, Dispatch, Request, Dashboard


\* A step of thread t and the lists: the others keep theirs, nobody else takes a session
\* out of the registry, and a new list is right.
ListMoves(t) ==
    /\ \A s \in Thread \ {t} : at'[s] = at[s] /\ msg'[s] = msg[s] /\ ids'[s] = ids[s]
    /\ kicks' = 0 => kicks = 0
    /\ DOMAIN mSessions \subseteq DOMAIN mSessions' \/ at[t] = "remove"
    /\ ListsOK(t) => ListsOK(t)'

LEMMA MsgList == \A ev, uid, name : Msg(ev, uid, name).list = {}
BY DEF Msg

LEMMA NoMsgList == NoMsg.list = {}
BY MsgList DEF NoMsg

LEMMA AddSessionLists ==
    ASSUME IInv, AllAtWork, AllNamed, NEW t \in Thread, AddSession(t)
    PROVE  ListMoves(t)
<1> USE PortIsThread, GuiIsThread DEF IInv, TypeOK, ThreadOK
<1>1. \A s \in Thread \ {t} : at'[s] = at[s] /\ msg'[s] = msg[s] /\ ids'[s] = ids[s]
  BY DEF AddSession, Goto, queueVars, guiVars
<1>2. kicks' = 0 => kicks = 0
  BY DEF AddSession, Goto, queueVars, guiVars
<1>3. DOMAIN mSessions \subseteq DOMAIN mSessions' \/ at[t] = "remove"
  BY DEF AddSession, Goto, queueVars, guiVars, AddTo
<1>4. ListsOK(t) => ListsOK(t)'
  BY DEF AddSession, Goto, ListsOK
<1> QED
  BY <1>1, <1>2, <1>3, <1>4 DEF ListMoves

LEMMA WireLists ==
    ASSUME IInv, AllAtWork, AllNamed, NEW t \in Thread, Wire(t)
    PROVE  ListMoves(t)
<1> USE PortIsThread, GuiIsThread DEF IInv, TypeOK, ThreadOK
<1>1. \A s \in Thread \ {t} : at'[s] = at[s] /\ msg'[s] = msg[s] /\ ids'[s] = ids[s]
  BY DEF Wire, Goto, queueVars, guiVars
<1>2. kicks' = 0 => kicks = 0
  BY DEF Wire, Goto, queueVars, guiVars
<1>3. DOMAIN mSessions \subseteq DOMAIN mSessions' \/ at[t] = "remove"
  BY DEF Wire, Goto, queueVars, guiVars
<1>4. ListsOK(t) => ListsOK(t)'
  BY NoMsgList DEF Wire, Goto, queueVars, guiVars, ListsOK
<1> QED
  BY <1>1, <1>2, <1>3, <1>4 DEF ListMoves

LEMMA StartLists ==
    ASSUME IInv, AllAtWork, AllNamed, NEW t \in Thread, Start(t)
    PROVE  ListMoves(t)
<1> USE PortIsThread, GuiIsThread DEF IInv, TypeOK, ThreadOK
<1>1. \A s \in Thread \ {t} : at'[s] = at[s] /\ msg'[s] = msg[s] /\ ids'[s] = ids[s]
  BY DEF Start, Return, Goto, queueVars, guiVars
<1>2. kicks' = 0 => kicks = 0
  BY DEF Start, Return, Goto, queueVars, guiVars
<1>3. DOMAIN mSessions \subseteq DOMAIN mSessions' \/ at[t] = "remove"
  BY DEF Start, Return, Goto, queueVars, guiVars
<1>4. ListsOK(t) => ListsOK(t)'
  BY NoMsgList DEF Start, Return, Goto, queueVars, guiVars, ListsOK
<1> QED
  BY <1>1, <1>2, <1>3, <1>4 DEF ListMoves

LEMMA MarkClosedLists ==
    ASSUME IInv, AllAtWork, AllNamed, NEW t \in Thread, MarkClosed(t)
    PROVE  ListMoves(t)
<1> USE PortIsThread, GuiIsThread DEF IInv, TypeOK, ThreadOK
<1>1. \A s \in Thread \ {t} : at'[s] = at[s] /\ msg'[s] = msg[s] /\ ids'[s] = ids[s]
  BY DEF MarkClosed, Return, Goto, queueVars, guiVars
<1>2. kicks' = 0 => kicks = 0
  BY DEF MarkClosed, Return, Goto, queueVars, guiVars
<1>3. DOMAIN mSessions \subseteq DOMAIN mSessions' \/ at[t] = "remove"
  BY DEF MarkClosed, Return, Goto, queueVars, guiVars
<1>4. ListsOK(t) => ListsOK(t)'
  BY NoMsgList DEF MarkClosed, Return, Goto, queueVars, guiVars, ListsOK
<1> QED
  BY <1>1, <1>2, <1>3, <1>4 DEF ListMoves

LEMMA ShutdownLists ==
    ASSUME IInv, AllAtWork, AllNamed, NEW t \in Thread, Shutdown(t)
    PROVE  ListMoves(t)
<1> USE PortIsThread, GuiIsThread DEF IInv, TypeOK, ThreadOK
<1>1. \A s \in Thread \ {t} : at'[s] = at[s] /\ msg'[s] = msg[s] /\ ids'[s] = ids[s]
  BY DEF Shutdown, Goto, queueVars, guiVars
<1>2. kicks' = 0 => kicks = 0
  BY DEF Shutdown, Goto, queueVars, guiVars
<1>3. DOMAIN mSessions \subseteq DOMAIN mSessions' \/ at[t] = "remove"
  BY DEF Shutdown, Goto, queueVars, guiVars
<1>4. ListsOK(t) => ListsOK(t)'
  BY NoMsgList DEF Shutdown, Goto, queueVars, guiVars, ListsOK
<1> QED
  BY <1>1, <1>2, <1>3, <1>4 DEF ListMoves

LEMMA NotifyLists ==
    ASSUME IInv, AllAtWork, AllNamed, NEW t \in Thread, Notify(t)
    PROVE  ListMoves(t)
<1> USE PortIsThread, GuiIsThread DEF IInv, TypeOK, ThreadOK
<1>1. \A s \in Thread \ {t} : at'[s] = at[s] /\ msg'[s] = msg[s] /\ ids'[s] = ids[s]
  BY DEF Notify, Return, Goto, sessionVars, queueVars, guiVars
<1>2. kicks' = 0 => kicks = 0
  BY DEF Notify, Return, Goto, sessionVars, queueVars, guiVars
<1>3. DOMAIN mSessions \subseteq DOMAIN mSessions' \/ at[t] = "remove"
  BY DEF Notify, Return, Goto, sessionVars, queueVars, guiVars
<1>4. ListsOK(t) => ListsOK(t)'
  BY NoMsgList DEF Notify, Return, Goto, sessionVars, queueVars, guiVars, ListsOK
<1> QED
  BY <1>1, <1>2, <1>3, <1>4 DEF ListMoves

LEMMA RemoveLists ==
    ASSUME IInv, AllAtWork, AllNamed, NEW t \in Thread, Remove(t)
    PROVE  ListMoves(t)
<1> USE PortIsThread, GuiIsThread DEF IInv, TypeOK, ThreadOK
<1>1. \A s \in Thread \ {t} : at'[s] = at[s] /\ msg'[s] = msg[s] /\ ids'[s] = ids[s]
  BY DEF Remove, Goto, sessionVars, queueVars, guiVars
<1>2. kicks' = 0 => kicks = 0
  BY DEF Remove, Goto, sessionVars, queueVars, guiVars
<1>3. DOMAIN mSessions \subseteq DOMAIN mSessions' \/ at[t] = "remove"
  BY DEF Remove, Goto, sessionVars, queueVars, guiVars
<1>4. ListsOK(t) => ListsOK(t)'
  <2>1. msg'[t].list = {} /\ at'[t] = "snapshot"
    BY MsgList DEF Remove, Goto, sessionVars, queueVars, guiVars
  <2> QED
    BY <2>1 DEF ListsOK
<1> QED
  BY <1>1, <1>2, <1>3, <1>4 DEF ListMoves

LEMMA SnapshotLists ==
    ASSUME IInv, AllAtWork, AllNamed, NEW t \in Thread, Snapshot(t)
    PROVE  ListMoves(t)
<1> USE PortIsThread, GuiIsThread DEF IInv, TypeOK, ThreadOK
<1>1. \A s \in Thread \ {t} : at'[s] = at[s] /\ msg'[s] = msg[s] /\ ids'[s] = ids[s]
  BY DEF Snapshot, Goto, sessionVars, queueVars, guiVars
<1>2. kicks' = 0 => kicks = 0
  BY DEF Snapshot, Goto, sessionVars, queueVars, guiVars
<1>3. DOMAIN mSessions \subseteq DOMAIN mSessions' \/ at[t] = "remove"
  BY DEF Snapshot, Goto, sessionVars, queueVars, guiVars
<1>4. ListsOK(t) => ListsOK(t)'
  BY NoMsgList DEF Snapshot, Goto, sessionVars, queueVars, guiVars, ListsOK
<1> QED
  BY <1>1, <1>2, <1>3, <1>4 DEF ListMoves

LEMMA LookupLists ==
    ASSUME IInv, AllAtWork, AllNamed, NEW t \in Thread, Lookup(t)
    PROVE  ListMoves(t)
<1> USE PortIsThread, GuiIsThread DEF IInv, TypeOK, ThreadOK
<1>1. \A s \in Thread \ {t} : at'[s] = at[s] /\ msg'[s] = msg[s] /\ ids'[s] = ids[s]
  BY DEF Lookup, Goto, sessionVars, queueVars, guiVars
<1>2. kicks' = 0 => kicks = 0
  BY DEF Lookup, Goto, sessionVars, queueVars, guiVars
<1>3. DOMAIN mSessions \subseteq DOMAIN mSessions' \/ at[t] = "remove"
  BY DEF Lookup, Goto, sessionVars, queueVars, guiVars
<1>4. ListsOK(t) => ListsOK(t)'
  BY NoMsgList DEF Lookup, Goto, sessionVars, queueVars, guiVars, ListsOK
<1> QED
  BY <1>1, <1>2, <1>3, <1>4 DEF ListMoves

LEMMA SendDoneLists ==
    ASSUME IInv, AllAtWork, AllNamed, NEW t \in Thread, SendDone(t)
    PROVE  ListMoves(t)
<1> USE PortIsThread, GuiIsThread DEF IInv, TypeOK, ThreadOK
<1>1. \A s \in Thread \ {t} : at'[s] = at[s] /\ msg'[s] = msg[s] /\ ids'[s] = ids[s]
  BY DEF SendDone, Return, Goto, sessionVars, queueVars, guiVars
<1>2. kicks' = 0 => kicks = 0
  BY DEF SendDone, Return, Goto, sessionVars, queueVars, guiVars
<1>3. DOMAIN mSessions \subseteq DOMAIN mSessions' \/ at[t] = "remove"
  BY DEF SendDone, Return, Goto, sessionVars, queueVars, guiVars
<1>4. ListsOK(t) => ListsOK(t)'
  BY NoMsgList DEF SendDone, Return, Goto, sessionVars, queueVars, guiVars, ListsOK
<1> QED
  BY <1>1, <1>2, <1>3, <1>4 DEF ListMoves

LEMMA NameDoneLists ==
    ASSUME IInv, AllAtWork, AllNamed, NEW t \in Thread, NameDone(t)
    PROVE  ListMoves(t)
<1> USE PortIsThread, GuiIsThread DEF IInv, TypeOK, ThreadOK
<1>1. \A s \in Thread \ {t} : at'[s] = at[s] /\ msg'[s] = msg[s] /\ ids'[s] = ids[s]
  BY DEF NameDone, Goto, sessionVars, queueVars, guiVars
<1>2. kicks' = 0 => kicks = 0
  BY DEF NameDone, Goto, sessionVars, queueVars, guiVars
<1>3. DOMAIN mSessions \subseteq DOMAIN mSessions' \/ at[t] = "remove"
  BY DEF NameDone, Goto, sessionVars, queueVars, guiVars
<1>4. ListsOK(t) => ListsOK(t)'
  BY NoMsgList DEF NameDone, Goto, sessionVars, queueVars, guiVars, ListsOK
<1> QED
  BY <1>1, <1>2, <1>3, <1>4 DEF ListMoves

LEMMA RespondLists ==
    ASSUME IInv, AllAtWork, AllNamed, NEW t \in Thread, Respond(t)
    PROVE  ListMoves(t)
<1> USE PortIsThread, GuiIsThread DEF IInv, TypeOK, ThreadOK
<1>1. \A s \in Thread \ {t} : at'[s] = at[s] /\ msg'[s] = msg[s] /\ ids'[s] = ids[s]
  BY DEF Respond, Return, Goto, guiVars
<1>2. kicks' = 0 => kicks = 0
  BY DEF Respond, Return, Goto, guiVars
<1>3. DOMAIN mSessions \subseteq DOMAIN mSessions' \/ at[t] = "remove"
  BY DEF Respond, Return, Goto, guiVars
<1>4. ListsOK(t) => ListsOK(t)'
  BY NoMsgList DEF Respond, Return, Goto, guiVars, ListsOK
<1> QED
  BY <1>1, <1>2, <1>3, <1>4 DEF ListMoves

LEMMA SendOneLists ==
    ASSUME IInv, AllAtWork, AllNamed, NEW t \in Thread, NEW d \in Session, SendOne(t, d)
    PROVE  ListMoves(t)
<1> USE PortIsThread, GuiIsThread DEF IInv, TypeOK, ThreadOK
<1>1. \A s \in Thread \ {t} : at'[s] = at[s] /\ msg'[s] = msg[s] /\ ids'[s] = ids[s]
  BY DEF SendOne, sessionVars, guiVars
<1>2. kicks' = 0 => kicks = 0
  BY DEF SendOne, sessionVars, guiVars
<1>3. DOMAIN mSessions \subseteq DOMAIN mSessions' \/ at[t] = "remove"
  BY DEF SendOne, sessionVars, guiVars
<1>4. ListsOK(t) => ListsOK(t)'
  BY NoMsgList DEF SendOne, sessionVars, guiVars, ListsOK
<1> QED
  BY <1>1, <1>2, <1>3, <1>4 DEF ListMoves

LEMMA NameOneLists ==
    ASSUME IInv, AllAtWork, AllNamed, NEW t \in Thread, NEW u \in ids[t], NameOne(t, u)
    PROVE  ListMoves(t)
<1> USE PortIsThread, GuiIsThread DEF IInv, TypeOK, ThreadOK
<1>1. \A s \in Thread \ {t} : at'[s] = at[s] /\ msg'[s] = msg[s] /\ ids'[s] = ids[s]
  BY DEF NameOne, WithEntry, sessionVars, queueVars, guiVars
<1>2. kicks' = 0 => kicks = 0
  BY DEF NameOne, WithEntry, sessionVars, queueVars, guiVars
<1>3. DOMAIN mSessions \subseteq DOMAIN mSessions' \/ at[t] = "remove"
  BY DEF NameOne, WithEntry, sessionVars, queueVars, guiVars
<1>4. ListsOK(t) => ListsOK(t)'
  <2> SUFFICES ASSUME ListsOK(t) PROVE ListsOK(t)'
    OBVIOUS
  <2> DEFINE e == [uid |-> u, name |-> GetName(mSessions, u)]
  <2>1. /\ at[t] = "naming" /\ at' = at /\ mSessions' = mSessions
        /\ ids'[t] \subseteq ids[t] /\ msg'[t] = WithEntry(msg[t], e)
    BY DEF NameOne
  <2>2. msg'[t].list = msg[t].list \cup {e}
    BY <2>1 DEF WithEntry
  <2>3. u \in DOMAIN mSessions
    BY <2>1 DEF ListsOK
  <2>4. e.uid = u /\ e.name # UnknownName
    BY <2>3 DEF GetName, AllNamed
  <2> HIDE DEF e
  <2>5. \A f \in msg'[t].list : f.uid \in DOMAIN mSessions /\ f.name # UnknownName
    BY <2>1, <2>2, <2>3, <2>4 DEF ListsOK
  <2> QED
    BY <2>1, <2>5 DEF ListsOK
<1> QED
  BY <1>1, <1>2, <1>3, <1>4 DEF ListMoves

LEMMA AcceptLists ==
    ASSUME IInv, AllAtWork, AllNamed, NEW t \in Port, NEW c \in Session, Accept(t, c)
    PROVE  ListMoves(t)
<1> USE PortIsThread, GuiIsThread DEF IInv, TypeOK, ThreadOK
<1>1. \A s \in Thread \ {t} : at'[s] = at[s] /\ msg'[s] = msg[s] /\ ids'[s] = ids[s]
  BY DEF Accept, Serves, Begin, Goto, queueVars, guiVars
<1>2. kicks' = 0 => kicks = 0
  BY DEF Accept, Serves, Begin, Goto, queueVars, guiVars
<1>3. DOMAIN mSessions \subseteq DOMAIN mSessions' \/ at[t] = "remove"
  BY DEF Accept, Serves, Begin, Goto, queueVars, guiVars
<1>4. ListsOK(t) => ListsOK(t)'
  BY NoMsgList DEF Accept, Serves, Begin, Goto, queueVars, guiVars, ListsOK
<1> QED
  BY <1>1, <1>2, <1>3, <1>4 DEF ListMoves

LEMMA EndReadLists ==
    ASSUME IInv, AllAtWork, AllNamed, NEW t \in Port, NEW c \in Session, EndRead(t, c)
    PROVE  ListMoves(t)
<1> USE PortIsThread, GuiIsThread DEF IInv, TypeOK, ThreadOK
<1>1. \A s \in Thread \ {t} : at'[s] = at[s] /\ msg'[s] = msg[s] /\ ids'[s] = ids[s]
  BY DEF EndRead, Serves, Begin, Goto, queueVars, guiVars
<1>2. kicks' = 0 => kicks = 0
  BY DEF EndRead, Serves, Begin, Goto, queueVars, guiVars
<1>3. DOMAIN mSessions \subseteq DOMAIN mSessions' \/ at[t] = "remove"
  BY DEF EndRead, Serves, Begin, Goto, queueVars, guiVars
<1>4. ListsOK(t) => ListsOK(t)'
  BY NoMsgList DEF EndRead, Serves, Begin, Goto, queueVars, guiVars, ListsOK
<1> QED
  BY <1>1, <1>2, <1>3, <1>4 DEF ListMoves

LEMMA RunPostedCloseLists ==
    ASSUME IInv, AllAtWork, AllNamed, NEW t \in Port, NEW c \in Session, RunPostedClose(t, c)
    PROVE  ListMoves(t)
<1> USE PortIsThread, GuiIsThread DEF IInv, TypeOK, ThreadOK
<1>1. \A s \in Thread \ {t} : at'[s] = at[s] /\ msg'[s] = msg[s] /\ ids'[s] = ids[s]
  BY DEF RunPostedClose, Serves, Begin, Goto, queueVars, guiVars
<1>2. kicks' = 0 => kicks = 0
  BY DEF RunPostedClose, Serves, Begin, Goto, queueVars, guiVars
<1>3. DOMAIN mSessions \subseteq DOMAIN mSessions' \/ at[t] = "remove"
  BY DEF RunPostedClose, Serves, Begin, Goto, queueVars, guiVars
<1>4. ListsOK(t) => ListsOK(t)'
  BY NoMsgList DEF RunPostedClose, Serves, Begin, Goto, queueVars, guiVars, ListsOK
<1> QED
  BY <1>1, <1>2, <1>3, <1>4 DEF ListMoves

LEMMA WriteLists ==
    ASSUME IInv, AllAtWork, AllNamed, NEW t \in Port, NEW c \in Session, Write(t, c)
    PROVE  ListMoves(t)
<1> USE PortIsThread, GuiIsThread DEF IInv, TypeOK, ThreadOK
<1>1. \A s \in Thread \ {t} : at'[s] = at[s] /\ msg'[s] = msg[s] /\ ids'[s] = ids[s]
  BY DEF Write, threadVars, guiVars
<1>2. kicks' = 0 => kicks = 0
  BY DEF Write, threadVars, guiVars
<1>3. DOMAIN mSessions \subseteq DOMAIN mSessions' \/ at[t] = "remove"
  BY DEF Write, threadVars, guiVars
<1>4. ListsOK(t) => ListsOK(t)'
  BY NoMsgList DEF Write, threadVars, guiVars, ListsOK
<1> QED
  BY <1>1, <1>2, <1>3, <1>4 DEF ListMoves

LEMMA LoginLists ==
    ASSUME IInv, AllAtWork, AllNamed, NEW t \in Port, NEW c \in Session, NEW name \in Name, Login(t, c, name)
    PROVE  ListMoves(t)
<1> USE PortIsThread, GuiIsThread DEF IInv, TypeOK, ThreadOK
<1>1. \A s \in Thread \ {t} : at'[s] = at[s] /\ msg'[s] = msg[s] /\ ids'[s] = ids[s]
  BY DEF Login, Receive, Serves, Begin, Goto, queueVars, guiVars
<1>2. kicks' = 0 => kicks = 0
  BY DEF Login, Receive, Serves, Begin, Goto, queueVars, guiVars
<1>3. DOMAIN mSessions \subseteq DOMAIN mSessions' \/ at[t] = "remove"
  BY DEF Login, Receive, Serves, Begin, Goto, queueVars, guiVars, SetName
<1>4. ListsOK(t) => ListsOK(t)'
  <2>1. msg'[t].list = {} /\ at'[t] = "snapshot"
    BY MsgList DEF Login, Receive, Serves, Begin, Goto, queueVars, guiVars
  <2> QED
    BY <2>1 DEF ListsOK
<1> QED
  BY <1>1, <1>2, <1>3, <1>4 DEF ListMoves

LEMMA ClientListLists ==
    ASSUME IInv, AllAtWork, AllNamed, NEW t \in Port, NEW c \in Session, ClientList(t, c)
    PROVE  ListMoves(t)
<1> USE PortIsThread, GuiIsThread DEF IInv, TypeOK, ThreadOK
<1>1. \A s \in Thread \ {t} : at'[s] = at[s] /\ msg'[s] = msg[s] /\ ids'[s] = ids[s]
  BY DEF ClientList, Receive, Serves, Begin, Goto, queueVars, guiVars
<1>2. kicks' = 0 => kicks = 0
  BY DEF ClientList, Receive, Serves, Begin, Goto, queueVars, guiVars
<1>3. DOMAIN mSessions \subseteq DOMAIN mSessions' \/ at[t] = "remove"
  BY DEF ClientList, Receive, Serves, Begin, Goto, queueVars, guiVars
<1>4. ListsOK(t) => ListsOK(t)'
  <2>1. msg'[t].list = {} /\ at'[t] = "naming"
    BY MsgList DEF ClientList, Receive, Serves, Begin, Goto, queueVars, guiVars
  <2>2. ids'[t] \subseteq DOMAIN mSessions'
    BY DEF ClientList, Receive, Serves, Begin, Goto, queueVars, guiVars
  <2> QED
    BY <2>1, <2>2 DEF ListsOK
<1> QED
  BY <1>1, <1>2, <1>3, <1>4 DEF ListMoves

LEMMA SendPublicLists ==
    ASSUME IInv, AllAtWork, AllNamed, NEW t \in Port, NEW c \in Session, SendPublic(t, c)
    PROVE  ListMoves(t)
<1> USE PortIsThread, GuiIsThread DEF IInv, TypeOK, ThreadOK
<1>1. \A s \in Thread \ {t} : at'[s] = at[s] /\ msg'[s] = msg[s] /\ ids'[s] = ids[s]
  BY DEF SendPublic, Receive, Serves, Begin, Goto, queueVars, guiVars
<1>2. kicks' = 0 => kicks = 0
  BY DEF SendPublic, Receive, Serves, Begin, Goto, queueVars, guiVars
<1>3. DOMAIN mSessions \subseteq DOMAIN mSessions' \/ at[t] = "remove"
  BY DEF SendPublic, Receive, Serves, Begin, Goto, queueVars, guiVars
<1>4. ListsOK(t) => ListsOK(t)'
  <2>1. msg'[t].list = {} /\ at'[t] = "snapshot"
    BY MsgList DEF SendPublic, Receive, Serves, Begin, Goto, queueVars, guiVars
  <2> QED
    BY <2>1 DEF ListsOK
<1> QED
  BY <1>1, <1>2, <1>3, <1>4 DEF ListMoves

LEMMA SendPrivateLists ==
    ASSUME IInv, AllAtWork, AllNamed, NEW t \in Port, NEW c \in Session, NEW to \in 1 .. mNextUid, SendPrivate(t, c, to)
    PROVE  ListMoves(t)
<1> USE PortIsThread, GuiIsThread DEF IInv, TypeOK, ThreadOK
<1>1. \A s \in Thread \ {t} : at'[s] = at[s] /\ msg'[s] = msg[s] /\ ids'[s] = ids[s]
  BY DEF SendPrivate, Receive, Serves, Begin, Goto, queueVars, guiVars
<1>2. kicks' = 0 => kicks = 0
  BY DEF SendPrivate, Receive, Serves, Begin, Goto, queueVars, guiVars
<1>3. DOMAIN mSessions \subseteq DOMAIN mSessions' \/ at[t] = "remove"
  BY DEF SendPrivate, Receive, Serves, Begin, Goto, queueVars, guiVars
<1>4. ListsOK(t) => ListsOK(t)'
  <2>1. msg'[t].list = {} /\ at'[t] = "lookup"
    BY MsgList DEF SendPrivate, Receive, Serves, Begin, Goto, queueVars, guiVars
  <2> QED
    BY <2>1 DEF ListsOK
<1> QED
  BY <1>1, <1>2, <1>3, <1>4 DEF ListMoves

LEMMA PingLists ==
    ASSUME IInv, AllAtWork, AllNamed, NEW t \in Port, NEW c \in Session, Ping(t, c)
    PROVE  ListMoves(t)
<1> USE PortIsThread, GuiIsThread DEF IInv, TypeOK, ThreadOK
<1>1. \A s \in Thread \ {t} : at'[s] = at[s] /\ msg'[s] = msg[s] /\ ids'[s] = ids[s]
  BY DEF Ping, Receive, Serves, Begin, Goto, queueVars, guiVars
<1>2. kicks' = 0 => kicks = 0
  BY DEF Ping, Receive, Serves, Begin, Goto, queueVars, guiVars
<1>3. DOMAIN mSessions \subseteq DOMAIN mSessions' \/ at[t] = "remove"
  BY DEF Ping, Receive, Serves, Begin, Goto, queueVars, guiVars
<1>4. ListsOK(t) => ListsOK(t)'
  <2>1. msg'[t].list = {} /\ at'[t] = "respond"
    BY MsgList DEF Ping, Receive, Serves, Begin, Goto, queueVars, guiVars
  <2> QED
    BY <2>1 DEF ListsOK
<1> QED
  BY <1>1, <1>2, <1>3, <1>4 DEF ListMoves

LEMMA LoseConnectionLists ==
    ASSUME IInv, AllAtWork, AllNamed, NEW c \in Session, LoseConnection(c)
    PROVE  ListMoves(Gui)
<1> USE PortIsThread, GuiIsThread DEF IInv, TypeOK, ThreadOK
<1>1. \A s \in Thread \ {Gui} : at'[s] = at[s] /\ msg'[s] = msg[s] /\ ids'[s] = ids[s]
  BY DEF LoseConnection, queueVars, threadVars, guiVars
<1>2. kicks' = 0 => kicks = 0
  BY DEF LoseConnection, queueVars, threadVars, guiVars
<1>3. DOMAIN mSessions \subseteq DOMAIN mSessions' \/ at[Gui] = "remove"
  BY DEF LoseConnection, queueVars, threadVars, guiVars
<1>4. ListsOK(Gui) => ListsOK(Gui)'
  BY NoMsgList DEF LoseConnection, queueVars, threadVars, guiVars, ListsOK
<1> QED
  BY <1>1, <1>2, <1>3, <1>4 DEF ListMoves

LEMMA NoticeLists ==
    ASSUME IInv, AllAtWork, AllNamed, Notice
    PROVE  ListMoves(Gui)
<1> USE PortIsThread, GuiIsThread DEF IInv, TypeOK, ThreadOK
<1>1. \A s \in Thread \ {Gui} : at'[s] = at[s] /\ msg'[s] = msg[s] /\ ids'[s] = ids[s]
  BY DEF Notice, Goto, sessionVars, queueVars
<1>2. kicks' = 0 => kicks = 0
  BY DEF Notice, Goto, sessionVars, queueVars
<1>3. DOMAIN mSessions \subseteq DOMAIN mSessions' \/ at[Gui] = "remove"
  BY DEF Notice, Goto, sessionVars, queueVars
<1>4. ListsOK(Gui) => ListsOK(Gui)'
  <2>1. msg'[Gui].list = {} /\ at'[Gui] = "snapshot"
    BY MsgList DEF Notice, Goto, sessionVars, queueVars
  <2> QED
    BY <2>1 DEF ListsOK
<1> QED
  BY <1>1, <1>2, <1>3, <1>4 DEF ListMoves

LEMMA KickLists ==
    ASSUME IInv, AllAtWork, AllNamed, NEW u \in DOMAIN mSessions, Kick(u)
    PROVE  ListMoves(Gui)
<1> USE PortIsThread, GuiIsThread DEF IInv, TypeOK, ThreadOK
<1>1. \A s \in Thread \ {Gui} : at'[s] = at[s] /\ msg'[s] = msg[s] /\ ids'[s] = ids[s]
  BY DEF Kick, Begin, Goto, sessionVars, queueVars
<1>2. kicks' = 0 => kicks = 0
  BY DEF Kick, Begin, Goto, sessionVars, queueVars, GuiOK
<1>3. DOMAIN mSessions \subseteq DOMAIN mSessions' \/ at[Gui] = "remove"
  BY DEF Kick, Begin, Goto, sessionVars, queueVars
<1>4. ListsOK(Gui) => ListsOK(Gui)'
  BY NoMsgList DEF Kick, Begin, Goto, sessionVars, queueVars, ListsOK
<1> QED
  BY <1>1, <1>2, <1>3, <1>4 DEF ListMoves

LEMMA StutterLists ==
    ASSUME UNCHANGED vars
    PROVE  ListMoves(Gui)
BY DEF vars, threadVars, guiVars, ListMoves, ListsOK

LEMMA ListSteps == IInv /\ AllAtWork /\ AllNamed /\ [Next]_vars => \E t \in Thread : ListMoves(t)
<1> SUFFICES ASSUME IInv, AllAtWork, AllNamed, [Next]_vars PROVE \E s \in Thread : ListMoves(s)
  OBVIOUS
<1>u. CASE UNCHANGED vars
  BY <1>u, GuiIsThread, StutterLists
<1>1. ASSUME NEW t \in Thread, AddSession(t) PROVE \E s \in Thread : ListMoves(s)
  BY <1>1, PortIsThread, GuiIsThread, AddSessionLists
<1>2. ASSUME NEW t \in Thread, Wire(t) PROVE \E s \in Thread : ListMoves(s)
  BY <1>2, PortIsThread, GuiIsThread, WireLists
<1>3. ASSUME NEW t \in Thread, Start(t) PROVE \E s \in Thread : ListMoves(s)
  BY <1>3, PortIsThread, GuiIsThread, StartLists
<1>4. ASSUME NEW t \in Thread, MarkClosed(t) PROVE \E s \in Thread : ListMoves(s)
  BY <1>4, PortIsThread, GuiIsThread, MarkClosedLists
<1>5. ASSUME NEW t \in Thread, Shutdown(t) PROVE \E s \in Thread : ListMoves(s)
  BY <1>5, PortIsThread, GuiIsThread, ShutdownLists
<1>6. ASSUME NEW t \in Thread, Notify(t) PROVE \E s \in Thread : ListMoves(s)
  BY <1>6, PortIsThread, GuiIsThread, NotifyLists
<1>7. ASSUME NEW t \in Thread, Remove(t) PROVE \E s \in Thread : ListMoves(s)
  BY <1>7, PortIsThread, GuiIsThread, RemoveLists
<1>8. ASSUME NEW t \in Thread, Snapshot(t) PROVE \E s \in Thread : ListMoves(s)
  BY <1>8, PortIsThread, GuiIsThread, SnapshotLists
<1>9. ASSUME NEW t \in Thread, Lookup(t) PROVE \E s \in Thread : ListMoves(s)
  BY <1>9, PortIsThread, GuiIsThread, LookupLists
<1>10. ASSUME NEW t \in Thread, SendDone(t) PROVE \E s \in Thread : ListMoves(s)
  BY <1>10, PortIsThread, GuiIsThread, SendDoneLists
<1>11. ASSUME NEW t \in Thread, NameDone(t) PROVE \E s \in Thread : ListMoves(s)
  BY <1>11, PortIsThread, GuiIsThread, NameDoneLists
<1>12. ASSUME NEW t \in Thread, Respond(t) PROVE \E s \in Thread : ListMoves(s)
  BY <1>12, PortIsThread, GuiIsThread, RespondLists
<1>13. ASSUME NEW t \in Thread, NEW d \in Session, SendOne(t, d) PROVE \E s \in Thread : ListMoves(s)
  BY <1>13, PortIsThread, GuiIsThread, SendOneLists
<1>14. ASSUME NEW t \in Thread, NEW u \in ids[t], NameOne(t, u) PROVE \E s \in Thread : ListMoves(s)
  BY <1>14, PortIsThread, GuiIsThread, NameOneLists
<1>15. ASSUME NEW t \in Port, NEW c \in Session, Accept(t, c) PROVE \E s \in Thread : ListMoves(s)
  BY <1>15, PortIsThread, GuiIsThread, AcceptLists
<1>16. ASSUME NEW t \in Port, NEW c \in Session, EndRead(t, c) PROVE \E s \in Thread : ListMoves(s)
  BY <1>16, PortIsThread, GuiIsThread, EndReadLists
<1>17. ASSUME NEW t \in Port, NEW c \in Session, RunPostedClose(t, c) PROVE \E s \in Thread : ListMoves(s)
  BY <1>17, PortIsThread, GuiIsThread, RunPostedCloseLists
<1>18. ASSUME NEW t \in Port, NEW c \in Session, Write(t, c) PROVE \E s \in Thread : ListMoves(s)
  BY <1>18, PortIsThread, GuiIsThread, WriteLists
<1>19. ASSUME NEW t \in Port, NEW c \in Session, NEW name \in Name, Login(t, c, name) PROVE \E s \in Thread : ListMoves(s)
  BY <1>19, PortIsThread, GuiIsThread, LoginLists
<1>20. ASSUME NEW t \in Port, NEW c \in Session, ClientList(t, c) PROVE \E s \in Thread : ListMoves(s)
  BY <1>20, PortIsThread, GuiIsThread, ClientListLists
<1>21. ASSUME NEW t \in Port, NEW c \in Session, SendPublic(t, c) PROVE \E s \in Thread : ListMoves(s)
  BY <1>21, PortIsThread, GuiIsThread, SendPublicLists
<1>22. ASSUME NEW t \in Port, NEW c \in Session, NEW to \in 1 .. mNextUid, SendPrivate(t, c, to) PROVE \E s \in Thread : ListMoves(s)
  BY <1>22, PortIsThread, GuiIsThread, SendPrivateLists
<1>23. ASSUME NEW t \in Port, NEW c \in Session, Ping(t, c) PROVE \E s \in Thread : ListMoves(s)
  BY <1>23, PortIsThread, GuiIsThread, PingLists
<1>24. ASSUME NEW c \in Session, LoseConnection(c) PROVE \E s \in Thread : ListMoves(s)
  BY <1>24, PortIsThread, GuiIsThread, LoseConnectionLists
<1>25. ASSUME Notice PROVE \E s \in Thread : ListMoves(s)
  BY <1>25, PortIsThread, GuiIsThread, NoticeLists
<1>26. ASSUME NEW u \in DOMAIN mSessions, Kick(u) PROVE \E s \in Thread : ListMoves(s)
  BY <1>26, PortIsThread, GuiIsThread, KickLists
<1> QED
  BY <1>u, <1>1, <1>2, <1>3, <1>4, <1>5, <1>6, <1>7, <1>8, <1>9, <1>10, <1>11, <1>12, <1>13,
     <1>14, <1>15, <1>16, <1>17, <1>18, <1>19, <1>20, <1>21, <1>22, <1>23, <1>24, <1>25,
     <1>26
  DEF Next, Continue, Dispatch, Request, Dashboard

LEMMA AllListsStep ==
    ASSUME IInv, AllAtWork, OnePortOnly, AllNamed, GuiQuiet, AllListsOK, [Next]_vars
    PROVE  AllListsOK'
<1> SUFFICES ASSUME kicks' = 0, NEW s \in Thread PROVE ListsOK(s)'
  BY DEF AllListsOK
<1>1. PICK t \in Thread : ListMoves(t)
  BY ListSteps
<1>2. kicks = 0
  BY <1>1 DEF ListMoves
<1>3. ListsOK(s) /\ ListsOK(t) /\ at[Gui] \in {"idle", "snapshot", "send"}
  BY <1>2 DEF AllListsOK, GuiQuiet
<1>4. CASE s = t
  BY <1>1, <1>3, <1>4 DEF ListMoves
<1>5. CASE s # t
  <2>1. at'[s] = at[s] /\ msg'[s] = msg[s] /\ ids'[s] = ids[s]
    BY <1>1, <1>5 DEF ListMoves
  <2>2. CASE DOMAIN mSessions \subseteq DOMAIN mSessions'
    BY <1>3, <2>1, <2>2 DEF ListsOK
  <2>3. CASE at[t] = "remove"
    <3>1. s = Gui
      BY <1>3, <1>5, <2>3 DEF OnePortOnly, Thread
    <3> QED
      BY <1>3, <2>1, <3>1 DEF ListsOK
  <2> QED
    BY <1>1, <2>2, <2>3 DEF ListMoves
<1> QED
  BY <1>4, <1>5

\* The lists in a queue: nobody in one of them was announced as gone before it.
CurrentAt(q, j) ==
    \A e \in q[j].list :
        e.name # UnknownName /\ \A i \in 1 .. j : q[i].ev = "left" => q[i].uid # e.uid
Current(q) == \A j \in DOMAIN q : CurrentAt(q, j)

LEMMA ListIsCurrentIs == ListIsCurrent <=> (kicks = 0 => \A d \in Session : Current(Posted(d)))
BY DEF ListIsCurrent, Current, CurrentAt

LEMMA ListIsCurrentNext ==
    ListIsCurrent' <=> (kicks' = 0 => \A d \in Session : Current(Posted(d)'))
BY DEF ListIsCurrent, Current, CurrentAt

LEMMA CurrentAppend ==
    ASSUME NEW q \in Seq(Message), NEW m \in Message, Current(q),
           \A e \in m.list : /\ e.name # UnknownName
                             /\ m.ev = "left" => m.uid # e.uid
                             /\ \A i \in DOMAIN q : q[i].ev = "left" => q[i].uid # e.uid
    PROVE  Current(Append(q, m))
<1> DEFINE r == Append(q, m)
<1>1. /\ DOMAIN r = 1 .. Len(q) + 1 /\ DOMAIN q = 1 .. Len(q) /\ Len(q) \in Nat
      /\ \A i \in 1 .. Len(q) : r[i] = q[i]
      /\ r[Len(q) + 1] = m
  OBVIOUS
<1> HIDE DEF r
<1>2. ASSUME NEW j \in 1 .. Len(q) PROVE CurrentAt(r, j)
  <2>1. CurrentAt(q, j)
    BY <1>1 DEF Current
  <2>2. \A i \in 1 .. j : r[i] = q[i]
    BY <1>1
  <2> QED
    BY <1>1, <2>1, <2>2 DEF CurrentAt
<1>3. CurrentAt(r, Len(q) + 1)
  <2>1. \A i \in 1 .. Len(q) + 1 : i \in 1 .. Len(q) \/ i = Len(q) + 1
    BY <1>1
  <2> QED
    BY <1>1, <2>1 DEF CurrentAt
<1>4. \A j \in DOMAIN r : j \in 1 .. Len(q) \/ j = Len(q) + 1
  BY <1>1
<1>5. Current(r)
  BY <1>2, <1>3, <1>4 DEF Current
<1> QED
  BY <1>5 DEF r

LEMMA CurrentDropped ==
    ASSUME NEW q \in Seq(Message), NEW r, Dropped(q, r), Current(q)
    PROVE  Current(r)
<1>1. PICK p \in DOMAIN q :
        /\ r \in Seq(Message) /\ Len(r) = Len(q) - 1
        /\ \A i \in DOMAIN r : r[i] = IF i < p THEN q[i] ELSE q[i + 1]
  BY DEF Dropped
<1>2. p \in Nat /\ Len(q) \in Nat /\ DOMAIN q = 1 .. Len(q) /\ DOMAIN r = 1 .. Len(q) - 1
  BY <1>1
<1> DEFINE At(j) == IF j < p THEN j ELSE j + 1
<1>3. \A j \in DOMAIN r : /\ j \in Nat /\ At(j) \in DOMAIN q /\ r[j] = q[At(j)]
                          /\ \A i \in 1 .. j : i \in DOMAIN r /\ At(i) \in 1 .. At(j)
  BY <1>1, <1>2
<1> HIDE DEF At
<1> SUFFICES ASSUME NEW j \in DOMAIN r PROVE CurrentAt(r, j)
  BY DEF Current
<1>4. CurrentAt(q, At(j)) /\ r[j] = q[At(j)]
  BY <1>3 DEF Current
<1>5. ASSUME NEW i \in 1 .. j PROVE At(i) \in 1 .. At(j) /\ r[i] = q[At(i)]
  BY <1>3
<1> QED
  BY <1>4, <1>5 DEF CurrentAt

LEMMA ListIsCurrentStep ==
    ASSUME IInv, AllHarmless, AllAtWork, OnePortOnly, Listing, [Next]_vars
    PROVE  ListIsCurrent'
<1> SUFFICES ASSUME kicks' = 0, NEW d \in Session PROVE Current(Posted(d)')
  BY ListIsCurrentNext
<1>1. kicks = 0
  <2>1. AllNamed
    BY DEF Listing
  <2> QED
    BY <2>1, ListSteps DEF ListMoves
<1>2. Current(Posted(d))
  BY <1>1, ListIsCurrentIs DEF Listing
<1>3. TypeOK
  BY DEF IInv
<1>4. Posted(d) \in Seq(Message) /\ PostedMoves(d)
  BY <1>3, PostedType, PostedSteps
<1>5. \A t \in Thread : ListsOK(t) /\ msg[t] \in Message
  BY <1>1, <1>3 DEF Listing, AllListsOK, TypeOK, ThreadOK
<1>6. ASSUME NEW t \in Thread, SendOne(t, d), Grows(Posted(d), Posted(d)', msg[t])
      PROVE  Current(Posted(d)')
  <2>1. msg[t].list = {}
    BY <1>5, <1>6 DEF ListsOK, SendOne
  <2>2. Current(Append(Posted(d), msg[t]))
    BY <1>2, <1>4, <1>5, <2>1, CurrentAppend
  <2> QED
    BY <1>6, <2>2 DEF Grows
<1>7. ASSUME NEW t \in Thread, Respond(t), Grows(Posted(d), Posted(d)', Reply(t))
      PROVE  Current(Posted(d)')
  <2>1. Reply(t) \in Message /\ Reply(t).ev # "left"
    BY <1>3, ReplyIs
  <2>2. \A e \in Reply(t).list : e.uid \in DOMAIN mSessions /\ e.name # UnknownName
    <3>1. at[t] = "respond"
      BY <1>7 DEF Respond
    <3>2. \A e \in msg[t].list : e.uid \in DOMAIN mSessions /\ e.name # UnknownName
      BY <1>5, <3>1 DEF ListsOK
    <3> QED
      BY <3>2, MsgList DEF Reply
  <2>3. \A i \in DOMAIN Posted(d) : Posted(d)[i].ev = "left" => Posted(d)[i].uid \notin DOMAIN mSessions
    BY HarmlessLeft DEF LeftIsFinal
  <2>4. Current(Append(Posted(d), Reply(t)))
    BY <1>2, <1>4, <2>1, <2>2, <2>3, CurrentAppend
  <2> QED
    BY <1>7, <2>4 DEF Grows
<1>8. CASE Dropped(Posted(d), Posted(d)')
  BY <1>2, <1>4, <1>8, CurrentDropped
<1>9. CASE Posted(d)' = Posted(d)
  BY <1>2, <1>9
<1> QED
  BY <1>4, <1>6, <1>7, <1>8, <1>9 DEF PostedMoves

LEMMA ListingInit == Init => Listing
<1> SUFFICES ASSUME Init PROVE Listing
  OBVIOUS
<1>1. AllNamed /\ GuiQuiet /\ AllListsOK
  BY GuiIsThread DEF Init, AllNamed, GuiQuiet, AllListsOK, ListsOK
<1>2. \A d \in Session : Posted(d) = <<>>
  BY DEF Init, Posted
<1>3. ListIsCurrent
  BY <1>2 DEF ListIsCurrent
<1> QED
  BY <1>1, <1>3 DEF Listing

\* On one port and while the dashboard kicks nobody, a client_list names nobody whose
\* departure its reader was told before, and every name in it is real, whatever the
\* sessions do and in whatever order: for every number of sessions, requests and
\* notices.  The second hypothesis excludes a user who calls himself "Unknown", which
\* the code does not: his entry would be right and look like that of nobody.
THEOREM ListsAreCurrent ==
    ASSUME OnePortOnly, NobodyIsUnknown
    PROVE  Spec => []ListIsCurrent
<1>1. Init => Listing
  BY ListingInit
<1>2. IInv /\ AllAtWork /\ AllHarmless /\ Listing /\ [Next]_vars => Listing'
  <2> SUFFICES ASSUME IInv, AllAtWork, AllHarmless, Listing, [Next]_vars PROVE Listing'
    OBVIOUS
  <2>1. AllNamed' /\ GuiQuiet'
    BY NamedStep, GuiStep DEF Listing
  <2>2. AllListsOK'
    BY AllListsStep DEF Listing
  <2>3. ListIsCurrent'
    BY ListIsCurrentStep
  <2> QED
    BY <2>1, <2>2, <2>3 DEF Listing
<1>3. Listing => ListIsCurrent
  BY DEF Listing
<1> QED
  BY <1>1, <1>2, <1>3, HarmlessHolds, PTL DEF Spec

----------------------------------------------------------------------------
(* ChatServer implements Membership: every step of the server, for every set*)
(* of sessions, ports and names and every bound, joins, leaves, announces or*)
(* haunts one session, or none.                                             *)

\* What Membership can see: who is a member, who has left, who is announced.
mView == <<status, announced, missed>>

\* Thread t makes a step that Membership does not see.
Aside(t) ==
    /\ OnlyThread(t)
    /\ Registered' = Registered
    /\ missed' = missed
    /\ mIsClosed \subseteq mIsClosed'
    /\ \A c \in Session :
          /\ Fresh(c)' <=> Fresh(c)
          /\ stage[c] \in Wired => stage'[c] \in Wired
    /\ ~Departing(t)
    /\ ~Departing(t)'
    /\ at'[t] \in Closing => cur'[t] \in Registered /\ cur'[t] \notin missed
    /\ at'[t] = "remove" => stage'[cur'[t]] \in Wired

LEMMA RegisteredType == ASSUME TypeOK PROVE Registered \subseteq Session
BY AllSessionsType DEF Registered, TypeOK, RegistryOK

\* A registered session is not fresh.
LEMMA RegisteredKnown == ASSUME IInv PROVE \A c \in Registered : ~Fresh(c)
BY DEF IInv, UidsDrawn, Registered, AllSessions

LEMMA StageCases ==
    ASSUME TypeOK, NEW c \in Session
    PROVE  Fresh(c) \/ stage[c] = "added" \/ stage[c] \in Wired
BY DEF TypeOK, SessionOK, Stages, Fresh, Wired

LEMMA WiredKnown == \A c \in Session : stage[c] \in Wired => ~Fresh(c) /\ stage[c] # "added"
BY DEF Wired, Fresh

\* Two states with the same members, whose members have passed the same stages and
\* whose threads have the same departures to announce, look the same to Membership.
LEMMA SameView ==
    ASSUME Registered' = Registered, missed' = missed,
           \A c \in Session : c \in Registered \/ (stage[c] \in Wired <=> stage'[c] \in Wired),
           \A t \in Thread : Departing(t) <=> Departing(t)',
           \A t \in Thread : Departing(t) => cur'[t] = cur[t]
    PROVE  UNCHANGED mView
<1>1. status' = status
  BY DEF status
<1>2. \A c \in Session :
         (\A t \in Thread : ~(Departing(t) /\ cur[t] = c)) <=>
         (\A t \in Thread : ~(Departing(t)' /\ cur'[t] = c))
  OBVIOUS
<1>3. announced' = announced
  BY <1>1, <1>2 DEF announced
<1> QED
  BY <1>1, <1>3 DEF mView

\* A step aside keeps the invariant and the view.
LEMMA AsideStep ==
    ASSUME IInv, MInv, TypeOK', NEW t \in Thread, Aside(t)
    PROVE  MInv' /\ UNCHANGED mView
<1> USE DEF Aside
<1>0. TypeOK /\ cur \in [Thread -> Session] /\ cur' \in [Thread -> Session]
  BY DEF IInv, TypeOK, ThreadOK
<1>1. \A s \in Thread \ {t} :
         at'[s] = at[s] /\ cur'[s] = cur[s] /\ (Departing(s)' <=> Departing(s))
  BY DEF OnlyThread, Departing
<1>2. \A c \in Session : stage'[c] = "added" => stage[c] = "added"
  BY <1>0, StageCases, WiredKnown DEF Wired, Fresh
<1>3. InTheRegistry'
  BY <1>2 DEF MInv, InTheRegistry
<1>4. ASSUME NEW s \in Thread PROVE OnTheWayOut(s)'
  <2>1. CASE s = t
    BY <2>1 DEF OnTheWayOut
  <2>2. CASE s # t
    BY <1>0, <1>1, <2>2 DEF MInv, OnTheWayOut
  <2> QED
    BY <2>1, <2>2
<1>5. OneAnnouncer'
  BY <1>1 DEF MInv, OneAnnouncer
<1>6. ASSUME NEW c \in Session
      PROVE  c \in Registered \/ (stage[c] \in Wired <=> stage'[c] \in Wired)
  <2>1. CASE stage[c] \in Wired
    BY <2>1
  <2>2. CASE stage[c] = "added"
    BY <2>2 DEF MInv, InTheRegistry
  <2>3. CASE Fresh(c)
    <3>1. Fresh(c)'
      BY <2>3
    <3> QED
      BY <2>3, <3>1 DEF Fresh, Wired
  <2> QED
    BY <1>0, <2>1, <2>2, <2>3, StageCases
<1>7. UNCHANGED mView
  BY <1>1, <1>6, SameView
<1> QED
  BY <1>3, <1>4, <1>5, <1>7 DEF MInv

-----------------------------------------------------------------------------

\* What a step that neither closes, registers nor forgets a session has to keep.
LEMMA AsideIf ==
    ASSUME NEW t \in Thread, OnlyThread(t), Registered' = Registered,
           missed' = missed, mIsClosed' = mIsClosed, StageMoves,
           ~Departing(t), at'[t] \notin Closing,
           at'[t] = "snapshot" => msg'[t].ev # "left"
    PROVE  Aside(t)
<1>1. \A c \in Session : Fresh(c)' <=> Fresh(c)
  BY FreshStays
<1>2. \A c \in Session : stage[c] \in Wired => stage'[c] \in Wired
  BY DEF StageMoves
<1>3. ~Departing(t)' /\ at'[t] # "remove"
  BY DEF Departing, Closing
<1> QED
  BY <1>1, <1>2, <1>3 DEF Aside

LEMMA WireAside ==
    ASSUME IInv, TypeOK', NEW t \in Thread, Wire(t)
    PROVE  Aside(t)
<1> USE PortIsThread DEF IInv, TypeOK, ThreadOK
<1>1. OnlyThread(t) /\ ~Departing(t) /\ at'[t] \notin Closing
  BY DEF Wire, Goto, OnlyThread, Departing, Closing
<1>2. Registered' = Registered
  BY DEF Wire, Registered, AllSessions
<1>3. UNCHANGED <<missed, mIsClosed>> /\ StageMoves
  BY DEF Wire, InStep, Fresh, Wired, StageMoves
<1>4. at'[t] = "snapshot" => msg'[t].ev # "left"
  BY DEF Wire, Goto
<1> QED
  BY <1>1, <1>2, <1>3, <1>4, AsideIf

LEMMA StartAside ==
    ASSUME IInv, TypeOK', NEW t \in Thread, Start(t)
    PROVE  Aside(t)
<1> USE PortIsThread DEF IInv, TypeOK, ThreadOK
<1>1. OnlyThread(t) /\ ~Departing(t) /\ at'[t] \notin Closing
  BY DEF Start, Return, Goto, OnlyThread, Departing, Closing
<1>2. Registered' = Registered
  BY DEF Start, Registered, AllSessions
<1>3. UNCHANGED <<missed, mIsClosed>> /\ StageMoves
  BY DEF Start, InStep, Fresh, Wired, StageMoves
<1>4. at'[t] = "snapshot" => msg'[t].ev # "left"
  BY DEF Start, Return, Goto
<1> QED
  BY <1>1, <1>2, <1>3, <1>4, AsideIf

LEMMA LookupAside ==
    ASSUME IInv, TypeOK', NEW t \in Thread, Lookup(t)
    PROVE  Aside(t)
<1> USE PortIsThread DEF IInv, TypeOK, ThreadOK
<1>1. OnlyThread(t) /\ ~Departing(t) /\ at'[t] \notin Closing
  BY DEF Lookup, Goto, OnlyThread, Departing, Closing
<1>2. Registered' = Registered
  BY DEF Lookup, Registered, AllSessions
<1>3. UNCHANGED <<missed, mIsClosed>> /\ StageMoves
  BY DEF Lookup, sessionVars, StageMoves
<1>4. at'[t] = "snapshot" => msg'[t].ev # "left"
  BY DEF Lookup, Goto
<1> QED
  BY <1>1, <1>2, <1>3, <1>4, AsideIf

LEMMA SendDoneAside ==
    ASSUME IInv, TypeOK', NEW t \in Thread, SendDone(t)
    PROVE  Aside(t)
<1> USE PortIsThread DEF IInv, TypeOK, ThreadOK
<1>1. OnlyThread(t) /\ ~Departing(t) /\ at'[t] \notin Closing
  BY DEF SendDone, Return, Goto, OnlyThread, Departing, Closing
<1>2. Registered' = Registered
  BY DEF SendDone, Registered, AllSessions
<1>3. UNCHANGED <<missed, mIsClosed>> /\ StageMoves
  BY DEF SendDone, sessionVars, StageMoves
<1>4. at'[t] = "snapshot" => msg'[t].ev # "left"
  BY DEF SendDone, Return, Goto
<1> QED
  BY <1>1, <1>2, <1>3, <1>4, AsideIf

LEMMA NameDoneAside ==
    ASSUME IInv, TypeOK', NEW t \in Thread, NameDone(t)
    PROVE  Aside(t)
<1> USE PortIsThread DEF IInv, TypeOK, ThreadOK
<1>1. OnlyThread(t) /\ ~Departing(t) /\ at'[t] \notin Closing
  BY DEF NameDone, Goto, OnlyThread, Departing, Closing
<1>2. Registered' = Registered
  BY DEF NameDone, Registered, AllSessions
<1>3. UNCHANGED <<missed, mIsClosed>> /\ StageMoves
  BY DEF NameDone, sessionVars, StageMoves
<1>4. at'[t] = "snapshot" => msg'[t].ev # "left"
  BY DEF NameDone, Goto
<1> QED
  BY <1>1, <1>2, <1>3, <1>4, AsideIf

LEMMA RespondAside ==
    ASSUME IInv, TypeOK', NEW t \in Thread, Respond(t)
    PROVE  Aside(t)
<1> USE PortIsThread DEF IInv, TypeOK, ThreadOK
<1>1. OnlyThread(t) /\ ~Departing(t) /\ at'[t] \notin Closing
  BY DEF Respond, Return, Goto, OnlyThread, Departing, Closing
<1>2. Registered' = Registered
  BY DEF Respond, Registered, AllSessions
<1>3. UNCHANGED <<missed, mIsClosed>> /\ StageMoves
  BY DEF Respond, InStep, Fresh, Wired, StageMoves
<1>4. at'[t] = "snapshot" => msg'[t].ev # "left"
  BY DEF Respond, Return, Goto
<1> QED
  BY <1>1, <1>2, <1>3, <1>4, AsideIf

LEMMA SendOneAside ==
    ASSUME IInv, TypeOK', NEW t \in Thread, NEW d \in Session, SendOne(t, d)
    PROVE  Aside(t)
<1> USE PortIsThread DEF IInv, TypeOK, ThreadOK
<1>1. OnlyThread(t) /\ ~Departing(t) /\ at'[t] \notin Closing
  BY DEF SendOne, OnlyThread, Departing, Closing
<1>2. Registered' = Registered
  BY DEF SendOne, Registered, AllSessions
<1>3. UNCHANGED <<missed, mIsClosed>> /\ StageMoves
  BY DEF SendOne, sessionVars, StageMoves
<1>4. at'[t] = "snapshot" => msg'[t].ev # "left"
  BY DEF SendOne
<1> QED
  BY <1>1, <1>2, <1>3, <1>4, AsideIf

LEMMA NameOneAside ==
    ASSUME IInv, TypeOK', NEW t \in Thread, NEW u \in ids[t], NameOne(t, u)
    PROVE  Aside(t)
<1> USE PortIsThread DEF IInv, TypeOK, ThreadOK
<1>1. OnlyThread(t) /\ ~Departing(t) /\ at'[t] \notin Closing
  BY DEF NameOne, OnlyThread, Departing, Closing
<1>2. Registered' = Registered
  BY DEF NameOne, Registered, AllSessions
<1>3. UNCHANGED <<missed, mIsClosed>> /\ StageMoves
  BY DEF NameOne, sessionVars, StageMoves
<1>4. at'[t] = "snapshot" => msg'[t].ev # "left"
  BY DEF NameOne
<1> QED
  BY <1>1, <1>2, <1>3, <1>4, AsideIf

LEMMA EndReadAside ==
    ASSUME IInv, TypeOK', NEW t \in Port, NEW c \in Session, EndRead(t, c)
    PROVE  Aside(t)
<1> USE PortIsThread DEF IInv, TypeOK, ThreadOK
<1>1. OnlyThread(t) /\ ~Departing(t) /\ at'[t] \notin Closing
  BY DEF EndRead, Begin, Goto, OnlyThread, Departing, Closing
<1>2. Registered' = Registered
  BY DEF EndRead, Registered, AllSessions
<1>3. UNCHANGED <<missed, mIsClosed>> /\ StageMoves
  BY DEF EndRead, InStep, Fresh, Wired, StageMoves
<1>4. at'[t] = "snapshot" => msg'[t].ev # "left"
  BY DEF EndRead, Begin, Goto
<1> QED
  BY <1>1, <1>2, <1>3, <1>4, AsideIf

LEMMA RunPostedCloseAside ==
    ASSUME IInv, TypeOK', NEW t \in Port, NEW c \in Session, RunPostedClose(t, c)
    PROVE  Aside(t)
<1> USE PortIsThread DEF IInv, TypeOK, ThreadOK
<1>1. OnlyThread(t) /\ ~Departing(t) /\ at'[t] \notin Closing
  BY DEF RunPostedClose, Begin, Goto, OnlyThread, Departing, Closing
<1>2. Registered' = Registered
  BY DEF RunPostedClose, Registered, AllSessions
<1>3. UNCHANGED <<missed, mIsClosed>> /\ StageMoves
  BY DEF RunPostedClose, sessionVars, StageMoves
<1>4. at'[t] = "snapshot" => msg'[t].ev # "left"
  BY DEF RunPostedClose, Begin, Goto
<1> QED
  BY <1>1, <1>2, <1>3, <1>4, AsideIf

LEMMA WriteAside ==
    ASSUME IInv, TypeOK', NEW t \in Port, NEW c \in Session, Write(t, c)
    PROVE  Aside(t)
<1> USE PortIsThread DEF IInv, TypeOK, ThreadOK
<1>1. OnlyThread(t) /\ ~Departing(t) /\ at'[t] \notin Closing
  BY DEF Write, Serves, threadVars, OnlyThread, Departing, Closing
<1>2. Registered' = Registered
  BY DEF Write, Registered, AllSessions
<1>3. UNCHANGED <<missed, mIsClosed>> /\ StageMoves
  BY DEF Write, sessionVars, StageMoves
<1>4. at'[t] = "snapshot" => msg'[t].ev # "left"
  BY DEF Write, Serves, threadVars
<1> QED
  BY <1>1, <1>2, <1>3, <1>4, AsideIf

LEMMA LoginAside ==
    ASSUME IInv, TypeOK', NEW t \in Port, NEW c \in Session, NEW name \in Name, Login(t, c, name)
    PROVE  Aside(t)
<1> USE PortIsThread DEF IInv, TypeOK, ThreadOK
<1>1. OnlyThread(t) /\ ~Departing(t) /\ at'[t] \notin Closing
  BY DEF Login, Receive, Begin, Goto, OnlyThread, Departing, Closing
<1>2. Registered' = Registered
  <2>1. mUid[c] \in Nat /\ name \in Names
    BY DEF SessionOK, Names
  <2>2. mSessions' = SetName(mSessions, mUid[c], name)
    BY DEF Login
  <2>3. /\ DOMAIN mSessions' = DOMAIN mSessions
        /\ \A u \in DOMAIN mSessions : mSessions'[u].session = mSessions[u].session
    BY <2>1, <2>2, SetNameType DEF RegistryOK
  <2> QED
    BY <2>3 DEF Registered, AllSessions
<1>3. UNCHANGED <<missed, mIsClosed>> /\ StageMoves
  BY DEF Login, StageMoves
<1>4. at'[t] = "snapshot" => msg'[t].ev # "left"
  BY DEF Login, Receive, Begin, Goto, Msg
<1> QED
  BY <1>1, <1>2, <1>3, <1>4, AsideIf

LEMMA ClientListAside ==
    ASSUME IInv, TypeOK', NEW t \in Port, NEW c \in Session, ClientList(t, c)
    PROVE  Aside(t)
<1> USE PortIsThread DEF IInv, TypeOK, ThreadOK
<1>1. OnlyThread(t) /\ ~Departing(t) /\ at'[t] \notin Closing
  BY DEF ClientList, Receive, Begin, Goto, OnlyThread, Departing, Closing
<1>2. Registered' = Registered
  BY DEF ClientList, Registered, AllSessions
<1>3. UNCHANGED <<missed, mIsClosed>> /\ StageMoves
  BY DEF ClientList, StageMoves
<1>4. at'[t] = "snapshot" => msg'[t].ev # "left"
  BY DEF ClientList, Receive, Begin, Goto
<1> QED
  BY <1>1, <1>2, <1>3, <1>4, AsideIf

LEMMA SendPublicAside ==
    ASSUME IInv, TypeOK', NEW t \in Port, NEW c \in Session, SendPublic(t, c)
    PROVE  Aside(t)
<1> USE PortIsThread DEF IInv, TypeOK, ThreadOK
<1>1. OnlyThread(t) /\ ~Departing(t) /\ at'[t] \notin Closing
  BY DEF SendPublic, Receive, Begin, Goto, OnlyThread, Departing, Closing
<1>2. Registered' = Registered
  BY DEF SendPublic, Registered, AllSessions
<1>3. UNCHANGED <<missed, mIsClosed>> /\ StageMoves
  BY DEF SendPublic, StageMoves
<1>4. at'[t] = "snapshot" => msg'[t].ev # "left"
  BY DEF SendPublic, Receive, Begin, Goto, Msg
<1> QED
  BY <1>1, <1>2, <1>3, <1>4, AsideIf

LEMMA SendPrivateAside ==
    ASSUME IInv, TypeOK', NEW t \in Port, NEW c \in Session, NEW to \in 1 .. mNextUid,
           SendPrivate(t, c, to)
    PROVE  Aside(t)
<1> USE PortIsThread DEF IInv, TypeOK, ThreadOK
<1>1. OnlyThread(t) /\ ~Departing(t) /\ at'[t] \notin Closing
  BY DEF SendPrivate, Receive, Begin, Goto, OnlyThread, Departing, Closing
<1>2. Registered' = Registered
  BY DEF SendPrivate, Registered, AllSessions
<1>3. UNCHANGED <<missed, mIsClosed>> /\ StageMoves
  BY DEF SendPrivate, StageMoves
<1>4. at'[t] = "snapshot" => msg'[t].ev # "left"
  BY DEF SendPrivate, Receive, Begin, Goto
<1> QED
  BY <1>1, <1>2, <1>3, <1>4, AsideIf

LEMMA PingAside ==
    ASSUME IInv, TypeOK', NEW t \in Port, NEW c \in Session, Ping(t, c)
    PROVE  Aside(t)
<1> USE PortIsThread DEF IInv, TypeOK, ThreadOK
<1>1. OnlyThread(t) /\ ~Departing(t) /\ at'[t] \notin Closing
  BY DEF Ping, Receive, Begin, Goto, OnlyThread, Departing, Closing
<1>2. Registered' = Registered
  BY DEF Ping, Registered, AllSessions
<1>3. UNCHANGED <<missed, mIsClosed>> /\ StageMoves
  BY DEF Ping, StageMoves
<1>4. at'[t] = "snapshot" => msg'[t].ev # "left"
  BY DEF Ping, Receive, Begin, Goto
<1> QED
  BY <1>1, <1>2, <1>3, <1>4, AsideIf

LEMMA NoticeAside ==
    ASSUME IInv, TypeOK', Notice
    PROVE  Aside(Gui)
<1> USE DEF IInv, TypeOK, ThreadOK
<1>0. Gui \in Thread
  BY DEF Thread
<1>1. OnlyThread(Gui) /\ ~Departing(Gui) /\ at'[Gui] \notin Closing
  BY <1>0 DEF Notice, Goto, OnlyThread, Departing, Closing
<1>2. Registered' = Registered
  BY DEF Notice, Registered, AllSessions
<1>3. UNCHANGED <<missed, mIsClosed>> /\ StageMoves
  BY DEF Notice, sessionVars, StageMoves
<1>4. msg'[Gui].ev # "left"
  BY <1>0 DEF Notice, Msg
<1> QED
  BY <1>0, <1>1, <1>2, <1>3, <1>4, AsideIf

LEMMA KickAside ==
    ASSUME IInv, TypeOK', NEW u \in DOMAIN mSessions, Kick(u)
    PROVE  Aside(Gui)
<1> USE DEF IInv, TypeOK, ThreadOK
<1>0. Gui \in Thread
  BY DEF Thread
<1>1. OnlyThread(Gui) /\ ~Departing(Gui) /\ at'[Gui] = "close"
  BY <1>0 DEF Kick, Begin, Goto, OnlyThread, Departing
<1>2. Registered' = Registered
  BY DEF Kick, Registered, AllSessions
<1>3. UNCHANGED <<missed, mIsClosed>> /\ StageMoves
  BY DEF Kick, sessionVars, StageMoves
<1> QED
  BY <1>0, <1>1, <1>2, <1>3, AsideIf DEF Closing

LEMMA AcceptAside ==
    ASSUME IInv, TypeOK', NEW t \in Port, NEW c \in Session, Accept(t, c)
    PROVE  Aside(t)
<1> USE PortIsThread DEF IInv, TypeOK, ThreadOK
<1>1. OnlyThread(t) /\ ~Departing(t) /\ at'[t] = "adding"
  BY DEF Accept, Begin, Goto, OnlyThread, Departing
<1>2. Registered' = Registered
  BY DEF Accept, Registered, AllSessions
<1>3. UNCHANGED <<missed, mIsClosed>>
  BY DEF Accept
<1>4. /\ stage[c] = "none" /\ stage'[c] = "accepted"
      /\ \A d \in Session \ {c} : stage'[d] = stage[d]
  BY DEF Accept, SessionOK
<1>5. \A d \in Session : /\ Fresh(d)' <=> Fresh(d)
                         /\ stage[d] \in Wired => stage'[d] \in Wired
  BY <1>4 DEF Fresh, Wired
<1> QED
  BY <1>1, <1>2, <1>3, <1>5 DEF Aside, Departing, Closing

\* The thread that closes c found it registered, and nobody had missed it.
LEMMA MarkClosedAside ==
    ASSUME IInv, MInv, TypeOK', NEW t \in Thread, MarkClosed(t)
    PROVE  Aside(t)
<1> USE DEF IInv, TypeOK, ThreadOK
<1> DEFINE c == cur[t]
<1>1. OnlyThread(t) /\ at[t] = "close" /\ c \in Session /\ ~Fresh(c)
  BY DEF MarkClosed, Return, Goto, OnlyThread, InStep
<1>2. UNCHANGED <<mSessions, stage, missed>> /\ mIsClosed \subseteq mIsClosed'
  BY DEF MarkClosed
<1>3. \/ c \notin mIsClosed /\ at'[t] = "shutdown" /\ cur'[t] = c
      \/ at'[t] = "idle"
  BY DEF MarkClosed, Return, Goto
<1>4. c \notin mIsClosed => c \in Registered /\ c \notin missed
  BY <1>1 DEF MInv, InTheRegistry
<1>5. Registered' = Registered
  BY <1>2 DEF Registered
<1>6. \A d \in Session : Fresh(d)' <=> Fresh(d)
  BY <1>2 DEF Fresh
<1> QED
  BY <1>1, <1>2, <1>3, <1>4, <1>5, <1>6 DEF Aside, Departing, Closing

LEMMA ShutdownAside ==
    ASSUME IInv, MInv, TypeOK', NEW t \in Thread, Shutdown(t)
    PROVE  Aside(t)
<1> USE DEF IInv, TypeOK, ThreadOK
<1>1. OnlyThread(t) /\ at[t] = "shutdown" /\ at'[t] = "notify" /\ cur' = cur
  BY DEF Shutdown, Goto, OnlyThread
<1>2. UNCHANGED <<mSessions, stage, missed, mIsClosed>>
  BY DEF Shutdown
<1>3. cur[t] \in Registered /\ cur[t] \notin missed
  BY <1>1 DEF MInv, OnTheWayOut, Closing
<1>4. Registered' = Registered
  BY <1>2 DEF Registered
<1>5. \A d \in Session : Fresh(d)' <=> Fresh(d)
  BY <1>2 DEF Fresh
<1> QED
  BY <1>1, <1>2, <1>3, <1>4, <1>5 DEF Aside, Departing

\* close() finds its callback: the session is on its way out.
LEMMA NotifyAside ==
    ASSUME IInv, MInv, TypeOK', NEW t \in Thread, Notify(t), stage[cur[t]] \in Wired
    PROVE  Aside(t)
<1> USE DEF IInv, TypeOK, ThreadOK
<1>1. /\ OnlyThread(t) /\ at[t] = "notify" /\ at'[t] = "remove"
      /\ cur' = cur /\ missed' = missed
  BY DEF Notify, Goto, OnlyThread
<1>2. UNCHANGED <<mSessions, stage, mIsClosed>>
  BY DEF Notify, sessionVars
<1>3. cur[t] \in Registered /\ cur[t] \notin missed
  BY <1>1 DEF MInv, OnTheWayOut, Closing
<1>4. Registered' = Registered
  BY <1>2 DEF Registered
<1>5. \A d \in Session : Fresh(d)' <=> Fresh(d)
  BY <1>2 DEF Fresh
<1> QED
  BY <1>1, <1>2, <1>3, <1>4, <1>5 DEF Aside, Departing

\* The snapshot for a push that announces no departure.
LEMMA SnapshotAside ==
    ASSUME IInv, TypeOK', NEW t \in Thread, Snapshot(t), ~Departing(t)
    PROVE  Aside(t)
<1> USE DEF IInv, TypeOK, ThreadOK
<1>1. OnlyThread(t) /\ at'[t] = "send"
  <2>1. \A s \in Thread \ {t} : todo'[s] = todo[s]
    BY DEF Snapshot
  <2> QED
    BY <2>1 DEF Snapshot, Goto, OnlyThread
<1>2. Registered' = Registered
  BY DEF Snapshot, Registered, AllSessions
<1>3. UNCHANGED <<missed, mIsClosed>> /\ StageMoves
  BY DEF Snapshot, sessionVars, StageMoves
<1> QED
  BY <1>1, <1>2, <1>3, AsideIf DEF Closing

-----------------------------------------------------------------------------
(* The four steps Membership sees.                                         *)

\* add() has inserted the session: it joins.
LEMMA AddSessionJoins ==
    ASSUME IInv, MInv, TypeOK', NEW t \in Thread, AddSession(t)
    PROVE  MInv' /\ Abstract!Join(cur[t])
<1> USE DEF IInv, TypeOK, ThreadOK
<1> DEFINE c == cur[t]
<1>1. /\ OnlyThread(t) /\ at[t] = "adding" /\ at'[t] = "wiring" /\ cur' = cur /\ msg' = msg
      /\ c \in Session /\ mUid[c] \in Nat /\ stage[c] = "accepted"
  BY DEF AddSession, Goto, OnlyThread, InStep, SessionOK
<1>2. /\ stage'[c] = "added" /\ \A d \in Session \ {c} : stage'[d] = stage[d]
      /\ UNCHANGED <<mIsClosed, missed>>
  BY <1>1 DEF AddSession, SessionOK
<1>3. mUid[c] \notin DOMAIN mSessions
  <2>1. \A v \in DOMAIN mSessions : mSessions[v].session \in Session \ {c}
    BY <1>1 DEF UidsDrawn, Fresh, RegistryOK, SessionInfo
  <2> QED
    BY <1>1, <2>1 DEF UidsDistinct, UidsDrawn, Fresh
<1>4. Registered' = Registered \cup {c}
  <2>1. mSessions' = AddTo(mSessions, mUid[c], c)
    BY DEF AddSession
  <2>2. /\ DOMAIN mSessions' = DOMAIN mSessions \cup {mUid[c]}
        /\ mSessions'[mUid[c]].session = c
        /\ \A v \in DOMAIN mSessions : mSessions'[v] = mSessions[v]
    BY <1>3, <2>1 DEF AddTo
  <2> QED
    BY <2>2 DEF Registered, AllSessions
<1>5. c \notin Registered /\ Registered \subseteq Session
  BY <1>1, RegisteredKnown, RegisteredType DEF Fresh
<1>6. \A s \in Thread : /\ Departing(s)' <=> Departing(s)
                        /\ at'[s] \in Closing <=> at[s] \in Closing
                        /\ at'[s] = "remove" <=> at[s] = "remove"
  BY <1>1 DEF OnlyThread, Departing, Closing
<1>7. \A s \in Thread : at[s] \in Closing \/ Departing(s) => cur[s] # c
  <2>1. \A s \in Thread : at[s] \in Closing => cur[s] # c
    BY <1>5 DEF MInv, OnTheWayOut
  <2>2. \A s \in Thread : Departing(s) => cur[s] # c
    BY <1>1 DEF MInv, OnTheWayOut, Wired
  <2> QED
    BY <2>1, <2>2
<1>8. InTheRegistry'
  BY <1>2, <1>4 DEF MInv, InTheRegistry, Fresh
<1>9. ASSUME NEW s \in Thread PROVE OnTheWayOut(s)'
  BY <1>1, <1>2, <1>4, <1>6, <1>7 DEF MInv, OnTheWayOut, Closing
<1>10. OneAnnouncer'
  BY <1>1, <1>6 DEF MInv, OneAnnouncer
<1>11. status[c] = "new" /\ status' = [status EXCEPT ![c] = "member"]
  BY <1>1, <1>2, <1>4, <1>5 DEF status, Wired
<1>12. announced' = announced
  BY <1>1, <1>6, <1>11 DEF announced, status
<1> QED
  BY <1>1, <1>2, <1>8, <1>9, <1>10, <1>11, <1>12 DEF MInv, Abstract!Join

\* The close callback has removed the session: it leaves.
LEMMA RemoveLeaves ==
    ASSUME IInv, MInv, TypeOK', NEW t \in Thread, Remove(t)
    PROVE  MInv' /\ Abstract!Leave(cur[t])
<1> USE DEF IInv, TypeOK, ThreadOK
<1> DEFINE c == cur[t]
<1>1. /\ OnlyThread(t) /\ at[t] = "remove" /\ at'[t] = "snapshot" /\ cur' = cur
      /\ c \in Session /\ mUid[c] \in Nat
      /\ UNCHANGED <<stage, mIsClosed, missed>>
  BY DEF Remove, Goto, OnlyThread, SessionOK, sessionVars
<1>2. msg'[t].ev = "left"
  <2>1. Msg("left", mUid[c], UnknownName).ev = "left"
    BY DEF Msg
  <2> QED
    BY <2>1 DEF Remove
<1>3. c \in Registered /\ c \notin missed /\ stage[c] \in Wired /\ ~Fresh(c)
  BY <1>1, RegisteredKnown DEF MInv, OnTheWayOut, Closing
<1>4. Registered' = Registered \ {c}
  <2>1. mSessions' = RemoveFrom(mSessions, mUid[c]) /\ mUid[c] \in Nat
    BY <1>1 DEF Remove
  <2>2. /\ DOMAIN mSessions' = DOMAIN mSessions \ {mUid[c]}
        /\ \A u \in DOMAIN mSessions' : mSessions'[u] = mSessions[u]
    BY <2>1, RemoveFromType DEF RegistryOK
  <2>3. \A u \in DOMAIN mSessions : mUid[mSessions[u].session] = u
    BY DEF UidsDistinct
  <2>4. \A u \in DOMAIN mSessions : u = mUid[c] => mSessions[u].session = c
    <3>1. PICK v \in DOMAIN mSessions : mSessions[v].session = c
      BY <1>3 DEF Registered, AllSessions
    <3> QED
      BY <2>3, <3>1
  <2> QED
    BY <2>2, <2>3, <2>4 DEF Registered, AllSessions
<1>5. \A s \in Thread \ {t} :
         at'[s] = at[s] /\ cur'[s] = cur[s] /\ (Departing(s)' <=> Departing(s))
  BY <1>1 DEF OnlyThread, Departing
<1>6. ~Departing(t) /\ Departing(t)'
  BY <1>1, <1>2 DEF Departing
<1>7. \A s \in Thread \ {t} : at[s] \in Closing \/ Departing(s) => cur[s] # c
  <2>1. \A s \in Thread \ {t} : at[s] \in Closing => cur[s] # c
    BY <1>1 DEF SingleCloser, Closers, Closing
  <2>2. \A s \in Thread \ {t} : Departing(s) => cur[s] # c
    BY <1>3 DEF MInv, OnTheWayOut
  <2> QED
    BY <2>1, <2>2
<1>8. InTheRegistry'
  <2>1. c \in mIsClosed
    BY <1>1 DEF InStep, Closing
  <2> QED
    BY <1>1, <1>3, <1>4, <2>1 DEF MInv, InTheRegistry, Fresh, Wired
<1>9. ASSUME NEW s \in Thread PROVE OnTheWayOut(s)'
  <2>1. CASE s = t
    BY <1>1, <1>3, <1>4, <2>1 DEF OnTheWayOut, Closing
  <2>2. CASE s # t
    BY <1>1, <1>4, <1>5, <1>7, <2>2 DEF MInv, OnTheWayOut
  <2> QED
    BY <2>1, <2>2
<1>10. OneAnnouncer'
  BY <1>1, <1>5, <1>7 DEF MInv, OneAnnouncer
<1>11. /\ status[c] = "member" /\ status' = [status EXCEPT ![c] = "left"]
  BY <1>1, <1>3, <1>4 DEF status
<1>12. announced' = announced
  <2>1. c \notin announced /\ c \notin announced'
    BY <1>1, <1>6, <1>11 DEF announced
  <2>2. \A d \in Session \ {c} : status'[d] = status[d]
    BY <1>11 DEF status
  <2>3. \A d \in Session \ {c} : d \in announced' <=> d \in announced
    BY <1>1, <1>5, <1>6, <2>2 DEF announced
  <2> QED
    BY <2>1, <2>3 DEF announced
<1> QED
  BY <1>1, <1>3, <1>8, <1>9, <1>10, <1>11, <1>12 DEF MInv, Abstract!Leave

\* close() has found no callback: the session becomes a ghost.
LEMMA NotifyHaunts ==
    ASSUME IInv, MInv, TypeOK', NEW t \in Thread, Notify(t), stage[cur[t]] \notin Wired
    PROVE  MInv' /\ Abstract!Haunt(cur[t])
<1> USE DEF IInv, TypeOK, ThreadOK
<1> DEFINE c == cur[t]
<1>1. /\ OnlyThread(t) /\ at[t] = "notify" /\ at'[t] = "idle" /\ c \in Session
      /\ missed' = missed \cup {c}
  BY DEF Notify, Return, Goto, OnlyThread
<1>2. UNCHANGED <<mSessions, stage, mIsClosed>>
  BY DEF Notify, sessionVars
<1>3. c \in Registered /\ c \notin missed /\ c \in mIsClosed
  BY <1>1 DEF MInv, OnTheWayOut, InStep, Closing
<1>4. Registered' = Registered
  BY <1>2 DEF Registered
<1>5. \A s \in Thread \ {t} :
         at'[s] = at[s] /\ cur'[s] = cur[s] /\ (Departing(s)' <=> Departing(s))
  BY <1>1 DEF OnlyThread, Departing
<1>6. ~Departing(t) /\ ~Departing(t)'
  BY <1>1 DEF Departing
<1>7. \A s \in Thread \ {t} : at[s] \in Closing => cur[s] # c
  BY <1>1 DEF SingleCloser, Closers, Closing
<1>8. InTheRegistry'
  BY <1>1, <1>2, <1>3, <1>4 DEF MInv, InTheRegistry, Fresh
<1>9. ASSUME NEW s \in Thread PROVE OnTheWayOut(s)'
  <2>1. CASE s = t
    BY <1>1, <1>6, <2>1 DEF OnTheWayOut, Closing
  <2>2. CASE s # t
    BY <1>1, <1>2, <1>4, <1>5, <1>7, <2>2 DEF MInv, OnTheWayOut
  <2> QED
    BY <2>1, <2>2
<1>10. OneAnnouncer'
  BY <1>5, <1>6 DEF MInv, OneAnnouncer
<1>11. status[c] = "member" /\ status' = status
  BY <1>1, <1>2, <1>3, <1>4 DEF status
<1>12. \A s \in Thread : /\ Departing(s)' <=> Departing(s)
                         /\ Departing(s) => cur'[s] = cur[s]
  BY <1>5, <1>6
<1>13. announced' = announced
  <2>1. \A d \in Session :
           (\A s \in Thread : ~(Departing(s) /\ cur[s] = d)) <=>
           (\A s \in Thread : ~(Departing(s)' /\ cur'[s] = d))
    BY <1>12
  <2> QED
    BY <1>11, <2>1 DEF announced
<1> QED
  BY <1>1, <1>3, <1>8, <1>9, <1>10, <1>11, <1>13 DEF MInv, Abstract!Haunt

\* The recipients of a user_left are known: the departure is announced.
LEMMA SnapshotAnnounces ==
    ASSUME IInv, MInv, TypeOK', NEW t \in Thread, Snapshot(t), Departing(t)
    PROVE  MInv' /\ Abstract!Announce(cur[t])
<1> USE DEF IInv, TypeOK, ThreadOK
<1> DEFINE c == cur[t]
<1>1. /\ at[t] = "snapshot" /\ at'[t] = "send" /\ c \in Session
      /\ \A s \in Thread \ {t} : at'[s] = at[s]
      /\ UNCHANGED <<mSessions, stage, mIsClosed, missed, cur, msg>>
  BY DEF Snapshot, Goto, sessionVars
<1>2. c \notin Registered /\ stage[c] \in Wired
  BY DEF MInv, OnTheWayOut
<1>3. Registered' = Registered
  BY <1>1 DEF Registered
<1>4. \A s \in Thread \ {t} : Departing(s)' <=> Departing(s)
  BY <1>1 DEF Departing
<1>5. ~Departing(t)'
  BY <1>1 DEF Departing
<1>6. \A s \in Thread \ {t} : Departing(s) => cur[s] # c
  BY DEF MInv, OneAnnouncer
<1>7. InTheRegistry'
  BY <1>1, <1>3 DEF MInv, InTheRegistry, Fresh
<1>8. ASSUME NEW s \in Thread PROVE OnTheWayOut(s)'
  <2>1. CASE s = t
    BY <1>1, <1>5, <2>1 DEF OnTheWayOut, Closing
  <2>2. CASE s # t
    BY <1>1, <1>3, <1>4, <2>2 DEF MInv, OnTheWayOut
  <2> QED
    BY <2>1, <2>2
<1>9. OneAnnouncer'
  BY <1>1, <1>4, <1>5 DEF MInv, OneAnnouncer
<1>10. status[c] = "left" /\ status' = status
  BY <1>1, <1>2, <1>3 DEF status
<1>11. announced' = announced \cup {c}
  <2>1. c \in announced'
    BY <1>1, <1>4, <1>5, <1>6, <1>10 DEF announced
  <2>2. \A d \in Session \ {c} : d \in announced' <=> d \in announced
    BY <1>1, <1>4, <1>5, <1>10 DEF announced
  <2> QED
    BY <1>1, <2>1, <2>2 DEF announced
<1>12. c \notin announced
  BY DEF announced
<1> QED
  BY <1>1, <1>7, <1>8, <1>9, <1>10, <1>11, <1>12 DEF MInv, Abstract!Announce

-----------------------------------------------------------------------------
\* Membership's step, or none.
MStep == [Abstract!Next]_(Abstract!mvars)

LEMMA ViewIsMvars == ASSUME UNCHANGED mView PROVE MStep
BY DEF mView, MStep, Abstract!mvars

LEMMA AsideIsNoStep ==
    ASSUME IInv, MInv, TypeOK', NEW t \in Thread, Aside(t)
    PROVE  MInv' /\ MStep
BY AsideStep, ViewIsMvars

\* A step that leaves the threads, the registry and the stages alone.
LEMMA NothingMoves ==
    ASSUME MInv, UNCHANGED <<mSessions, stage, mIsClosed, missed, at, cur, msg>>
    PROVE  MInv' /\ MStep
<1>1. Registered' = Registered
  BY DEF Registered
<1>2. \A t \in Thread : Departing(t)' <=> Departing(t)
  BY DEF Departing
<1>3. UNCHANGED mView
  BY <1>1, <1>2, SameView
<1>4. InTheRegistry'
  BY <1>1 DEF MInv, InTheRegistry, Fresh
<1>5. \A t \in Thread : OnTheWayOut(t)'
  BY <1>1, <1>2 DEF MInv, OnTheWayOut
<1>6. OneAnnouncer'
  BY <1>2 DEF MInv, OneAnnouncer
<1> QED
  BY <1>3, <1>4, <1>5, <1>6, ViewIsMvars DEF MInv

LEMMA MembershipStep == IInv /\ MInv /\ [Next]_vars => MInv' /\ MStep
<1> SUFFICES ASSUME IInv, MInv, [Next]_vars PROVE MInv' /\ MStep
  OBVIOUS
<1>t. TypeOK'
  BY TypeStep DEF IInv
<1>c. \A t \in Thread : cur[t] \in Session
  BY DEF IInv, TypeOK, ThreadOK
<1>g. Gui \in Thread
  BY DEF Thread
<1>u. CASE UNCHANGED vars
  BY <1>u, NothingMoves DEF vars, sessionVars, threadVars
<1>1. ASSUME NEW t \in Thread, Wire(t) PROVE MInv' /\ MStep
  BY <1>t, <1>1, WireAside, AsideIsNoStep
<1>2. ASSUME NEW t \in Thread, Start(t) PROVE MInv' /\ MStep
  BY <1>t, <1>2, StartAside, AsideIsNoStep
<1>3. ASSUME NEW t \in Thread, MarkClosed(t) PROVE MInv' /\ MStep
  BY <1>t, <1>3, MarkClosedAside, AsideIsNoStep
<1>4. ASSUME NEW t \in Thread, Shutdown(t) PROVE MInv' /\ MStep
  BY <1>t, <1>4, ShutdownAside, AsideIsNoStep
<1>5. ASSUME NEW t \in Thread, Lookup(t) PROVE MInv' /\ MStep
  BY <1>t, <1>5, LookupAside, AsideIsNoStep
<1>6. ASSUME NEW t \in Thread, SendDone(t) PROVE MInv' /\ MStep
  BY <1>t, <1>6, SendDoneAside, AsideIsNoStep
<1>7. ASSUME NEW t \in Thread, NameDone(t) PROVE MInv' /\ MStep
  BY <1>t, <1>7, NameDoneAside, AsideIsNoStep
<1>8. ASSUME NEW t \in Thread, Respond(t) PROVE MInv' /\ MStep
  BY <1>t, <1>8, RespondAside, AsideIsNoStep
<1>9. ASSUME NEW t \in Thread, NEW d \in Session, SendOne(t, d) PROVE MInv' /\ MStep
  BY <1>t, <1>9, SendOneAside, AsideIsNoStep
<1>10. ASSUME NEW t \in Thread, NEW u \in ids[t], NameOne(t, u) PROVE MInv' /\ MStep
  BY <1>t, <1>10, NameOneAside, AsideIsNoStep
<1>11. ASSUME NEW t \in Port, NEW c \in Session, Accept(t, c) PROVE MInv' /\ MStep
  BY <1>t, <1>11, AcceptAside, AsideIsNoStep, PortIsThread
<1>12. ASSUME NEW t \in Port, NEW c \in Session, EndRead(t, c) PROVE MInv' /\ MStep
  BY <1>t, <1>12, EndReadAside, AsideIsNoStep, PortIsThread
<1>13. ASSUME NEW t \in Port, NEW c \in Session, RunPostedClose(t, c) PROVE MInv' /\ MStep
  BY <1>t, <1>13, RunPostedCloseAside, AsideIsNoStep, PortIsThread
<1>14. ASSUME NEW t \in Port, NEW c \in Session, Write(t, c) PROVE MInv' /\ MStep
  BY <1>t, <1>14, WriteAside, AsideIsNoStep, PortIsThread
<1>15. ASSUME NEW t \in Port, NEW c \in Session, NEW name \in Name, Login(t, c, name)
      PROVE  MInv' /\ MStep
  BY <1>t, <1>15, LoginAside, AsideIsNoStep, PortIsThread
<1>16. ASSUME NEW t \in Port, NEW c \in Session, ClientList(t, c) PROVE MInv' /\ MStep
  BY <1>t, <1>16, ClientListAside, AsideIsNoStep, PortIsThread
<1>17. ASSUME NEW t \in Port, NEW c \in Session, SendPublic(t, c) PROVE MInv' /\ MStep
  BY <1>t, <1>17, SendPublicAside, AsideIsNoStep, PortIsThread
<1>18. ASSUME NEW t \in Port, NEW c \in Session, NEW to \in 1 .. mNextUid, SendPrivate(t, c, to)
      PROVE  MInv' /\ MStep
  BY <1>t, <1>18, SendPrivateAside, AsideIsNoStep, PortIsThread
<1>19. ASSUME NEW t \in Port, NEW c \in Session, Ping(t, c) PROVE MInv' /\ MStep
  BY <1>t, <1>19, PingAside, AsideIsNoStep, PortIsThread
<1>20. ASSUME NEW t \in Thread, AddSession(t) PROVE MInv' /\ MStep
  BY <1>t, <1>c, <1>20, AddSessionJoins DEF MStep, Abstract!Next
<1>21. ASSUME NEW t \in Thread, Remove(t) PROVE MInv' /\ MStep
  BY <1>t, <1>c, <1>21, RemoveLeaves DEF MStep, Abstract!Next
<1>22. ASSUME NEW t \in Thread, Notify(t) PROVE MInv' /\ MStep
  <2>1. CASE stage[cur[t]] \in Wired
    BY <1>t, <1>22, <2>1, NotifyAside, AsideIsNoStep
  <2>2. CASE stage[cur[t]] \notin Wired
    BY <1>t, <1>c, <1>22, <2>2, NotifyHaunts DEF MStep, Abstract!Next
  <2> QED
    BY <2>1, <2>2
<1>23. ASSUME NEW t \in Thread, Snapshot(t) PROVE MInv' /\ MStep
  <2>1. CASE ~Departing(t)
    BY <1>t, <1>23, <2>1, SnapshotAside, AsideIsNoStep
  <2>2. CASE Departing(t)
    BY <1>t, <1>c, <1>23, <2>2, SnapshotAnnounces DEF MStep, Abstract!Next
  <2> QED
    BY <2>1, <2>2
<1>24. ASSUME NEW c \in Session, LoseConnection(c) PROVE MInv' /\ MStep
  BY <1>24, NothingMoves DEF LoseConnection, threadVars
<1>25. ASSUME Notice PROVE MInv' /\ MStep
  BY <1>t, <1>g, <1>25, NoticeAside, AsideIsNoStep
<1>26. ASSUME NEW u \in DOMAIN mSessions, Kick(u) PROVE MInv' /\ MStep
  BY <1>t, <1>g, <1>26, KickAside, AsideIsNoStep
<1> QED
  BY <1>u, <1>1, <1>2, <1>3, <1>4, <1>5, <1>6, <1>7, <1>8, <1>9, <1>10, <1>11,
     <1>12, <1>13, <1>14, <1>15, <1>16, <1>17, <1>18, <1>19, <1>20, <1>21, <1>22,
     <1>23, <1>24, <1>25, <1>26
  DEF Next, Continue, Dispatch, Request, Dashboard

LEMMA MembershipInit == Init => MInv /\ Abstract!Init
<1> SUFFICES ASSUME Init PROVE MInv /\ Abstract!Init
  OBVIOUS
<1>1. Registered = {} /\ missed = {} /\ \A t \in Thread : at[t] = "idle"
  BY DEF Init, Registered, AllSessions
<1>2. \A c \in Session : stage[c] = "none"
  BY DEF Init
<1>3. \A t \in Thread : ~Departing(t)
  BY <1>1 DEF Departing
<1>4. MInv
  BY <1>1, <1>2, <1>3 DEF MInv, InTheRegistry, OnTheWayOut, OneAnnouncer, Closing, Fresh
<1>5. status = [c \in Session |-> "new"]
  BY <1>1, <1>2 DEF status, Wired
<1>6. announced = {}
  BY <1>5 DEF announced
<1> QED
  BY <1>1, <1>4, <1>5, <1>6 DEF Abstract!Init

\* The server implements the safety of Membership: whatever the io threads and
\* the dashboard do at the same time, a session joins once, leaves once and for
\* good, and its departure is announced once, unless it is a ghost.
THEOREM ServerImplementsMembership == Spec => StepsAreMembership
<1>1. Init => IInv /\ MInv /\ Abstract!Init
  BY InvInit, MembershipInit
<1>2. IInv /\ MInv /\ [Next]_vars => IInv' /\ MInv'
  BY InvStep, MembershipStep
<1>3. IInv /\ MInv /\ [Next]_vars => [Abstract!Next]_(Abstract!mvars)
  BY MembershipStep DEF MStep
<1> QED
  BY <1>1, <1>2, <1>3, PTL DEF Spec, StepsAreMembership

=============================================================================
