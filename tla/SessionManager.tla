--------------------------- MODULE SessionManager ---------------------------
(***************************************************************************)
(* The registry net::server::SessionManager keeps under mMutex.  Every     *)
(* public operation takes the lock once, so each is one atomic operator on *)
(* the value ms of mSessions: a function from the registered uids to       *)
(* [session, username].  Sending happens after the lock is released and is *)
(* the caller's business (module ChatServer).                              *)
(***************************************************************************)
EXTENDS Naturals

CONSTANTS
    Session,  \* the session objects the server may create
    Name      \* the names users log in with

GuestName == "guest"      \* SessionInfo::username before a login
UnknownName == "Unknown"  \* what getName answers for an unregistered uid

Names == Name \cup {GuestName, UnknownName}

SessionInfo == [session : Session, username : Names]

\* An add() that files the entry before its session is assigned.
AddTo_NoSession(ms, uid, c) ==
    [u \in DOMAIN ms \cup {uid} |->
        IF u = uid THEN [session |-> GuestName, username |-> GuestName] ELSE ms[u]]

\* add(): the insertion made under the lock; the uid was drawn before it.
AddTo(ms, uid, c) ==
    [u \in DOMAIN ms \cup {uid} |->
        IF u = uid THEN [session |-> c, username |-> GuestName] ELSE ms[u]]

\* A remove() that finds the entry and forgets to erase it.
RemoveFrom_NoErase(ms, uid) == ms

\* remove(): nothing happens to an unknown uid.
RemoveFrom(ms, uid) == [u \in DOMAIN ms \ {uid} |-> ms[u]]

\* setName() written as mSessions[uid] = ..., which inserts.
SetName_Inserts(ms, uid, name) ==
    [u \in DOMAIN ms \cup {uid} |->
        IF u \in DOMAIN ms \ {uid} THEN ms[u]
        ELSE [session |-> CHOOSE c \in Session : TRUE, username |-> name]]

\* setName(): only a registered session has a name to set.
SetName(ms, uid, name) ==
    IF uid \in DOMAIN ms THEN [ms EXCEPT ![uid].username = name] ELSE ms

\* getName()
GetName(ms, uid) == IF uid \in DOMAIN ms THEN ms[uid].username ELSE UnknownName

\* broadcast(): the snapshot of the sessions registered now.
AllSessions(ms) == {ms[u].session : u \in DOMAIN ms}

\* sendTo(): the snapshot of the registered ones among uids.
Targets(ms, uids) == {ms[u].session : u \in uids \cap DOMAIN ms}

=============================================================================
