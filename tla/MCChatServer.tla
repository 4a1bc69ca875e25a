---------------------------- MODULE MCChatServer ----------------------------
(* Small instances of ChatServer. *)
EXTENDS ChatServer, TLC

CONSTANTS s1, s2, p1, p2

\* Every session on one port, and one of them on a second port.
OnePort == [c \in Session |-> p1]
TwoPorts == [c \in Session |-> IF c = s1 THEN p1 ELSE p2]

\* Requests allowed: one session talks, once or twice.
TalkOne == [c \in Session |-> IF c = s1 THEN 1 ELSE 0]
TalkTwice == [c \in Session |-> IF c = s1 THEN 2 ELSE 0]

\* Bound: the dashboard sends a notice only where nobody is kicked or asks.
NoticeAlone == notices = 0 \/ (kicks = 0 /\ \A c \in Session : requests[c] = 0)

\* Bound: a second request only of a session that is being kicked, while the others
\* stay connected and do nothing.
OthersStay ==
    \/ requests[s1] < 2
    \/ /\ s1 \in mIsClosed /\ kicks = 1
       /\ \A c \in Session \ {s1} :
             stage[c] = "reading" /\ conn[c] = "up" /\ at[PortOf[c]] = "idle"

\* Bound: while somebody is kicked and somebody asks, one connection ends.
OneEnds ==
    \/ kicks = 0
    \/ \A c \in Session : requests[c] = 0
    \/ Cardinality({c \in Session : conn[c] \in {"lost", "closed"}}) <= 1

=============================================================================
