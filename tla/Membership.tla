----------------------------- MODULE Membership -----------------------------
(***************************************************************************)
(* What the server promises about who is in the chat: a session joins the  *)
(* registry at most once, leaves it at most once and for good, and after   *)
(* that its departure is announced exactly once - unless it is a ghost,    *)
(* closed before anybody was asked to announce it, which never leaves.     *)
(***************************************************************************)
CONSTANT Session

VARIABLES
    status,     \* new, member, left
    announced,  \* the departures that have been announced
    ghost       \* closed sessions nobody takes out of the registry

mvars == <<status, announced, ghost>>

Init ==
    /\ status = [c \in Session |-> "new"]
    /\ announced = {}
    /\ ghost = {}

Join(c) ==
    /\ status[c] = "new"
    /\ status' = [status EXCEPT ![c] = "member"]
    /\ UNCHANGED <<announced, ghost>>

Leave(c) ==
    /\ status[c] = "member"
    /\ c \notin ghost
    /\ status' = [status EXCEPT ![c] = "left"]
    /\ UNCHANGED <<announced, ghost>>

Announce(c) ==
    /\ status[c] = "left"
    /\ c \notin announced
    /\ announced' = announced \cup {c}
    /\ UNCHANGED <<status, ghost>>

Haunt(c) ==
    /\ status[c] = "member"
    /\ c \notin ghost
    /\ ghost' = ghost \cup {c}
    /\ UNCHANGED <<status, announced>>

Next == \E c \in Session : Join(c) \/ Leave(c) \/ Announce(c) \/ Haunt(c)

Spec == Init /\ [][Next]_mvars /\ \A c \in Session : WF_mvars(Announce(c))

=============================================================================
