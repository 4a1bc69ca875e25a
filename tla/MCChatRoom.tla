----------------------------- MODULE MCChatRoom -----------------------------
(* Small instances of ChatRoom for TLC. *)
EXTENDS ChatRoom, TLC

CONSTANTS ann, bob, cat

\* The users of a window are interchangeable.
UserSymmetry == Permutations(User \ Terminal)

\* Bound: the users log in one after the other.
OneLogin ==
    \A c, d \in User : mState[c] = "Connecting" /\ mState[d] = "Connecting" => c = d

=============================================================================
