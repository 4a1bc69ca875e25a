--------------------------- MODULE MCFrameStream ---------------------------
(* Small instances of FrameStream. *)
EXTENDS FrameStream

CONSTANTS m1, m2, m3

\* Bodies of different length; the longest is m3's.
Sizes == [m \in Message |-> IF m = m1 THEN 2 ELSE IF m = m2 THEN 1 ELSE 3]

=============================================================================
