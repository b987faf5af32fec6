--------------------------- MODULE MCVideoService ---------------------------
(* Small instances of VideoService for TLC.                                 *)
EXTENDS VideoService, TLC

CONSTANTS l1, l2, l3, d1, d2, p1, p2

\* All requests in one backend process.
OneProcess == [c \in Calls |-> p1]

RequestSymmetry == Permutations(Loads) \cup Permutations(Dels)
=============================================================================
