--------------------------- MODULE MCVideoLibrary ---------------------------
(* A small instance of VideoLibrary for TLC.                                *)
EXTENDS VideoLibrary

CONSTANTS l1, v1, a1, a2, p1, p2

\* A request of each kind and the first attempt in one process, the second
\* attempt in the other.
TwoProcesses == [c \in Calls |-> IF c = a2 THEN p2 ELSE p1]
=============================================================================
