---------------------------- MODULE MCListCache ----------------------------
(* Small instances of ListCache for TLC.                                    *)
EXTENDS ListCache, TLC

CONSTANTS l1, l2, l3, d1, d2, p1, p2

\* All calls in one backend process.
OneProcess == [c \in Calls |-> p1]

\* Two processes share the server: d2 runs in one, the rest in the other.
TwoProcesses == [c \in Calls |-> IF c = d2 THEN p2 ELSE p1]

\* The loads are made in one process, so that they may be exchanged.
LoadSymmetry == Permutations(Loads)
=============================================================================
