----------------------------- MODULE MCVideoTx -----------------------------
(* Small instances of VideoTx for TLC.                                      *)
EXTENDS VideoTx, TLC

CONSTANTS r1, r2, g1, a
=============================================================================
