--------------------------- MODULE MCRateLimiter ---------------------------
(* Small instances of RateLimiter for TLC.                                  *)
EXTENDS RateLimiter, TLC

CONSTANTS r1, r2, r3, r4, r5, k1, k2, k3

RequestSymmetry == Permutations(Requests) \cup Permutations(Keys)
=============================================================================
