--------------------------- MODULE MCAppLifecycle ---------------------------
(* The requests of a small instance for TLC.                                *)
EXTENDS AppLifecycle

CONSTANTS r1, r2, r3
=============================================================================
