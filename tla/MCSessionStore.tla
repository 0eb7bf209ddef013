--------------------------- MODULE MCSessionStore ---------------------------
(* One tree, three timers, a log capped at one entry.                       *)
EXTENDS SessionStore

CONSTANTS t, n, m1, m2, T1, T2, T3
=============================================================================
