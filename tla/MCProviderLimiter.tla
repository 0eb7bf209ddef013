------------------------- MODULE MCProviderLimiter -------------------------
(* Three requests, two slots, a window of two calls.                        *)
EXTENDS ProviderLimiter, TLC

CONSTANTS a, b, c

Symmetry == Permutations(Caller)
=============================================================================
