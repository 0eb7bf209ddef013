-------------------------- MODULE MCMessageLimiter --------------------------
(* Three edits of one message, and a reply that is awaited.                 *)
EXTENDS MessageLimiter

CONSTANTS k1, k2

MCKeyOf == <<k1, k1, k2, k1>>
=============================================================================
