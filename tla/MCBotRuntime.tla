----------------------------- MODULE MCBotRuntime -----------------------------
(* Two voice notes, interchangeable, and a text message.                      *)
EXTENDS BotRuntime

Alike == Permutations(Notes)
=============================================================================
