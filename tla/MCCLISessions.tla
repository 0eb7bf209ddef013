---------------------------- MODULE MCCLISessions ----------------------------
(* Two tasks that begin conversations of their own, answer one message, or     *)
(* answer each other; a /stop and the shutdown at any moment.                   *)
EXTENDS CLISessions, TLC

CONSTANTS a, b, p, s1

MCReplies ==
  {[parent |-> a :> None @@ b :> None, tree |-> a :> 1 @@ b :> 2 @@ p :> 3],
   [parent |-> a :> p @@ b :> p,       tree |-> a :> 1 @@ b :> 1 @@ p :> 1],
   [parent |-> a :> None @@ b :> a,    tree |-> a :> 1 @@ b :> 1 @@ p :> 3]}
=============================================================================
