----------------------------- MODULE MCTreeQueue -----------------------------
(* Model checking TreeQueue: the replies to the root are interchangeable.   *)
EXTENDS TreeQueue, TLC

Symmetry == Permutations(NodeId \ {Root})
=============================================================================
