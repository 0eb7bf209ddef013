------------------------------ MODULE MCGateway ------------------------------
(* Every kind of chunk: tags and tool calls cut anywhere, arguments before the  *)
(* name, a Task, a name in two pieces, two tools at once.                       *)
EXTENDS Gateway, TLC

CONSTANTS r1, r2, m1, m2, m3, own

MCText == {<<"x">>, <<"<">>, <<"think>">>, <<"/think>", "x">>, <<"x", "<", "think>">>,
           <<"bullet">>, <<"function">>, <<"parameter", "bullet">>, <<"webjson">>,
           <<"ctl(">>, <<"x", "ctl)">>}

Call(i, id, name, args) == [index |-> i, id |-> id, name |-> name, args |-> args]

MCCalls ==
  {Call(0, TRUE, None, <<"{">>), Call(0, FALSE, None, <<"}">>), Call(0, TRUE, Task, <<>>),
   Call(0, FALSE, <<"Ta">>, <<"{">>), Call(1, TRUE, <<"get">>, <<>>),
   Call(1, FALSE, None, <<"{">>), Call(-1, TRUE, <<"get">>, <<"{", "}">>)}

MCConfigured == <<m1, m2, m3>>
MCAsked == r1 :> m2 @@ r2 :> own
=============================================================================
