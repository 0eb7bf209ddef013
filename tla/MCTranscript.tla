------------------------------ MODULE MCTranscript ------------------------------
(* Tasks with an id and without; an ordinary call.                            *)
EXTENDS Transcript

MCWord == {"task", "call", "1", "2", "real", "result"}
MCTaskId == {<<>>, <<"task", "1">>, <<"task", "2">>}
MCToolId == {<<"call", "1">>}
=============================================================================
