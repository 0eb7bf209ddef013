------------------------------- MODULE WebTools -------------------------------
(***************************************************************************)
(* A turn in which the client forces web_search or web_fetch: the proxy runs  *)
(* the tool itself and writes the stream of a server tool, its result and a   *)
(* summary.  What the tool finds is I/O; it answers or fails.                 *)
(***************************************************************************)
EXTENDS StreamContract

VARIABLES
  tool,    \* the tool of this turn
  wphase   \* "idle", "running", "done" or "cut"

webVars == <<tool, wphase>>

\* The use of the tool, whole in one block.
ToolUse == <<Event("message_start"), BlockStart(0, "server_tool_use"), BlockStop(0)>>

\* The result, or an error in its place, and the summary for the model.
Conclusion(kind) ==
  <<BlockStart(1, kind), BlockStop(1),
    BlockStart(2, "text"), BlockDelta(2, "text"), BlockStop(2)>> \o Ending

RunTool ==
  /\ wphase = "idle" /\ wphase' = "running"
  /\ tool' \in {"web_search", "web_fetch"}
  /\ client' = Read(client, ToolUse)

ToolAnswers ==
  /\ wphase = "running" /\ wphase' = "done"
  /\ client' = Read(client, Conclusion(<<tool, "result">>))
  /\ UNCHANGED tool

\* The client goes away.
WCut ==
  /\ wphase = "running" /\ wphase' = "cut"
  /\ UNCHANGED <<client, tool>>

WebInit == tool = "none" /\ wphase = "idle"

WebNext == RunTool \/ ToolAnswers \/ WCut
=============================================================================
