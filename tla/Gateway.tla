-------------------------------- MODULE Gateway --------------------------------
(***************************************************************************)
(* The proxy between Claude Code and the providers.  A run looks at one side  *)
(* of it: how the requests of a conversation are built, or how what one of    *)
(* the transports gets in answer (the OpenAI one, the native one, Bailian's   *)
(* chain of models), or a web tool the proxy runs itself, becomes the         *)
(* client's stream.  Nothing but the request's body goes from side to side.   *)
(***************************************************************************)
EXTENDS OpenAIStream, NativeStream, BailianFallback, WebTools, Requests

VARIABLE serving

gatewayVars == <<serving, client, openaiVars, nativeVars, bailianVars, webVars, requestVars>>

Init ==
  /\ serving \in {"requests", "openai", "native", "bailian", "web"}
  /\ OpenAIInit /\ NativeInit /\ BailianInit /\ WebInit /\ RequestInit
  /\ serving # "openai" => enabled
  /\ serving # "native" => show
  /\ serving # "bailian" => state.failed = {}

Next ==
  /\ UNCHANGED serving
  /\ \/ /\ serving = "requests" /\ RequestNext
        /\ UNCHANGED <<client, openaiVars, nativeVars, bailianVars, webVars>>
     \/ /\ serving = "openai" /\ OpenAINext
        /\ UNCHANGED <<nativeVars, bailianVars, webVars, requestVars>>
     \/ /\ serving = "native" /\ NativeNext
        /\ UNCHANGED <<openaiVars, bailianVars, webVars, requestVars>>
     \/ /\ serving = "bailian" /\ BailianNext
        /\ UNCHANGED <<client, openaiVars, nativeVars, webVars, requestVars>>
     \/ /\ serving = "web" /\ WebNext
        /\ UNCHANGED <<openaiVars, nativeVars, bailianVars, requestVars>>

Spec == Init /\ [][Next]_gatewayVars
-----------------------------------------------------------------------------
\* In whatever order text, thinking and tool calls come from the upstream, however
\* it interleaves, hides or repeats its blocks and wherever it breaks off: no event
\* breaks the contract, and a stream that ends has closed all its blocks.  (A native
\* stream may consist of hidden thinking only, and then has no block.)
ContractKept ==
  /\ ~client.broken
  /\ phase = "done" \/ wphase = "done" => Accepts(client)
  /\ nphase = "done" => Accepts(client) \/ (client.seen = {} /\ policy.dropped # {})
=============================================================================
