------------------------------ MODULE OpenAIStream ------------------------------
(***************************************************************************)
(* OpenAIChatTransport._stream_response_impl with SSEBuilder: an OpenAI chat *)
(* stream is turned into an Anthropic event stream.  A chunk that carries    *)
(* reasoning, text and tool calls has the effect of three chunks in that     *)
(* order, so a chunk here carries one of them.                               *)
(***************************************************************************)
EXTENDS StreamContract, TextParsers

CONSTANTS
  TextDelta,   \* texts of a content delta
  ToolDelta,   \* tool call deltas: index (a negative one is the next), whether it
               \* has the id, a sequence of name fragments or None, and of arguments
  MaxChunks,   \* bound: chunks of a stream
  None

ASSUME OpenAIAssumption ==
  /\ TextDelta \subseteq Seq(Token)
  /\ \A call \in ToolDelta : call.index \in Int /\ call.args \in Seq({"{", "}"})
  /\ \A call \in ToolDelta : call.name = None \/ call.name \in Seq(STRING)

VARIABLES
  phase,     \* "idle", "streaming", "done" or "cut"
  think,     \* the ThinkTagParser
  sse,       \* the SSEBuilder, its blocks, and the HeuristicToolParser
  enabled,   \* thinking_enabled
  chunks,    \* chunks so far
  fed,       \* history: the text of the upstream
  parsed     \* history: what the ThinkTagParser made of it

openaiVars == <<phase, think, sse, enabled, chunks, fed, parsed>>

Task == <<"Ta", "sk">>
Json == <<"{", "}">>
Other == [text |-> "thinking", thinking |-> "text"]

\* SSEBuilder: `at` and `started` are text_index, thinking_index, text_started
\* and thinking_started; `spoken` says which texts are not empty.
NewBuilder ==
  [next |-> 0, at |-> [text |-> -1, thinking |-> -1], started |-> {}, spoken |-> {},
   tools |-> <<>>, heur |-> NewHeuristic, out |-> <<>>]

\* ToolCallState; `got` and `contents` are the arguments received and sent, `whole`
\* says that the name did not come in pieces.
NewTool(name) ==
  [block |-> -1, name |-> name, started |-> FALSE, buffer |-> <<>>, emitted |-> FALSE,
   pre |-> <<>>, got |-> <<>>, contents |-> <<>>, whole |-> TRUE]
-----------------------------------------------------------------------------
(* SSEBuilder.                                                              *)

Put(s, events) == [s EXCEPT !.out = @ \o events]

\* stop_text_block, stop_thinking_block.
CloseKind(s, kind) ==
  IF kind \in s.started
  THEN Put([s EXCEPT !.started = @ \ {kind}], <<BlockStop(s.at[kind])>>)
  ELSE s

CloseContent(s) == CloseKind(CloseKind(s, "thinking"), "text")

\* ensure_text_block, ensure_thinking_block.
Ensure(s, kind) ==
  LET t == CloseKind(s, Other[kind]) IN
  IF kind \in t.started THEN t
  ELSE Put([t EXCEPT !.next = @ + 1, !.at[kind] = t.next, !.started = @ \cup {kind}],
           <<BlockStart(t.next, kind)>>)

\* A text or thinking delta in a block of its kind.
Say(s, kind) ==
  LET t == Ensure(s, kind) IN
  Put([t EXCEPT !.spoken = @ \cup {kind}], <<BlockDelta(t.at[kind], kind)>>)

SendArgs(s, i, args) ==
  Put([s EXCEPT !.tools[i].contents = @ \o args], <<BlockDelta(s.tools[i].block, "tool_use")>>)

StartTool(s, i) ==
  Put([s EXCEPT !.next = @ + 1, !.tools[i] = [@ EXCEPT !.block = s.next, !.started = TRUE]],
      <<BlockStart(s.next, "tool_use")>>)

StartedTools(s) == {i \in DOMAIN s.tools : s.tools[i].started}

\* close_all_blocks.
CloseAll(s) ==
  LET open == SetToSeq(StartedTools(s)) IN
  Put(CloseContent(s), [k \in DOMAIN open |-> BlockStop(s.tools[open[k]].block)])
-----------------------------------------------------------------------------
(* Tool calls.                                                              *)

\* _iter_heuristic_tool_use_sse: a whole block at once.
HeuristicTool(s) ==
  LET t == CloseContent(s) IN
  Put([t EXCEPT !.next = @ + 1],
      <<BlockStart(t.next, "tool_use"), BlockDelta(t.next, "tool_use"), BlockStop(t.next)>>)

HeuristicTools(s, n) ==
  LET after[k \in 0..n] == IF k = 0 THEN s ELSE HeuristicTool(after[k - 1]) IN after[n]

\* register_tool_name: names come in pieces, or again from their start.
Merge(old, new) ==
  IF IsPrefix(old, new) THEN new ELSE IF IsPrefix(new, old) THEN old ELSE old \o new

Renamed(tool, name) ==
  LET new == Merge(tool.name, name)
  IN [tool EXCEPT !.name = new, !.whole = @ /\ tool.name \in {<<>>, new}]

\* (mutant) arguments that precede the name are dropped.
BeforeNameDropped(s, i, args) == s

\* Arguments wait in pre_start_args for the tool's name.
BeforeName(s, i, args) == [s EXCEPT !.tools[i].pre = @ \o args]

\* _emit_tool_arg_delta: a Task's arguments are sent as one JSON value.
EmitArgs(s, i, args) ==
  LET tool == s.tools[i]
      buffer == tool.buffer \o args
  IN
  IF args = <<>> THEN s
  ELSE IF tool.name # Task THEN SendArgs(s, i, args)
  ELSE IF tool.emitted THEN s
  ELSE IF buffer # Json THEN [s EXCEPT !.tools[i].buffer = buffer]
  ELSE SendArgs([s EXCEPT !.tools[i] = [@ EXCEPT !.buffer = <<>>, !.emitted = TRUE]], i, buffer)

\* The state of tool call i once the delta's id and name are known.
Registered(s, i, hasId, name) ==
  IF i \in DOMAIN s.tools
  THEN IF name = None THEN s
       ELSE [s EXCEPT !.tools[i] = Renamed(@, name)]
  ELSE IF name = None /\ ~hasId THEN s
  ELSE [s EXCEPT !.tools = Assign(@, i, NewTool(IF name = None THEN <<>> ELSE name))]

\* _process_tool_call.
ProcessToolCall(s, call) ==
  LET i == IF call.index < 0 THEN Cardinality(DOMAIN s.tools) ELSE call.index
      args == call.args
      known == Registered(CloseContent(s), i, call.id, call.name)
      t == IF i \in DOMAIN known.tools \/ args = <<>> THEN known
           ELSE [known EXCEPT !.tools = Assign(@, i, NewTool(<<>>))]
  IN
  IF i \notin DOMAIN t.tools THEN t
  ELSE LET u == [t EXCEPT !.tools[i].got = @ \o args] IN
       IF u.tools[i].started THEN EmitArgs(u, i, args)
       ELSE IF u.tools[i].name = <<>> THEN BeforeName(u, i, args)
       ELSE EmitArgs(EmitArgs([StartTool(u, i) EXCEPT !.tools[i].pre = <<>>], i,
                              u.tools[i].pre), i, args)

\* _flush_task_arg_buffers: what is left of a Task's arguments is no JSON.
FlushTasks(s) ==
  LET late == {i \in DOMAIN s.tools : s.tools[i].buffer # <<>> /\ ~s.tools[i].emitted}
      order == SetToSeq(late)
      flushed(tool) == [tool EXCEPT !.buffer = <<>>, !.emitted = TRUE, !.contents = @ \o Json]
  IN Put([s EXCEPT !.tools = [i \in DOMAIN @ |-> IF i \in late THEN flushed(@[i]) ELSE @[i]]],
         [k \in DOMAIN order |-> BlockDelta(s.tools[order[k]].block, "tool_use")])
-----------------------------------------------------------------------------
(* The stream.                                                              *)

\* The step has built `s`: the client reads its events.
Send(s, last) ==
  /\ sse' = [s EXCEPT !.out = <<>>]
  /\ client' = Read(client, s.out \o last)

\* One part of the text after the think tags.
Part(s, part) ==
  IF part.type = "thinking"
  THEN IF enabled THEN Say(s, "thinking") ELSE s
  ELSE LET h == HeuristicFeed(s.heur, part.text)
           t == [s EXCEPT !.heur = [state |-> h.state, buf |-> h.buf]]
       IN HeuristicTools(IF h.out = <<>> THEN t ELSE Say(t, "text"), h.tools)

\* The parts of a feed, one after the other.
Parts(s, parts) ==
  LET after[k \in 0..Len(parts)] == IF k = 0 THEN s ELSE Part(after[k - 1], parts[k])
  IN after[Len(parts)]

Tagged(part) == [i \in DOMAIN part.text |-> <<part.type, part.text[i]>>]

Said(parts) ==
  LET said[k \in 0..Len(parts)] == IF k = 0 THEN <<>> ELSE said[k - 1] \o Tagged(parts[k])
  IN said[Len(parts)]

NextChunk == phase = "streaming" /\ chunks < MaxChunks /\ chunks' = chunks + 1

Start ==
  /\ phase = "idle" /\ phase' = "streaming"
  /\ client' = Read(client, <<Event("message_start")>>)
  /\ UNCHANGED <<think, sse, enabled, chunks, fed, parsed>>

Reasoning ==
  /\ NextChunk
  /\ Send(IF enabled THEN Say(sse, "thinking") ELSE sse, <<>>)
  /\ UNCHANGED <<phase, think, enabled, fed, parsed>>

Content(text) ==
  /\ NextChunk
  /\ LET f == ThinkFeed(think, text) IN
     /\ think' = [buf |-> f.buf, in |-> f.in]
     /\ parsed' = parsed \o Said(f.parts)
     /\ Send(Parts(sse, f.parts), <<>>)
  /\ fed' = fed \o text
  /\ UNCHANGED <<phase, enabled>>

ToolCall(call) ==
  /\ NextChunk
  /\ Send(ProcessToolCall(sse, call), <<>>)
  /\ UNCHANGED <<phase, think, enabled, fed, parsed>>

\* The flush of the ThinkTagParser; its text goes past the HeuristicToolParser.
FlushThink(s) ==
  IF think.buf = <<>> \/ (think.in /\ ~enabled) THEN s
  ELSE Say(s, IF think.in THEN "thinking" ELSE "text")

\* A stream without content, or with thinking only, gets a blank text.
Blank(s) ==
  LET empty == s.at.text = -1 /\ s.at.thinking = -1 /\ StartedTools(s) = {}
      mute == StartedTools(s) = {} /\ s.spoken = {"thinking"}
  IN IF empty \/ mute THEN Say(s, "text") ELSE s

\* The upstream ends.
Finish ==
  /\ phase = "streaming" /\ phase' = "done"
  /\ LET s == FlushThink(sse)
         t == HeuristicTools(s, HeuristicFlush(s.heur))
     IN Send(CloseAll(FlushTasks(Blank(t))), Ending)
  /\ UNCHANGED <<think, enabled, chunks, fed, parsed>>

\* The upstream fails: as text, or as an event once a tool call was sent.
Fail ==
  /\ phase = "streaming" /\ phase' = "done"
  /\ LET s == CloseAll(sse) IN
     IF StartedTools(s) # {} THEN Send(s, <<Event("error")>> \o Ending)
     ELSE Send([s EXCEPT !.next = @ + 1], ErrorBlock(s.next) \o Ending)
  /\ UNCHANGED <<think, enabled, chunks, fed, parsed>>

\* The client goes away.
Cut ==
  /\ phase = "streaming" /\ phase' = "cut"
  /\ UNCHANGED <<client, think, sse, enabled, chunks, fed, parsed>>

OpenAIInit ==
  /\ client = NewClient /\ phase = "idle"
  /\ think = [buf |-> <<>>, in |-> FALSE] /\ sse = NewBuilder
  /\ enabled \in BOOLEAN
  /\ chunks = 0 /\ fed = <<>> /\ parsed = <<>>

OpenAINext ==
  \/ Start \/ Reasoning \/ Finish \/ Fail \/ Cut
  \/ \E text \in TextDelta : Content(text)
  \/ \E call \in ToolDelta : ToolCall(call)
-----------------------------------------------------------------------------
\* Wherever the text is cut into chunks, the think tags mean the same: what was
\* parsed, and what is held back, is what the whole text means.
ParsedAsWhole ==
  LET m == Meaning(fed) IN parsed = m.said /\ think = [buf |-> m.held, in |-> m.in]

\* A tool whose name came at once gets the arguments it was given, all of them and
\* in their order, whatever came before its name; a Task gets them as one value.
ArgsDelivered ==
  \A i \in StartedTools(sse) :
    LET tool == sse.tools[i] IN
    tool.whole =>
    IF tool.name # Task THEN tool.contents = tool.got
    ELSE IF tool.emitted THEN Len(tool.got) > 0 /\ tool.contents = Json
    ELSE tool.contents = <<>> /\ tool.buffer = tool.got
=============================================================================
