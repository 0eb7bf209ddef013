------------------------------- MODULE Requests -------------------------------
(***************************************************************************)
(* From the client's request to the body that goes upstream: the guards of    *)
(* ClaudeProxyService.create_message, and what each provider's builder makes  *)
(* of the conversation so far.  The client is an agent whose history grows    *)
(* turn by turn.  A text, a call or a result is only a tag: <<turn, place>>.  *)
(***************************************************************************)
EXTENDS Collections, FiniteSets, SequencesExt

CONSTANTS
  AssistantBlock,  \* what an assistant message is made of
  RareBlock,       \* what is only met as its one block
  MaxTurns, MaxBlocks,   \* bounds: messages, and blocks of an assistant message
  WebTools,        \* enable_web_server_tools
  Template         \* nim.chat_template is set

ASSUME RequestsAssumption ==
  /\ AssistantBlock \cup RareBlock \subseteq
       {"text", "thinking", "signed", "redacted", "tool_use", "server_tool"}
  /\ {MaxTurns, MaxBlocks} \subseteq Nat /\ {WebTools, Template} \subseteq BOOLEAN

VARIABLES
  history,   \* the client's conversation
  request,   \* the last request: where it is, its provider, with thinking?
  body       \* what was sent upstream for it

requestVars == <<history, request, body>>

Block(type, tag) == [type |-> type, tag |-> tag]
Msg(role, plain, blocks) == [role |-> role, plain |-> plain, blocks |-> blocks]

Of(blocks, types) == Keep(blocks, {i \in DOMAIN blocks : blocks[i].type \in types})
Tags(blocks) == [i \in DOMAIN blocks |-> blocks[i].tag]

Thinking == {"thinking", "signed"}
ServerTool == "server_tool"
-----------------------------------------------------------------------------
(* AnthropicToOpenAIConverter.                                              *)

Chat(role, said, calls, reasoning, result) ==
  [role |-> role, said |-> said, calls |-> calls, reasoning |-> reasoning, result |-> result]

UserSays(tags) == IF tags = <<>> THEN <<>> ELSE <<Chat("user", tags, <<>>, <<>>, <<>>)>>
ToolSays(b) == Chat("tool", <<>>, <<>>, <<>>, b.tag)

\* _convert_assistant_message: what redacted thinking says is not replayed.
AssistantSays(blocks, thinking) ==
  Chat("assistant", Tags(Of(blocks, {"text"})), Tags(Of(blocks, {"tool_use"})),
       IF thinking THEN Tags(Of(blocks, Thinking)) ELSE <<>>, <<>>)

\* _PendingAfterTools: what was said after the calls waits for their results.
NoPending == [ids |-> {}, blocks |-> <<>>]

Deferred(pending, thinking) ==
  IF pending.blocks = <<>> THEN <<>> ELSE <<AssistantSays(pending.blocks, thinking)>>

\* _convert_assistant_message_with_split.
Split(blocks, thinking) ==
  LET calls == Of(blocks, {"tool_use"})
      others == {i \in DOMAIN blocks : blocks[i].type # "tool_use"}
      first == {i \in DOMAIN blocks : 1..i \subseteq others}
      pre == Keep(blocks, first)
      later == Keep(blocks, others \ first)
  IN  [out |-> <<[AssistantSays(pre, thinking) EXCEPT !.calls = Tags(calls)]>>,
       pending |-> IF later = <<>> THEN NoPending
                   ELSE [ids |-> ToSet(Tags(calls)), blocks |-> later]]

\* (mutant) What was said after the calls goes in after the first result.
InjectAtOnce(ids) == TRUE

\* It goes in when no result is missing any more.
InjectNow(ids) == ids = {}

\* A block of a user message; texts are gathered up to the next result.
TakeBlock(acc, b, pending, thinking) ==
  LET left == acc.ids \ {b.tag}
      inject == pending.ids # {} /\ InjectNow(left)
  IN  IF b.type = "text" THEN [acc EXCEPT !.text = Append(@, b.tag)]
      ELSE [out |-> acc.out \o UserSays(acc.text) \o <<ToolSays(b)>>
                      \o (IF inject THEN Deferred(pending, thinking) ELSE <<>>),
            text |-> <<>>, ids |-> left, cleared |-> acc.cleared \/ inject]

\* _convert_user_message, and ..._with_injection while calls are open.
UserMessages(blocks, pending, thinking) ==
  LET acc[n \in 0..Len(blocks)] ==
        IF n = 0 THEN [out |-> <<>>, text |-> <<>>, ids |-> pending.ids, cleared |-> FALSE]
        ELSE TakeBlock(acc[n - 1], blocks[n], pending, thinking)
      end == acc[Len(blocks)]
  IN  [out |-> end.out \o UserSays(end.text),
       pending |-> IF end.cleared THEN NoPending ELSE [pending EXCEPT !.ids = end.ids]]

\* One round of convert_messages.
ConvertOne(acc, m, thinking) ==
  LET flushed == acc.out \o Deferred(acc.pending, thinking)
      assistant == IF Of(m.blocks, {"tool_use"}) # <<>> THEN Split(m.blocks, thinking)
                   ELSE [out |-> <<AssistantSays(m.blocks, thinking)>>, pending |-> NoPending]
      user == UserMessages(m.blocks, acc.pending, thinking)
  IN  CASE m.plain ->
             [out |-> Append(IF m.role = "user" THEN flushed ELSE acc.out,
                             Chat(m.role, Tags(m.blocks), <<>>, <<>>, <<>>)),
              pending |-> IF m.role = "user" THEN NoPending ELSE acc.pending]
        [] ~m.plain /\ m.role = "assistant" ->
             [out |-> flushed \o assistant.out, pending |-> assistant.pending]
        [] OTHER -> [out |-> acc.out \o user.out, pending |-> user.pending]

Rounds(messages, thinking) ==
  LET acc[n \in 0..Len(messages)] ==
        IF n = 0 THEN [out |-> <<>>, pending |-> NoPending]
        ELSE ConvertOne(acc[n - 1], messages[n], thinking)
  IN  acc[Len(messages)]

\* (mutant) What still waits at the end is forgotten.
ConvertNoFlush(messages, thinking) == Rounds(messages, thinking).out

Convert(messages, thinking) ==
  LET end == Rounds(messages, thinking)
  IN  end.out \o Deferred(end.pending, thinking)

\* OpenAIConversionError.
Unconvertible(messages) ==
  \E i \in DOMAIN messages : \E b \in ToSet(messages[i].blocks) : b.type \in {"image", ServerTool}
-----------------------------------------------------------------------------
(* The builders of the other providers.                                     *)

\* sanitize_native_messages_thinking_policy, and DeepSeek's, which keeps unsigned
\* thinking and drops what is redacted.
Sanitized(messages, provider, thinking) ==
  LET gone == IF ~thinking THEN Thinking \cup {"redacted"}
              ELSE IF provider = "deepseek" THEN {"redacted"} ELSE {"thinking"}
  IN  [i \in DOMAIN messages |->
         IF messages[i].role # "assistant" \/ messages[i].plain THEN messages[i]
         ELSE [messages[i] EXCEPT !.blocks = Keep(@, {j \in DOMAIN @ : @[j].type \notin gone})]]

\* _validate_deepseek_native_request_dict.
DeepSeekRefuses(messages, tools) == tools # "none" \/ Unconvertible(messages)

\* Bailian's builder takes text from blocks that are dicts, and the blocks of a
\* parsed request are objects: only the text of plain messages gets through.
BailianMessages(messages) ==
  [i \in DOMAIN messages |->
     Chat(messages[i].role, IF messages[i].plain THEN Tags(messages[i].blocks) ELSE <<>>,
          <<>>, <<>>, <<>>)]

OpenAIBody(messages, budget, template) ==
  [format |-> "openai", messages |-> messages, budget |-> budget, template |-> template]

NoBody == [OpenAIBody(<<>>, FALSE, FALSE) EXCEPT !.format = "none"]

Build(provider, thinking) ==
  CASE provider = "nvidia_nim" -> OpenAIBody(Convert(history, thinking), thinking, Template)
    [] provider = "bailian" -> OpenAIBody(BailianMessages(history), FALSE, FALSE)
    [] OTHER -> [OpenAIBody(Sanitized(history, provider, thinking), thinking, FALSE)
                   EXCEPT !.format = "anthropic"]

\* preflight_stream builds the body once to see whether it can be built.
Refused(provider, tools) ==
  CASE provider = "nvidia_nim" -> Unconvertible(history)
    [] provider = "deepseek" -> DeepSeekRefuses(history, tools)
    [] OTHER -> FALSE
-----------------------------------------------------------------------------
(* create_message.                                                          *)

Provider == {"nvidia_nim", "bailian", "deepseek", "open_router"}

\* Anthropic's web tools: "listed" among the tools of a request, or "forced".
ToolsRefused(provider, tools) ==
  provider = "nvidia_nim" /\ (tools = "listed" \/ (tools = "forced" /\ ~WebTools))

\* What the proxy answers itself.  Some probes are only known by being the first and
\* only message, some by having no tools; a suggestion by a mark in any message.
Probes(tools) ==
  {"none", "suggestion"}
    \cup (IF tools = "none" THEN {"title"} ELSE {})
    \cup (IF Len(history) = 1 THEN {"quota", "prefix"} ELSE {})
    \cup (IF Len(history) = 1 /\ tools = "none" THEN {"filepath"} ELSE {})

\* The guards in their order; the model's name decides provider and thinking.
Outcome(provider, tools, probe, credential) ==
  IF history = <<>> \/ ToolsRefused(provider, tools) THEN "invalid"
  ELSE IF WebTools /\ tools = "forced" THEN "web_tool"
  ELSE IF probe # "none" THEN "mocked"
  ELSE IF ~credential THEN "unavailable"
  ELSE IF Refused(provider, tools) THEN "invalid"
  ELSE "sent"

Idle == [at |-> "idle", provider |-> "none", thinking |-> FALSE]

CreateMessage ==
  /\ request.at = "idle"
  /\ history # <<>> => Last(history).role = "user"
  /\ \E provider \in Provider, thinking \in BOOLEAN, tools \in {"none", "listed", "forced"},
        credential \in BOOLEAN : \E probe \in Probes(tools) :
       LET at == Outcome(provider, tools, probe, credential) IN
       /\ request' = IF at = "sent" THEN [at |-> at, provider |-> provider, thinking |-> thinking]
                     ELSE [Idle EXCEPT !.at = at]
       /\ body' = IF at = "sent" THEN Build(provider, thinking) ELSE NoBody
  /\ UNCHANGED history

\* NIM answers 400 and names a field: one more attempt without it, if it was there.
NimComplains ==
  /\ request.at = "sent" /\ request.provider = "nvidia_nim"
  /\ LET reasons == \E i \in DOMAIN body.messages : body.messages[i].reasoning # <<>>
         bare == [i \in DOMAIN body.messages |-> [body.messages[i] EXCEPT !.reasoning = <<>>]]
     IN \/ body.budget /\ body' = [body EXCEPT !.budget = FALSE]
        \/ body.template /\ body' = [body EXCEPT !.template = FALSE]
        \/ reasons /\ body' = [body EXCEPT !.messages = bare]
  /\ request' = [request EXCEPT !.at = "retried"]
  /\ UNCHANGED history

RequestFails ==
  /\ request.at \in {"sent", "retried", "invalid", "unavailable"}
  /\ request' = Idle /\ body' = NoBody
  /\ UNCHANGED history

\* (Client) An answer that came through is a turn of the history: the model's, a
\* canned text, or a web tool's use and result with a summary.
AssistantTurn ==
  /\ request.at \in {"sent", "retried", "mocked", "web_tool"} /\ Len(history) < MaxTurns
  /\ \E n \in 1..MaxBlocks :
     \E types \in CASE request.at = "mocked"   -> {<<"text">>}
                    [] request.at = "web_tool" -> {<<ServerTool, "text">>}
                    [] OTHER -> [1..n -> AssistantBlock] \cup {<<b>> : b \in RareBlock} :
       LET blocks == [i \in DOMAIN types |-> Block(types[i], <<Len(history), i>>)] IN
       history' = Append(history, Msg("assistant", FALSE, blocks))
  /\ request' = Idle /\ body' = NoBody

\* (Client) The user's turn: the results of all open calls, in any order and with a
\* text or without; or, where the user has interrupted, only a text.
UserTurn ==
  /\ request.at = "idle" /\ Len(history) < MaxTurns
  /\ history # <<>> => Last(history).role = "assistant"
  /\ LET calls == IF history = <<>> THEN <<>> ELSE Of(Last(history).blocks, {"tool_use"})
         text == Block("text", <<Len(history), 1>>)
         Results(p) == [i \in DOMAIN calls |-> Block("tool_result", calls[p[i]].tag)]
         orders == {p \in [DOMAIN calls -> DOMAIN calls] : IsInjective(p)}
     IN \/ \E plain \in BOOLEAN : history' = Append(history, Msg("user", plain, <<text>>))
        \/ history = <<>> /\ history' = <<Msg("user", FALSE, <<text, Block("image", <<0, 2>>)>>)>>
        \/ calls # <<>> /\ \E p \in orders, also \in {<<>>, <<text>>} :
             history' = Append(history, Msg("user", FALSE, Results(p) \o also))
  /\ UNCHANGED <<request, body>>

RequestInit == history = <<>> /\ request = Idle /\ body = NoBody

RequestNext == CreateMessage \/ NimComplains \/ RequestFails \/ AssistantTurn \/ UserTurn
-----------------------------------------------------------------------------
TagsOf(m, type) == {b.tag : b \in {c \in ToSet(m.blocks) : c.type = type}}
InHistory(type) == UNION {TagsOf(history[i], type) : i \in DOMAIN history}

\* The lists of a body's messages: what each says, calls and answers.
Texts(messages) == [i \in DOMAIN messages |-> messages[i].said]
Calls(messages) == [i \in DOMAIN messages |-> messages[i].calls]
Answers(messages) ==
  [i \in DOMAIN messages |-> IF messages[i].role = "tool" THEN <<messages[i].result>> ELSE <<>>]

Members(lists) == UNION {ToSet(lists[i]) : i \in DOMAIN lists}
NoneTwice(lists) ==
  \A i, k \in DOMAIN lists : \A j \in DOMAIN lists[i], l \in DOMAIN lists[k] :
    lists[i][j] = lists[k][l] => i = k /\ j = l

\* The lists hold `tags`, each at one place.
Once(lists, tags) == Members(lists) = tags /\ NoneTwice(lists)

\* After a message with calls come exactly their results, before anything else is
\* said: an OpenAI upstream takes nothing else.  (Of calls the user has answered.)
ToolResultsFollow ==
  body.format = "openai" =>
    \A i \in DOMAIN body.messages :
      LET calls == body.messages[i].calls
          next == SubSeq(body.messages, i + 1, i + Len(calls))
      IN  calls # <<>> /\ ToSet(calls) \subseteq InHistory("tool_result") =>
            {next[j].result : j \in DOMAIN next} = ToSet(calls)

\* Every text, call and result of the conversation goes upstream exactly once,
\* wherever the tool calls stood in it, and no thinking when thinking is off: also
\* when the user interrupted, and when the request is sent again.
HistoryKept ==
  /\ request.provider = "nvidia_nim" /\ body.format = "openai" =>
       /\ Once(Texts(body.messages), InHistory("text"))
       /\ Once(Calls(body.messages), InHistory("tool_use"))
       /\ Once(Answers(body.messages), InHistory("tool_result"))
       /\ ~request.thinking => \A i \in DOMAIN body.messages : body.messages[i].reasoning = <<>>
  /\ body.format = "anthropic" =>
       \A i \in DOMAIN history : \A b \in ToSet(history[i].blocks) :
         b.type \in {"text", "tool_use", "tool_result", "signed"} =>
           \/ b \in ToSet(body.messages[i].blocks)
           \/ b.type = "signed" /\ ~request.thinking

\* "Extract text from content blocks" (Bailian's request.py): what the conversation
\* says reaches the model.
BailianTextKept ==
  request.provider = "bailian" /\ body.format = "openai" =>
    InHistory("text") = Members(Texts(body.messages))
=============================================================================
