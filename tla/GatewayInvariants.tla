--------------------------- MODULE GatewayInvariants ---------------------------
(***************************************************************************)
(* The inductive invariants of the gateway's sides, and what they are made    *)
(* of: BInv of the fallback, ParsedInv of the think tags, OpenAIInv and       *)
(* NativeInv of the streams, WebInv of the web tools, RequestsInv of what     *)
(* goes upstream.  Gateway_proofs shows that each is kept by every step.      *)
(***************************************************************************)
EXTENDS Gateway

(* A sequence gone through element by element: H[v][e] is what v becomes.   *)

FoldOf(f, H, m, t) ==
  f = [n \in 0..Len(t) |-> IF n = 0 THEN m ELSE H[f[n - 1]][t[n]]]

\* What m becomes, in steps of H, through a sequence.
Fold(H, m, t) == (CHOOSE f : FoldOf(f, H, m, t))[Len(t)]
-----------------------------------------------------------------------------
(* What a sequence holds.                                                   *)

Elements(s) == {s[i] : i \in 1..Len(s)}
Distinct(s) == \A i, j \in 1..Len(s) : s[i] = s[j] => i = j
-----------------------------------------------------------------------------
(* Bailian's chain of models.                                               *)

Model == Elements(Configured) \cup {Asked[r] : r \in Request}
ModelState == [failed : SUBSET Model, working : Model \cup {Unset}, available : Seq(Model)]

\* What a request has tried is out for all requests, but for the model it is at.
TriedIsOut(r) ==
  /\ rq[r].at = "new" => tried[r] = <<>>
  /\ rq[r].at = "trying" =>
       rq[r].model \in Model /\ Elements(tried[r]) \subseteq state.failed \cup {rq[r].model}

BTypeOK ==
  /\ rq \in [Request -> [at : {"new", "plain", "trying", "over"}, attempt : Nat, max : Nat,
                         model : Model \cup {Unset}]]
  /\ state \in ModelState /\ disk \in ModelState
  /\ models \in Seq(Model) /\ original \in Seq(Model) /\ env.models \in Seq(Model)
  /\ tried \in [Request -> Seq(Model)]

BInv == BTypeOK /\ \A r \in Request : TriedIsOut(r)
-----------------------------------------------------------------------------
(* The think tag parser: what a text means, token by token.                 *)

Kindly(inside) == IF inside THEN "thinking" ELSE "text"
Spoken == {"text", "thinking"} \X Token
Mode == [in : BOOLEAN, held : {<<>>, <<"<">>}, said : Seq(Spoken)]

TagOf(inside, text) == [i \in 1..Len(text) |-> <<Kindly(inside), text[i]>>]

\* The tags that mean something.
TagsIn(inside) == IF inside THEN {"/think>"} ELSE {"think>", "/think>"}

Now(inside, held, said) == [in |-> inside, held |-> held, said |-> said]

ReadStep == [m \in Mode |-> [t \in Token |-> Reads(m, t)]]

\* What a mode becomes through a text.
Through(m, t) == Fold(ReadStep, m, t)

\* The first n tokens of a text.
Prefix(b, n) == SubSeq(b, 1, n)

NoTag(b, n, inside) == \A i \in 1..(n - 1) : ~(b[i] = "<" /\ b[i + 1] \in TagsIn(inside))

\* What a text without a tag says, but for a "<" at its end.
Unread(b, n, inside, said) ==
  IF n # 0 /\ b[n] = "<"
  THEN Now(inside, <<"<">>, said \o TagOf(inside, Prefix(b, n - 1)))
  ELSE Now(inside, <<>>, said \o TagOf(inside, Prefix(b, n)))

\* A text with its first tag at i.
FirstTag(b, i, inside) ==
  i \in 1..(Len(b) - 1) /\ b[i] = "<" /\ b[i + 1] \in TagsIn(inside) /\ NoTag(b, i, inside)

\* A feed: the pieces it says, and what it keeps in its buffer.
Piece == [type : {"text", "thinking"}, text : Seq(Token)]
Round1 == [buf : Seq(Token), in : BOOLEAN, parts : Seq(Piece)]
SayStep == [v \in Seq(Spoken) |-> [x \in Piece |-> v \o Tagged(x)]]
Rounded(buf, inside, parts) == [buf |-> buf, in |-> inside, parts |-> parts]
Reading(said, r) == Through(Now(r.in, <<>>, said \o Said(r.parts)), r.buf)

\* What was parsed, and what is held back, is what was fed: as a mode of reading.
ParsedInv ==
  /\ fed \in Seq(Token) /\ parsed \in Seq(Spoken)
  /\ think \in [buf : {<<>>, <<"<">>}, in : BOOLEAN]
  /\ Through(Now(FALSE, <<>>, <<>>), fed) = Now(think.in, think.buf, parsed)
-----------------------------------------------------------------------------
(* The client, and what it believes open.                                   *)

BlockKinds ==
  {"text", "thinking", "tool_use", "server_tool_use",
   <<"web_search", "result">>, <<"web_fetch", "result">>}
PlainNames == {"message_start", "message_delta", "message_stop", "error"}
Names ==
  PlainNames \cup {"", "content_block_start", "content_block_delta", "content_block_stop"}

Client ==
  [open : SUBSET (Int \X BlockKinds), seen : SUBSET Int, begun : BOOLEAN, broken : BOOLEAN,
   last : Names]

StreamEvent ==
  {Event(n) : n \in PlainNames}
    \cup {BlockStart(i, k) : i \in Int, k \in BlockKinds}
    \cup {BlockDelta(i, k) : i \in Int, k \in BlockKinds}
    \cup {BlockStop(i) : i \in Int}

ObserveStep == [c \in Client |-> [e \in StreamEvent |-> Observe(c, e)]]

\* The client is in the middle of a stream in which nothing is wrong so far: `open`
\* blocks, and the indexes below n have been used.
Sees(c, open, n) ==
  /\ c \in Client /\ c.begun /\ ~c.broken
  /\ c.open = open /\ c.seen = 0 .. n - 1

But(open, i) == {b \in open : b[1] # i}

\* Events of several blocks, and of one at once; open blocks below an index.
Stops(q) == [k \in 1..Len(q) |-> BlockStop(q[k])]
ButAll(open, q, m) == {b \in open : \A j \in 1..m : b[1] # q[j]}
Deltas(q, kind) == [k \in 1..Len(q) |-> BlockDelta(q[k], kind)]
Whole(n, kind) == <<BlockStart(n, kind), BlockDelta(n, kind), BlockStop(n)>>
Bare(n, kind) == <<BlockStart(n, kind), BlockStop(n)>>
Below(open, n) == \A b \in open : b[1] \in 0 .. n - 1
-----------------------------------------------------------------------------
(* The OpenAI stream: SSEBuilder, tools and parsers.                        *)

Brace == {"{", "}"}
Tool ==
  [block : Int, name : Seq(STRING), started : BOOLEAN, buffer : Seq(Brace), emitted : BOOLEAN,
   pre : Seq(Brace), got : Seq(Brace), contents : Seq(Brace), whole : BOOLEAN]
Map(K, V) == UNION {[D -> V] : D \in {E \in SUBSET K : IsFiniteSet(E)}}
ToolMap == Map(Int, Tool)
Heur == [state : {"TEXT", "MATCHING_FUNCTION", "PARSING_PARAMETERS"}, buf : Seq(Token)]
Spoke == {"text", "thinking"}
Builder ==
  [next : Nat, at : [Spoke -> Int], started : SUBSET Spoke, spoken : SUBSET Spoke,
   tools : ToolMap, heur : Heur, out : Seq(StreamEvent)]

TextBlocks(s) == {<<s.at[k], k>> : k \in s.started}
ToolBlocks(s) == {<<s.tools[i].block, "tool_use">> : i \in StartedTools(s)}
OpenBlocks(s) == TextBlocks(s) \cup ToolBlocks(s)

\* Every open block has an index of its own, below the next.
TextLayout(s) ==
  /\ \A k \in Spoke : s.at[k] >= -1 /\ s.at[k] < s.next
  /\ \A k \in s.started : s.at[k] >= 0
  /\ \A k, l \in s.started : s.at[k] = s.at[l] => k = l

ToolLayout(s) ==
  /\ \A i \in StartedTools(s) : s.tools[i].block \in 0 .. s.next - 1
  /\ \A i, j \in StartedTools(s) : s.tools[i].block = s.tools[j].block => i = j

Layout(s) ==
  /\ TextLayout(s) /\ ToolLayout(s)
  /\ \A i \in StartedTools(s), k \in s.started : s.tools[i].block # s.at[k]

\* What the client has once it has read the pending events too.
Fits(c, s) == Layout(s) /\ Sees(Read(c, s.out), OpenBlocks(s), s.next)

Good(c, s) == s \in Builder /\ Fits(c, s)

\* What a builder's blocks depend on.
Alike(s, t) ==
  /\ t.next = s.next /\ t.at = s.at /\ t.started = s.started /\ t.tools = s.tools

Assigned(M, T, i, v) ==
  /\ Assign(T, i, v) \in M /\ DOMAIN Assign(T, i, v) = DOMAIN T \cup {i}
  /\ Assign(T, i, v)[i] = v
  /\ \A j \in DOMAIN T : j # i => Assign(T, i, v)[j] = T[j]

\* The builder with another state of one tool, or another tool.
With(s, i, v) == [s EXCEPT !.tools = Assign(s.tools, i, v)]

\* What a step may change in the tools: only those of one index.
Only(s, t, i) ==
  /\ DOMAIN t.tools = DOMAIN s.tools \cup {i}
  /\ \A j \in DOMAIN s.tools : j # i => t.tools[j] = s.tools[j]

Sent(entry, args) == [entry EXCEPT !.contents = @ \o args]

\* What the client has of the arguments `given` to a tool.
Delivered(t, given) ==
  IF t.name # Task THEN t.contents = given /\ t.buffer = <<>>
  ELSE IF t.emitted THEN Len(given) > 0 /\ t.contents = Json
  ELSE t.contents = <<>> /\ t.buffer = given

Waiting(t) == t.contents = <<>> /\ t.buffer = <<>> /\ ~t.emitted /\ t.pre = t.got

\* A tool in the middle of a delta, and between two.
Handled(t) ==
  IF t.started THEN t.name # <<>> /\ (t.whole => Delivered(t, t.got)) ELSE Waiting(t)

Settled(t) == Handled(t) /\ (t.started \/ t.name = <<>>)

\* A started tool stays itself, but for what it has been given and has sent.
Kept(u, v) ==
  /\ v.block = u.block /\ v.name = u.name /\ v.started = u.started
  /\ v.pre = u.pre /\ v.got = u.got /\ v.whole = u.whole

Opened(entry, n) == [entry EXCEPT !.block = n, !.started = TRUE]

HandledAt(T, i) == \A j \in DOMAIN T : IF j = i THEN Handled(T[j]) ELSE Settled(T[j])
AllSettled(T) == \A j \in DOMAIN T : Settled(T[j])

\* What _stream_response_impl sends last.
Closing(s) ==
  LET f == FlushThink(s)
      t == HeuristicTools(f, HeuristicFlush(f.heur))
  IN CloseAll(FlushTasks(Blank(t)))

OpenAIInv ==
  /\ AllSettled(sse.tools)
  /\ serving # "openai" => phase = "idle"
  /\ phase \in {"idle", "streaming", "done", "cut"}
  /\ phase = "idle" => sse = NewBuilder /\ (serving = "openai" => client = NewClient)
  /\ phase = "streaming" => client \in Client /\ Good(client, sse) /\ sse.out = <<>>
  /\ phase = "done" => Accepts(client)
  /\ phase = "cut" => ~client.broken
-----------------------------------------------------------------------------
(* The native stream: tracker and block policy.                             *)

Tracker == [open : Seq(Int), max : Int]

Knows(t, c) ==
  /\ t \in Tracker /\ t.max >= -1
  /\ ~c.broken =>
       /\ Distinct(t.open) /\ Elements(t.open) = {b[1] : b \in c.open}
       /\ Elements(t.open) \subseteq c.seen
       /\ \A i \in c.seen : i <= t.max
       /\ t.max = -1 \/ t.max \in c.seen

Segment == [index : Nat, kind : Kinds, open : BOOLEAN]
UpBlock == [kind : Kinds, stopped : BOOLEAN]
SegMap == Map(Upstream, Segment)
UpMap == Map(Upstream, UpBlock)
Policy ==
  [next : Nat, segments : SegMap, dropped : SUBSET Upstream, suppressed : SUBSET Upstream,
   stopped : BOOLEAN]

OpenSegments(S) == {v \in DOMAIN S : S[v].open}
SegBlocks(S) == {<<S[v].index, S[v].kind>> : v \in OpenSegments(S)}

SegLayout(S, n) ==
  /\ \A v \in DOMAIN S : S[v].index \in 0 .. n - 1
  /\ \A v, x \in DOMAIN S : S[v].index = S[x].index => v = x

\* A segment agrees with its block.
Agrees(segment, block) == segment.kind = block.kind /\ (block.stopped => ~segment.open)

Mirrors(p, w) ==
  /\ p \in Policy /\ w \in UpMap
  /\ SegLayout(p.segments, p.next)
  /\ DOMAIN w = p.dropped \cup DOMAIN p.segments
  /\ p.dropped \cap DOMAIN p.segments = {}
  /\ \A v \in DOMAIN p.segments : Agrees(p.segments[v], w[v])
  /\ \A v \in p.suppressed : v \in DOMAIN p.segments /\ ~p.segments[v].open

Carries(c, p) == Sees(c, SegBlocks(p.segments), p.next)

\* _synthetic_close_other_open_blocks before a new block.
Shut(S, others) == [v \in DOMAIN S |-> IF v \in others THEN [S[v] EXCEPT !.open = FALSE] ELSE S[v]]

ClosedOthers(c, p, w, r) ==
  /\ Mirrors(r.policy, w) /\ r.policy.next = p.next /\ r.policy.dropped = p.dropped
  /\ OpenSegments(r.policy.segments) = {}
  /\ r.out \in Seq(StreamEvent) /\ Carries(Read(c, r.out), r.policy)

NewSegment(n, kind) == [index |-> n, kind |-> kind, open |-> TRUE]

\* The upstream's blocks with a block u of that kind, which is not stopped.
Extends(w, x, u, kind) ==
  /\ x \in UpMap /\ DOMAIN x = DOMAIN w \cup {u}
  /\ \A v \in DOMAIN w : v # u => x[v] = w[v]
  /\ x[u].kind = kind /\ ~x[u].stopped

\* The upstream's blocks are now x, the client has read what the policy put out.
Passes(c, x, r) ==
  /\ Mirrors(r.policy, x)
  /\ r.out \in Seq(StreamEvent) /\ Carries(Read(c, r.out), r.policy)

Unused == up = <<>> /\ policy = NewPolicy /\ tracker = [open |-> <<>>, max |-> -1]

NativeInv ==
  /\ serving # "native" => nphase = "idle"
  /\ nphase \in {"idle", "streaming", "done", "cut"} /\ sent \in BOOLEAN
  /\ nphase = "idle" => Unused /\ ~sent /\ (serving = "native" => client = NewClient)
  /\ nphase = "streaming" /\ ~sent => Unused /\ client = NewClient
  /\ nphase = "streaming" /\ sent =>
       Mirrors(policy, up) /\ Carries(client, policy) /\ Knows(tracker, client)
  /\ nphase = "done" =>
       ~client.broken /\ (Accepts(client) \/ (client.seen = {} /\ policy.dropped # {}))
  /\ nphase = "cut" => ~client.broken
-----------------------------------------------------------------------------
(* The web tools.                                                           *)

WebInv ==
  /\ serving # "web" => wphase = "idle"
  /\ wphase \in {"idle", "running", "done", "cut"}
  /\ serving = "web" /\ wphase = "idle" => client = NewClient
  /\ wphase = "running" => Sees(client, {}, 1) /\ tool \in {"web_search", "web_fetch"}
  /\ wphase = "done" => Accepts(client)
  /\ wphase = "cut" => ~client.broken

\* Neither requests nor Bailian's models touch the client.
Untouched ==
  /\ serving \in {"requests", "openai", "native", "bailian", "web"}
  /\ serving \in {"requests", "bailian"} => client = NewClient
-----------------------------------------------------------------------------
(* Requests: what messages hold.                                            *)

Tag == Nat \X Nat
Role == {"user", "assistant", "tool"}
BlockType ==
  {"text", "thinking", "signed", "redacted", "tool_use", "server_tool", "image", "tool_result"}
TaggedBlock == [type : BlockType, tag : Tag]
ChatMessage ==
  [role : Role, said : Seq(Tag), calls : Seq(Tag), reasoning : Seq(Tag), result : Tag \cup {<<>>}]

\* Messages with the texts T, the calls C and the results R, each once.
Conveys(x, T, C, R, thinking) ==
  /\ x \in Seq(ChatMessage)
  /\ Once(Texts(x), T) /\ Once(Calls(x), C) /\ Once(Answers(x), R)
  /\ \A i \in 1..Len(x) : /\ x[i].role = "tool" => x[i].result # <<>>
                          /\ ~thinking => x[i].reasoning = <<>>

ElementsOf(B, types) == {b.tag : b \in {c \in B : c.type \in types}}

\* No two blocks have one tag.
Apart(s) ==
  /\ s \in Seq(TaggedBlock) /\ Distinct(s)
  /\ \A b, c \in Elements(s) : b.tag = c.tag => b = c

\* What waits has the texts T and no calls.
Deferring(p, T) ==
  /\ p = [ids |-> p.ids, blocks |-> p.blocks]
  /\ Apart(p.blocks) /\ \A b \in Elements(p.blocks) : b.type # "tool_use"
  /\ ElementsOf(Elements(p.blocks), {"text"}) = T

Silent(x) == \A i \in 1..Len(x) : x[i].calls = <<>>

FollowsAt(x, i, known) ==
  LET calls == x[i].calls IN
  calls # <<>> /\ Elements(calls) \subseteq known =>
    /\ i + Len(calls) <= Len(x)
    /\ {x[j].result : j \in (i + 1)..(i + Len(calls))} = Elements(calls)

ResultsFollow(x, known) == \A i \in 1..Len(x) : FollowsAt(x, i, known)
-----------------------------------------------------------------------------
(* Requests: the conversations a client has.                                *)

AssistantType == {"text", "thinking", "signed", "redacted", "tool_use", "server_tool"}
Turn == [role : {"user", "assistant"}, plain : BOOLEAN, blocks : Seq(TaggedBlock)]

TextOf(i) == Block("text", <<i - 1, 1>>)
CallsOf(m) == Tags(Of(m.blocks, {"tool_use"}))

\* The results of the calls, one each, in whatever order.
Answering(results, calls) ==
  /\ results \in Seq(TaggedBlock) /\ Len(results) = Len(calls) /\ Len(results) # 0
  /\ \A j \in 1..Len(results) : results[j].type = "tool_result"
  /\ Distinct(Tags(results)) /\ Elements(Tags(results)) = Elements(calls)

AssistantTurnOK(m, i) ==
  /\ m.role = "assistant" /\ ~m.plain
  /\ \A j \in 1..Len(m.blocks) : /\ m.blocks[j].tag = <<i - 1, j>>
                                 /\ m.blocks[j].type \in AssistantType

UserTurnOK(m, i, calls) ==
  /\ m.role = "user"
  /\ \/ m.blocks = <<TextOf(i)>>
     \/ ~m.plain /\ i = 1 /\ m.blocks = <<TextOf(i), Block("image", <<0, 2>>)>>
     \/ /\ ~m.plain
        /\ \E results, also : /\ Answering(results, calls) /\ also \in {<<>>, <<TextOf(i)>>}
                              /\ m.blocks = results \o also

\* What such a turn holds.
TurnBlocks(m, i, calls) ==
  \/ /\ m.blocks = <<TextOf(i)>> /\ Elements(m.blocks) = {TextOf(i)}
  \/ /\ ~m.plain /\ i = 1
     /\ Elements(m.blocks) = {TextOf(i), Block("image", <<0, 2>>)}
  \/ /\ ~m.plain
     /\ \E results, also :
          /\ Answering(results, calls) /\ also \in {<<>>, <<TextOf(i)>>}
          /\ also \in Seq(TaggedBlock) /\ m.blocks = results \o also
          /\ Elements(m.blocks) = Elements(results) \cup Elements(also)

UserIsNext(h, i) == i = 1 \/ h[i - 1].role = "assistant"
OpenCalls(h, i) == IF i = 1 THEN <<>> ELSE CallsOf(h[i - 1])

TurnOK(h, i) ==
  IF UserIsNext(h, i) THEN UserTurnOK(h[i], i, OpenCalls(h, i)) ELSE AssistantTurnOK(h[i], i)

HistoryOK(h) == h \in Seq(Turn) /\ \A i \in 1..Len(h) : TurnOK(h, i)

HeldBy(m, type) == ElementsOf(Elements(m.blocks), {type})
HeldTo(h, n, type) == UNION {HeldBy(h[i], type) : i \in 1..n}
-----------------------------------------------------------------------------
(* Requests: the conversion round by round, and what goes upstream.         *)

RoundOK(h, A, n, acc, thinking) ==
  /\ \E T : /\ Deferring(acc.pending, T) /\ T \subseteq HeldTo(h, n, "text")
            /\ Conveys(acc.out, HeldTo(h, n, "text") \ T, HeldTo(h, n, "tool_use"),
                       HeldTo(h, n, "tool_result"), thinking)
  /\ IF n = 0 \/ h[n].role = "user" THEN ResultsFollow(acc.out, A)
     ELSE \E base \in Seq(ChatMessage), c \in ChatMessage :
            /\ acc.out = base \o <<c>> /\ ResultsFollow(base, A) /\ c.calls = CallsOf(h[n])
            /\ acc.pending.ids = IF acc.pending.blocks = <<>> THEN {} ELSE Elements(c.calls)

\* A message with the calls of another part of its turn.
Calling(s, thinking, calls) == [AssistantSays(s, thinking) EXCEPT !.calls = calls]

HeldNow(type) == HeldTo(history, Len(history), type)

\* What a body of this provider carries of the conversation.
BodyFits(b, provider, thinking) ==
  /\ b = [format |-> b.format, messages |-> b.messages, budget |-> b.budget,
          template |-> b.template]
  /\ \/ /\ provider = "nvidia_nim" /\ b.format = "openai"
        /\ Conveys(b.messages, HeldNow("text"), HeldNow("tool_use"), HeldNow("tool_result"), thinking)
        /\ ResultsFollow(b.messages, HeldNow("tool_result"))
     \/ /\ provider = "bailian" /\ b.format = "openai"
        /\ b.messages = BailianMessages(history)
     \/ /\ provider \notin {"nvidia_nim", "bailian"} /\ b.format = "anthropic"
        /\ b.messages = Sanitized(history, provider, thinking)

\* A request is of a conversation that ends with the user, and there is a body only
\* while it is upstream.
BodyOK ==
  /\ request.at \in {"sent", "retried", "mocked", "web_tool"} =>
       history # <<>> /\ Last(history).role = "user"
  /\ request.at \in {"sent", "retried"} => BodyFits(body, request.provider, request.thinking)
  /\ request.at \notin {"sent", "retried"} => body.format = "none"

RequestsInv == HistoryOK(history) /\ BodyOK
=============================================================================
