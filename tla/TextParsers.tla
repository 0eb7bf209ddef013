------------------------------ MODULE TextParsers ------------------------------
(***************************************************************************)
(* ThinkTagParser (core/anthropic/thinking.py) and HeuristicToolParser      *)
(* (core/anthropic/tools.py).  Text is a sequence of tokens: "x" stands for  *)
(* plain text, and the pieces of the markup are                              *)
(*   "<" "think>" "/think>"   a think tag, cut where a chunk may end,        *)
(*   "bullet" "function" "parameter"   the parts of a tool call,             *)
(*   "webjson"   the JSON of a WebFetch or WebSearch call,                   *)
(*   "ctl(" "ctl)"   the two ends of a control token <|...|>.                *)
(***************************************************************************)
EXTENDS Collections, FiniteSets, SequencesExt

CONSTANT HoldLimit  \* tokens for the 100 characters a bullet is held back

ASSUME HoldAssumption == HoldLimit \in Nat

Token ==
  {"x", "<", "think>", "/think>", "bullet", "function", "parameter", "webjson", "ctl(", "ctl)"}

Open == <<"<", "think>">>
Close == <<"<", "/think>">>

\* Where `tag` is first found in `text`; 0 if it is not.
Find(text, tag) ==
  LET hits == {i \in 1..(Len(text) - Len(tag) + 1) : SubSeq(text, i, i + Len(tag) - 1) = tag}
  IN IF hits = {} THEN 0 ELSE CHOOSE i \in hits : \A j \in hits : i <= j

Before(text, i) == SubSeq(text, 1, i - 1)
From(text, i) == SubSeq(text, i, Len(text))

-----------------------------------------------------------------------------
(* Think tags.  A parser is [buf, in]; a round yields a part of the text.    *)

Yield(buf, inside, type, text) == [buf |-> buf, in |-> inside, type |-> type, text |-> text]

\* (mutant) a tag that may be cut at the end of the buffer is not held back.
EmitAll(buf, inside, type) == Yield(<<>>, inside, type, buf)

\* All of the buffer, but the start of a tag at its end.
EmitSafe(buf, inside, type) ==
  IF Last(buf) = "<" THEN Yield(<<"<">>, inside, type, Front(buf))
  ELSE Yield(<<>>, inside, type, buf)

\* _parse_outside_think: an orphan closing tag is dropped.
ParseOutside(buf) ==
  LET start == Find(buf, Open)
      orphan == Find(buf, Close)
  IN
  IF orphan # 0 /\ (start = 0 \/ orphan < start)
  THEN Yield(From(buf, orphan + Len(Close)), FALSE, "text", Before(buf, orphan))
  ELSE IF start = 0 THEN EmitSafe(buf, FALSE, "text")
  ELSE Yield(From(buf, start + Len(Open)), TRUE, "text", Before(buf, start))

\* _parse_inside_think.
ParseInside(buf) ==
  LET end == Find(buf, Close) IN
  IF end = 0 THEN EmitSafe(buf, TRUE, "thinking")
  ELSE Yield(From(buf, end + Len(Close)), FALSE, "thinking", Before(buf, end))

\* A round of feed.
ThinkRound(r) ==
  IF r.buf = <<>> THEN r
  ELSE LET y == IF r.in THEN ParseInside(r.buf) ELSE ParseOutside(r.buf) IN
       [buf |-> y.buf, in |-> y.in,
        parts |-> IF y.text = <<>> THEN r.parts
                  ELSE Append(r.parts, [type |-> y.type, text |-> y.text])]

\* feed: rounds until the buffer is empty or a round changes nothing.  A round that
\* changes something takes a token at least, so Len(buf) of them are enough.
ThinkFeed(p, text) ==
  LET buf == p.buf \o text
      round[n \in 0..Len(buf)] ==
        IF n = 0 THEN [buf |-> buf, in |-> p.in, parts |-> <<>>] ELSE ThinkRound(round[n - 1])
  IN round[Len(buf)]

-----------------------------------------------------------------------------
(* Tool calls written as text.  A parser is [state, buf]; a feed yields the  *)
(* text that is not part of a call and the number of calls.                  *)

NewHeuristic == [state |-> "TEXT", buf |-> <<>>]

Has(buf, token) == \E i \in DOMAIN buf : buf[i] = token

\* Control tokens that are complete: "ctl(", some text without "|" or ">" and "ctl)".
\* What is put together when they are gone is not looked at before the next feed.
StripControl(buf) ==
  LET cuts == {c \in (DOMAIN buf) \X (DOMAIN buf) :
                 /\ c[1] + 1 < c[2] /\ buf[c[1]] = "ctl(" /\ buf[c[2]] = "ctl)"
                 /\ \A k \in c[1] + 1 .. c[2] - 1 : buf[k] \in {"x", "<", "bullet", "webjson"}}
  IN Keep(buf, {k \in DOMAIN buf : \A c \in cuts : k \notin c[1]..c[2]})

\* Text with a web tool's JSON in it is dropped whole.
WebCalls(buf) == Cardinality({i \in DOMAIN buf : buf[i] = "webjson"})

\* Where `token` stands last in `buf`; 0 if it does not.
LastAt(buf, token) ==
  IF Has(buf, token) THEN CHOOSE i \in DOMAIN buf :
    buf[i] = token /\ \A j \in i + 1 .. Len(buf) : buf[j] # token
  ELSE 0

\* A round in state TEXT without a bullet: all is put out, but a control token
\* that has begun; that one only stays if there is text before it.
PutOut(h) ==
  LET cut == IF LastAt(h.buf, "ctl(") > LastAt(h.buf, "ctl)") THEN LastAt(h.buf, "ctl(") ELSE 0
  IN IF cut > 1
     THEN [h EXCEPT !.out = @ \o Before(h.buf, cut), !.buf = From(@, cut)]
     ELSE [h EXCEPT !.out = @ \o h.buf, !.buf = <<>>]

\* Complete parameters are taken; the text before them is put out.
TakeParameters(h) ==
  LET last == LastAt(h.buf, "parameter") IN
  [h EXCEPT !.out = @ \o Keep(h.buf, {i \in 1 .. last - 1 : h.buf[i] # "parameter"}),
            !.buf = From(@, last + 1)]

EndCall(h) == [h EXCEPT !.state = "TEXT", !.tools = @ + 1]

\* A state of the loop in feed, but for the end of it in state TEXT (PutOut).
Round(h) ==
  CASE h.state = "TEXT" /\ Has(h.buf, "bullet") ->
         LET i == Find(h.buf, <<"bullet">>) IN
         [h EXCEPT !.state = "MATCHING_FUNCTION",
                   !.out = @ \o Before(h.buf, i), !.buf = From(@, i)]
    [] h.state = "TEXT" /\ ~Has(h.buf, "bullet") -> h
    [] h.state = "MATCHING_FUNCTION" ->
         LET i == Find(h.buf, <<"bullet", "function">>) IN
         IF i # 0
         THEN [h EXCEPT !.state = "PARSING_PARAMETERS", !.buf = From(@, i + 2)]
         ELSE IF Len(h.buf) > HoldLimit
         THEN [h EXCEPT !.state = "TEXT", !.out = Append(@, Head(h.buf)), !.buf = Tail(@)]
         ELSE h
    [] OTHER ->
         LET g == TakeParameters(h) IN
         IF Has(g.buf, "bullet")
         THEN LET i == Find(g.buf, <<"bullet">>) IN
              EndCall([g EXCEPT !.out = @ \o Before(g.buf, i), !.buf = From(@, i)])
         ELSE IF g.buf # <<>> /\ Head(g.buf) \notin {"<", "function", "ctl("}
         THEN EndCall([g EXCEPT !.out = @ \o g.buf, !.buf = <<>>])
         ELSE g

\* The loop: a state that does not change is where feed leaves it, and no more than
\* three states go by for each token of the buffer.
HeuristicFeed(p, text) ==
  LET buf == StripControl(p.buf \o text)
      web == WebCalls(buf)
      start == [state |-> p.state, buf |-> IF web > 0 THEN <<>> ELSE buf,
                out |-> <<>>, tools |-> web]
      round[n \in 0 .. 3 * Len(buf) + 3] == IF n = 0 THEN start ELSE Round(round[n - 1])
      end == round[3 * Len(buf) + 3]
  IN IF end.state = "TEXT" THEN PutOut(end) ELSE end

\* flush: a call that has begun is complete; other text in the buffer is lost.
HeuristicFlush(p) == IF p.state = "PARSING_PARAMETERS" THEN 1 ELSE 0

-----------------------------------------------------------------------------
(* What the think tags of a whole text mean: token by token, `held` is a "<"  *)
(* that may begin a tag.                                                      *)

Reads(mode, t) ==
  LET kind == IF mode.in THEN "thinking" ELSE "text"
      said == IF mode.held = <<>> THEN mode.said ELSE Append(mode.said, <<kind, "<">>)
      tag == mode.held # <<>> /\ (t = "/think>" \/ (t = "think>" /\ ~mode.in))
  IN IF tag THEN [in |-> (t = "think>"), held |-> <<>>, said |-> mode.said]
     ELSE IF t = "<" THEN [in |-> mode.in, held |-> <<"<">>, said |-> said]
     ELSE [in |-> mode.in, held |-> <<>>, said |-> Append(said, <<kind, t>>)]

Meaning(text) ==
  LET read[n \in 0..Len(text)] ==
        IF n = 0 THEN [in |-> FALSE, held |-> <<>>, said |-> <<>>]
        ELSE Reads(read[n - 1], text[n])
  IN read[Len(text)]
=============================================================================
