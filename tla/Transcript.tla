------------------------------- MODULE Transcript -------------------------------
(***************************************************************************)
(* What a reader of the chat sees of one reply: the events of the CLI are     *)
(* parsed (event_parser), put in order into segments (TranscriptBuffer) and   *)
(* shown by edits of one message, at most one a second                        *)
(* (ThrottledTranscriptEditor).  Of a text only its length matters.           *)
(***************************************************************************)
EXTENDS Integers, Sequences, SequencesExt

CONSTANTS
  Index,        \* indices of content blocks
  Word,         \* what ids consist of
  TaskId,       \* ids of Task calls; <<>> where the provider omits the id
  ToolId,       \* ids of the other calls
  Piece,        \* lengths of pieces of text
  Overhead,     \* length of a segment's heading, of the status and of the marker
  Limit, ThinkingTailMax, TextTailMax,   \* limit_chars and the tail limits
  MaxEvents     \* bound: events of the CLI, not counting answers to Tasks

\* An id that no call had: it answers a Task without one.
TaskLike == <<"task", "real">>

\* No id of a Task begins with another's, and none like the names the transcript
\* makes up for Tasks without an id; no other call has the Task-like id.
ASSUME TaskIdAssumption ==
  /\ {"task", "real", "result"} \subseteq Word /\ "__task_" \notin Word
  /\ TaskId \cup ToolId \subseteq Seq(Word)
  /\ \A a, b \in TaskId : a # b /\ a # <<>> => ~IsPrefix(a, b)
  /\ TaskLike \notin ToolId

\* There is room for more than 20 characters beside marker and status.
ASSUME LimitAssumption ==
  /\ Piece \subseteq Nat \ {0}
  /\ Overhead \in Nat \ {0} /\ Limit \in Nat /\ Limit > 22 + 2 * Overhead
  /\ ThinkingTailMax \in Nat /\ TextTailMax \in Nat \ {0}

VARIABLES
  t,         \* the transcript: segs, open, names, stack
  queue,     \* parsed events of the last CLI event, not yet processed
  phase,     \* the reply: "running", "exited" or "over"
  had,       \* had_transcript_events
  status,    \* last_status
  elapsed,   \* a second has passed since the last update
  shown,     \* the last edit of the message
  waiting,  \* history: Task calls not answered yet
  talk, calls   \* events of the CLI so far: talk, and calls of Task

vars == <<t, queue, phase, had, status, elapsed, shown, waiting, talk, calls>>

\* The sum of a sequence of numbers.
Sums(seq) ==
  LET sum[n \in 0..Len(seq)] == IF n = 0 THEN 0 ELSE sum[n - 1] + seq[n] IN sum
Total(seq) == Sums(seq)[Len(seq)]
-----------------------------------------------------------------------------
(* The transcript.  A segment has a kind and a body: pieces of text, or the   *)
(* calls that a subagent has made.  An id is a sequence of words, so that one *)
(* id can begin with another.                                               *)

Seg(kind, body) == [kind |-> kind, body |-> body]
Synthetic(n) == <<"__task_", n>>
IsSynthetic(id) == id # <<>> /\ Head(id) = "__task_"
LooksLikeTask(id) == id # <<>> /\ Head(id) = "task"

RoughlyMatch(a, b) == a # <<>> /\ b # <<>> /\ (IsPrefix(a, b) \/ IsPrefix(b, a))

\* block_stop: one open block of this index, a tool before thinking before text.
CloseAt(open, i) ==
  LET found == {k \in {"tool", "thinking", "text"} : open[k][i] # 0}
      first == IF "tool" \in found THEN "tool"
               ELSE IF "thinking" \in found THEN "thinking" ELSE "text"
  IN  IF found = {} THEN open ELSE [open EXCEPT ![first][i] = 0]

\* thinking_start and text_start.
StartText(tr, e) ==
  [tr EXCEPT !.open = [CloseAt(@, e.index) EXCEPT ![e.kind][e.index] = Len(tr.segs) + 1],
             !.segs = Append(@, Seg(e.kind, <<>>))]

\* A delta of a block that is not open opens it; a chunk stands alone.
AddText(tr, e) ==
  LET at == IF e.index \in Index THEN tr.open[e.kind][e.index] ELSE 0 IN
  IF at # 0 THEN [tr EXCEPT !.segs[at].body = Append(@, e.size)]
  ELSE [tr EXCEPT !.segs = Append(@, Seg(e.kind, <<e.size>>)),
                  !.open = IF e.index \in Index
                           THEN [@ EXCEPT ![e.kind][e.index] = Len(tr.segs) + 1] ELSE @]

\* _subagent_push.
Push(tr, id) ==
  [tr EXCEPT !.segs = Append(@, Seg("subagent", <<>>)),
             !.stack = Append(@, [id |-> IF id = <<>> THEN Synthetic(Len(@) + 1) ELSE id,
                                  seg |-> Len(tr.segs) + 1])]

\* tool_use_start and tool_use: a Task opens a subagent; inside one, a call is
\* only its current tool.
UseTool(tr, e) ==
  LET named == [tr EXCEPT !.names = IF e.id = <<>> THEN @ ELSE [@ EXCEPT ![e.id] = e.name],
                          !.open = IF e.index \in Index THEN CloseAt(@, e.index) ELSE @]
      put == IF tr.stack # <<>>
             THEN [named EXCEPT !.segs[Last(tr.stack).seg].body = Append(@, 0)]
             ELSE [named EXCEPT !.segs = Append(@, Seg("tool_call", <<>>))]
  IN  IF e.name = "Task" THEN Push(named, e.id)
      ELSE IF e.index \in Index
           THEN [put EXCEPT !.open["tool"][e.index] = Len(put.segs)] ELSE put

\* (mutant) Only the innermost subagent is compared with the result's id.
PopTopOnly(stack, id) ==
  IF stack # <<>> /\ id # <<>> /\ RoughlyMatch(Last(stack).id, id) THEN Front(stack)
  ELSE stack

\* _subagent_pop: everything from the innermost subagent with this id upwards;
\* without an id, a synthetic one on top.
Pop(stack, id) ==
  LET at == {i \in DOMAIN stack : RoughlyMatch(stack[i].id, id)} IN
  IF stack = <<>> THEN stack
  ELSE IF id = <<>> THEN IF IsSynthetic(Last(stack).id) THEN Front(stack) ELSE stack
  ELSE IF at = {} THEN stack
  ELSE SubSeq(stack, 1, (CHOOSE i \in at : \A j \in at : j <= i) - 1)

\* tool_result; a real Task id also closes a synthetic entry on top.  Results
\* themselves are not shown (show_tool_results is off).
Result(tr, e) ==
  LET popped == Pop(tr.stack, e.id)
      name == IF e.id \in DOMAIN tr.names THEN tr.names[e.id] ELSE "none"
  IN  IF popped = tr.stack /\ popped # <<>> /\ IsSynthetic(Last(popped).id)
         /\ name \in {"none", "Task"} /\ LooksLikeTask(e.id)
      THEN [tr EXCEPT !.stack = Pop(popped, <<>>)]
      ELSE [tr EXCEPT !.stack = popped]

Hidden(tr, e) == tr.stack # <<>> /\ e.type \in {"start", "text"}

Apply(tr, e) ==
  IF Hidden(tr, e) THEN tr
  ELSE CASE e.type = "start"    -> StartText(tr, e)
         [] e.type = "text"     -> AddText(tr, e)
         [] e.type = "stop"     -> [tr EXCEPT !.open = CloseAt(@, e.index)]
         [] e.type = "tool_use" -> UseTool(tr, e)
         [] e.type = "tool_result" -> Result(tr, e)
         [] e.type = "error"    -> [tr EXCEPT !.segs = Append(@, Seg("error", <<>>))]
         [] OTHER               -> tr
-----------------------------------------------------------------------------
(* Rendering: [parts, marker, tail, status], where tail > 0 is what is kept   *)
(* of a part that is too long alone.                                        *)

TailMax(kind) == IF kind = "thinking" THEN ThinkingTailMax ELSE TextTailMax

PartLen(s) ==
  LET text == IF s.kind = "subagent" THEN Overhead ELSE Total(s.body)
      kept == IF text > TailMax(s.kind) THEN TailMax(s.kind) ELSE text
  IN  kept + (IF s.kind = "text" THEN 0 ELSE Overhead)

Shown(parts, marker, tail, st) ==
  [parts |-> parts, marker |-> marker, tail |-> tail, status |-> st]

StatusLen(st) == IF st = "none" THEN 0 ELSE 2 + Overhead

Length(d) ==
  (IF d.tail > 0 THEN d.tail
   ELSE Total([i \in DOMAIN d.parts |-> PartLen(d.parts[i])])
        + (IF d.parts = <<>> THEN 0 ELSE Len(d.parts) - 1))
  + (IF d.marker THEN Overhead ELSE 0) + StatusLen(d.status)

Budget(st) == Limit - Overhead - StatusLen(st)

\* Segments that are not empty.
Rendered(s) == s.kind # "text" \/ s.body # <<>>

VisibleUpTo(segs) ==
  LET some[n \in 0..Len(segs)] ==
        IF n = 0 THEN <<>>
        ELSE IF Rendered(segs[n]) THEN Append(some[n - 1], segs[n]) ELSE some[n - 1]
  IN  some
Visible(tr) == VisibleUpTo(tr.segs)[Len(tr.segs)]

\* The oldest segments go until the rest fits; if not even the newest does, its
\* tail stays, and at last only marker and status.
Render(tr, st) ==
  LET all == Visible(tr)
      whole == Shown(all, FALSE, 0, st)
      From(i) == Shown(SubSeq(all, i, Len(all)), TRUE, 0, st)
      fit == {i \in DOMAIN all : Length(From(i)) <= Limit}
      last == IF PartLen(Last(all)) > Budget(st) THEN Budget(st) ELSE PartLen(Last(all))
      tail == Shown(<<Last(all)>>, TRUE, last, st)
  IN  IF Length(whole) <= Limit THEN whole
      ELSE IF fit # {} THEN From(CHOOSE i \in fit : \A j \in fit : i <= j)
      ELSE IF all # <<>> /\ Budget(st) > 20 /\ Length(tail) <= Limit THEN tail
      ELSE Shown(<<>>, all # <<>>, 0, st)

\* ThrottledTranscriptEditor.update: an edit a second, forced ones at once, and
\* none that would change nothing.
Update(tr, st, force) ==
  IF ~force /\ ~elapsed THEN UNCHANGED <<elapsed, shown>>
  ELSE LET display == Render(tr, st) IN
       /\ elapsed' = FALSE
       /\ shown' = IF Length(display) = 0 THEN shown ELSE display
-----------------------------------------------------------------------------
(* parse_cli_event and process_parsed_cli_event.                            *)

Parsed(type, kind, index, size, id, name) ==
  [type |-> type, kind |-> kind, index |-> index, size |-> size, id |-> id, name |-> name]

Text(type, kind, index, size) == Parsed(type, kind, index, size, <<>>, "none")
Tool(index, id, name) == Parsed("tool_use", "tool", index, 0, id, name)
Answer(id) == Parsed("tool_result", "none", -1, 0, id, "none")
Plain(type) == Text(type, "none", -1, 0)

\* A CLI event becomes a list: the blocks of a message in their order, one event
\* for a streamed one, an error and the end for an exit with an error.
Parse(e) ==
  CASE e.type = "message" -> e.content
    [] e.type = "stream" -> e.content
    [] e.type = "exit" -> IF e.code = 0 THEN <<Plain("complete")>>
                          ELSE <<Plain("error"), Plain("complete")>>
    [] OTHER -> <<>>

\* get_status_for_event.
StatusFor(e) ==
  CASE e.type \in {"start", "text"} -> IF e.kind = "thinking" THEN "thinking" ELSE "working"
    [] e.type = "tool_result" -> "tools"
    [] e.type \in {"tool_use", "tool_delta"} -> IF e.name = "Task" THEN "subagent" ELSE "tools"
    [] OTHER -> "none"

\* (mutant) The last update is throttled like all others.
EndingThrottled(tr, st) == Update(tr, st, FALSE)

Ending(tr, st) == Update(tr, st, TRUE)

Process ==
  /\ phase # "over" /\ queue # <<>>
  /\ queue' = Tail(queue)
  /\ LET e == Head(queue)
         tr == IF e.type # "complete" THEN Apply(t, e)
               ELSE IF had THEN t ELSE Apply(t, Text("text", "text", -1, 5))
     IN
     /\ t' = tr
     /\ had' = (had \/ e.type # "complete")
     /\ CASE StatusFor(e) # "none" -> Update(tr, StatusFor(e), FALSE) /\ status' = StatusFor(e)
          [] e.type = "stop"     -> Update(tr, status, TRUE) /\ UNCHANGED status
          [] e.type = "complete" -> Ending(tr, "complete") /\ UNCHANGED status
          [] e.type = "error"    -> Ending(tr, "error") /\ UNCHANGED status
     /\ phase' = IF e.type = "complete" THEN "over" ELSE phase
  /\ UNCHANGED <<waiting, talk, calls>>
-----------------------------------------------------------------------------
(* The handler's other endings.                                             *)

\* Cancelled between two events; a /stop on the node gives the reason.
Cancel ==
  /\ phase # "over" /\ phase' = "over"
  /\ \/ t' = t /\ Ending(t, "stopped")
     \/ t' = Apply(t, Plain("error")) /\ Ending(t', "cancelled")
  /\ UNCHANGED <<queue, had, status, waiting, talk, calls>>

\* The stream raises, or no session is free before it has begun.
Raise ==
  /\ phase # "over" /\ phase' = "over"
  /\ t' = Apply(t, Plain("error"))
  /\ Ending(t', IF talk + calls = 0 THEN "limit" ELSE "failed")
  /\ UNCHANGED <<queue, had, status, waiting, talk, calls>>
-----------------------------------------------------------------------------
(* The CLI.                                                                 *)

Emit(e) ==
  /\ phase = "running" /\ queue = <<>>
  /\ queue' = Parse(e)
  /\ UNCHANGED <<t, phase, had, status, elapsed, shown>>

Ev(type, content) == [type |-> type, content |-> content, code |-> 0]

\* Streamed blocks, messages that hold their blocks whole, errors (also what is
\* found on stderr before the exit) and what is not for the reader.
Speak ==
  \E kind \in {"thinking", "text"}, size \in Piece :
    /\ \/ \E i \in Index :
            \/ Emit(Ev("stream", <<Text("start", kind, i, 0)>>))
            \/ Emit(Ev("stream", <<Text("text", kind, i, size)>>))
            \/ Emit(Ev("stream", <<Text("stop", "none", i, 0)>>))
       \/ Emit(Ev("message", <<Text("text", kind, -1, size)>>))
       \/ Emit(Ev("stream", <<Plain("error")>>))
       \/ Emit(Ev("system", <<>>))
    /\ talk + calls < MaxEvents /\ talk' = talk + 1
    /\ UNCHANGED <<waiting, calls>>

UseOther ==
  \E id \in ToolId, i \in Index \cup {-1} :
    /\ \/ Emit(Ev("stream", <<Tool(i, id, "tool")>>))
       \/ Emit(Ev("message", <<Answer(id), Tool(-1, id, "tool")>>))
       \/ Emit(Ev("stream", <<Plain("tool_delta")>>))
    /\ talk + calls < MaxEvents /\ talk' = talk + 1
    /\ UNCHANGED <<waiting, calls>>

\* A Task, whole or streamed, with an id that no waiting one has.
CallTask ==
  \E id \in TaskId, i \in Index \cup {-1} :
    /\ ~\E c \in waiting : c.id = id /\ id # <<>>
    /\ Emit(Ev("message", <<Tool(i, id, "Task")>>))
    /\ talk + calls < MaxEvents /\ calls' = calls + 1
    /\ waiting' = waiting \cup {[id |-> id, n |-> calls]}
    /\ UNCHANGED talk

\* The result of a Task has its id, perhaps with a suffix; that of a Task without
\* an id has none either or a Task-like one, and comes while it is the innermost.
AnswerTask ==
  \E c \in waiting :
    /\ c.id = <<>> => \A d \in waiting : d.n <= c.n
    /\ \E id \in IF c.id = <<>> THEN {<<>>, TaskLike} ELSE {c.id, Append(c.id, "result")} :
         Emit(Ev("message", <<Answer(id)>>))
    /\ waiting' = waiting \ {c}
    /\ UNCHANGED <<talk, calls>>

\* The process ends; the exit event is its last.
Exit ==
  /\ phase = "running" /\ queue = <<>>
  /\ \E code \in {0, 1} : queue' = Parse([Ev("exit", <<>>) EXCEPT !.code = code])
  /\ phase' = "exited"
  /\ UNCHANGED <<t, had, status, elapsed, shown, waiting, talk, calls>>

Tick ==
  /\ ~elapsed /\ elapsed' = TRUE
  /\ UNCHANGED <<t, queue, phase, had, status, shown, waiting, talk, calls>>

\* The "Stopped." of stop_task and stop_all_tasks overtakes the reply's own.
StoppedByCommand ==
  /\ phase = "over" /\ shown.status \in {"stopped", "cancelled"}
  /\ shown' = Shown(<<>>, FALSE, 0, "stopped")
  /\ UNCHANGED <<t, queue, phase, had, status, elapsed, waiting, talk, calls>>

Init ==
  /\ t = [segs |-> <<>>, stack |-> <<>>,
          open |-> [k \in {"tool", "thinking", "text"} |-> [i \in Index |-> 0]],
          names |-> [id \in (TaskId \cup ToolId) \ {<<>>} |-> "none"]]
  /\ queue = <<>> /\ phase = "running" /\ had = FALSE /\ status = "none"
  /\ elapsed = TRUE
  /\ shown = Shown(<<>>, FALSE, 0, "launching")
  /\ waiting = {} /\ talk = 0 /\ calls = 0

Next ==
  \/ Process \/ Cancel \/ Raise
  \/ Speak \/ UseOther \/ CallTask \/ AnswerTask \/ Exit
  \/ Tick \/ StoppedByCommand

Spec == Init /\ [][Next]_vars
-----------------------------------------------------------------------------
\* However Tasks nest, overlap and are answered out of order, with ids that are
\* missing or that the result repeats with a suffix: once all are answered, the
\* reply's own text is shown again.
NothingStaysHidden == waiting = {} /\ queue = <<>> /\ phase # "over" => t.stack = <<>>

\* When a reply is over, however it ended, the message shows its transcript to the
\* newest segment and within the platform's limit, whatever the throttle has
\* swallowed before.
EndIsShown ==
  phase = "over" =>
    \/ shown = Shown(<<>>, FALSE, 0, "stopped")
    \/ /\ shown = Render(t, shown.status)
       /\ shown.status \in {"complete", "stopped", "cancelled", "failed", "limit"}
       /\ Visible(t) # <<>> => shown.parts # <<>> /\ Last(shown.parts) = Last(Visible(t))
       /\ Length(shown) <= Limit
=============================================================================
