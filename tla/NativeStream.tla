------------------------------ MODULE NativeStream ------------------------------
(***************************************************************************)
(* AnthropicMessagesTransport.stream_response with the block policy and the  *)
(* tracker of emitted events.  The upstream speaks Anthropic's protocol, but *)
(* may hide thinking, interleave its blocks, send deltas without a start and *)
(* stops twice.  It starts no index twice, stops or thinks only in blocks it *)
(* has opened, and stops all of them before the message.                     *)
(***************************************************************************)
EXTENDS StreamContract, Collections, FiniteSets, SequencesExt

CONSTANTS
  Upstream,    \* block indexes of the upstream
  MaxEvents    \* bound: events of the upstream

VARIABLES
  nphase,      \* "idle", "streaming", "done" or "cut"
  show,        \* thinking_enabled
  up,          \* the upstream's blocks: kind of those it opened, and which it stopped
  events,      \* events so far
  policy,      \* NativeSseBlockPolicyState
  tracker,     \* EmittedNativeSseTracker: the open blocks and the largest index
  sent         \* sent_any_event

nativeVars == <<nphase, show, up, events, policy, tracker, sent>>

Kinds == {"text", "thinking", "tool_use"}
NewPolicy == [next |-> 0, segments |-> <<>>, dropped |-> {}, suppressed |-> {}, stopped |-> FALSE]
-----------------------------------------------------------------------------
(* The block policy.  A transformation yields the policy and the events.     *)

Result(p, out) == [policy |-> p, out |-> out]

\* _allocate_new_segment.
Allocate(p, u, kind) ==
  [p EXCEPT !.next = @ + 1,
            !.segments = Assign(@, u, [index |-> p.next, kind |-> kind, open |-> TRUE])]

OpenBut(p, u) == {v \in DOMAIN p.segments : v # u /\ p.segments[v].open}

\* _synthetic_close_other_open_blocks: their own stops will be swallowed.
CloseOthers(p, u) ==
  Result([p EXCEPT !.segments = [v \in DOMAIN @ |->
                                   IF v \in OpenBut(p, u) THEN [@[v] EXCEPT !.open = FALSE] ELSE @[v]],
                   !.suppressed = @ \cup OpenBut(p, u)],
         LET closed == SetToSeq(OpenBut(p, u))
         IN [i \in DOMAIN closed |-> BlockStop(p.segments[closed[i]].index)])

Hidden(kind) == ~show /\ kind = "thinking"

StartBlock(p, u, kind) ==
  IF Hidden(kind) THEN Result([p EXCEPT !.dropped = @ \cup {u}], <<>>)
  ELSE LET c == CloseOthers(p, u) IN
       Result(Allocate(c.policy, u, kind), Append(c.out, BlockStart(p.next, kind)))

\* (mutant) the stop of a block that was reopened is still swallowed.
DeltaKeepsSuppressed(p, u, kind) ==
  IF u \in p.dropped \/ Hidden(kind) THEN Result(p, <<>>)
  ELSE IF u \in DOMAIN p.segments /\ p.segments[u].open
  THEN Result(p, <<BlockDelta(p.segments[u].index, kind)>>)
  ELSE Result(Allocate(p, u, kind), <<BlockStart(p.next, kind), BlockDelta(p.next, kind)>>)

\* A delta for a block that is closed, or never began, opens a new one for it.
Delta(p, u, kind) ==
  IF u \in p.dropped \/ Hidden(kind) THEN Result(p, <<>>)
  ELSE IF u \in DOMAIN p.segments /\ p.segments[u].open
  THEN Result(p, <<BlockDelta(p.segments[u].index, kind)>>)
  ELSE Result(Allocate([p EXCEPT !.suppressed = @ \ {u}], u, kind),
              <<BlockStart(p.next, kind), BlockDelta(p.next, kind)>>)

StopBlock(p, u) ==
  IF u \in p.dropped THEN Result(p, <<>>)
  ELSE IF u \in p.suppressed THEN Result([p EXCEPT !.suppressed = @ \ {u}], <<>>)
  ELSE IF p.segments[u].open
  THEN Result([p EXCEPT !.segments[u].open = FALSE], <<BlockStop(p.segments[u].index)>>)
  ELSE Result(p, <<>>)
-----------------------------------------------------------------------------
(* The tracker.                                                             *)

Track(t, e) ==
  CASE e.name = "content_block_start" ->
         [open |-> Append(t.open, e.index), max |-> IF e.index > t.max THEN e.index ELSE t.max]
    [] e.name = "content_block_stop" ->
         [t EXCEPT !.open = Keep(@, {i \in DOMAIN @ : @[i] # e.index})]
    [] OTHER -> t

TrackAll(t, out) ==
  LET track[n \in 0..Len(out)] == IF n = 0 THEN t ELSE Track(track[n - 1], out[n])
  IN track[Len(out)]

\* iter_close_unclosed_blocks and iter_midstream_error_tail.
MidstreamTail ==
  [i \in 1..Len(tracker.open) |-> BlockStop(tracker.open[Len(tracker.open) + 1 - i])]
    \o ErrorBlock(tracker.max + 1) \o Ending
-----------------------------------------------------------------------------
(* The stream.                                                              *)

\* The upstream sends one event; the client gets what the policy makes of it.
Pass(result) ==
  /\ nphase = "streaming" /\ events < MaxEvents /\ events' = events + 1
  /\ policy' = result.policy
  /\ client' = Read(client, result.out)
  /\ tracker' = TrackAll(tracker, result.out)
  /\ sent' = (sent \/ result.out # <<>>)
  /\ UNCHANGED <<nphase, show>>

\* message_start is the first event; the others pass as they are.
NStart ==
  /\ nphase = "idle" /\ nphase' = "streaming"
  /\ UNCHANGED <<client, show, up, events, policy, tracker, sent>>

MessageStart ==
  /\ nphase = "streaming" /\ ~client.begun
  /\ client' = Read(client, <<Event("message_start")>>)
  /\ sent' = TRUE
  /\ UNCHANGED <<nphase, show, up, events, policy, tracker>>

BlockStarts(u, kind) ==
  /\ client.begun /\ ~policy.stopped /\ u \notin DOMAIN up
  /\ up' = Assign(up, u, [kind |-> kind, stopped |-> FALSE])
  /\ Pass(StartBlock(policy, u, kind))

BlockDeltas(u, kind) ==
  /\ client.begun /\ ~policy.stopped
  /\ IF u \in DOMAIN up THEN up[u].kind = kind /\ ~up[u].stopped
     ELSE kind # "thinking"
  /\ up' = IF u \in DOMAIN up THEN up ELSE Assign(up, u, [kind |-> kind, stopped |-> FALSE])
  /\ Pass(Delta(policy, u, kind))

BlockStops(u) ==
  /\ ~policy.stopped /\ u \in DOMAIN up
  /\ up' = [up EXCEPT ![u].stopped = TRUE]
  /\ Pass(StopBlock(policy, u))

\* message_delta and message_stop.
MessageStop ==
  /\ nphase = "streaming" /\ client.begun /\ ~policy.stopped
  /\ up # <<>> /\ \A u \in DOMAIN up : up[u].stopped
  /\ policy' = [policy EXCEPT !.stopped = TRUE]
  /\ client' = Read(client, Ending)
  /\ nphase' = "done"
  /\ UNCHANGED <<show, up, events, tracker, sent>>

\* The request is refused, or the connection breaks.
NFail ==
  /\ nphase = "streaming" /\ nphase' = "done"
  /\ client' = Read(client, IF sent THEN MidstreamTail
                            ELSE <<Event("message_start")>> \o ErrorBlock(0) \o Ending)
  /\ UNCHANGED <<show, up, events, policy, tracker, sent>>

\* The client goes away.
NCut ==
  /\ nphase = "streaming" /\ nphase' = "cut"
  /\ UNCHANGED <<client, show, up, events, policy, tracker, sent>>

NativeInit ==
  /\ client = NewClient /\ nphase = "idle" /\ show \in BOOLEAN
  /\ up = <<>> /\ events = 0 /\ policy = NewPolicy
  /\ tracker = [open |-> <<>>, max |-> -1] /\ sent = FALSE

NativeNext ==
  \/ NStart \/ MessageStart \/ MessageStop \/ NFail \/ NCut
  \/ \E u \in Upstream :
       \/ \E kind \in Kinds : BlockStarts(u, kind) \/ BlockDeltas(u, kind)
       \/ BlockStops(u)
=============================================================================
