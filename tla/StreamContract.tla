---------------------------- MODULE StreamContract ----------------------------
(***************************************************************************)
(* What a client requires of an Anthropic event stream: the assertion       *)
(* assert_anthropic_stream_contract, read event by event.                    *)
(***************************************************************************)
EXTENDS Integers, Sequences

VARIABLE client  \* what the client has read

\* Events.  Only those of content blocks carry an index and a kind.
Event(name) == [name |-> name]
BlockStart(i, kind) == [name |-> "content_block_start", index |-> i, kind |-> kind]
BlockDelta(i, kind) == [name |-> "content_block_delta", index |-> i, kind |-> kind]
BlockStop(i) == [name |-> "content_block_stop", index |-> i]

\* emit_error: a text block of its own.
ErrorBlock(i) == <<BlockStart(i, "text"), BlockDelta(i, "text"), BlockStop(i)>>
Ending == <<Event("message_delta"), Event("message_stop")>>

\* A client that has read nothing: its open blocks with their kinds, the indexes
\* it has seen, whether an assertion has failed, and the last event.
NewClient == [open |-> {}, seen |-> {}, begun |-> FALSE, broken |-> FALSE, last |-> ""]

Observe(c, e) ==
  LET now == [c EXCEPT !.last = e.name] IN
  CASE e.name = "message_start" -> [now EXCEPT !.begun = TRUE]
    [] e.name = "content_block_start" ->
         [now EXCEPT !.open = @ \cup {<<e.index, e.kind>>}, !.seen = @ \cup {e.index},
                     !.broken = @ \/ e.index \in c.seen]
    [] e.name = "content_block_delta" ->
         [now EXCEPT !.broken = @ \/ <<e.index, e.kind>> \notin c.open]
    [] e.name = "content_block_stop" ->
         [now EXCEPT !.open = {b \in @ : b[1] # e.index},
                     !.broken = @ \/ \A b \in c.open : b[1] # e.index]
    [] OTHER -> now

Read(c, events) ==
  LET read[n \in 0..Len(events)] == IF n = 0 THEN c ELSE Observe(read[n - 1], events[n])
  IN read[Len(events)]

\* The stream is over, and the client is content with it.
Accepts(c) ==
  c.begun /\ ~c.broken /\ c.last = "message_stop" /\ c.open = {} /\ c.seen # {}
=============================================================================
