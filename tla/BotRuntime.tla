------------------------------ MODULE BotRuntime ------------------------------
(***************************************************************************)
(* The life of the bot's process (AppRuntime) around its chat platform: it     *)
(* restores the conversations, takes messages and voice notes, obeys /clear    *)
(* and is shut down, or dies.  A voice note waits in PendingVoiceRegistry      *)
(* while it is transcribed.  Every message is here a conversation of its own;  *)
(* what happens inside one is TreeQueue, how the file is written SessionStore. *)
(***************************************************************************)
EXTENDS Naturals, Sequences, FiniteSets, Functions, TLC

CONSTANTS
  Notes, Texts,   \* ids of voice notes and of text messages
  MaxRuns         \* bound: times the process is started

Messages == Notes \cup Texts
\* A note is known by its own message and by the bot's "Transcribing..." message.
Keys(v) == {<<v, "voice">>, <<v, "status">>}

VARIABLES
  platform,   \* "telegram" handles one update after the other, "discord" all at once
  mode, at,   \* the process: off, starting, running or stopping; the next step of it
  runs,       \* how often it was started
  connected, handler,   \* the platform receives; on_message was called
  step,       \* where the handling of a message is
  pending,    \* PendingVoiceRegistry._pending, as the set of its keys
  queue,      \* tree_queue: messages known, "open" while waiting or in progress
  tasks,      \* messages with a task in this process
  saved, dirty, file,   \* the store's trees, whether its timer runs, what is on disk
  clearing,   \* /clear commands that await the deletion of chat messages
  owed,       \* history: conversations that must be there while the bot receives
  cleared     \* history: messages that /clear has disposed of

store == <<saved, dirty, file>>
process == <<platform, mode, at, runs, connected, handler>>
vars == <<process, step, pending, queue, tasks, store, clearing, owed, cleared>>

None == [x \in {} |-> "closed"]
Without(f, S) == Restrict(f, DOMAIN f \ S)
With(f, x, state) == [y \in DOMAIN f \cup {x} |-> IF y = x THEN state ELSE f[y]]
Closed(f, S) == [x \in DOMAIN f |-> IF x \in S THEN "closed" ELSE f[x]]

Save(trees) == saved' = trees /\ dirty' = TRUE /\ UNCHANGED file
-----------------------------------------------------------------------------
(* Starting and stopping.  No step but the platform's own gives way to others.  *)

Startup == <<"store", "restore", "listen", "platform">>

\* (mutant) the store is left to its timer.
ShutdownNoFlush == <<"platform">>

\* Sessions, providers and limiters, stopped last, hold nothing of this module.
Shutdown == <<"flush", "platform">>

Starting(what) == mode = "starting" /\ Startup[at] = what
Stopping(what) == mode = "stopping" /\ at <= Len(Shutdown) /\ Shutdown[at] = what

\* The next step; with the last one of the startup the bot runs.
Advance ==
  /\ at' = IF mode = "starting" /\ at = Len(Startup) THEN 1 ELSE at + 1
  /\ mode' = IF mode = "starting" /\ at = Len(Startup) THEN "running" ELSE mode
  /\ UNCHANGED <<platform, runs>>

Boot ==
  /\ mode = "off" /\ runs < MaxRuns
  /\ mode' = "starting" /\ at' = 1 /\ runs' = runs + 1
  /\ UNCHANGED <<platform, connected, handler, step, pending, queue, tasks, store, clearing, owed, cleared>>

LoadStore ==
  /\ Starting("store") /\ Advance
  /\ saved' = file
  /\ UNCHANGED <<connected, handler, step, pending, queue, tasks, dirty, file, clearing, owed, cleared>>

\* _restore_tree_state: what no task serves any more is marked as lost, and saved.
RestoreTrees ==
  /\ Starting("restore") /\ Advance
  /\ queue' = Closed(saved, DOMAIN saved)
  /\ IF queue' = saved THEN UNCHANGED store ELSE Save(queue')
  /\ UNCHANGED <<connected, handler, step, pending, tasks, clearing, owed, cleared>>

Listen ==
  /\ Starting("listen") /\ Advance
  /\ handler' = TRUE
  /\ UNCHANGED <<connected, step, pending, queue, tasks, store, clearing, owed, cleared>>

Connect ==
  /\ Starting("platform") /\ Advance
  /\ connected' = TRUE
  /\ UNCHANGED <<handler, step, pending, queue, tasks, store, clearing, owed, cleared>>

\* Three attempts, or 30 seconds, were not enough: the server runs without it.
GiveUp ==
  /\ Starting("platform") /\ Advance
  /\ UNCHANGED <<connected, handler, step, pending, queue, tasks, store, clearing, owed, cleared>>

\* Nobody stops the client that start() gave up waiting for.
ConnectLate ==
  /\ platform = "discord" /\ mode = "running" /\ ~connected
  /\ connected' = TRUE
  /\ UNCHANGED <<platform, mode, at, runs, handler, step, pending, queue, tasks, store, clearing, owed, cleared>>

BeginShutdown ==
  /\ mode = "running"
  /\ mode' = "stopping" /\ at' = 1
  /\ UNCHANGED <<platform, runs, connected, handler, step, pending, queue, tasks, store, clearing, owed, cleared>>

FlushPendingSave ==
  /\ Stopping("flush") /\ Advance
  /\ file' = saved /\ dirty' = FALSE
  /\ UNCHANGED <<connected, handler, step, pending, queue, tasks, saved, clearing, owed, cleared>>

\* platform.stop() under best_effort: it may fail or take too long.
StopPlatform ==
  /\ Stopping("platform") /\ Advance
  /\ connected' \in {FALSE, connected}
  /\ UNCHANGED <<handler, step, pending, queue, tasks, store, clearing, owed, cleared>>

\* All that is only in memory is lost, the timer of the store included.
LoseMemory ==
  /\ mode' = "off" /\ at' = 1 /\ connected' = FALSE /\ handler' = FALSE
  /\ step' = [x \in Messages |-> IF step[x] \in {"announcing", "transcribing", "handing"}
                                 THEN "lost" ELSE step[x]]
  /\ pending' = {} /\ queue' = None /\ tasks' = {} /\ clearing' = {}
  /\ saved' = None /\ dirty' = FALSE
  /\ UNCHANGED <<platform, runs, file>>

Exit ==
  /\ mode = "stopping" /\ at > Len(Shutdown)
  /\ LoseMemory
  /\ UNCHANGED <<owed, cleared>>

\* What a process that dies has not written is owed to nobody.
Crash ==
  /\ mode # "off"
  /\ LoseMemory
  /\ owed' = owed \cap DOMAIN file
  /\ cleared' = cleared \ DOMAIN file
-----------------------------------------------------------------------------
(* Messages.                                                                *)

InHand == {x \in Messages : step[x] \in {"announcing", "transcribing", "handing"}}

\* An update is delivered; python-telegram-bot waits for the one before it.
MayHandle ==
  /\ connected /\ handler
  /\ platform = "telegram" => InHand = {} /\ clearing = {}

Moves(x, next) ==
  /\ step' = [step EXCEPT ![x] = next]
  /\ UNCHANGED process

\* A text message: its status message is being sent.
ReceiveText(x) ==
  /\ MayHandle /\ x \in Texts /\ step[x] = "new"
  /\ Moves(x, "handing")
  /\ UNCHANGED <<pending, queue, tasks, store, clearing, owed, cleared>>

\* A voice note: "Transcribing voice note..." is being sent.
ReceiveVoice(v) ==
  /\ MayHandle /\ v \in Notes /\ step[v] = "new"
  /\ Moves(v, "announcing")
  /\ UNCHANGED <<pending, queue, tasks, store, clearing, owed, cleared>>

\* Only now that the status has an id is the note registered.
Register(v) ==
  /\ step[v] = "announcing"
  /\ Moves(v, "transcribing")
  /\ pending' = pending \cup Keys(v)
  /\ UNCHANGED <<queue, tasks, store, clearing, owed, cleared>>

\* is_pending: a note that is gone from the registry is dropped, its status deleted.
Withdraw(v) ==
  /\ step[v] = "transcribing" /\ <<v, "voice">> \notin pending
  /\ Moves(v, "withdrawn")
  /\ UNCHANGED <<pending, queue, tasks, store, clearing, owed, cleared>>

\* The registry's lock is never contended: check and complete() are one turn.
Transcribed(v) ==
  /\ step[v] = "transcribing" /\ <<v, "voice">> \in pending
  /\ Moves(v, "handing")
  /\ pending' = pending \ Keys(v)
  /\ UNCHANGED <<queue, tasks, store, clearing, owed, cleared>>

\* Any exception on the way is answered in the chat; the registry keeps the note.
Fails(x) ==
  /\ x \in InHand
  /\ Moves(x, "failed")
  /\ UNCHANGED <<pending, queue, tasks, store, clearing, owed, cleared>>

\* The status is in place: the message joins the conversations and gets its task.
HandOver(x) ==
  /\ step[x] = "handing"
  /\ Moves(x, "done")
  /\ queue' = With(queue, x, "open") /\ tasks' = tasks \cup {x}
  /\ Save(With(saved, x, "open"))
  /\ owed' = IF mode = "running" THEN owed \cup {x} ELSE owed
  /\ UNCHANGED <<pending, clearing, cleared>>

\* A task saves the tree it began with when it completes, and not when it fails.
Finish(x, completes) ==
  /\ x \in tasks
  /\ tasks' = tasks \ {x}
  /\ queue' = Closed(queue, {x})
  /\ IF completes THEN Save(With(saved, x, "closed")) ELSE UNCHANGED store
  /\ UNCHANGED <<process, step, pending, clearing, owed, cleared>>

TimerFires ==
  /\ mode # "off" /\ dirty
  /\ file' = saved /\ dirty' = FALSE
  /\ UNCHANGED <<process, step, pending, queue, tasks, saved, clearing, owed, cleared>>
-----------------------------------------------------------------------------
(* /clear.                                                                  *)

\* (mutant) the other key of the note is forgotten.
KeyOnly(v, key) == pending \ {<<v, key>>}

\* cancel(): both keys of the note go, whichever message was replied to.
Cancelled(v, key) == pending \ Keys(v)

\* In reply to a note that is being transcribed.
CancelVoice(v, key) ==
  /\ MayHandle /\ v \notin DOMAIN queue /\ <<v, key>> \in pending
  /\ pending' = Cancelled(v, key)
  /\ cleared' = cleared \cup {v}
  /\ UNCHANGED <<process, step, queue, tasks, store, clearing, owed>>

\* The tasks of these messages are cancelled; the deletion of their messages is awaited.
BeginClear(nodes, whole) ==
  LET unfinished == {x \in nodes : queue[x] = "open"} IN
  /\ MayHandle
  /\ queue' = Closed(queue, unfinished) /\ tasks' = tasks \ unfinished
  /\ IF unfinished = {} THEN UNCHANGED store ELSE Save(Closed(saved, unfinished))
  /\ clearing' = clearing \cup {[nodes |-> nodes, whole |-> whole]}
  /\ UNCHANGED <<process, step, pending, owed, cleared>>

ClearBranch(x) == x \in DOMAIN queue /\ BeginClear({x}, FALSE)
ClearAll == BeginClear(DOMAIN queue, TRUE)

\* remove_branch and the store's mappings; what a global /clear removed is not found.
FinishBranch(c) ==
  /\ ~c.whole
  /\ queue' = Without(queue, c.nodes)
  /\ IF c.nodes \subseteq DOMAIN queue THEN Save(Without(saved, c.nodes)) ELSE UNCHANGED store
  /\ owed' = owed \ c.nodes

\* clear_all writes the empty store at once; the queue is replaced.
FinishAll(c) ==
  /\ c.whole
  /\ queue' = None
  /\ saved' = None /\ file' = None /\ dirty' = FALSE
  /\ owed' = {}

FinishClear(c) ==
  /\ c \in clearing
  /\ FinishBranch(c) \/ FinishAll(c)
  /\ clearing' = clearing \ {c}
  /\ cleared' = IF mode = "running" THEN cleared \cup c.nodes ELSE cleared
  /\ UNCHANGED <<process, step, pending, tasks>>
-----------------------------------------------------------------------------
Init ==
  /\ platform \in {"telegram", "discord"}
  /\ mode = "off" /\ at = 1 /\ runs = 0 /\ connected = FALSE /\ handler = FALSE
  /\ step = [x \in Messages |-> "new"]
  /\ pending = {} /\ queue = None /\ tasks = {}
  /\ saved = None /\ dirty = FALSE /\ file = None
  /\ clearing = {} /\ owed = {} /\ cleared = {}

Next ==
  \/ Boot \/ LoadStore \/ RestoreTrees \/ Listen \/ Connect \/ GiveUp \/ ConnectLate
  \/ BeginShutdown \/ FlushPendingSave \/ StopPlatform \/ Exit \/ Crash
  \/ \E x \in Messages : \/ ReceiveText(x) \/ ReceiveVoice(x) \/ Register(x) \/ Withdraw(x)
                         \/ Transcribed(x) \/ Fails(x) \/ HandOver(x)
                         \/ \E completes \in BOOLEAN : Finish(x, completes)
                         \/ ClearBranch(x)
  \/ TimerFires \/ ClearAll
  \/ \E v \in Notes, key \in {"voice", "status"} : CancelVoice(v, key)
  \/ \E c \in clearing : FinishClear(c)

Spec == Init /\ [][Next]_vars
-----------------------------------------------------------------------------
(* Properties.                                                              *)

\* A message of which /clear has disposed, also a voice note whose transcription was
\* still running, is never served and never comes back, not even with a restart.
ClearedStaysAway ==
  cleared \cap (DOMAIN queue \cup {x \in Messages : step[x] = "handing"}) = {}

\* While the bot receives messages it knows every conversation it has taken, through
\* shutdowns, and none of them waits for a task of a process that is gone.
RestoredWhole ==
  connected =>
    /\ owed \subseteq DOMAIN queue
    /\ \A x \in DOMAIN queue : queue[x] = "open" => x \in tasks
=============================================================================
