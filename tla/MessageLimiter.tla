--------------------------- MODULE MessageLimiter ---------------------------
(***************************************************************************)
(* MessagingRateLimiter (messaging/limiter.py): outgoing updates of a chat  *)
(* wait in a queue of keys; a newer update of a key replaces the one that   *)
(* waits, and takes its callers over (compaction).  One worker sends them.  *)
(* A fire-and-forget update is a task of its own, which enqueues it, and    *)
(* again after a transient error.  The coroutines share one event loop: a   *)
(* step here is what runs between two awaits.                               *)
(*                                                                          *)
(* Updates are numbered in the order they are issued.  Pauses, the sliding  *)
(* window and backoffs end at some moment; the window is SlidingWindow's.   *)
(***************************************************************************)
EXTENDS Naturals, Sequences

CONSTANTS N,          \* number of updates
          Key,        \* dedup keys
          KeyOf,      \* the key of each update
          Awaited,    \* updates whose caller awaits enqueue() itself
          MaxRetries, \* max_retries of fire_and_forget
          NoUpdate

Update == 1..N

ASSUME MessageLimiterAssumption ==
  /\ N \in Nat /\ MaxRetries \in Nat
  /\ KeyOf \in [Update -> Key]
  /\ Awaited \subseteq Update
  /\ NoUpdate \notin Update

VARIABLES
  issued,     \* how many updates were issued so far
  starting,   \* fire-and-forget tasks created, in order, that have not run yet
  caller,     \* where each update's caller stands
  attempt,    \* attempt of fire_and_forget
  queueList,  \* _queue_list
  queueMap,   \* _queue_map: the update to send and the futures to resolve
  worker,     \* where the worker stands
  job,        \* the entry the worker has taken
  paused,     \* _paused_until is ahead
  shutdown,   \* _shutdown
  shown,      \* history: the update a reader of each key's message sees
  sends       \* history: how often each update was sent

callers == <<issued, starting, caller, attempt>>
queue == <<queueList, queueMap>>
work == <<worker, job, paused, shutdown>>
history == <<shown, sends>>
vars == <<callers, queue, work, history>>

CallerStates == {"unborn", "starting", "waiting", "backoff", "done", "failed", "cancelled"}
WorkerStates == {"idle", "holding", "sending", "over"}

Entry == [func : Update \cup {NoUpdate}, futures : SUBSET Update]
NoEntry == [func |-> NoUpdate, futures |-> {}]
Queued(k) == queueMap[k] # NoEntry

-----------------------------------------------------------------------------
(* The callers.                                                             *)

\* (mutant) the caller's future is not added to those of the entry.
EnqueueDropsFuture(u) ==
  LET k == KeyOf[u] IN
  /\ queueMap' = [queueMap EXCEPT ![k] =
       [func |-> u, futures |-> IF Queued(k) THEN queueMap[k].futures ELSE {u}]]
  /\ queueList' = IF Queued(k) THEN queueList ELSE Append(queueList, k)

\* (mutant) a key that waits already is put at the end again.
EnqueueTwice(u) ==
  LET k == KeyOf[u] IN
  /\ queueMap' = [queueMap EXCEPT ![k] =
       [func |-> u, futures |-> queueMap[k].futures \cup {u}]]
  /\ queueList' = Append(queueList, k)

\* (mutant) the entry keeps its first update.
EnqueueKeepsFunc(u) ==
  LET k == KeyOf[u] IN
  /\ queueMap' = [queueMap EXCEPT ![k] =
       [func |-> IF Queued(k) THEN queueMap[k].func ELSE u,
        futures |-> queueMap[k].futures \cup {u}]]
  /\ queueList' = IF Queued(k) THEN queueList ELSE Append(queueList, k)

\* _enqueue_internal_multi: compaction, or a new entry at the end.
Enqueue(u) ==
  LET k == KeyOf[u] IN
  /\ queueMap' = [queueMap EXCEPT ![k] =
       [func |-> u, futures |-> queueMap[k].futures \cup {u}]]
  /\ queueList' = IF Queued(k) THEN queueList ELSE Append(queueList, k)

\* The next update is issued: fire_and_forget creates its task; a caller of
\* enqueue() reaches the queue without an await.
Issue ==
  /\ issued < N
  /\ issued' = issued + 1
  /\ LET u == issued + 1 IN
     \/ /\ u \in Awaited
        /\ caller' = [caller EXCEPT ![u] = "waiting"]
        /\ Enqueue(u)
        /\ UNCHANGED starting
     \/ /\ u \notin Awaited
        /\ caller' = [caller EXCEPT ![u] = "starting"]
        /\ starting' = Append(starting, u)
        /\ UNCHANGED queue
  /\ UNCHANGED <<attempt, work, history>>

\* The event loop runs the oldest new task up to its await.
Begin ==
  /\ starting # <<>>
  /\ starting' = Tail(starting)
  /\ caller' = [caller EXCEPT ![Head(starting)] = "waiting"]
  /\ Enqueue(Head(starting))
  /\ UNCHANGED <<issued, attempt, work, history>>

\* The sleep before a retry is over.
Retry(u) ==
  /\ caller[u] = "backoff"
  /\ caller' = [caller EXCEPT ![u] = "waiting"]
  /\ attempt' = [attempt EXCEPT ![u] = @ + 1]
  /\ Enqueue(u)
  /\ UNCHANGED <<issued, starting, work, history>>

\* The task that awaits enqueue() is cancelled, and its future with it.
CancelCaller(u) ==
  /\ u \in Awaited /\ caller[u] = "waiting"
  /\ caller' = [caller EXCEPT ![u] = "cancelled"]
  /\ UNCHANGED <<issued, starting, attempt, queue, work, history>>
-----------------------------------------------------------------------------
(* The worker.                                                              *)

\* (mutant) the key leaves the list, its entry stays in the map.
TakeLeavesEntry ==
  /\ worker = "idle" /\ queueList # <<>>
  /\ queueList' = Tail(queueList)
  /\ job' = queueMap[Head(queueList)]
  /\ worker' = "holding"
  /\ UNCHANGED <<callers, queueMap, paused, shutdown, history>>

\* The oldest key is taken off the queue.
Take ==
  /\ worker = "idle" /\ queueList # <<>>
  /\ queueList' = Tail(queueList)
  /\ job' = queueMap[Head(queueList)]
  /\ queueMap' = [queueMap EXCEPT ![Head(queueList)] = NoEntry]
  /\ worker' = "holding"
  /\ UNCHANGED <<callers, paused, shutdown, history>>

\* _paused_until has passed.
PauseEnds ==
  /\ paused
  /\ paused' = FALSE
  /\ UNCHANGED <<callers, queue, worker, job, shutdown, history>>

\* Through the pause and the window, the worker calls func().
StartSend ==
  /\ worker = "holding" /\ ~paused
  /\ worker' = "sending"
  /\ sends' = [sends EXCEPT ![job.func] = @ + 1]
  /\ UNCHANGED <<callers, queue, job, paused, shutdown, shown>>

\* (mutant) only the future of the update that was sent gets the outcome.
ResolveOne(after) ==
  /\ worker = "sending"
  /\ worker' = "idle"
  /\ job' = NoEntry
  /\ caller' = [u \in Update |-> IF u = job.func /\ caller[u] = "waiting"
                                 THEN after[u] ELSE caller[u]]
  /\ UNCHANGED <<issued, starting, attempt, queue, shutdown, sends>>

\* Every future that is not done gets the outcome; `after` is where that
\* leaves each caller.
Resolve(after) ==
  /\ worker = "sending"
  /\ worker' = "idle"
  /\ job' = NoEntry
  /\ caller' = [u \in Update |-> IF u \in job.futures /\ caller[u] = "waiting"
                                 THEN after[u] ELSE caller[u]]
  /\ UNCHANGED <<issued, starting, attempt, queue, shutdown, sends>>

SendSucceeds ==
  /\ Resolve([u \in Update |-> "done"])
  /\ shown' = [shown EXCEPT ![KeyOf[job.func]] = job.func]
  /\ UNCHANGED paused

\* (mutant) one retry too many.
AfterErrorOnceMore(u, transient) ==
  IF transient /\ u \notin Awaited /\ attempt[u] <= MaxRetries THEN "backoff" ELSE "failed"

\* What fire_and_forget does about an error.
AfterError(u, transient) ==
  IF transient /\ u \notin Awaited /\ attempt[u] < MaxRetries THEN "backoff" ELSE "failed"

\* (mutant) a flood wait keeps the job, to send it again.
SendFailsKeepsJob(flood, transient) ==
  /\ worker = "sending"
  /\ worker' = IF flood THEN "holding" ELSE "idle"
  /\ job' = IF flood THEN job ELSE NoEntry
  /\ caller' = [u \in Update |-> IF u \in job.futures /\ caller[u] = "waiting"
                                 THEN AfterError(u, transient) ELSE caller[u]]
  /\ paused' = (paused \/ flood)
  /\ UNCHANGED <<issued, starting, attempt, queue, shutdown, history>>

\* func() raises: the error's text says whether it is a flood wait, and whether
\* it is transient; it can be both.
SendFails(flood, transient) ==
  /\ Resolve([u \in Update |-> AfterError(u, transient)])
  /\ paused' = (paused \/ flood)
  /\ UNCHANGED shown

\* shutdown cancels the worker wherever it awaits.  What it holds and what
\* waits in the queue is never answered.
Shutdown ==
  /\ ~shutdown
  /\ shutdown' = TRUE
  /\ worker' = "over"
  /\ job' = NoEntry
  /\ UNCHANGED <<callers, queue, paused, history>>

Init ==
  /\ issued = 0 /\ starting = <<>>
  /\ caller = [u \in Update |-> "unborn"]
  /\ attempt = [u \in Update |-> 0]
  /\ queueList = <<>>
  /\ queueMap = [k \in Key |-> NoEntry]
  /\ worker = "idle" /\ job = NoEntry
  /\ paused = FALSE /\ shutdown = FALSE
  /\ shown = [k \in Key |-> 0]
  /\ sends = [u \in Update |-> 0]

Work ==
  \/ Take
  \/ PauseEnds
  \/ StartSend
  \/ SendSucceeds
  \/ \E flood, transient \in BOOLEAN : SendFails(flood, transient)

Next ==
  \/ Issue
  \/ Begin
  \/ \E u \in Update : Retry(u) \/ CancelCaller(u)
  \/ Work
  \/ Shutdown

Spec == Init /\ [][Next]_vars

\* The event loop runs every ready task, sleeps end, and func() returns: the
\* platforms call their APIs with timeouts.
Fairness ==
  /\ WF_vars(Begin) /\ WF_vars(Work)
  /\ \A u \in Update : WF_vars(Retry(u))

FairSpec == Spec /\ Fairness
-----------------------------------------------------------------------------
\* Every variable has its type.
LimiterTypeOK ==
  /\ issued \in 0..N
  /\ starting \in Seq(Update)
  /\ caller \in [Update -> CallerStates]
  /\ attempt \in [Update -> 0..MaxRetries]
  /\ queueList \in Seq(Key)
  /\ queueMap \in [Key -> Entry]
  /\ worker \in WorkerStates
  /\ job \in Entry
  /\ paused \in BOOLEAN /\ shutdown \in BOOLEAN
  /\ shown \in [Key -> 0..N]
  /\ sends \in [Update -> Nat]

\* _queue_list and _queue_map hold the same keys, each once: otherwise a pop
\* raises KeyError, and the update of a key outside the list never goes out.
QueueMatches ==
  /\ \A k \in Key : Queued(k) <=> \E i \in DOMAIN queueList : queueList[i] = k
  /\ \A i, j \in DOMAIN queueList : queueList[i] = queueList[j] => i = j

\* Nobody waits for a future that nobody holds, through compactions, errors,
\* retries and cancellations; only shutdown abandons the worker's own job.
NoFutureLost ==
  \A u \in Update : caller[u] = "waiting" =>
    u \in queueMap[KeyOf[u]].futures \/ u \in job.futures \/ shutdown

\* An update is sent at most once per attempt of its caller.
SentOncePerAttempt == \A u \in Update : sends[u] <= attempt[u] + 1

\* The version of k's message is that of u or a newer one, or a retry brought an
\* older one back, or an update was awaited: that one reaches the queue before
\* the fire-and-forget ones issued with it.
UpToDate(u, version) == version >= u \/ attempt[version] > 0 \/ {u, version} \cap Awaited # {}

\* Compaction loses nothing and reorders nothing: a message never goes back to
\* an older version, and a caller that gets a result finds its update shown, or
\* a newer one.  Only a retry breaks that.
StaleOnlyByRetry ==
  [][/\ \A k \in Key : shown[k] > 0 => UpToDate(shown[k], shown'[k])
     /\ \A u \in Update : caller[u] = "waiting" /\ caller'[u] = "done" =>
          UpToDate(u, shown'[KeyOf[u]])]_vars

\* Every update is answered in the end, however often the worker is paused,
\* unless the limiter is shut down.
EveryUpdateAnswered ==
  \A u \in Update :
    caller[u] \in {"starting", "waiting", "backoff"} ~>
      (caller[u] \in {"done", "failed", "cancelled"} \/ shutdown)
=============================================================================
