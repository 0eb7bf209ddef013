----------------------------- MODULE CLISessions -----------------------------
(***************************************************************************)
(* CLISessionManager, CLISession and the process registry (cli/), driven by *)
(* the tasks of the message handler.  A task gets a session, starts a CLI   *)
(* process in it, reads its events and gives the session back.  /stop and   *)
(* the shutdown stop every session of the manager.                          *)
(*                                                                          *)
(* The coroutines share one event loop: a step is what runs between two     *)
(* awaits that suspend.  The manager's lock is first come, first served; it *)
(* is held while a process is waited for.  A session is named by the task   *)
(* that created it, a process by the task that started it.                  *)
(***************************************************************************)
EXTENDS Naturals, Sequences, FiniteSets

CONSTANTS Task,      \* runs of the handler's _process_node
          Past,      \* conversations that were over before
          StopCmd,   \* /stop commands
          Replies,   \* what the tasks may reply to: choices of `parent` and `tree`
          None

Actor == Task \cup StopCmd \cup {"shutdown"}

\* Session ids: "pending_..." of a new session, and what its CLI reports.
Temp(t) == <<"pending", t>>
Real(t) == <<"cli", t>>
OwnIds == {Temp(t) : t \in Task} \cup {Real(t) : t \in Task}
Id == OwnIds \cup Past

\* Names are distinct, a reply is in the tree of what it replies to, and one run of
\* the program has finitely many tasks.
ASSUME CLIAssumption ==
  /\ IsFiniteSet(Task)
  /\ None \notin Task \cup StopCmd \cup Id \cup {"shutdown"}
  /\ Task \cap (Past \cup StopCmd) = {} /\ "shutdown" \notin Task \cup StopCmd
  /\ Past \cap OwnIds = {}
  /\ \A r \in Replies :
       /\ r.parent \in [Task -> Task \cup Past \cup {None}]
       /\ \A t \in Task : r.parent[t] # None => r.tree[t] = r.tree[r.parent[t]]

VARIABLES
  parent,     \* the task or earlier conversation each task replies to, or None
  tree,       \* the conversation tree of each task and of what was over before
  pc,         \* where each task, /stop and the shutdown stand
  session,    \* the CLISession a task works with
  captured,   \* captured_session_id of _process_node
  temp,       \* temp_session_id of _process_node
  nodeId,     \* session_id of the task's node
  freed,      \* tasks whose tree was reset by /stop
  cancelled,  \* tasks that were cancelled
  cutShort,   \* history: tasks cancelled while they gave their session back
  sessions,   \* _sessions, by id
  pending,    \* _pending_sessions, by id
  tempToReal, \* _temp_to_real
  realToTemp, \* _real_to_temp
  lock,       \* who holds the manager's lock, and who waits for it
  hand,       \* sessions that stop() and stop_all() have yet to stop
  cliLock,    \* who holds a session's _cli_lock
  process,    \* the process of a session: who started it
  alive,      \* processes that live
  signalled,  \* the last signal each process got
  abandoned,  \* generators that are left open by their task
  pids        \* _pids of the registry

manager == <<sessions, pending, tempToReal, realToTemp>>
locals == <<session, captured, temp, nodeId>>
procs == <<process, alive, signalled, pids>>
tasks == <<parent, tree, freed, cancelled, cutShort>>
vars == <<pc, locals, tasks, manager, lock, hand, cliLock, procs, abandoned>>

Idle == {"none", "over"}

Live(s) == process[s] # None /\ process[s] \in alive

\* The session id a reply resumes: that of its parent's node.
ParentSession(t) ==
  IF parent[t] \in Task THEN nodeId[parent[t]] ELSE parent[t]

\* A tree runs its messages one by one; a reset tree starts the next at once.
MayBegin(t) ==
  /\ pc[t] = "none"
  /\ \A u \in Task \ {t} : tree[u] = tree[t] => pc[u] \in Idle \/ u \in freed
  /\ parent[t] \in Task => pc[parent[t]] # "none"

\* The caller comes to the lock: it is free and nobody waits, or it waits.
LockFree == lock = <<>>

\* What is left of a sequence, in its order, without those of a set.  (The one
\* image of the increasing enumeration of the positions that stay.)
Without(seq, set) ==
  LET kept == {i \in DOMAIN seq : seq[i] \notin set}
      places == 1..Cardinality(kept)
  IN  {[k \in places |-> seq[at[k]]] :
         at \in {f \in [places -> kept] : /\ \A i \in kept : \E k \in places : f[k] = i
                                         /\ \A k, l \in places : k < l => f[k] < f[l]}}
-----------------------------------------------------------------------------
(* Getting a session.                                                       *)

\* The id under which the manager keeps the session of `id`.
Lookup(id) == IF tempToReal[id] # None THEN tempToReal[id] ELSE id

\* The session the manager has for `id`, if any.
Found(id) ==
  IF id = None THEN None
  ELSE IF sessions[Lookup(id)] # None THEN sessions[Lookup(id)]
  ELSE pending[Lookup(id)]

\* start_task takes the session's lock; if it is taken, Spawn waits for it.
JoinSession(t, s) ==
  /\ session' = [session EXCEPT ![t] = s]
  /\ cliLock' = IF cliLock[s] = None THEN [cliLock EXCEPT ![s] = t] ELSE cliLock
  /\ pc' = [pc EXCEPT ![t] = "spawning"]

\* get_or_create_session, under the lock, and on to the session's own lock.
GetSession(t) ==
  LET id == ParentSession(t)
      new == IF id # None THEN id ELSE Temp(t)
  IN
  IF Found(id) # None
  THEN /\ JoinSession(t, Found(id))
       /\ captured' = [captured EXCEPT ![t] = Lookup(id)]
       /\ UNCHANGED <<temp, pending>>
  ELSE /\ JoinSession(t, t)
       /\ pending' = [pending EXCEPT ![new] = t]
       /\ temp' = [temp EXCEPT ![t] = new]
       /\ UNCHANGED captured

\* The tree starts a message.
Begin(t) ==
  /\ MayBegin(t)
  /\ IF LockFree
     THEN GetSession(t) /\ UNCHANGED lock
     ELSE /\ lock' = Append(lock, t)
          /\ pc' = [pc EXCEPT ![t] = "getting"]
          /\ UNCHANGED <<session, captured, temp, pending, cliLock>>
  /\ UNCHANGED <<nodeId, tasks, sessions, tempToReal, realToTemp, hand, procs,
                 abandoned>>

\* The lock comes to a task that waits for a session.
Get(t) ==
  /\ pc[t] = "getting" /\ Head(lock) = t
  /\ GetSession(t)
  /\ lock' = Tail(lock)
  /\ UNCHANGED <<nodeId, tasks, sessions, tempToReal, realToTemp, hand, procs,
                 abandoned>>
-----------------------------------------------------------------------------
(* Running the CLI.                                                         *)

\* (mutant) the process is not recorded.
SpawnUnregistered(t) ==
  /\ pc[t] = "spawning" /\ cliLock[session[t]] \in {None, t}
  /\ cliLock' = [cliLock EXCEPT ![session[t]] = t]
  /\ process' = [process EXCEPT ![session[t]] = t]
  /\ alive' = alive \cup {t}
  /\ pc' = [pc EXCEPT ![t] = "reading"]
  /\ UNCHANGED <<locals, tasks, manager, lock, hand, signalled, pids, abandoned>>

\* create_subprocess_exec returns; the pid is registered before any await.
Spawn(t) ==
  /\ pc[t] = "spawning" /\ cliLock[session[t]] \in {None, t}
  /\ cliLock' = [cliLock EXCEPT ![session[t]] = t]
  /\ process' = [process EXCEPT ![session[t]] = t]
  /\ alive' = alive \cup {t}
  /\ pids' = pids \cup {t}
  /\ pc' = [pc EXCEPT ![t] = "reading"]
  /\ UNCHANGED <<locals, tasks, manager, lock, hand, signalled, abandoned>>

\* The finally of start_task: the session is free, its process not tracked.
CloseGenerator(t) ==
  /\ cliLock' = [cliLock EXCEPT ![session[t]] = None]
  /\ pids' = pids \ {process[session[t]]}

\* The CLI cannot be started.
SpawnFails(t) ==
  /\ pc[t] = "spawning" /\ cliLock[session[t]] \in {None, t}
  /\ CloseGenerator(t)
  /\ pc' = [pc EXCEPT ![t] = "cleanup"]
  /\ UNCHANGED <<locals, tasks, manager, lock, hand, process, alive, signalled,
                 abandoned>>

\* register_real_session_id, under the lock; the node gets the id either way.
Register(t) ==
  /\ IF pending[temp[t]] = None
     THEN UNCHANGED <<sessions, pending, tempToReal, realToTemp>>
     ELSE /\ sessions' = [sessions EXCEPT ![Real(t)] = pending[temp[t]]]
          /\ pending' = [pending EXCEPT ![temp[t]] = None]
          /\ tempToReal' = [tempToReal EXCEPT ![temp[t]] = Real(t)]
          /\ realToTemp' = [realToTemp EXCEPT ![Real(t)] = temp[t]]
  /\ captured' = [captured EXCEPT ![t] = Real(t)]
  /\ temp' = [temp EXCEPT ![t] = None]
  /\ nodeId' = [nodeId EXCEPT ![t] = Real(t)]

\* The first line of the CLI tells its session id.
SessionInfo(t) ==
  /\ pc[t] = "reading" /\ temp[t] # None
  /\ IF LockFree
     THEN Register(t) /\ UNCHANGED <<pc, lock>>
     ELSE /\ lock' = Append(lock, t)
          /\ pc' = [pc EXCEPT ![t] = "registering"]
          /\ UNCHANGED <<manager, captured, temp, nodeId>>
  /\ UNCHANGED <<session, tasks, hand, cliLock, procs, abandoned>>

RegisterLater(t) ==
  /\ pc[t] = "registering" /\ Head(lock) = t
  /\ Register(t)
  /\ lock' = Tail(lock)
  /\ pc' = [pc EXCEPT ![t] = "reading"]
  /\ UNCHANGED <<session, tasks, hand, cliLock, procs, abandoned>>

\* An event is shown to the user, which suspends the task, ...
Handle(t) ==
  /\ \/ pc[t] = "reading" /\ t \in alive /\ pc' = [pc EXCEPT ![t] = "handling"]
     \/ pc[t] = "handling" /\ pc' = [pc EXCEPT ![t] = "reading"]
  /\ UNCHANGED <<locals, tasks, manager, lock, hand, cliLock, procs, abandoned>>

\* ... or raises: nobody reads the generator any more.
HandleFails(t) ==
  /\ pc[t] = "handling"
  /\ pc' = [pc EXCEPT ![t] = "cleanup"]
  /\ abandoned' = abandoned \cup {t}
  /\ UNCHANGED <<locals, tasks, manager, lock, hand, cliLock, procs>>

\* The process ends, by itself or by a signal.
Die(t) ==
  /\ t \in alive
  /\ alive' = alive \ {t}
  /\ UNCHANGED <<pc, locals, tasks, manager, lock, hand, cliLock, process, signalled,
                 pids, abandoned>>

\* End of stdout: the exit event is shown.
ReadExit(t) ==
  /\ pc[t] = "reading" /\ t \notin alive
  /\ pc' = [pc EXCEPT ![t] = "leaving"]
  /\ UNCHANGED <<locals, tasks, manager, lock, hand, cliLock, procs, abandoned>>

\* A generator that nobody reads is closed by the event loop once its process's
\* stderr has ended.
CloseAbandoned(t) ==
  /\ t \in abandoned /\ t \notin alive
  /\ abandoned' = abandoned \ {t}
  /\ CloseGenerator(t)
  /\ UNCHANGED <<pc, locals, tasks, manager, lock, hand, process, alive,
                 signalled>>
-----------------------------------------------------------------------------
(* Stopping sessions.                                                       *)

\* terminate() to the process of a session, unless kill() came before.
Terminated(sig, s) ==
  IF Live(s) /\ sig[process[s]] # "kill" THEN [sig EXCEPT ![process[s]] = "term"] ELSE sig

\* (mutant) only a session that has no id of its own yet is given back.
OwnKeyTempOnly(t) == temp[t]

\* (mutant) a reply gives back what it resumed.
OwnKeyParent(t) == ParentSession(t)

\* The id under which _process_node gives its session back.
OwnKey(t) == IF captured[t] # None THEN captured[t] ELSE temp[t]

\* The temporary id of a registered session is forgotten with it.
Forget(id) ==
  IF realToTemp[id] = None THEN UNCHANGED <<tempToReal, realToTemp>>
  ELSE /\ tempToReal' = [tempToReal EXCEPT ![realToTemp[id]] = None]
       /\ realToTemp' = [realToTemp EXCEPT ![id] = None]

\* remove_session under the lock: off the maps, and stop() if the process lives.
TakeRemove(t, queue) ==
  LET id == OwnKey(t)
      s == IF pending[id] # None THEN pending[id] ELSE sessions[id]
  IN
  /\ pending' = [pending EXCEPT ![id] = None]
  /\ sessions' = IF pending[id] # None THEN sessions ELSE [sessions EXCEPT ![id] = None]
  /\ IF s # None /\ Live(s)
     THEN /\ signalled' = Terminated(signalled, s)
          /\ hand' = [hand EXCEPT ![t] = <<s>>]
          /\ pc' = [pc EXCEPT ![t] = "stopping"]
          /\ lock' = <<t>> \o queue
          /\ UNCHANGED <<tempToReal, realToTemp>>
     ELSE /\ pc' = [pc EXCEPT ![t] = "over"]
          /\ lock' = queue
          /\ IF s # None /\ pending[id] = None THEN Forget(id)
             ELSE UNCHANGED <<tempToReal, realToTemp>>
          /\ UNCHANGED <<hand, signalled>>

\* The finally of _process_node.
GiveBack(t) ==
  IF OwnKey(t) = None
  THEN pc' = [pc EXCEPT ![t] = "over"] /\ UNCHANGED <<manager, lock, hand, signalled>>
  ELSE IF LockFree THEN TakeRemove(t, <<>>)
  ELSE /\ lock' = Append(lock, t)
       /\ pc' = [pc EXCEPT ![t] = "removing"]
       /\ UNCHANGED <<manager, hand, signalled>>

\* The exit event was handled, and the generator ends.
Leave(t) ==
  /\ pc[t] = "leaving"
  /\ CloseGenerator(t)
  /\ GiveBack(t)
  /\ UNCHANGED <<locals, tasks, process, alive, abandoned>>

\* The user was told of the cancellation or the error.
CleanUp(t) ==
  /\ pc[t] = "cleanup"
  /\ GiveBack(t)
  /\ UNCHANGED <<locals, tasks, cliLock, process, alive, pids, abandoned>>

GiveBackLater(t) ==
  /\ pc[t] = "removing" /\ Head(lock) = t
  /\ TakeRemove(t, Tail(lock))
  /\ UNCHANGED <<locals, tasks, cliLock, process, alive, pids, abandoned>>

Cleared == [id \in Id |-> None]

\* (mutant) only the registered sessions are forgotten.
ForgetRegistered ==
  /\ sessions' = Cleared /\ UNCHANGED pending
  /\ tempToReal' = Cleared /\ realToTemp' = Cleared

\* The end of stop_all.
ForgetAll ==
  /\ sessions' = Cleared /\ pending' = Cleared
  /\ tempToReal' = Cleared /\ realToTemp' = Cleared

\* What stop_all has yet to stop, when it comes to `queue`: stop() returns at once
\* from a session whose process does not run.
FirstLive(queue) ==
  LET live == {i \in DOMAIN queue : Live(queue[i])} IN
  IF live = {} THEN {<<>>}
  ELSE {SubSeq(queue, i, Len(queue)) : i \in {k \in live : \A j \in live : k <= j}}

\* The process that `a` waits for has ended: the rest of stop(), and the next.
Stopped(a) ==
  /\ pc[a] = "stopping" /\ ~Live(Head(hand[a]))
  /\ pids' = pids \ {process[Head(hand[a])]}
  /\ \E rest \in FirstLive(Tail(hand[a])) :
     /\ hand' = [hand EXCEPT ![a] = rest]
     /\ IF rest # <<>>
        THEN /\ signalled' = Terminated(signalled, Head(rest))
             /\ UNCHANGED <<pc, lock, manager>>
        ELSE /\ pc' = [pc EXCEPT ![a] = "over"]
             /\ lock' = Tail(lock)
             /\ UNCHANGED signalled
             /\ IF a \in Task
                THEN Forget(OwnKey(a)) /\ UNCHANGED <<sessions, pending>>
                ELSE ForgetAll
  /\ UNCHANGED <<locals, tasks, cliLock, process, alive, abandoned>>

\* (mutant) only stop() itself kills.
EscalateStop(a) ==
  /\ pc[a] = "stopping"
  /\ LET s == Head(hand[a]) IN
     /\ Live(s) /\ signalled[process[s]] = "term"
     /\ signalled' = [signalled EXCEPT ![process[s]] = "kill"]
  /\ UNCHANGED <<pc, locals, tasks, manager, lock, hand, cliLock, process, alive, pids,
                 abandoned>>

\* A process outlived terminate() for five seconds: kill().
Escalate(a) ==
  /\ pc[a] \in {"stopping", "shielding"}
  /\ LET s == IF pc[a] = "stopping" THEN Head(hand[a]) ELSE session[a] IN
     /\ Live(s) /\ signalled[process[s]] = "term"
     /\ signalled' = [signalled EXCEPT ![process[s]] = "kill"]
  /\ UNCHANGED <<pc, locals, tasks, manager, lock, hand, cliLock, process, alive, pids,
                 abandoned>>

\* The sessions of a map in some order.
Listed(map) ==
  LET held == {map[id] : id \in {i \in Id : map[i] # None}} IN
  {f \in [1..Cardinality(held) -> held] : \A s \in held : \E i \in DOMAIN f : f[i] = s}

\* stop_all under the lock, after the tasks' cancellations: `after` has what
\* those changed.
TakeStopAll(a, queue, after) ==
  \E first \in Listed(sessions), second \in Listed(pending) :
  \E all \in FirstLive(first \o second) :
  IF all # <<>>
  THEN /\ signalled' = Terminated(after.signalled, Head(all))
       /\ hand' = [after.hand EXCEPT ![a] = all]
       /\ pc' = [after.pc EXCEPT ![a] = "stopping"]
       /\ lock' = <<a>> \o queue
       /\ UNCHANGED manager
  ELSE /\ signalled' = after.signalled /\ hand' = after.hand
       /\ pc' = [after.pc EXCEPT ![a] = "over"]
       /\ lock' = queue
       /\ ForgetAll

\* Where a cancellation leaves a task: start_task stops its process first, the
\* finally of _process_node is skipped by a cancellation that hits it there.
AfterCancel(t) ==
  IF pc[t] \in {"getting", "spawning", "registering", "handling", "leaving"}
  THEN "cleanup"
  ELSE IF pc[t] = "reading" THEN (IF t \in alive THEN "shielding" ELSE "cleanup")
  ELSE IF pc[t] \in {"removing", "stopping"} THEN "over"
  ELSE pc[t]

\* The tasks of `set` are cancelled: what that does to all but the locks' owners.
CancelTasks(set) ==
  LET closed == {t \in set : pc[t] \in {"spawning", "reading"} /\ cliLock[session[t]] = t
                              /\ t \notin alive} IN
  /\ cancelled' = cancelled \cup set
  /\ cutShort' = cutShort \cup {t \in set : pc[t] \in {"removing", "stopping"}}
  /\ abandoned' = abandoned \cup
       {t \in set : pc[t] \in {"registering", "handling", "leaving"}}
  /\ cliLock' = [s \in Task |-> IF cliLock[s] \in closed THEN None ELSE cliLock[s]]
  /\ pids' = pids \ {process[session[t]] : t \in closed}
  /\ UNCHANGED <<parent, tree, locals, process, alive>>

Shielded(set) == {t \in set : AfterCancel(t) = "shielding"}

\* pc, hand and the signals after the cancellation of `set`.
Cancelled(set) ==
  [pc |-> [a \in Actor |-> IF a \in set THEN AfterCancel(a) ELSE pc[a]],
   hand |-> [a \in Actor |-> IF a \in set THEN <<>> ELSE hand[a]],
   signalled |-> [t \in Task |-> IF t \in Shielded(set) /\ signalled[t] = "none"
                                 THEN "term" ELSE signalled[t]]]

\* cancel_node of the running message (/stop as a reply).
CancelOne(t) ==
  /\ pc[t] \notin Idle \cup {"removing", "stopping"} /\ t \notin cancelled
  /\ CancelTasks({t})
  /\ LET after == Cancelled({t}) IN
     pc' = after.pc /\ hand' = after.hand /\ signalled' = after.signalled
  /\ lock' \in Without(lock, {t})
  /\ UNCHANGED <<freed, manager>>

\* The tasks that cancel_all reaches: the current one of each tree.
Running == {t \in Task : pc[t] \notin Idle} \ freed

\* stop_all_tasks: the trees' tasks, then the sessions.
StopAllTasks(k) ==
  /\ pc[k] = "none"
  /\ CancelTasks(Running)
  /\ freed' = freed \cup Running
  /\ IF LockFree THEN TakeStopAll(k, <<>>, Cancelled(Running))
     ELSE LET after == Cancelled(Running) IN
          /\ pc' = [after.pc EXCEPT ![k] = "queued"]
          /\ hand' = after.hand /\ signalled' = after.signalled
          /\ \E queue \in Without(lock, Running) : lock' = Append(queue, k)
          /\ UNCHANGED manager

\* The shutdown stops the sessions and cancels nobody.
BeginShutdown ==
  /\ pc["shutdown"] = "none"
  /\ IF LockFree
     THEN TakeStopAll("shutdown", <<>>, [pc |-> pc, hand |-> hand, signalled |-> signalled])
     ELSE /\ pc' = [pc EXCEPT !["shutdown"] = "queued"]
          /\ lock' = Append(lock, "shutdown")
          /\ UNCHANGED <<manager, hand, signalled>>
  /\ UNCHANGED <<locals, tasks, cliLock, process, alive, pids, abandoned>>

StopSessions(a) ==
  /\ pc[a] = "queued" /\ Head(lock) = a
  /\ TakeStopAll(a, Tail(lock), [pc |-> pc, hand |-> hand, signalled |-> signalled])
  /\ UNCHANGED <<locals, tasks, cliLock, process, alive, pids, abandoned>>

\* best_effort gives the shutdown's stop_all up after five seconds.
ShutdownTimesOut ==
  /\ pc["shutdown"] \in {"queued", "stopping"}
  /\ pc' = [pc EXCEPT !["shutdown"] = "over"]
  /\ hand' = [hand EXCEPT !["shutdown"] = <<>>]
  /\ lock' \in Without(lock, {"shutdown"})
  /\ UNCHANGED <<locals, tasks, manager, cliLock, procs, abandoned>>

\* A cancelled generator has waited for its process: it closes, and raises.
ShieldEnds(t) ==
  /\ pc[t] = "shielding" /\ t \notin alive
  /\ CloseGenerator(t)
  /\ pc' = [pc EXCEPT ![t] = "cleanup"]
  /\ UNCHANGED <<locals, tasks, manager, lock, hand, process, alive, signalled,
                 abandoned>>

\* What kill_all_best_effort leaves when the server's process ends.
Survivors == alive \ pids
-----------------------------------------------------------------------------
Init ==
  /\ \E r \in Replies : parent = r.parent /\ tree = r.tree
  /\ pc = [a \in Actor |-> "none"]
  /\ session = [t \in Task |-> None]
  /\ captured = [t \in Task |-> None] /\ temp = [t \in Task |-> None]
  /\ nodeId = [t \in Task |-> None]
  /\ freed = {} /\ cancelled = {} /\ cutShort = {}
  /\ sessions = Cleared /\ pending = Cleared
  /\ tempToReal = Cleared /\ realToTemp = Cleared
  /\ lock = <<>> /\ hand = [a \in Actor |-> <<>>]
  /\ cliLock = [s \in Task |-> None] /\ process = [s \in Task |-> None]
  /\ signalled = [t \in Task |-> "none"]
  /\ abandoned = {} /\ alive = {} /\ pids = {}

\* What a task does when the event loop runs it.
Run(t) ==
  \/ Get(t) \/ Spawn(t) \/ SpawnFails(t) \/ RegisterLater(t)
  \/ ReadExit(t) \/ Leave(t) \/ CleanUp(t) \/ GiveBackLater(t) \/ ShieldEnds(t)

Next ==
  \/ \E t \in Task :
       \/ Begin(t) \/ Run(t) \/ SessionInfo(t) \/ Handle(t) \/ HandleFails(t)
       \/ Die(t) \/ CloseAbandoned(t) \/ CancelOne(t)
  \/ \E k \in StopCmd : StopAllTasks(k)
  \/ BeginShutdown \/ ShutdownTimesOut
  \/ \E a \in Actor : Stopped(a) \/ Escalate(a) \/ StopSessions(a)

Spec == Init /\ [][Next]_vars

\* The event loop runs what is ready, the chat answers or times out, and a
\* killed process dies.  Nothing makes a CLI end by itself.
Fairness ==
  /\ \A t \in Task :
       /\ WF_vars(Run(t))
       /\ WF_vars(CloseAbandoned(t))
       /\ WF_vars(signalled[t] = "kill" /\ Die(t))
  /\ \A a \in Actor :
       WF_vars((Stopped(a) \/ Escalate(a) \/ StopSessions(a)))

FairSpec == Spec /\ Fairness
-----------------------------------------------------------------------------
\* Whenever and however the server's process ends, no CLI runs on.
NothingSurvivesExit == Survivors = {}

\* t was stopped by /stop and its key is the id that u resumed: u replies to t,
\* or both reply to one message and t had no id of its own yet.
SameKey(t, u) ==
  /\ t # u /\ t \in freed /\ ParentSession(u) # None
  /\ ParentSession(u) = IF captured[t] # None THEN captured[t] ELSE temp[t]

\* A task that is over has left no process behind.  Three exceptions: a task that
\* is cancelled while it gives its session back, which cancels stop() between
\* terminate and kill; the shutdown, which empties the manager while tasks may
\* still start processes; and a task whose session was
\* given back by another one that had the same key.
NoProcessLeft ==
  \A t \in Task : pc[t] = "over" /\ t \in alive =>
    t \in cutShort \/ pc["shutdown"] # "none" \/ \E u \in Task : SameKey(u, t)

\* Two tasks never share a CLISession.
NotShared ==
  \A t, u \in Task : t # u /\ pc[t] \notin Idle /\ pc[u] \notin Idle =>
    session[t] = None \/ session[t] # session[u]

\* A task that gives its session back stops no other task's process, but that
\* of one with the same key.
StopsOwnProcess ==
  [][\A t, u \in Task :
       Len(hand'[t]) > 0 /\ hand[t] = <<>> /\ process[hand'[t][1]] = u =>
         u = t \/ SameKey(t, u)]_vars

\* Tasks and /stop commands come to an end when they are cancelled or begin: /stop
\* returns, although they wait for processes and, at the manager's lock, for each
\* other.  (Both are for good, so this says it for every cancellation.)
StopEnds ==
  <>[](/\ \A t \in cancelled : pc[t] = "over"
       /\ \A k \in StopCmd : pc[k] \in Idle)
=============================================================================
