------------------------------ MODULE TreeQueue ------------------------------
(***************************************************************************)
(* One conversation tree of the messaging bots: MessageTree (trees/data.py),*)
(* the TreeQueueProcessor and the TreeQueueManager operations on it         *)
(* (trees/queue_manager.py), and the processor that the message handler     *)
(* runs for a node (handler.py, node_event_pipeline.py).                    *)
(*                                                                          *)
(* A step of the specification is what the asyncio event loop runs between  *)
(* two real suspension points.  No `async with tree.with_lock()` region     *)
(* suspends while it holds the lock, so the lock is never contended and     *)
(* each region is one step together with the code around it.                *)
(*                                                                          *)
(* A node is enqueued once, so the asyncio task that serves a node is named *)
(* by that node.                                                            *)
(***************************************************************************)
EXTENDS Naturals, Sequences, FiniteSets

CONSTANTS NodeId,    \* the message ids
          Root,      \* the message that opened the conversation
          None,      \* Python's None
          Commands   \* the user commands the environment may issue

AllCommands == {"stop_node", "stop_tree", "clear_branch", "clear_root", "clear_all"}

ASSUME TreeQueueAssumption ==
  /\ Root \in NodeId
  /\ None \notin NodeId
  /\ Commands \subseteq AllCommands

VARIABLES
  nodes,         \* MessageTree._nodes
  parent,        \* MessageNode.parent_id; the children_ids are its inverse
  state,         \* MessageNode.state
  queue,         \* MessageTree._queue
  isProcessing,  \* MessageTree._is_processing
  currentNode,   \* MessageTree._current_node_id
  currentTask,   \* MessageTree._current_task
  registered,    \* the handler's current manager still knows the tree
  task,          \* where the asyncio task of a node stands
  cancelReq,     \* nodes whose task has a CancelledError to be delivered
  linked,        \* nodes whose processor found the tree when it started
  captured,      \* nodes whose processor knows a Claude session id
  arriving,      \* the resolved parent of a message whose status is being sent
  clearing,      \* branches cancelled by /clear, not yet removed
  wiping         \* a global /clear has stopped the tasks, not yet reset

treeVars == <<nodes, parent, registered>>
procVars == <<queue, isProcessing, currentNode, currentTask>>
taskVars == <<task, cancelReq>>
infoVars == <<linked, captured>>
userVars == <<arriving, clearing, wiping>>
vars == <<treeVars, state, procVars, taskVars, infoVars, userVars>>

States == {"PENDING", "IN_PROGRESS", "COMPLETED", "ERROR"}
Terminal == {"COMPLETED", "ERROR"}

(***************************************************************************)
(* Where a task stands: created (first step not run yet), running (reading  *)
(* the CLI's events), completing (exit seen, "Complete" being shown),       *)
(* stopping (in `except CancelledError`), failing (in `except Exception`),  *)
(* leaving (in `finally`, freeing the CLI session), dead.                   *)
(***************************************************************************)
Phases == {"none", "created", "running", "completing", "stopping", "failing",
           "leaving", "dead"}
Active == {"running", "completing", "stopping", "failing", "leaving"}
Alive(n) == task[n] \in Active \cup {"created"}

-----------------------------------------------------------------------------
(* The tree.                                                                *)

\* MessageTree.get_descendants: the least set with b, closed under children.
Descendants(b) ==
  {n \in nodes : \A S \in SUBSET nodes :
      (b \in S /\ \A c \in nodes : parent[c] \in S => c \in S) => n \in S}

\* TreeRepository.get_pending_children: PENDING nodes reached through PENDING.
PendingBelow(n) ==
  {m \in nodes : \A S \in SUBSET nodes :
      (\A c \in nodes : parent[c] \in S \cup {n} /\ state[c] = "PENDING" => c \in S)
        => m \in S}

\* TreeRepository.get_tree_for_node finds the tree.
Known(n) == registered /\ n \in nodes

\* (mutant) a state the enum does not have.
WithFailed(S) == [n \in NodeId |-> IF n \in S THEN "FAILED" ELSE state[n]]

\* set_node_error_sync on every node of S.
WithError(S) == [n \in NodeId |-> IF n \in S THEN "ERROR" ELSE state[n]]

\* MessageTree.update_state: silently ignores a node the tree no longer has.
UpdateState(n, s) ==
  state' = IF n \in linked /\ n \in nodes THEN [state EXCEPT ![n] = s] ELSE state

\* TreeQueueManager.mark_node_error, called when the processor has a tree.
MarkNodeError(n) ==
  state' = IF n \in linked /\ Known(n)
           THEN WithError({n} \cup PendingBelow(n))
           ELSE state

\* MessageTree.cancel_current_task.
CancelCurrentTask ==
  IF currentTask # None /\ Alive(currentTask) THEN {currentTask} ELSE {}

-----------------------------------------------------------------------------
(* Messages arrive.                                                         *)

\* A reply: its parent is resolved, then the status message is awaited.
Receive(n, p) ==
  /\ n \notin nodes /\ parent[n] = None /\ n # Root
  /\ arriving[n] = None
  /\ Known(p)
  /\ arriving' = [arriving EXCEPT ![n] = p]
  /\ UNCHANGED <<treeVars, state, procVars, taskVars, infoVars, clearing, wiping>>

\* (mutant) a free tree is not marked busy.
EnqueueForgetsBusy(n) ==
  IF isProcessing
  THEN /\ queue' = Append(queue, n)
       /\ UNCHANGED <<isProcessing, currentNode, currentTask, task>>
  ELSE /\ currentNode' = n /\ currentTask' = n
       /\ task' = [task EXCEPT ![n] = "created"]
       /\ UNCHANGED <<queue, isProcessing>>

\* (mutant) the newest message goes first.
EnqueueInFront(n) ==
  IF isProcessing
  THEN /\ queue' = <<n>> \o queue
       /\ UNCHANGED <<isProcessing, currentNode, currentTask, task>>
  ELSE /\ isProcessing' = TRUE /\ currentNode' = n /\ currentTask' = n
       /\ task' = [task EXCEPT ![n] = "created"]
       /\ UNCHANGED queue

\* TreeQueueProcessor.enqueue_and_start.
EnqueueAndStart(n) ==
  IF isProcessing
  THEN /\ queue' = Append(queue, n)
       /\ UNCHANGED <<isProcessing, currentNode, currentTask, task>>
  ELSE /\ isProcessing' = TRUE
       /\ currentNode' = n
       /\ currentTask' = n
       /\ task' = [task EXCEPT ![n] = "created"]
       /\ UNCHANGED queue

\* The status message is out: add_to_tree, then enqueue.
Deliver(n) ==
  /\ arriving[n] # None
  /\ Known(arriving[n])
  /\ nodes' = nodes \cup {n}
  /\ parent' = [parent EXCEPT ![n] = arriving[n]]
  /\ arriving' = [arriving EXCEPT ![n] = None]
  /\ EnqueueAndStart(n)
  /\ UNCHANGED <<registered, state, cancelReq, infoVars, clearing, wiping>>

\* The parent was cleared meanwhile: add_to_tree raises ValueError and the
\* message is dropped (parent only records that its id is used up).
DeliverFails(n) ==
  /\ arriving[n] # None
  /\ ~Known(arriving[n])
  /\ parent' = [parent EXCEPT ![n] = arriving[n]]
  /\ arriving' = [arriving EXCEPT ![n] = None]
  /\ UNCHANGED <<nodes, registered, state, procVars, taskVars, infoVars, clearing, wiping>>

-----------------------------------------------------------------------------
(* The task of a node.                                                      *)

\* (mutant) the next message is read but stays in the queue.
ProcessNextPeeks(n) ==
  IF queue = <<>>
  THEN /\ isProcessing' = FALSE /\ currentNode' = None
       /\ task' = [task EXCEPT ![n] = "dead"]
       /\ UNCHANGED <<queue, currentTask>>
  ELSE /\ isProcessing' = TRUE
       /\ currentNode' = Head(queue) /\ currentTask' = Head(queue)
       /\ task' = [task EXCEPT ![n] = "dead", ![Head(queue)] = "created"]
       /\ UNCHANGED queue

\* (mutant) the newest message is served first.
ProcessNewestNext(n) ==
  LET newest == queue[Len(queue)] IN
  IF queue = <<>>
  THEN /\ isProcessing' = FALSE /\ currentNode' = None
       /\ task' = [task EXCEPT ![n] = "dead"]
       /\ UNCHANGED <<queue, currentTask>>
  ELSE /\ isProcessing' = TRUE
       /\ queue' = SubSeq(queue, 1, Len(queue) - 1)
       /\ currentNode' = newest /\ currentTask' = newest
       /\ task' = [task EXCEPT ![n] = "dead", ![newest] = "created"]

\* TreeQueueProcessor._process_next, the last thing the task of n does.
ProcessNext(n) ==
  \/ /\ queue = <<>>
     /\ isProcessing' = FALSE
     /\ currentNode' = None
     /\ task' = [task EXCEPT ![n] = "dead"]
     /\ UNCHANGED <<queue, currentTask>>
  \/ /\ queue # <<>>
     /\ queue' = Tail(queue)
     /\ isProcessing' = TRUE
     /\ currentNode' = Head(queue)
     /\ IF Head(queue) \in nodes
        THEN /\ currentTask' = Head(queue)
             /\ task' = [task EXCEPT ![n] = "dead", ![Head(queue)] = "created"]
        ELSE /\ task' = [task EXCEPT ![n] = "dead"]
             /\ UNCHANGED currentTask

\* asyncio throws the CancelledError into a coroutine that has not begun: no
\* line of process_node runs, so neither does its `finally`.
CancelledBeforeStart(n) ==
  /\ task[n] = "created" /\ n \in cancelReq
  /\ task' = [task EXCEPT ![n] = "dead"]
  /\ cancelReq' = cancelReq \ {n}
  /\ UNCHANGED <<treeVars, state, procVars, infoVars, userVars>>

\* process_node finds its node already in ERROR.
Skip(n) ==
  /\ task[n] = "created" /\ n \notin cancelReq
  /\ state[n] = "ERROR"
  /\ ProcessNext(n)
  /\ UNCHANGED <<treeVars, state, cancelReq, infoVars, userVars>>

\* (mutant) process_node does not look at the state of its node.
StartAnyState(n) ==
  /\ task[n] = "created" /\ n \notin cancelReq
  /\ task' = [task EXCEPT ![n] = "running"]
  /\ linked' = IF Known(n) THEN linked \cup {n} ELSE linked
  /\ state' = IF Known(n) THEN [state EXCEPT ![n] = "IN_PROGRESS"] ELSE state
  /\ UNCHANGED <<treeVars, procVars, cancelReq, captured, userVars>>

\* process_node calls the processor, which looks its tree up.
Start(n) ==
  /\ task[n] = "created" /\ n \notin cancelReq
  /\ state[n] # "ERROR"
  /\ task' = [task EXCEPT ![n] = "running"]
  /\ linked' = IF Known(n) THEN linked \cup {n} ELSE linked
  /\ state' = IF Known(n) THEN [state EXCEPT ![n] = "IN_PROGRESS"] ELSE state
  /\ UNCHANGED <<treeVars, procVars, cancelReq, captured, userVars>>

\* get_or_create_session returned a session that was already known.
JoinSession(n) ==
  /\ task[n] = "running" /\ n \notin cancelReq
  /\ n \notin captured
  /\ captured' = captured \cup {n}
  /\ UNCHANGED <<treeVars, state, procVars, taskVars, linked, userVars>>

\* handle_session_info_event.
SessionInfo(n) ==
  /\ task[n] = "running" /\ n \notin cancelReq
  /\ n \notin captured
  /\ captured' = captured \cup {n}
  /\ UpdateState(n, "IN_PROGRESS")
  /\ UNCHANGED <<treeVars, procVars, taskVars, linked, userVars>>

\* An error event: from the CLI, or its stderr.  The stream goes on.
ErrorEvent(n) ==
  /\ task[n] = "running" /\ n \notin cancelReq
  /\ MarkNodeError(n)
  /\ UNCHANGED <<treeVars, procVars, taskVars, infoVars, userVars>>

\* The CLI exits: code 0 parses to [complete], any other to [error, complete].
Exit(n, ok) ==
  /\ task[n] = "running" /\ n \notin cancelReq
  /\ IF ok THEN UNCHANGED state ELSE MarkNodeError(n)
  /\ task' = [task EXCEPT ![n] = "completing"]
  /\ UNCHANGED <<treeVars, procVars, cancelReq, infoVars, userVars>>

\* process_parsed_cli_event, "complete".
Complete(n) ==
  /\ task[n] = "completing" /\ n \notin cancelReq
  /\ IF n \in captured THEN UpdateState(n, "COMPLETED") ELSE UNCHANGED state
  /\ task' = [task EXCEPT ![n] = "leaving"]
  /\ UNCHANGED <<treeVars, procVars, cancelReq, infoVars, userVars>>

\* An exception in the session or the stream: "Task Failed" is being shown.
Raise(n) ==
  /\ task[n] \in {"running", "completing"} /\ n \notin cancelReq
  /\ task' = [task EXCEPT ![n] = "failing"]
  /\ UNCHANGED <<treeVars, state, procVars, cancelReq, infoVars, userVars>>

Failed(n) ==
  /\ task[n] = "failing" /\ n \notin cancelReq
  /\ MarkNodeError(n)
  /\ task' = [task EXCEPT ![n] = "leaving"]
  /\ UNCHANGED <<treeVars, procVars, cancelReq, infoVars, userVars>>

\* An exception in the `except` block itself reaches process_node.
EscapesProcessor(n) ==
  /\ task[n] = "failing" /\ n \notin cancelReq
  /\ state' = IF n \in nodes THEN [state EXCEPT ![n] = "ERROR"] ELSE state
  /\ ProcessNext(n)
  /\ UNCHANGED <<treeVars, cancelReq, infoVars, userVars>>

\* The CancelledError is thrown at the await the task is suspended at.  While
\* the task is in an `except` block it only cuts that block short.
CancelDelivered(n) ==
  /\ n \in cancelReq
  /\ \/ /\ task[n] \in {"running", "completing"}
        /\ task' = [task EXCEPT ![n] = "stopping"]
     \/ /\ task[n] \in {"stopping", "failing"}
        /\ task' = [task EXCEPT ![n] = "leaving"]
  /\ cancelReq' = cancelReq \ {n}
  /\ UNCHANGED <<treeVars, state, procVars, infoVars, userVars>>

\* The end of the handler's `except CancelledError`.
Stopped(n) ==
  /\ task[n] = "stopping" /\ n \notin cancelReq
  /\ UpdateState(n, "ERROR")
  /\ task' = [task EXCEPT ![n] = "leaving"]
  /\ UNCHANGED <<treeVars, procVars, cancelReq, infoVars, userVars>>

\* (mutant) the task ends without calling _process_next.
FinishAlone(n) ==
  /\ task[n] = "leaving"
  /\ task' = [task EXCEPT ![n] = "dead"]
  /\ cancelReq' = cancelReq \ {n}
  /\ UNCHANGED <<treeVars, state, procVars, infoVars, userVars>>

\* The `finally` blocks of the handler and of process_node.  clear_current_node
\* and _process_next run without a suspension between them.
Finish(n) ==
  /\ task[n] = "leaving"
  /\ ProcessNext(n)
  /\ cancelReq' = cancelReq \ {n}
  /\ UNCHANGED <<treeVars, state, infoVars, userVars>>

-----------------------------------------------------------------------------
(* The user's commands.                                                     *)

Unfinished(S) == {n \in S \cap nodes : state[n] \notin Terminal}

\* The ids waiting in the queue.
Waiting == {queue[i] : i \in DOMAIN queue}

\* remove_if_present for every id of S: the rest keeps its order.  (Written as
\* the image of the increasing enumeration of the positions that stay.)
Without(S) ==
  LET kept == {i \in DOMAIN queue : queue[i] \notin S}
      Enumerations == {at \in [1..Cardinality(kept) -> kept] :
                         /\ \A i \in kept : \E k \in 1..Cardinality(kept) : at[k] = i
                         /\ \A k, l \in 1..Cardinality(kept) : k < l => at[k] < at[l]}
  IN  {[k \in 1..Cardinality(kept) |-> queue[at[k]]] : at \in Enumerations}

\* cancel_node and cancel_branch: the running node's task is cancelled, the
\* queued ones leave the queue, all that were not finished are in ERROR.
CancelNodes(S) ==
  /\ cancelReq' = IF currentNode \in Unfinished(S)
                  THEN cancelReq \cup CancelCurrentTask ELSE cancelReq
  /\ queue' \in Without(Unfinished(S) \ {currentNode})
  /\ state' = WithError(Unfinished(S))
  /\ UNCHANGED <<isProcessing, currentNode, currentTask>>

\* (mutant) the queue is not drained.
CancelTreeNoDrain ==
  /\ cancelReq' = cancelReq \cup CancelCurrentTask
  /\ state' = WithError(Unfinished(nodes))
  /\ isProcessing' = FALSE
  /\ currentNode' = None
  /\ UNCHANGED <<queue, currentTask>>

\* (mutant) only the queued nodes are marked, cleanup of the others is left out.
CancelTreeNoCleanup ==
  /\ cancelReq' = cancelReq \cup CancelCurrentTask
  /\ queue' = <<>>
  /\ state' = WithError(Waiting \cap nodes)
  /\ isProcessing' = FALSE
  /\ currentNode' = None
  /\ UNCHANGED currentTask

\* cancel_tree.
CancelTree ==
  /\ cancelReq' = cancelReq \cup CancelCurrentTask
  /\ queue' = <<>>
  /\ state' = WithError(Unfinished(nodes) \cup (Waiting \cap nodes))
  /\ isProcessing' = FALSE
  /\ currentNode' = None
  /\ UNCHANGED currentTask

\* "/stop" in reply to a message.
StopNode(n) ==
  /\ "stop_node" \in Commands
  /\ Known(n) /\ state[n] \notin Terminal
  /\ CancelNodes({n})
  /\ UNCHANGED <<treeVars, task, infoVars, userVars>>

\* "/stop" on its own.
StopTree ==
  /\ "stop_tree" \in Commands
  /\ registered
  /\ CancelTree
  /\ UNCHANGED <<treeVars, task, infoVars, userVars>>

\* "/clear" in reply to a message, up to the deletion of the chat messages.
ClearBranch(b) ==
  /\ IF b = Root THEN "clear_root" \in Commands ELSE "clear_branch" \in Commands
  /\ Known(b) /\ b \notin clearing
  /\ CancelNodes(Descendants(b))
  /\ clearing' = clearing \cup {b}
  /\ UNCHANGED <<treeVars, task, infoVars, arriving, wiping>>

\* The rest of it: remove_branch, which cancels again only for the root.
RemoveBranch(b) ==
  /\ b \in clearing
  /\ clearing' = clearing \ {b}
  /\ \/ /\ ~Known(b)
        /\ UNCHANGED <<treeVars, state, procVars, cancelReq>>
     \/ /\ Known(b) /\ b = Root
        /\ CancelTree
        /\ registered' = FALSE
        /\ UNCHANGED <<nodes, parent>>
     \/ /\ Known(b) /\ b # Root
        /\ nodes' = nodes \ Descendants(b)
        /\ UNCHANGED <<parent, registered, state, procVars, cancelReq>>
  /\ UNCHANGED <<task, infoVars, arriving, wiping>>

\* "/clear" on its own: stop_all_tasks, then the chat messages are deleted ...
ClearAll ==
  /\ "clear_all" \in Commands
  /\ registered /\ ~wiping
  /\ CancelTree
  /\ wiping' = TRUE
  /\ UNCHANGED <<treeVars, task, infoVars, arriving, clearing>>

\* ... and the handler gets a new, empty TreeQueueManager.
ReplaceTreeQueue ==
  /\ wiping
  /\ wiping' = FALSE
  /\ registered' = FALSE
  /\ UNCHANGED <<nodes, parent, state, procVars, taskVars, infoVars, arriving, clearing>>

-----------------------------------------------------------------------------
\* create_tree and enqueue run in one step.
Init ==
  /\ nodes = {Root}
  /\ parent = [n \in NodeId |-> None]
  /\ state = [n \in NodeId |-> "PENDING"]
  /\ queue = <<>>
  /\ isProcessing = TRUE
  /\ currentNode = Root
  /\ currentTask = Root
  /\ registered = TRUE
  /\ task = [n \in NodeId |-> IF n = Root THEN "created" ELSE "none"]
  /\ cancelReq = {}
  /\ linked = {}
  /\ captured = {}
  /\ arriving = [n \in NodeId |-> None]
  /\ clearing = {}
  /\ wiping = FALSE

TaskStep(n) ==
  \/ CancelledBeforeStart(n)
  \/ Skip(n)
  \/ Start(n)
  \/ JoinSession(n)
  \/ SessionInfo(n)
  \/ ErrorEvent(n)
  \/ \E ok \in BOOLEAN : Exit(n, ok)
  \/ Complete(n)
  \/ Raise(n)
  \/ Failed(n)
  \/ EscapesProcessor(n)
  \/ CancelDelivered(n)
  \/ Stopped(n)
  \/ Finish(n)

Command ==
  \/ \E n \in NodeId : StopNode(n)
  \/ StopTree
  \/ \E b \in NodeId : ClearBranch(b)
  \/ \E b \in NodeId : RemoveBranch(b)
  \/ ClearAll
  \/ ReplaceTreeQueue

Next ==
  \/ \E n, p \in NodeId : Receive(n, p)
  \/ \E n \in NodeId : Deliver(n) \/ DeliverFails(n)
  \/ \E n \in NodeId : TaskStep(n)
  \/ Command

Spec == Init /\ [][Next]_vars
-----------------------------------------------------------------------------
(* Properties.                                                              *)

\* Every variable has its type.
TypeOK ==
  /\ nodes \subseteq NodeId
  /\ parent \in [NodeId -> NodeId \cup {None}]
  /\ state \in [NodeId -> States]
  /\ queue \in Seq(NodeId)
  /\ isProcessing \in BOOLEAN
  /\ currentNode \in NodeId \cup {None}
  /\ currentTask \in NodeId \cup {None}
  /\ registered \in BOOLEAN
  /\ task \in [NodeId -> Phases]
  /\ cancelReq \subseteq NodeId
  /\ linked \subseteq NodeId
  /\ captured \subseteq NodeId
  /\ arriving \in [NodeId -> NodeId \cup {None}]
  /\ clearing \subseteq NodeId
  /\ wiping \in BOOLEAN

Queued(n) == n \in Waiting

\* No message waits in a tree that believes itself free, where nothing would
\* ever dequeue it: enqueue_and_start, _process_next and the cancellations
\* keep _queue and _is_processing together, however their steps interleave.
WaitingImpliesBusy == queue # <<>> => isProcessing

\* A message that a tree the bot still knows shows as PENDING ("Queued, waiting
\* to be processed") is never forgotten: it is in the queue, or its task is
\* about to run.
NoForgottenMessage ==
  registered => \A n \in nodes : state[n] = "PENDING" =>
      Queued(n) \/ (task[n] = "created" /\ n \notin cancelReq)

\* A message that waits has no task, had none, and waits once: nothing that
\* cancels, clears or restarts a tree can serve one message twice.
ServedOnce ==
  /\ \A n \in NodeId : Queued(n) => task[n] = "none" /\ state[n] \in {"PENDING", "ERROR"}
  /\ \A i, j \in DOMAIN queue : queue[i] = queue[j] => i = j

\* COMPLETED is final, and a node in ERROR leaves it only through its own
\* running task when nobody cancelled that task: what the user stopped, or a
\* failed parent took down, before its task ran or while it was being
\* cancelled, is never shown as running or done again.
NoResurrection ==
  [][\A n \in NodeId :
       /\ state[n] = "COMPLETED" => state'[n] = "COMPLETED"
       /\ state[n] = "ERROR" /\ state'[n] # "ERROR" =>
            task[n] \in {"running", "completing"} /\ n \notin cancelReq]_vars

\* The commands that leave a tree as a whole alone.
ReplyScoped == Commands \subseteq {"stop_node", "clear_branch"}

ActiveNodes == {n \in NodeId : task[n] \in Active \cup {"created"}}

\* While the user only gives reply-scoped commands, a tree runs one task at a
\* time, and it is the task and the node a "/stop" would reach.
Serial ==
  ReplyScoped =>
    \A n \in ActiveNodes :
      /\ ActiveNodes = {n}
      /\ isProcessing
      /\ currentTask = n
      /\ currentNode = n

\* A reply runs only when the message it replies to is through: that one's
\* task is over, or it was taken out of the queue.  So the session to fork
\* from, read once by get_parent_session_id, will not change any more.
ChildAfterParent ==
  ReplyScoped =>
    \A n \in ActiveNodes : n # Root =>
      parent[n] \notin ActiveNodes /\ ~Queued(parent[n])

(***************************************************************************)
(* The abstract view: a server of messages.                                 *)
(***************************************************************************)
Server ==
  INSTANCE SerialQueue
    WITH Message <- NodeId, First <- Root, Nobody <- None,
         arrived <- {Root} \cup {n \in NodeId : parent[n] # None},
         waiting <- queue,
         serving <- currentNode,
         working <- (ActiveNodes # {})

\* With reply-scoped commands the tree is a serial queue: no message
\* overtakes another, whatever is stopped, cleared or lost in between.
ImplementsSerialQueue == Server!SSpec

(***************************************************************************)
(* What makes the invariants above inductive.                               *)
(***************************************************************************)

\* An id no message has used yet.
Fresh(n) == n # Root /\ parent[n] = None

FreshIds ==
  /\ \A n \in NodeId : arriving[n] # None => Fresh(n)
  /\ \A n \in NodeId : Fresh(n) =>
       /\ n \notin nodes /\ ~Queued(n) /\ n # currentNode /\ n # currentTask
       /\ task[n] = "none" /\ n \notin cancelReq /\ state[n] = "PENDING"
       /\ \A m \in NodeId : parent[m] # n /\ arriving[m] # n

CancelsLiveTask == \A n \in cancelReq : Alive(n)

\* The task that cancel_current_task would reach is the current node's.
CurrentTaskMatches == currentNode \in nodes => currentTask = currentNode

\* Nothing but a reply-scoped command is going on.
OnlyReplyScoped == ReplyScoped => registered /\ ~wiping /\ Root \notin clearing

\* The queue is in the order of the conversation.
ParentsFirst ==
  \A i, j \in DOMAIN queue : parent[queue[i]] = queue[j] => j < i

\* A message is shown as COMPLETED only when its task is done with it.
CompletedIsOver ==
  \A n \in NodeId : state[n] = "COMPLETED" => task[n] \in {"leaving", "dead"}

\* The tree is busy exactly when it names a current node.
BusyNamesNode == isProcessing <=> currentNode # None

IInv ==
  /\ TypeOK
  /\ WaitingImpliesBusy
  /\ ServedOnce
  /\ NoForgottenMessage
  /\ FreshIds
  /\ CancelsLiveTask
  /\ CurrentTaskMatches
  /\ OnlyReplyScoped
  /\ ParentsFirst
  /\ Serial
  /\ ChildAfterParent

\* cancel_node cancels "without affecting other nodes", _process_next goes on
\* with "the next message in queue, if any": while a message waits some task
\* is going to dequeue it.
SomebodyServes ==
  queue # <<>> => \E n \in NodeId : Alive(n) /\ ~(task[n] = "created" /\ n \in cancelReq)

(***************************************************************************)
(* The event loop runs every task that can go on, the platform answers, and *)
(* the CLI process exits (or its session fails).                            *)
(***************************************************************************)
Progress(n) ==
  \/ Deliver(n) \/ DeliverFails(n)
  \/ CancelledBeforeStart(n) \/ Skip(n) \/ Start(n)
  \/ Exit(n, TRUE) \/ Complete(n) \/ Failed(n)
  \/ CancelDelivered(n) \/ Stopped(n) \/ Finish(n)

FairSpec == Spec /\ \A n \in NodeId : WF_vars(Progress(n))

\* Every message that waits is served or cancelled in the end.
EveryMessageServed == \A n \in NodeId : Queued(n) ~> ~Queued(n)
=============================================================================
