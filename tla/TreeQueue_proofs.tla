--------------------------- MODULE TreeQueue_proofs ---------------------------
(* Proofs about TreeQueue, for every set of messages and of commands.       *)
EXTENDS TreeQueue, SequenceTheorems, FiniteSetTheorems, TLAPS

USE TreeQueueAssumption DEF TreeQueueAssumption

-----------------------------------------------------------------------------
(* The queue operations.                                                    *)

\* What removing ids from a queue leaves: a queue again, of those ids that
\* were waiting and not removed, empty if it was empty.
LEMMA WithoutProperties ==
  ASSUME queue \in Seq(NodeId), NEW S, NEW q \in Without(S)
  PROVE  /\ q \in Seq(NodeId)
         /\ {q[i] : i \in DOMAIN q} = Waiting \ S
         /\ queue = <<>> => q = <<>>
         /\ \E at \in [DOMAIN q -> DOMAIN queue] :
              /\ \A i \in DOMAIN q : q[i] = queue[at[i]]
              /\ \A i, j \in DOMAIN q : i < j => at[i] < at[j]
<1> DEFINE kept == {i \in DOMAIN queue : queue[i] \notin S}
           m == Cardinality(kept)
<1>1. PICK at \in [1..m -> kept] :
        /\ \A i \in kept : \E k \in 1..m : at[k] = i
        /\ \A k, l \in 1..m : k < l => at[k] < at[l]
        /\ q = [k \in 1..m |-> queue[at[k]]]
  BY DEF Without
<1>2. DOMAIN queue = 1..Len(queue) /\ IsFiniteSet(1..Len(queue))
  BY FS_Interval
<1>3. m \in Nat
  BY <1>2, FS_Subset, FS_CardinalityType
<1>4. \A k \in 1..m : queue[at[k]] \in NodeId \ S
  BY <1>1, <1>2
<1>5. q \in Seq(NodeId)
  BY <1>1, <1>3, <1>4, IsASeq
<1>6. {q[i] : i \in DOMAIN q} = Waiting \ S
  <2>1. DOMAIN q = 1..m
    BY <1>1
  <2>2. ASSUME NEW k \in 1..m PROVE q[k] \in Waiting \ S
    BY <1>1, <1>4 DEF Waiting
  <2>3. ASSUME NEW n \in Waiting \ S PROVE \E k \in 1..m : q[k] = n
    <3>1. PICK i \in DOMAIN queue : queue[i] = n
      BY DEF Waiting
    <3>2. i \in kept
      BY <3>1
    <3> QED BY <1>1, <3>1, <3>2
  <2> QED BY <2>1, <2>2, <2>3
<1>7. ASSUME queue = <<>> PROVE q = <<>>
  <2>1. kept = {}
    BY <1>7
  <2>2. m = 0
    BY <2>1, FS_EmptySet
  <2> HIDE DEF m
  <2> QED BY <1>1, <2>2, <1>5
<1>8. /\ at \in [DOMAIN q -> DOMAIN queue]
      /\ \A i \in DOMAIN q : q[i] = queue[at[i]]
      /\ \A i, j \in DOMAIN q : i < j => at[i] < at[j]
  BY <1>1
<1> QED BY <1>5, <1>6, <1>7, <1>8

-----------------------------------------------------------------------------
(* Type correctness.                                                        *)

\* enqueue_and_start, _process_next and the cancellations keep the types of
\* the queue and of the processing state.
LEMMA EnqueueTyped ==
  ASSUME TypeOK, NEW n \in NodeId, EnqueueAndStart(n)
  PROVE  /\ queue' \in Seq(NodeId)
         /\ isProcessing' \in BOOLEAN
         /\ currentNode' \in NodeId \cup {None}
         /\ currentTask' \in NodeId \cup {None}
         /\ task' \in [NodeId -> Phases]
<1>1. CASE isProcessing
  <2>1. queue' = Append(queue, n) /\ UNCHANGED <<isProcessing, currentNode, currentTask, task>>
    BY <1>1 DEF EnqueueAndStart
  <2> QED BY <2>1, AppendProperties DEF TypeOK
<1>2. CASE ~isProcessing
  BY <1>2 DEF TypeOK, EnqueueAndStart, Phases
<1> QED BY <1>1, <1>2

LEMMA ProcessNextTyped ==
  ASSUME TypeOK, NEW n \in NodeId, ProcessNext(n)
  PROVE  /\ queue' \in Seq(NodeId)
         /\ isProcessing' \in BOOLEAN
         /\ currentNode' \in NodeId \cup {None}
         /\ currentTask' \in NodeId \cup {None}
         /\ task' \in [NodeId -> Phases]
<1>1. CASE queue = <<>>
  BY <1>1 DEF TypeOK, ProcessNext, Phases
<1>2. CASE queue # <<>>
  <2>1. Head(queue) \in NodeId /\ Tail(queue) \in Seq(NodeId)
    BY <1>2, HeadTailProperties DEF TypeOK
  <2> QED BY <1>2, <2>1 DEF TypeOK, ProcessNext, Phases
<1> QED BY <1>1, <1>2

LEMMA CancelNodesTyped ==
  ASSUME TypeOK, NEW S, CancelNodes(S)
  PROVE  /\ queue' \in Seq(NodeId)
         /\ isProcessing' \in BOOLEAN
         /\ currentNode' \in NodeId \cup {None}
         /\ currentTask' \in NodeId \cup {None}
         /\ cancelReq' \subseteq NodeId
         /\ state' \in [NodeId -> States]
<1>1. queue' \in Seq(NodeId)
  BY WithoutProperties DEF TypeOK, CancelNodes
<1> QED BY <1>1 DEF TypeOK, CancelNodes, CancelCurrentTask, WithError, States

LEMMA CancelTreeTyped ==
  ASSUME TypeOK, CancelTree
  PROVE  /\ queue' \in Seq(NodeId)
         /\ isProcessing' \in BOOLEAN
         /\ currentNode' \in NodeId \cup {None}
         /\ currentTask' \in NodeId \cup {None}
         /\ cancelReq' \subseteq NodeId
         /\ state' \in [NodeId -> States]
BY EmptySeq DEF TypeOK, CancelTree, CancelCurrentTask, WithError, States

\* One step of a task keeps the types.
LEMMA TaskStepTyped ==
  ASSUME TypeOK, NEW n \in NodeId, TaskStep(n)
  PROVE  TypeOK'
<1> USE DEF TypeOK, treeVars, procVars, taskVars, infoVars, userVars, States, Phases
<1>1. CASE CancelledBeforeStart(n)
  BY <1>1 DEF CancelledBeforeStart
<1>2. CASE Skip(n)
  <2>1. ProcessNext(n)
    BY <1>2 DEF Skip
  <2> QED BY <1>2, <2>1, ProcessNextTyped DEF Skip
<1>3. CASE Start(n)
  BY <1>3 DEF Start
<1>4. CASE JoinSession(n)
  BY <1>4 DEF JoinSession
<1>5. CASE SessionInfo(n)
  BY <1>5 DEF SessionInfo, UpdateState
<1>6. CASE ErrorEvent(n)
  BY <1>6 DEF ErrorEvent, MarkNodeError, WithError
<1>7. CASE \E ok \in BOOLEAN : Exit(n, ok)
  BY <1>7 DEF Exit, MarkNodeError, WithError
<1>8. CASE Complete(n)
  BY <1>8 DEF Complete, UpdateState
<1>9. CASE Raise(n)
  BY <1>9 DEF Raise
<1>10. CASE Failed(n)
  BY <1>10 DEF Failed, MarkNodeError, WithError
<1>11. CASE EscapesProcessor(n)
  <2>1. ProcessNext(n)
    BY <1>11 DEF EscapesProcessor
  <2> QED BY <1>11, <2>1, ProcessNextTyped DEF EscapesProcessor
<1>12. CASE CancelDelivered(n)
  BY <1>12 DEF CancelDelivered
<1>13. CASE Stopped(n)
  BY <1>13 DEF Stopped, UpdateState
<1>14. CASE Finish(n)
  <2>1. ProcessNext(n)
    BY <1>14 DEF Finish
  <2> QED BY <1>14, <2>1, ProcessNextTyped DEF Finish
<1> QED
  BY <1>1, <1>2, <1>3, <1>4, <1>5, <1>6, <1>7, <1>8, <1>9, <1>10, <1>11, <1>12,
     <1>13, <1>14 DEF TaskStep

\* A user command keeps the types.
LEMMA CommandTyped ==
  ASSUME TypeOK, Command
  PROVE  TypeOK'
<1> USE DEF TypeOK, treeVars, procVars, taskVars, infoVars, userVars
<1>1. ASSUME NEW n \in NodeId, StopNode(n) PROVE TypeOK'
  BY <1>1, CancelNodesTyped DEF StopNode
<1>2. CASE StopTree
  BY <1>2, CancelTreeTyped DEF StopTree
<1>3. ASSUME NEW b \in NodeId, ClearBranch(b) PROVE TypeOK'
  BY <1>3, CancelNodesTyped DEF ClearBranch
<1>4. ASSUME NEW b \in NodeId, RemoveBranch(b) PROVE TypeOK'
  BY <1>4, CancelTreeTyped DEF RemoveBranch
<1>5. CASE ClearAll
  BY <1>5, CancelTreeTyped DEF ClearAll
<1>6. CASE ReplaceTreeQueue
  BY <1>6 DEF ReplaceTreeQueue
<1> QED BY <1>1, <1>2, <1>3, <1>4, <1>5, <1>6 DEF Command

\* Every step keeps the types.
LEMMA NextTyped == TypeOK /\ [Next]_vars => TypeOK'
<1> SUFFICES ASSUME TypeOK, [Next]_vars PROVE TypeOK'
  OBVIOUS
<1> USE DEF TypeOK, treeVars, procVars, taskVars, infoVars, userVars
<1>1. ASSUME NEW n \in NodeId, NEW p \in NodeId, Receive(n, p) PROVE TypeOK'
  BY <1>1 DEF Receive
<1>2. ASSUME NEW n \in NodeId, Deliver(n) PROVE TypeOK'
  BY <1>2, EnqueueTyped DEF Deliver
<1>3. ASSUME NEW n \in NodeId, DeliverFails(n) PROVE TypeOK'
  BY <1>3 DEF DeliverFails
<1>4. ASSUME NEW n \in NodeId, TaskStep(n) PROVE TypeOK'
  BY <1>4, TaskStepTyped
<1>5. CASE Command
  BY <1>5, CommandTyped
<1>6. CASE UNCHANGED vars
  BY <1>6 DEF vars
<1> QED BY <1>1, <1>2, <1>3, <1>4, <1>5, <1>6 DEF Next

\* Every variable keeps its type in every reachable state.
THEOREM TypeCorrect == Spec => []TypeOK
<1>1. Init => TypeOK
  BY EmptySeq DEF Init, TypeOK, States, Phases
<1> QED BY <1>1, NextTyped, PTL DEF Spec

-----------------------------------------------------------------------------
(* The queue is never stranded.                                             *)

\* In every reachable state, for any commands: a message waits only in a tree
\* that knows it is busy.
THEOREM NeverStranded == Spec => []WaitingImpliesBusy
<1>1. Init => WaitingImpliesBusy
  BY DEF Init, WaitingImpliesBusy
<1>2. TypeOK /\ WaitingImpliesBusy /\ [Next]_vars => WaitingImpliesBusy'
  <2> SUFFICES ASSUME TypeOK, WaitingImpliesBusy, [Next]_vars
               PROVE  WaitingImpliesBusy'
    OBVIOUS
  <2> USE DEF WaitingImpliesBusy, procVars
  <2>1. ASSUME NEW n, ProcessNext(n) PROVE WaitingImpliesBusy'
    BY <2>1 DEF ProcessNext, TypeOK
  <2>2. ASSUME NEW S, CancelNodes(S) PROVE WaitingImpliesBusy'
    BY <2>2, WithoutProperties DEF CancelNodes, TypeOK
  <2>3. ASSUME NEW n, EnqueueAndStart(n) PROVE WaitingImpliesBusy'
    BY <2>3 DEF EnqueueAndStart, TypeOK
  <2>4. CASE CancelTree
    BY <2>4 DEF CancelTree
  <2>5. ASSUME NEW n \in NodeId, NEW p \in NodeId, Receive(n, p)
        PROVE  WaitingImpliesBusy'
    BY <2>5 DEF Receive
  <2>6. ASSUME NEW n \in NodeId, Deliver(n) \/ DeliverFails(n)
        PROVE  WaitingImpliesBusy'
    BY <2>3, <2>6 DEF Deliver, DeliverFails
  <2>7. ASSUME NEW n \in NodeId, TaskStep(n) PROVE WaitingImpliesBusy'
    BY <2>1, <2>7
    DEF TaskStep, CancelledBeforeStart, Skip, Start, JoinSession, SessionInfo,
        ErrorEvent, Exit, Complete, Raise, Failed, EscapesProcessor,
        CancelDelivered, Stopped, Finish
  <2>8. CASE Command
    BY <2>2, <2>4, <2>8
    DEF Command, StopNode, StopTree, ClearBranch, RemoveBranch, ClearAll,
        ReplaceTreeQueue
  <2>9. CASE UNCHANGED vars
    BY <2>9 DEF vars
  <2> QED BY <2>5, <2>6, <2>7, <2>8, <2>9 DEF Next
<1> QED BY <1>1, <1>2, TypeCorrect, PTL DEF Spec

-----------------------------------------------------------------------------
(* The inductive invariant.                                                 *)

\* A step of the task of n that leaves the tree and the queue alone.
LEMMA QuietStepKeepsIInv ==
  ASSUME IInv, TypeOK', NEW n \in NodeId, Alive(n),
         UNCHANGED <<treeVars, procVars, userVars>>,
         \A m \in NodeId : m # n => task'[m] = task[m],
         task'[n] \in Active \cup {"dead"},
         cancelReq' = cancelReq \/ cancelReq' = cancelReq \ {n},
         task'[n] = "dead" => n \notin cancelReq',
         \A m \in NodeId : m # n =>
            state'[m] = state[m] \/ (m \in nodes /\ state'[m] = "ERROR"),
         registered /\ n \in nodes => state'[n] # "PENDING"
  PROVE  IInv'
<1> USE DEF IInv, treeVars, procVars, userVars, Alive, Active
<1>1. Waiting' = Waiting
  BY DEF Waiting
<1>2. ~Queued(n)
  BY DEF ServedOnce
<1>3. WaitingImpliesBusy'
  BY DEF WaitingImpliesBusy
<1>4. ServedOnce'
  BY <1>1, <1>2 DEF ServedOnce, Queued, Waiting, TypeOK
<1>5. NoForgottenMessage'
  BY <1>1 DEF NoForgottenMessage, Queued, TypeOK
<1>6. FreshIds'
  BY <1>1 DEF FreshIds, Fresh, Queued
<1>7. CancelsLiveTask'
  BY DEF CancelsLiveTask, TypeOK
<1>8. CurrentTaskMatches'
  BY DEF CurrentTaskMatches
<1>9. OnlyReplyScoped'
  BY DEF OnlyReplyScoped
<1>10. ParentsFirst'
  BY DEF ParentsFirst
<1>11. ActiveNodes' \subseteq ActiveNodes
  BY DEF ActiveNodes
<1>12. Serial'
  BY <1>11 DEF Serial, ActiveNodes
<1>13. ChildAfterParent'
  BY <1>1, <1>11 DEF ChildAfterParent, Queued
<1> QED
  BY <1>3, <1>4, <1>5, <1>6, <1>7, <1>8, <1>9, <1>10, <1>12, <1>13

\* The end of the task of n: _process_next hands the tree to the next message.
LEMMA ProcessNextKeepsIInv ==
  ASSUME IInv, TypeOK', NEW n \in NodeId, Alive(n), ProcessNext(n),
         UNCHANGED <<treeVars, userVars>>,
         cancelReq' = cancelReq \ {n},
         \A m \in NodeId : m # n => state'[m] = state[m],
         registered /\ n \in nodes => state'[n] # "PENDING"
  PROVE  IInv'
<1> USE DEF IInv, treeVars, userVars, Alive, Active
<1>0. ~Queued(n)
  BY DEF ServedOnce
<1>1. CASE queue = <<>>
  <2>1. /\ queue' = <<>> /\ isProcessing' = FALSE /\ currentNode' = None
        /\ task' = [task EXCEPT ![n] = "dead"] /\ UNCHANGED currentTask
    BY <1>1 DEF ProcessNext
  <2>2. Waiting = {} /\ Waiting' = {}
    BY <1>1, <2>1 DEF Waiting
  <2>3. ActiveNodes' = ActiveNodes \ {n}
    BY <2>1 DEF ActiveNodes, TypeOK
  <2>4. NoForgottenMessage'
    BY <2>1, <2>2 DEF NoForgottenMessage, Queued, TypeOK
  <2>5. ServedOnce'
    BY <2>1, <2>2 DEF ServedOnce, Queued
  <2>6. FreshIds'
    BY <2>1, <2>2 DEF FreshIds, Fresh, Queued, TypeOK
  <2>7. CancelsLiveTask'
    BY <2>1 DEF CancelsLiveTask, TypeOK
  <2>8. Serial' /\ ChildAfterParent'
    BY <2>2, <2>3 DEF Serial, ChildAfterParent, ActiveNodes, Queued
  <2> QED
    BY <2>1, <2>4, <2>5, <2>6, <2>7, <2>8
    DEF WaitingImpliesBusy, CurrentTaskMatches, OnlyReplyScoped, ParentsFirst, TypeOK
<1>2. CASE queue # <<>>
  <2> DEFINE h == Head(queue)
  <2>1. /\ queue' = Tail(queue) /\ isProcessing' = TRUE /\ currentNode' = h
        /\ h \in nodes => currentTask' = h /\ task' = [task EXCEPT ![n] = "dead", ![h] = "created"]
        /\ h \notin nodes => currentTask' = currentTask /\ task' = [task EXCEPT ![n] = "dead"]
    BY <1>2 DEF ProcessNext
  <2>2. /\ h = queue[1] /\ 1 \in DOMAIN queue /\ h \in NodeId
        /\ Len(queue') = Len(queue) - 1
        /\ \A i \in DOMAIN queue' : i + 1 \in DOMAIN queue /\ queue'[i] = queue[i + 1]
    BY <1>2, <2>1, HeadTailProperties DEF TypeOK
  <2>0. DOMAIN queue = 1..Len(queue) /\ DOMAIN queue' = 1..Len(queue') /\ Len(queue) \in Nat
    BY DEF TypeOK
  <2>3. Waiting' = Waiting \ {h}
    <3>1. ASSUME NEW i \in DOMAIN queue' PROVE queue'[i] \in Waiting \ {h}
      <4>1. i + 1 \in DOMAIN queue /\ queue'[i] = queue[i + 1] /\ i + 1 # 1
        BY <2>2, <2>0
      <4> QED BY <4>1, <2>2 DEF Waiting, ServedOnce
    <3>2. ASSUME NEW i \in DOMAIN queue, queue[i] # h
          PROVE  i - 1 \in DOMAIN queue' /\ queue'[i - 1] = queue[i]
      BY <2>2, <3>2 DEF TypeOK
    <3> QED BY <3>1, <3>2 DEF Waiting
  <2>4. h \in Waiting /\ task[h] = "none" /\ h # n /\ h \notin cancelReq
    BY <2>2, <1>0 DEF Waiting, Queued, ServedOnce, CancelsLiveTask
  <2>5. ServedOnce'
    <3>1. \A i, j \in DOMAIN queue' : queue'[i] = queue'[j] => i = j
      BY <2>2 DEF ServedOnce, TypeOK
    <3>2. \A m \in NodeId : Queued(m)' => task'[m] = "none" /\ state'[m] \in {"PENDING", "ERROR"}
      BY <2>1, <2>3, <2>4, <1>0 DEF ServedOnce, Queued, TypeOK
    <3> QED BY <3>1, <3>2 DEF ServedOnce
  <2>6. NoForgottenMessage'
    BY <2>1, <2>2, <2>3, <2>4 DEF NoForgottenMessage, Queued, TypeOK
  <2>7. FreshIds'
    BY <2>1, <2>2, <2>3, <2>4 DEF FreshIds, Fresh, Queued, TypeOK
  <2>8. CancelsLiveTask'
    BY <2>1, <2>2, <2>4 DEF CancelsLiveTask, TypeOK
  <2>9. ParentsFirst'
    BY <2>2 DEF ParentsFirst, TypeOK
  <2>10. ReplyScoped => ActiveNodes = {n}
    BY DEF Serial, ActiveNodes
  <2>11. ReplyScoped => ActiveNodes' = IF h \in nodes THEN {h} ELSE {}
    <3>1. CASE h \in nodes
      BY <3>1, <2>1, <2>2, <2>4, <2>10 DEF ActiveNodes, TypeOK
    <3>2. CASE h \notin nodes
      BY <3>2, <2>1, <2>2, <2>4, <2>10 DEF ActiveNodes, TypeOK
    <3> QED BY <3>1, <3>2
  <2>12. Serial'
    BY <2>1, <2>11 DEF Serial
  <2>13. parent[h] # h /\ parent[h] \notin Waiting'
    <3>1. \A j \in DOMAIN queue : parent[h] # queue[j]
      <4> SUFFICES ASSUME NEW j \in DOMAIN queue, parent[queue[1]] = queue[j] PROVE FALSE
        BY <2>2
      <4>1. j < 1
        BY <2>2 DEF ParentsFirst
      <4> QED BY <4>1, <2>0
    <3> QED BY <2>2, <2>3, <3>1 DEF Waiting
  <2>14. ChildAfterParent'
    BY <2>11, <2>13 DEF ChildAfterParent, Queued
  <2> QED
    BY <2>1, <2>5, <2>6, <2>7, <2>8, <2>9, <2>12, <2>14
    DEF WaitingImpliesBusy, CurrentTaskMatches, OnlyReplyScoped, TypeOK
<1> QED BY <1>1, <1>2

\* A reply enters the tree: it starts at once in a free tree, waits in a busy
\* one.
LEMMA DeliverKeepsIInv ==
  ASSUME IInv, TypeOK', NEW n \in NodeId, Deliver(n)
  PROVE  IInv'
<1> USE DEF IInv, userVars, infoVars, Alive, Active
<1> DEFINE p == arriving[n]
<1>1. /\ p # None /\ p \in nodes /\ p \in NodeId /\ p # n
      /\ Fresh(n) /\ n \notin nodes /\ n \notin Waiting /\ n # currentNode /\ n # currentTask
      /\ task[n] = "none" /\ n \notin cancelReq
      /\ \A m \in NodeId : parent[m] # n /\ arriving[m] # n
  BY DEF Deliver, Known, FreshIds, Queued, TypeOK
<1>2. /\ nodes' = nodes \cup {n} /\ parent' = [parent EXCEPT ![n] = p]
      /\ arriving' = [arriving EXCEPT ![n] = None]
      /\ UNCHANGED <<registered, state, cancelReq, clearing, wiping>>
  BY DEF Deliver
<1>3. CASE isProcessing
  <2>1. queue' = Append(queue, n) /\ UNCHANGED <<isProcessing, currentNode, currentTask, task>>
    BY <1>3 DEF Deliver, EnqueueAndStart
  <2>2. /\ DOMAIN queue = 1..Len(queue) /\ Len(queue) \in Nat
        /\ DOMAIN queue' = 1..(Len(queue) + 1)
        /\ \A i \in DOMAIN queue : queue'[i] = queue[i] /\ queue[i] # n
        /\ queue'[Len(queue) + 1] = n
    BY <2>1, <1>1, AppendProperties DEF TypeOK, Waiting
  <2>3. Waiting' = Waiting \cup {n}
    <3>1. ASSUME NEW i \in DOMAIN queue' PROVE queue'[i] \in Waiting \cup {n}
      BY <2>2 DEF Waiting
    <3>2. ASSUME NEW m \in Waiting \cup {n} PROVE \E i \in DOMAIN queue' : queue'[i] = m
      BY <2>2 DEF Waiting
    <3> QED BY <3>1, <3>2 DEF Waiting
  <2>4. ServedOnce'
    <3>1. \A i, j \in DOMAIN queue' : queue'[i] = queue'[j] => i = j
      BY <2>2 DEF ServedOnce
    <3>2. \A m \in NodeId : Queued(m)' => task'[m] = "none" /\ state'[m] \in {"PENDING", "ERROR"}
      <4>1. state[n] \in {"PENDING", "ERROR"}
        BY <1>1 DEF FreshIds
      <4> QED BY <4>1, <1>1, <1>2, <2>1, <2>3 DEF ServedOnce, Queued
    <3> QED BY <3>1, <3>2 DEF ServedOnce
  <2>5. NoForgottenMessage'
    BY <1>2, <2>1, <2>3 DEF NoForgottenMessage, Queued
  <2>6. FreshIds'
    BY <1>1, <1>2, <2>1, <2>3 DEF FreshIds, Fresh, Queued, TypeOK
  <2>7. ParentsFirst'
    <3> SUFFICES ASSUME NEW i \in DOMAIN queue', NEW j \in DOMAIN queue',
                        parent'[queue'[i]] = queue'[j]
                 PROVE  j < i
      BY DEF ParentsFirst
    <3>1. CASE i \in DOMAIN queue
      <4>1. parent[queue[i]] = queue'[j] /\ queue[i] \in NodeId
        BY <3>1, <1>1, <1>2, <2>2 DEF TypeOK
      <4>2. queue'[j] # n
        BY <4>1, <1>1
      <4>3. j \in DOMAIN queue
        BY <4>2, <2>2
      <4> QED BY <3>1, <4>1, <4>3, <2>2 DEF ParentsFirst
    <3>2. CASE i = Len(queue) + 1
      <4>1. queue'[j] = p
        BY <3>2, <1>2, <2>2 DEF TypeOK
      <4> QED BY <4>1, <3>2, <1>1, <2>2
    <3> QED BY <3>1, <3>2, <2>2
  <2>8. Serial' /\ ActiveNodes' = ActiveNodes
    BY <2>1 DEF Serial, ActiveNodes
  <2>9. ChildAfterParent'
    <3> SUFFICES ASSUME ReplyScoped, NEW m \in ActiveNodes, m # Root
                 PROVE  parent'[m] \notin ActiveNodes /\ parent'[m] \notin Waiting'
      BY <2>8 DEF ChildAfterParent, Queued
    <3>1. m # n /\ m \in NodeId
      BY <1>1 DEF ActiveNodes
    <3>2. parent'[m] = parent[m] /\ parent[m] # n
      BY <3>1, <1>1, <1>2 DEF TypeOK
    <3> QED BY <3>1, <3>2, <2>3 DEF ChildAfterParent, Queued
  <2> QED
    BY <1>1, <1>2, <1>3, <2>1, <2>4, <2>5, <2>6, <2>7, <2>8, <2>9
    DEF WaitingImpliesBusy, CancelsLiveTask, CurrentTaskMatches, OnlyReplyScoped
<1>4. CASE ~isProcessing
  <2>1. /\ isProcessing' = TRUE /\ currentNode' = n /\ currentTask' = n
        /\ task' = [task EXCEPT ![n] = "created"] /\ UNCHANGED queue
    BY <1>4 DEF Deliver, EnqueueAndStart
  <2>2. queue = <<>> /\ Waiting = {} /\ Waiting' = {}
    BY <1>4, <2>1 DEF WaitingImpliesBusy, Waiting
  <2>3. ReplyScoped => ActiveNodes = {} /\ ActiveNodes' = {n}
    BY <1>4, <2>1 DEF Serial, ActiveNodes, TypeOK
  <2>4. Serial' /\ ChildAfterParent'
    BY <1>1, <1>2, <2>1, <2>2, <2>3 DEF Serial, ChildAfterParent, Queued, TypeOK
  <2>5. NoForgottenMessage'
    BY <1>1, <1>2, <2>1, <2>2 DEF NoForgottenMessage, Queued, TypeOK
  <2>6. FreshIds'
    BY <1>1, <1>2, <2>1, <2>2 DEF FreshIds, Fresh, Queued, TypeOK
  <2>7. CancelsLiveTask'
    BY <1>1, <1>2, <2>1 DEF CancelsLiveTask, TypeOK
  <2> QED
    BY <1>2, <2>1, <2>2, <2>4, <2>5, <2>6, <2>7
    DEF WaitingImpliesBusy, ServedOnce, Queued, CurrentTaskMatches, OnlyReplyScoped,
        ParentsFirst
<1> QED BY <1>3, <1>4

\* cancel_node and cancel_branch.
LEMMA CancelNodesKeepsIInv ==
  ASSUME IInv, TypeOK', NEW S, CancelNodes(S),
         UNCHANGED <<treeVars, task, infoVars, arriving, wiping>>,
         ReplyScoped => Root \notin clearing'
  PROVE  IInv'
<1> USE DEF IInv, treeVars, Alive, Active
<1> DEFINE gone == Unfinished(S) \ {currentNode}
<1>1. /\ queue' \in Without(gone) /\ state' = WithError(Unfinished(S))
      /\ UNCHANGED <<isProcessing, currentNode, currentTask>>
      /\ cancelReq' = IF currentNode \in Unfinished(S)
                      THEN cancelReq \cup CancelCurrentTask ELSE cancelReq
  BY DEF CancelNodes
<1>2. /\ Waiting' = Waiting \ gone
      /\ queue = <<>> => queue' = <<>>
  <2>1. queue \in Seq(NodeId)
    BY DEF TypeOK
  <2>2. /\ {queue'[i] : i \in DOMAIN queue'} = Waiting \ gone
        /\ queue = <<>> => queue' = <<>>
    BY <1>1, <2>1, WithoutProperties
  <2> QED BY <2>2 DEF Waiting
<1>3. PICK at \in [DOMAIN queue' -> DOMAIN queue] :
        /\ \A i \in DOMAIN queue' : queue'[i] = queue[at[i]]
        /\ \A i, j \in DOMAIN queue' : i < j => at[i] < at[j]
  BY <1>1, WithoutProperties DEF TypeOK
<1>4. /\ \A i \in DOMAIN queue' : i \in Nat /\ at[i] \in Nat
      /\ \A i, j \in DOMAIN queue' : at[i] = at[j] => i = j
      /\ \A i, j \in DOMAIN queue' : at[j] < at[i] => j < i
  <2>1. /\ DOMAIN queue = 1..Len(queue) /\ Len(queue) \in Nat
        /\ DOMAIN queue' = 1..Len(queue') /\ Len(queue') \in Nat
    BY DEF TypeOK
  <2> QED BY <1>3, <2>1
<1>5. ServedOnce'
  <2>1. \A i, j \in DOMAIN queue' : queue'[i] = queue'[j] => i = j
    BY <1>3, <1>4 DEF ServedOnce
  <2>2. \A m \in NodeId : Queued(m)' => task'[m] = "none" /\ state'[m] \in {"PENDING", "ERROR"}
    BY <1>1, <1>2 DEF ServedOnce, Queued, WithError
  <2> QED BY <2>1, <2>2 DEF ServedOnce
<1>6. cancelReq' \subseteq cancelReq \cup {currentTask}
  BY <1>1 DEF CancelCurrentTask
<1>7. currentTask \in cancelReq' \ cancelReq =>
        Alive(currentTask) /\ currentTask = currentNode /\ currentNode \in Unfinished(S)
  BY <1>1 DEF CancelCurrentTask, CurrentTaskMatches, Unfinished
<1>8. NoForgottenMessage'
  <2> SUFFICES ASSUME registered, NEW m \in nodes, state'[m] = "PENDING"
               PROVE  Queued(m)' \/ (task[m] = "created" /\ m \notin cancelReq')
    BY DEF NoForgottenMessage
  <2>1. m \in NodeId /\ m \notin Unfinished(S) /\ state[m] = "PENDING"
    BY <1>1 DEF WithError, TypeOK
  <2>2. m \notin cancelReq' \ cancelReq
    BY <1>6, <1>7, <2>1
  <2> QED BY <1>2, <2>1, <2>2 DEF NoForgottenMessage, Queued
<1>9. FreshIds'
  <2>1. \A m \in NodeId : m \notin nodes => state'[m] = state[m]
    BY <1>1 DEF WithError, Unfinished, TypeOK
  <2> QED BY <1>1, <1>2, <1>6, <2>1 DEF FreshIds, Fresh, Queued
<1>10. CancelsLiveTask'
  BY <1>6, <1>7 DEF CancelsLiveTask
<1>11. ParentsFirst'
  BY <1>3, <1>4 DEF ParentsFirst
<1>12. Serial' /\ ChildAfterParent'
  BY <1>1, <1>2 DEF Serial, ChildAfterParent, ActiveNodes, Queued
<1> QED
  BY <1>1, <1>2, <1>5, <1>8, <1>9, <1>10, <1>11, <1>12
  DEF WaitingImpliesBusy, CurrentTaskMatches, OnlyReplyScoped

\* cancel_tree, which no reply-scoped command leads to.
LEMMA CancelTreeKeepsIInv ==
  ASSUME IInv, TypeOK', CancelTree, ~ReplyScoped,
         UNCHANGED <<nodes, parent, task, infoVars, arriving>>,
         registered' => registered
  PROVE  IInv'
<1> USE DEF IInv, Alive, Active
<1>1. /\ queue' = <<>> /\ isProcessing' = FALSE /\ currentNode' = None
      /\ UNCHANGED currentTask /\ cancelReq' = cancelReq \cup CancelCurrentTask
      /\ state' = WithError(Unfinished(nodes) \cup (Waiting \cap nodes))
  BY DEF CancelTree
<1>2. Waiting' = {}
  BY <1>1 DEF Waiting
<1>3. cancelReq' \subseteq cancelReq \cup {currentTask}
  BY <1>1 DEF CancelCurrentTask
<1>4. CancelsLiveTask'
  BY <1>1 DEF CancelsLiveTask, CancelCurrentTask
<1>5. \A m \in nodes : state'[m] # "PENDING"
  BY <1>1 DEF WithError, Unfinished, Terminal, TypeOK
<1>6. FreshIds'
  <2>1. \A m \in NodeId : m \notin nodes => state'[m] = state[m]
    BY <1>1 DEF WithError, Unfinished, TypeOK
  <2>2. \A n \in NodeId : arriving'[n] # None => Fresh(n)'
    BY DEF FreshIds, Fresh
  <2>3. ASSUME NEW n \in NodeId, Fresh(n)'
        PROVE  /\ n \notin nodes /\ n # currentTask /\ task[n] = "none" /\ n \notin cancelReq
               /\ state[n] = "PENDING" /\ \A m \in NodeId : parent[m] # n /\ arriving[m] # n
    BY <2>3 DEF FreshIds, Fresh
  <2>4. ASSUME NEW n \in NodeId, Fresh(n)'
        PROVE  ~Queued(n)' /\ n # currentNode' /\ n \notin cancelReq' /\ state'[n] = "PENDING"
    BY <1>1, <1>2, <1>3, <2>1, <2>3, <2>4 DEF Queued, Fresh, FreshIds
  <2> QED BY <1>1, <2>2, <2>3, <2>4 DEF FreshIds
<1>7. WaitingImpliesBusy' /\ ServedOnce' /\ ParentsFirst'
  BY <1>1, <1>2 DEF WaitingImpliesBusy, ServedOnce, Queued, ParentsFirst
<1>8. NoForgottenMessage'
  BY <1>5 DEF NoForgottenMessage
<1>9. CurrentTaskMatches'
  BY <1>1 DEF CurrentTaskMatches, TypeOK
<1>10. OnlyReplyScoped' /\ Serial' /\ ChildAfterParent'
  BY DEF OnlyReplyScoped, Serial, ChildAfterParent
<1> QED
  BY <1>4, <1>6, <1>7, <1>8, <1>9, <1>10

\* A step of the task of a node.
LEMMA TaskStepKeepsIInv ==
  ASSUME IInv, TypeOK', NEW n \in NodeId, TaskStep(n)
  PROVE  IInv'
<1> USE DEF Active, Alive
<1>1. ASSUME Alive(n), registered, n \in nodes, state[n] = "PENDING"
      PROVE  task[n] = "created" /\ n \notin cancelReq
  BY <1>1 DEF IInv, NoForgottenMessage, ServedOnce
<1>2. \A m \in PendingBelow(n) : m \in nodes
  BY DEF PendingBelow
<1>3. ASSUME ProcessNext(n), task[n] \in Active \cup {"created"},
             UNCHANGED <<treeVars, userVars>>, cancelReq' = cancelReq \ {n},
             \A m \in NodeId : m # n => state'[m] = state[m],
             state'[n] = state[n] \/ state'[n] = "ERROR",
             task[n] = "created" => state[n] = "ERROR"
      PROVE  IInv'
  BY <1>1, <1>3, ProcessNextKeepsIInv
<1>4. ASSUME task[n] \in Active,
             UNCHANGED <<treeVars, procVars, userVars>>,
             \E a \in Active : task' = [task EXCEPT ![n] = a],
             cancelReq' = cancelReq \/ cancelReq' = cancelReq \ {n},
             \A m \in NodeId : m # n => state'[m] = state[m] \/ (m \in nodes /\ state'[m] = "ERROR"),
             state'[n] = state[n] \/ state'[n] \in {"IN_PROGRESS", "COMPLETED", "ERROR"}
      PROVE  IInv'
  <2>1. /\ \A m \in NodeId : m # n => task'[m] = task[m]
        /\ task'[n] \in Active
    BY <1>4 DEF IInv, TypeOK
  <2>2. registered /\ n \in nodes => state'[n] # "PENDING"
    BY <1>1, <1>4
  <2> QED BY <1>4, <2>1, <2>2, QuietStepKeepsIInv
<1>5. CASE CancelledBeforeStart(n)
  <2>1. /\ \A m \in NodeId : m # n => task'[m] = task[m]
        /\ task'[n] = "dead" /\ cancelReq' = cancelReq \ {n}
        /\ UNCHANGED <<treeVars, state, procVars, userVars>>
    BY <1>5 DEF CancelledBeforeStart, IInv, TypeOK
  <2>2. registered /\ n \in nodes => state'[n] # "PENDING"
    BY <1>1, <1>5, <2>1 DEF CancelledBeforeStart
  <2> QED BY <1>5, <2>1, <2>2, QuietStepKeepsIInv DEF CancelledBeforeStart
<1>6. CASE Skip(n)
  BY <1>3, <1>6 DEF Skip
<1>7. CASE Start(n)
  <2>1. /\ \A m \in NodeId : m # n => task'[m] = task[m]
        /\ task'[n] = "running"
        /\ UNCHANGED <<treeVars, procVars, cancelReq, userVars>>
    BY <1>7 DEF Start, IInv, TypeOK
  <2>2. /\ \A m \in NodeId : m # n => state'[m] = state[m]
        /\ registered /\ n \in nodes => state'[n] # "PENDING"
    BY <1>7 DEF Start, Known, IInv, TypeOK
  <2> QED BY <1>7, <2>1, <2>2, QuietStepKeepsIInv DEF Start
<1> HIDE DEF Alive
<1>8. ASSUME NEW s \in {"IN_PROGRESS", "COMPLETED", "ERROR"}, UpdateState(n, s)
      PROVE  /\ \A m \in NodeId : m # n => state'[m] = state[m]
             /\ state'[n] = state[n] \/ state'[n] = s
  BY <1>8 DEF UpdateState, IInv, TypeOK
<1>9. ASSUME MarkNodeError(n)
      PROVE  /\ \A m \in NodeId : state'[m] = state[m] \/ state'[m] = "ERROR"
             /\ \A m \in NodeId \ nodes : m # n => state'[m] = state[m]
  BY <1>2, <1>9 DEF MarkNodeError, WithError
<1>10. ASSUME UNCHANGED task PROVE task' = [task EXCEPT ![n] = task[n]]
  BY <1>10 DEF IInv, TypeOK
<1>11. CASE JoinSession(n) \/ SessionInfo(n)
  BY <1>4, <1>8, <1>10, <1>11 DEF JoinSession, SessionInfo, taskVars
<1>12. CASE ErrorEvent(n)
  BY <1>4, <1>9, <1>10, <1>12 DEF ErrorEvent, taskVars
<1>13. ASSUME NEW ok \in BOOLEAN, Exit(n, ok) PROVE IInv'
  BY <1>4, <1>9, <1>13 DEF Exit
<1>14. CASE Complete(n)
  BY <1>4, <1>8, <1>14 DEF Complete
<1>15. CASE Raise(n)
  BY <1>4, <1>15 DEF Raise
<1>16. CASE Failed(n)
  BY <1>4, <1>9, <1>16 DEF Failed
<1>17. CASE EscapesProcessor(n)
  <2>1. /\ \A m \in NodeId : m # n => state'[m] = state[m]
        /\ state'[n] = state[n] \/ state'[n] = "ERROR"
    BY <1>17 DEF EscapesProcessor, IInv, TypeOK
  <2> QED BY <1>3, <1>17, <2>1 DEF EscapesProcessor
<1>18. CASE CancelDelivered(n)
  BY <1>4, <1>18 DEF CancelDelivered
<1>19. CASE Stopped(n)
  BY <1>4, <1>8, <1>19 DEF Stopped
<1>20. CASE Finish(n)
  BY <1>3, <1>20 DEF Finish
<1> QED
  BY <1>5, <1>6, <1>7, <1>11, <1>12, <1>13, <1>14, <1>15, <1>16, <1>17, <1>18,
     <1>19, <1>20 DEF TaskStep

\* A user command.
LEMMA CommandKeepsIInv ==
  ASSUME IInv, TypeOK', Command
  PROVE  IInv'
<1> USE DEF IInv
<1>1. ASSUME NEW n \in NodeId, StopNode(n) PROVE IInv'
  BY <1>1, CancelNodesKeepsIInv DEF StopNode, userVars, OnlyReplyScoped
<1>2. CASE StopTree
  BY <1>2, CancelTreeKeepsIInv DEF StopTree, treeVars, userVars, ReplyScoped
<1>3. ASSUME NEW b \in NodeId, ClearBranch(b) PROVE IInv'
  <2>1. ReplyScoped => Root \notin clearing'
    BY <1>3 DEF ClearBranch, ReplyScoped, OnlyReplyScoped
  <2> QED BY <1>3, <2>1, CancelNodesKeepsIInv DEF ClearBranch
<1>4. ASSUME NEW b \in NodeId, RemoveBranch(b), ~(Known(b) /\ b = Root) PROVE IInv'
  <2>1. /\ nodes' \subseteq nodes /\ clearing' \subseteq clearing
        /\ UNCHANGED <<parent, registered, state, queue, isProcessing, currentNode,
                       currentTask, task, cancelReq, arriving, wiping>>
    BY <1>4 DEF RemoveBranch, treeVars, procVars
  <2>2. UNCHANGED Waiting
    BY <2>1 DEF Waiting
  <2>3. NoForgottenMessage' /\ FreshIds' /\ CurrentTaskMatches'
    BY <2>1, <2>2 DEF NoForgottenMessage, FreshIds, Fresh, Queued, CurrentTaskMatches
  <2> QED
    BY <2>1, <2>2, <2>3
    DEF WaitingImpliesBusy, ServedOnce, Queued, CancelsLiveTask, Alive, OnlyReplyScoped,
        ParentsFirst, Serial, ActiveNodes, ChildAfterParent
<1>5. ASSUME RemoveBranch(Root), Known(Root) PROVE IInv'
  <2>1. /\ CancelTree /\ ~registered' /\ Root \in clearing
        /\ UNCHANGED <<nodes, parent, task, infoVars, arriving>>
    BY <1>5 DEF RemoveBranch
  <2>2. ~ReplyScoped
    BY <2>1 DEF OnlyReplyScoped
  <2> QED BY <2>1, <2>2, CancelTreeKeepsIInv
<1>6. CASE ClearAll
  BY <1>6, CancelTreeKeepsIInv DEF ClearAll, treeVars, ReplyScoped
<1>7. CASE ReplaceTreeQueue
  <2>1. /\ ~registered' /\ ~ReplyScoped
        /\ UNCHANGED <<nodes, parent, state, queue, isProcessing, currentNode, currentTask,
                       task, cancelReq, arriving>>
    BY <1>7 DEF ReplaceTreeQueue, OnlyReplyScoped, procVars, taskVars
  <2>2. UNCHANGED Waiting
    BY <2>1 DEF Waiting
  <2> QED
    BY <2>1, <2>2
    DEF WaitingImpliesBusy, ServedOnce, Queued, NoForgottenMessage, FreshIds, Fresh,
        CancelsLiveTask, Alive, CurrentTaskMatches, OnlyReplyScoped, ParentsFirst,
        Serial, ChildAfterParent
<1> QED BY <1>1, <1>2, <1>3, <1>4, <1>5, <1>6, <1>7 DEF Command

\* Every step keeps the inductive invariant.
LEMMA NextKeepsIInv == IInv /\ [Next]_vars => IInv'
<1> SUFFICES ASSUME IInv, [Next]_vars PROVE IInv'
  OBVIOUS
<1>0. TypeOK'
  BY NextTyped DEF IInv
<1>1. ASSUME NEW n \in NodeId, NEW p \in NodeId, Receive(n, p) PROVE IInv'
  <2>1. /\ Fresh(n) /\ p \in nodes /\ arriving' = [arriving EXCEPT ![n] = p]
        /\ UNCHANGED <<nodes, parent, registered, state, queue, isProcessing, currentNode,
                       currentTask, task, cancelReq, clearing, wiping>>
    BY <1>1 DEF Receive, Fresh, Known, treeVars, procVars, taskVars
  <2>2. UNCHANGED Waiting
    BY <2>1 DEF Waiting
  <2>3. FreshIds'
    BY <2>1, <2>2 DEF IInv, FreshIds, Fresh, Queued, TypeOK
  <2> QED
    BY <1>0, <2>1, <2>2, <2>3
    DEF IInv, WaitingImpliesBusy, ServedOnce, Queued, NoForgottenMessage, CancelsLiveTask,
        Alive, CurrentTaskMatches, OnlyReplyScoped, ParentsFirst, Serial, ActiveNodes,
        ChildAfterParent
<1>2. ASSUME NEW n \in NodeId, Deliver(n) PROVE IInv'
  BY <1>0, <1>2, DeliverKeepsIInv
<1>3. ASSUME NEW n \in NodeId, DeliverFails(n) PROVE IInv'
  <2>1. /\ arriving[n] # None /\ Fresh(n) /\ ~Queued(n) /\ task[n] = "none"
        /\ parent' = [parent EXCEPT ![n] = arriving[n]]
        /\ arriving' = [arriving EXCEPT ![n] = None]
        /\ UNCHANGED <<nodes, registered, state, queue, isProcessing, currentNode,
                       currentTask, task, cancelReq, clearing, wiping>>
    BY <1>3 DEF DeliverFails, IInv, FreshIds, procVars, taskVars
  <2>2. UNCHANGED Waiting
    BY <2>1 DEF Waiting
  <2>3. FreshIds'
    BY <2>1, <2>2 DEF IInv, FreshIds, Fresh, Queued, TypeOK
  <2>4. ParentsFirst' /\ ChildAfterParent'
    BY <2>1, <2>2 DEF IInv, ParentsFirst, ChildAfterParent, ActiveNodes, Active, Queued,
                      Waiting, TypeOK
  <2> QED
    BY <1>0, <2>1, <2>2, <2>3, <2>4
    DEF IInv, WaitingImpliesBusy, ServedOnce, Queued, NoForgottenMessage, CancelsLiveTask,
        Alive, CurrentTaskMatches, OnlyReplyScoped, Serial, ActiveNodes
<1>4. ASSUME NEW n \in NodeId, TaskStep(n) PROVE IInv'
  BY <1>0, <1>4, TaskStepKeepsIInv
<1>5. CASE Command
  BY <1>0, <1>5, CommandKeepsIInv
<1>6. CASE UNCHANGED vars
  <2>1. UNCHANGED Waiting
    BY <1>6 DEF vars, procVars, Waiting
  <2> QED
    BY <1>0, <1>6, <2>1
    DEF IInv, vars, treeVars, procVars, taskVars, infoVars, userVars, WaitingImpliesBusy,
        ServedOnce, Queued, NoForgottenMessage, FreshIds, Fresh, CancelsLiveTask, Alive,
        CurrentTaskMatches, OnlyReplyScoped, ParentsFirst, Serial, ActiveNodes,
        ChildAfterParent
<1> QED BY <1>1, <1>2, <1>3, <1>4, <1>5, <1>6 DEF Next

\* The inductive invariant holds in every reachable state.
THEOREM Inductive == Spec => []IInv
<1>1. Init => IInv
  <2> SUFFICES ASSUME Init PROVE IInv
    OBVIOUS
  <2>1. TypeOK
    BY EmptySeq DEF Init, TypeOK, States, Phases
  <2>2. Waiting = {} /\ ActiveNodes = {Root}
    BY DEF Init, Waiting, ActiveNodes, Active
  <2> QED
    BY <2>1, <2>2
    DEF Init, IInv, WaitingImpliesBusy, ServedOnce, Queued, NoForgottenMessage, FreshIds,
        Fresh, CancelsLiveTask, CurrentTaskMatches, OnlyReplyScoped, ParentsFirst, Serial,
        ChildAfterParent
<1> QED BY <1>1, NextKeepsIInv, PTL DEF Spec

\* No PENDING message of a tree the bot knows is forgotten, for any commands.
THEOREM NothingForgotten == Spec => []NoForgottenMessage
BY Inductive, PTL DEF IInv

\* Nothing is served twice, for any commands.
THEOREM ServesOnce == Spec => []ServedOnce
BY Inductive, PTL DEF IInv

\* With reply-scoped commands a tree runs one task at a time.
THEOREM RunsSerially == Spec => []Serial
BY Inductive, PTL DEF IInv

\* With reply-scoped commands a reply runs after the message it replies to.
THEOREM ParentRunsFirst == Spec => []ChildAfterParent
BY Inductive, PTL DEF IInv
-----------------------------------------------------------------------------
(* What a step may do to the state of a message.                            *)

\* A descendant that mark_node_error takes down is still PENDING.
LEMMA PendingBelowPending ==
  ASSUME NEW n \in NodeId, NEW m \in PendingBelow(n)
  PROVE  m \in nodes /\ state[m] = "PENDING"
<1> DEFINE P == {c \in nodes : state[c] = "PENDING"}
<1>1. \A c \in nodes : parent[c] \in P \cup {n} /\ state[c] = "PENDING" => c \in P
  OBVIOUS
<1> QED BY <1>1 DEF PendingBelow

\* NoResurrection, for one step.
StateStep ==
  \A n \in NodeId :
    /\ state[n] = "COMPLETED" => state'[n] = "COMPLETED"
    /\ state[n] = "ERROR" /\ state'[n] # "ERROR" =>
         task[n] \in {"running", "completing"} /\ n \notin cancelReq

\* Every step is one, and keeps COMPLETED to the messages that are over.
LEMMA StateSteps ==
  ASSUME IInv, CompletedIsOver, [Next]_vars
  PROVE  StateStep /\ CompletedIsOver'
<1> USE DEF IInv
<1>1. ASSUME UNCHANGED state, \A m \in NodeId : task[m] \in {"leaving", "dead"} =>
                                 task'[m] \in {"leaving", "dead"}
      PROVE  StateStep /\ CompletedIsOver'
  BY <1>1 DEF StateStep, CompletedIsOver
<1>2. ASSUME NEW S, state' = WithError(S), \A m \in S : state[m] # "COMPLETED",
             \A m \in NodeId : task[m] \in {"leaving", "dead"} =>
                                 task'[m] \in {"leaving", "dead"}
      PROVE  StateStep /\ CompletedIsOver'
  BY <1>2 DEF StateStep, CompletedIsOver, WithError
<1>3. ASSUME NEW n \in NodeId, ProcessNext(n)
      PROVE  \A m \in NodeId : task[m] \in {"leaving", "dead"} =>
                                 task'[m] \in {"leaving", "dead"}
  <2>1. queue # <<>> => Head(queue) \in NodeId /\ task[Head(queue)] = "none"
    <3> SUFFICES ASSUME queue # <<>> PROVE Head(queue) \in NodeId /\ task[Head(queue)] = "none"
      OBVIOUS
    <3>1. Head(queue) = queue[1] /\ 1 \in DOMAIN queue /\ Head(queue) \in NodeId
      BY HeadTailProperties DEF TypeOK
    <3> QED BY <3>1 DEF ServedOnce, Queued, Waiting
  <2> QED BY <1>3, <2>1 DEF ProcessNext, TypeOK
<1>4. ASSUME NEW n \in NodeId, MarkNodeError(n), task[n] \in {"running", "failing"},
             \E a \in {"running", "completing", "leaving"} : task' = [task EXCEPT ![n] = a]
      PROVE  StateStep /\ CompletedIsOver'
  <2>1. state[n] # "COMPLETED"
    BY <1>4 DEF CompletedIsOver
  <2>2. \A m \in {n} \cup PendingBelow(n) : state[m] # "COMPLETED"
    BY <2>1, PendingBelowPending
  <2>3. \A m \in NodeId : task[m] \in {"leaving", "dead"} => task'[m] \in {"leaving", "dead"}
    BY <1>4 DEF TypeOK
  <2> QED BY <1>1, <1>2, <1>4, <2>2, <2>3 DEF MarkNodeError
<1>5. ASSUME NEW n \in NodeId, TaskStep(n) PROVE StateStep /\ CompletedIsOver'
  <2>1. CASE CancelledBeforeStart(n) \/ Raise(n) \/ CancelDelivered(n)
    BY <1>1, <2>1 DEF CancelledBeforeStart, Raise, CancelDelivered, TypeOK
  <2>2. CASE Skip(n) \/ Finish(n)
    BY <1>1, <1>3, <2>2 DEF Skip, Finish
  <2>3. CASE Start(n)
    BY <2>3 DEF Start, TypeOK, StateStep, CompletedIsOver
  <2>4. CASE JoinSession(n)
    BY <1>1, <2>4 DEF JoinSession, taskVars
  <2>5. CASE SessionInfo(n)
    BY <2>5 DEF SessionInfo, UpdateState, taskVars, TypeOK, StateStep, CompletedIsOver
  <2>6. CASE ErrorEvent(n)
    <3>1. task' = [task EXCEPT ![n] = "running"] /\ task[n] = "running" /\ MarkNodeError(n)
      BY <2>6 DEF ErrorEvent, taskVars, TypeOK
    <3> QED BY <1>4, <3>1
  <2>7. ASSUME NEW ok \in BOOLEAN, Exit(n, ok) PROVE StateStep /\ CompletedIsOver'
    <3>1. CASE ok
      BY <1>1, <2>7, <3>1 DEF Exit, TypeOK
    <3>2. CASE ~ok
      BY <1>4, <2>7, <3>2 DEF Exit
    <3> QED BY <3>1, <3>2
  <2>8. CASE Complete(n)
    BY <2>8 DEF Complete, UpdateState, TypeOK, StateStep, CompletedIsOver
  <2>9. CASE Failed(n)
    BY <1>4, <2>9 DEF Failed
  <2>10. CASE EscapesProcessor(n)
    <3>1. state' = state \/ state' = WithError({n})
      BY <2>10 DEF EscapesProcessor, WithError, TypeOK
    <3>2. state[n] # "COMPLETED" /\ ProcessNext(n)
      BY <2>10 DEF EscapesProcessor, CompletedIsOver
    <3> QED BY <1>1, <1>2, <1>3, <3>1, <3>2
  <2>11. CASE Stopped(n)
    BY <2>11 DEF Stopped, UpdateState, TypeOK, StateStep, CompletedIsOver
  <2> QED
    BY <1>5, <2>1, <2>2, <2>3, <2>4, <2>5, <2>6, <2>7, <2>8, <2>9, <2>10, <2>11
    DEF TaskStep
<1>6. ASSUME NEW S, CancelNodes(S), UNCHANGED task PROVE StateStep /\ CompletedIsOver'
  BY <1>2, <1>6 DEF CancelNodes, Unfinished, Terminal
<1>7. ASSUME CancelTree, UNCHANGED task PROVE StateStep /\ CompletedIsOver'
  <2>1. \A m \in Unfinished(nodes) \cup (Waiting \cap nodes) : state[m] # "COMPLETED"
    BY DEF Unfinished, Terminal, ServedOnce, Queued, TypeOK
  <2> QED BY <1>2, <1>7, <2>1 DEF CancelTree
<1>8. CASE Command
  BY <1>1, <1>6, <1>7, <1>8
  DEF Command, StopNode, StopTree, ClearBranch, RemoveBranch, ClearAll, ReplaceTreeQueue,
      taskVars
<1>9. ASSUME NEW n \in NodeId, NEW p \in NodeId, Receive(n, p)
      PROVE  StateStep /\ CompletedIsOver'
  BY <1>1, <1>9 DEF Receive, taskVars
<1>10. ASSUME NEW n \in NodeId, Deliver(n) PROVE StateStep /\ CompletedIsOver'
  <2>1. UNCHANGED state /\ task[n] = "none" /\ EnqueueAndStart(n)
    BY <1>10 DEF Deliver, FreshIds
  <2> QED BY <1>1, <2>1 DEF EnqueueAndStart, TypeOK
<1>11. ASSUME NEW n \in NodeId, DeliverFails(n) PROVE StateStep /\ CompletedIsOver'
  BY <1>1, <1>11 DEF DeliverFails, taskVars
<1>12. CASE UNCHANGED vars
  BY <1>1, <1>12 DEF vars, taskVars
<1> QED BY <1>5, <1>8, <1>9, <1>10, <1>11, <1>12 DEF Next

\* COMPLETED is final, and what was stopped or taken down before it ran never
\* runs, for any commands.
THEOREM NothingResurrects == Spec => NoResurrection
<1>1. Init => CompletedIsOver
  BY DEF Init, CompletedIsOver
<1>2. IInv /\ CompletedIsOver /\ [Next]_vars => CompletedIsOver'
  BY StateSteps
<1>3. IInv /\ CompletedIsOver /\ [Next]_vars => [StateStep]_vars
  BY StateSteps
<1>4. NoResurrection <=> [][StateStep]_vars
  BY DEF NoResurrection, StateStep
<1> QED BY <1>1, <1>2, <1>3, <1>4, Inductive, PTL DEF Spec
-----------------------------------------------------------------------------
(* The tree implements the serial queue.                                    *)

\* The busy flag and the current node change together.
LEMMA BusyNamesNodeInvariant == Spec => []BusyNamesNode
<1>1. Init => BusyNamesNode
  BY DEF Init, BusyNamesNode
<1>2. TypeOK /\ BusyNamesNode /\ [Next]_vars => BusyNamesNode'
  <2> SUFFICES ASSUME TypeOK, BusyNamesNode, [Next]_vars
               PROVE  BusyNamesNode'
    OBVIOUS
  <2> USE DEF BusyNamesNode, procVars
  <2>1. ASSUME NEW n, ProcessNext(n) PROVE BusyNamesNode'
    BY <2>1, HeadTailProperties DEF ProcessNext, TypeOK
  <2>2. ASSUME NEW n \in NodeId, TaskStep(n) PROVE BusyNamesNode'
    BY <2>1, <2>2
    DEF TaskStep, CancelledBeforeStart, Skip, Start, JoinSession, SessionInfo,
        ErrorEvent, Exit, Complete, Raise, Failed, EscapesProcessor,
        CancelDelivered, Stopped, Finish
  <2>3. CASE Command
    BY <2>3
    DEF Command, StopNode, StopTree, ClearBranch, RemoveBranch, ClearAll,
        ReplaceTreeQueue, CancelNodes, CancelTree
  <2>4. ASSUME NEW n \in NodeId, NEW p \in NodeId,
               Receive(n, p) \/ Deliver(n) \/ DeliverFails(n)
        PROVE  BusyNamesNode'
    BY <2>4 DEF Receive, Deliver, DeliverFails, EnqueueAndStart
  <2>5. CASE UNCHANGED vars
    BY <2>5 DEF vars
  <2> QED BY <2>2, <2>3, <2>4, <2>5 DEF Next
<1> QED BY <1>1, <1>2, TypeCorrect, PTL DEF Spec

\* What the serial queue calls arrived.
Arrived == {Root} \cup {n \in NodeId : parent[n] # None}

\* Every step of the tree is a step of the serial queue, or none.
LEMMA StepSimulation ==
  ASSUME ReplyScoped, IInv, IInv', BusyNamesNode, [Next]_vars
  PROVE  [Server!SNext]_(Server!svars)
<1> DEFINE working == ActiveNodes # {}
<1> USE DEF IInv, Server!SNext, Server!svars
<1>1. ASSUME UNCHANGED <<parent, queue, currentNode, ActiveNodes>>
      PROVE  [Server!SNext]_(Server!svars)
  BY <1>1
<1>2. ASSUME NEW n \in NodeId, Deliver(n) \/ DeliverFails(n), n \notin Arrived,
             parent' = [parent EXCEPT ![n] = arriving[n]], arriving[n] # None
      PROVE  Arrived' = Arrived \cup {n}
  BY <1>2 DEF Arrived, TypeOK
<1>3. ASSUME NEW n \in NodeId, arriving[n] # None PROVE n \notin Arrived
  BY <1>3 DEF FreshIds, Fresh, Arrived
<1>4. ASSUME NEW n \in NodeId, Deliver(n) PROVE Server!Arrive(n)
  <2>1. n \notin Arrived /\ Arrived' = Arrived \cup {n}
    BY <1>2, <1>3, <1>4 DEF Deliver
  <2>2. CASE isProcessing
    <3>1. currentNode # None /\ queue' = Append(queue, n) /\ UNCHANGED <<currentNode, task>>
      BY <1>4, <2>2 DEF Deliver, EnqueueAndStart, BusyNamesNode
    <3>2. UNCHANGED ActiveNodes
      BY <3>1 DEF ActiveNodes
    <3> QED BY <2>1, <3>1, <3>2 DEF Server!Arrive, Arrived
  <2>3. CASE ~isProcessing
    <3>1. currentNode = None /\ currentNode' = n /\ UNCHANGED queue
          /\ task' = [task EXCEPT ![n] = "created"]
      BY <1>4, <2>3 DEF Deliver, EnqueueAndStart, BusyNamesNode
    <3>2. ActiveNodes' # {}
      BY <3>1 DEF ActiveNodes, TypeOK
    <3> QED BY <2>1, <3>1, <3>2 DEF Server!Arrive, Arrived
  <2> QED BY <2>2, <2>3
<1>5. ASSUME NEW n \in NodeId, DeliverFails(n) PROVE Server!Reject(n)
  <2>1. n \notin Arrived /\ Arrived' = Arrived \cup {n}
    BY <1>2, <1>3, <1>5 DEF DeliverFails
  <2>2. UNCHANGED <<queue, currentNode, ActiveNodes>>
    BY <1>5 DEF DeliverFails, procVars, taskVars, ActiveNodes
  <2> QED BY <2>1, <2>2 DEF Server!Reject, Arrived
<1>6. ASSUME NEW n \in NodeId, Alive(n), ProcessNext(n), UNCHANGED parent
      PROVE  Server!TakeNext
  <2>1. ActiveNodes = {n}
    BY <1>6 DEF Serial, ActiveNodes, Alive
  <2>2. CASE queue = <<>>
    <3>1. queue' = queue /\ currentNode' = None /\ task' = [task EXCEPT ![n] = "dead"]
      BY <1>6, <2>2 DEF ProcessNext
    <3>2. ActiveNodes' = {}
      BY <2>1, <3>1 DEF ActiveNodes, Active, TypeOK
    <3> QED BY <1>6, <2>1, <2>2, <3>1, <3>2 DEF Server!TakeNext
  <2>3. CASE queue # <<>>
    <3>1. queue' = Tail(queue) /\ currentNode' = Head(queue)
      BY <1>6, <2>3 DEF ProcessNext
    <3>2. (ActiveNodes # {})' \in BOOLEAN
      OBVIOUS
    <3> QED BY <1>6, <2>1, <2>3, <3>1, <3>2 DEF Server!TakeNext
  <2> QED BY <2>2, <2>3
<1>7. ASSUME NEW n \in NodeId, CancelledBeforeStart(n) PROVE Server!GiveUp
  <2>1. ActiveNodes = {n}
    BY <1>7 DEF CancelledBeforeStart, Serial, ActiveNodes
  <2>2. task' = [task EXCEPT ![n] = "dead"] /\ UNCHANGED <<parent, queue, currentNode>>
    BY <1>7 DEF CancelledBeforeStart, treeVars, procVars
  <2>3. ActiveNodes' = {}
    BY <2>1, <2>2 DEF ActiveNodes, Active, TypeOK
  <2> QED BY <2>1, <2>2, <2>3 DEF Server!GiveUp
<1>8. ASSUME NEW n \in NodeId, TaskStep(n) PROVE [Server!SNext]_(Server!svars)
  <2>1. ASSUME task[n] \in Active, UNCHANGED <<treeVars, procVars>>,
               \E a \in Active : task' = [task EXCEPT ![n] = a]
        PROVE  [Server!SNext]_(Server!svars)
    BY <1>1, <2>1 DEF ActiveNodes, treeVars, procVars, TypeOK
  <2>2. CASE Skip(n) \/ EscapesProcessor(n) \/ Finish(n)
    BY <1>6, <2>2 DEF Skip, EscapesProcessor, Finish, Alive, Active, treeVars
  <2>3. CASE CancelledBeforeStart(n)
    BY <1>7, <2>3
  <2>4. CASE Start(n)
    BY <1>1, <2>4 DEF Start, ActiveNodes, Active, treeVars, procVars, TypeOK
  <2>5. CASE JoinSession(n) \/ SessionInfo(n) \/ ErrorEvent(n)
    BY <1>1, <2>5
    DEF JoinSession, SessionInfo, ErrorEvent, ActiveNodes, treeVars, procVars, taskVars
  <2>6. CASE (\E ok \in BOOLEAN : Exit(n, ok)) \/ Complete(n) \/ Raise(n) \/ Failed(n)
             \/ CancelDelivered(n) \/ Stopped(n)
    BY <2>1, <2>6 DEF Exit, Complete, Raise, Failed, CancelDelivered, Stopped, Active
  <2> QED BY <1>8, <2>2, <2>3, <2>4, <2>5, <2>6 DEF TaskStep
<1>9. ASSUME NEW S, CancelNodes(S), UNCHANGED <<treeVars, task>>
      PROVE  Server!Withdraw
  <2>1. /\ queue' \in Without(Unfinished(S) \ {currentNode})
        /\ UNCHANGED <<parent, currentNode, ActiveNodes>>
    BY <1>9 DEF CancelNodes, treeVars, ActiveNodes
  <2>2. PICK at \in [DOMAIN queue' -> DOMAIN queue] :
          /\ \A i \in DOMAIN queue' : queue'[i] = queue[at[i]]
          /\ \A i, j \in DOMAIN queue' : i < j => at[i] < at[j]
    BY <2>1, WithoutProperties DEF TypeOK
  <2> DEFINE k == Len(queue')
  <2>3. /\ DOMAIN queue' = 1..k /\ k \in Nat /\ queue' = [i \in 1..k |-> queue'[i]]
        /\ DOMAIN queue = 1..Len(queue) /\ Len(queue) \in Nat
    BY DEF TypeOK
  <2>4. k <= Len(queue)
    <3>1. \A i \in 1..k : at[i] \in 1..Len(queue)
      BY <2>2, <2>3
    <3>2. \A i, j \in 1..k : at[i] = at[j] => i = j
      <4> SUFFICES ASSUME NEW i \in 1..k, NEW j \in 1..k, at[i] = at[j], i < j PROVE FALSE
        BY <2>3
      <4> QED BY <2>2, <2>3, <3>1
    <3>3. at \in Injection(1..k, 1..Len(queue))
      BY <2>2, <2>3, <3>2 DEF Injection, IsInjective
    <3>4. ASSUME NEW l \in Nat PROVE IsFiniteSet(1..l) /\ Cardinality(1..l) = l
      <4>1. 1 \in Int /\ l \in Int
        OBVIOUS
      <4>2. IsFiniteSet(1..l) /\ Cardinality(1..l) = IF 1 > l THEN 0 ELSE l - 1 + 1
        BY <4>1, FS_Interval
      <4> QED BY <4>2
    <3>5. IsFiniteSet(1..Len(queue))
      BY <2>3, <3>4
    <3>6. Cardinality(1..k) <= Cardinality(1..Len(queue))
      BY <3>3, <3>5, FS_Injection
    <3>7. Cardinality(1..k) = k /\ Cardinality(1..Len(queue)) = Len(queue)
      BY <2>3, <3>4
    <3> QED BY <3>6, <3>7
  <2>5. queue' = [i \in 1..k |-> queue[at[i]]]
    BY <2>2, <2>3
  <2>6. k \in 0..Len(queue) /\ at \in [1..k -> 1..Len(queue)]
    BY <2>2, <2>3, <2>4
  <2>7. \A i, j \in 1..k : i < j => at[i] < at[j]
    BY <2>2, <2>3
  <2> HIDE DEF k
  <2>8. \E l \in 0..Len(queue) : \E f \in [1..l -> 1..Len(queue)] :
          /\ \A i, j \in 1..l : i < j => f[i] < f[j]
          /\ queue' = [i \in 1..l |-> queue[f[i]]]
    BY <2>5, <2>6, <2>7, Zenon
  <2> QED BY <2>1, <2>8 DEF Server!Withdraw
<1>10. CASE Command
  <2>1. ASSUME NEW n \in NodeId, StopNode(n) PROVE Server!Withdraw
    BY <1>9, <2>1 DEF StopNode
  <2>2. ASSUME NEW b \in NodeId, ClearBranch(b) PROVE Server!Withdraw
    BY <1>9, <2>2 DEF ClearBranch
  <2>3. ASSUME NEW b \in NodeId, RemoveBranch(b)
        PROVE  UNCHANGED <<parent, queue, currentNode, ActiveNodes>>
    BY <2>3 DEF RemoveBranch, OnlyReplyScoped, treeVars, procVars, ActiveNodes
  <2>4. ~(StopTree \/ ClearAll \/ ReplaceTreeQueue)
    BY DEF StopTree, ClearAll, ReplaceTreeQueue, OnlyReplyScoped, ReplyScoped
  <2> QED BY <1>1, <1>10, <2>1, <2>2, <2>3, <2>4 DEF Command
<1>11. ASSUME NEW n \in NodeId, NEW p \in NodeId, Receive(n, p)
       PROVE  [Server!SNext]_(Server!svars)
  BY <1>1, <1>11 DEF Receive, treeVars, procVars, taskVars, ActiveNodes
<1>12. CASE UNCHANGED vars
  BY <1>1, <1>12 DEF vars, treeVars, procVars, taskVars, ActiveNodes
<1> QED BY <1>4, <1>5, <1>8, <1>10, <1>11, <1>12 DEF Next

\* With reply-scoped commands every behaviour of the tree is one of a serial
\* queue: first come, first served, one at a time.
THEOREM TreeIsSerialQueue == ReplyScoped /\ Spec => ImplementsSerialQueue
<1> SUFFICES ASSUME ReplyScoped PROVE Spec => ImplementsSerialQueue
  OBVIOUS
<1>1. Init => Server!SInit
  BY DEF Init, Server!SInit, ActiveNodes
<1>2. IInv /\ IInv' /\ BusyNamesNode /\ [Next]_vars => [Server!SNext]_(Server!svars)
  BY StepSimulation
<1> QED
  BY <1>1, <1>2, Inductive, BusyNamesNodeInvariant, PTL
  DEF Spec, Server!SSpec, ImplementsSerialQueue
=============================================================================
