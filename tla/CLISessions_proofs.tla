-------------------------- MODULE CLISessions_proofs --------------------------
(***************************************************************************)
(* What holds of the CLI sessions for any number of tasks, conversations and *)
(* /stop commands: a task that asks for a session never finds one that a    *)
(* task before it uses, and everything else follows from that.              *)
(***************************************************************************)
EXTENDS CLISessions, FiniteSetTheorems, TLAPS

TaskPC == {"none", "getting", "spawning", "reading", "registering", "handling", "leaving",
           "shielding", "cleanup", "removing", "stopping", "over"}
StopPC == {"none", "queued", "stopping", "over"}
PC == TaskPC \cup StopPC
Waiting == {"getting", "registering", "removing", "queued", "stopping"}
Stopper == StopCmd \cup {"shutdown"}

\* The id under which the manager first keeps the session of a task.
FirstId(t) == IF ParentSession(t) # None THEN ParentSession(t) ELSE Temp(t)

\* The manager has the task's session.
Held(t) == pending[FirstId(t)] = t \/ sessions[Real(t)] = t

\* Between the cancellations of a /stop and the end of its stop_all.
StopUnderWay == \E k \in StopCmd : pc[k] \in {"queued", "stopping"}
-----------------------------------------------------------------------------
\* Every variable that matters here has its type.
TypeOK ==
  /\ parent \in [Task -> Task \cup Past \cup {None}]
  /\ \A t \in Task : parent[t] # None => tree[t] = tree[parent[t]]
  /\ pc \in [Actor -> PC]
  /\ \A t \in Task : pc[t] \in TaskPC
  /\ \A k \in Stopper : pc[k] \in StopPC
  /\ session \in [Task -> Task \cup {None}]
  /\ captured \in [Task -> Id \cup {None}]
  /\ temp \in [Task -> Id \cup {None}]
  /\ nodeId \in [Task -> Id \cup {None}]
  /\ sessions \in [Id -> Task \cup {None}] /\ pending \in [Id -> Task \cup {None}]
  /\ tempToReal \in [Id -> Id \cup {None}] /\ realToTemp \in [Id -> Id \cup {None}]
  /\ lock \in Seq(Actor) /\ hand \in [Actor -> Seq(Task)]
  /\ process \in [Task -> Task \cup {None}]
  /\ alive \subseteq Task /\ abandoned \subseteq Task /\ pids \subseteq Task
  /\ freed \subseteq Task /\ cutShort \subseteq freed

\* A task works with a session of its own, under one id at a time.
SessionOK ==
  \A t \in Task :
    /\ session[t] \in {None, t}
    /\ session[t] = None => captured[t] = None /\ temp[t] = None /\ nodeId[t] = None
    /\ session[t] = t =>
         \/ captured[t] = None /\ nodeId[t] = None /\ temp[t] = FirstId(t)
         \/ captured[t] = Real(t) /\ nodeId[t] = Real(t) /\ temp[t] = None
    /\ pc[t] \in {"none", "getting"} => session[t] = None
    /\ pc[t] \notin {"none", "getting", "cleanup", "over"} => session[t] = t
    /\ pc[t] = "registering" => captured[t] = None
    /\ t \in abandoned => session[t] = t

\* A session has at most its own task's process, which is known to the registry.
ProcessOK ==
  \A t \in Task :
    /\ process[t] \in {None, t}
    /\ t \in alive => /\ process[t] = t /\ session[t] = t /\ t \in pids
                      /\ pc[t] \notin {"spawning", "leaving"}

\* Who is at the lock, that it is its holder who stops sessions, and that who asks for
\* a session comes after every /stop.
AtLock(lk, p, h) ==
  /\ \A i, j \in DOMAIN lk : lk[i] = lk[j] => i = j
  /\ \A i \in DOMAIN lk : p[lk[i]] \in Waiting
  /\ \A a \in Actor : p[a] \in Waiting => \E i \in DOMAIN lk : lk[i] = a
  /\ \A a \in Actor : p[a] = "stopping" => lk[1] = a
  /\ \A a \in Actor : h[a] = <<>> <=> p[a] # "stopping"
  /\ \A t \in Task : p[t] = "stopping" => Len(h[t]) = 1
  /\ \A i, j \in DOMAIN lk : lk[i] \in StopCmd /\ p[lk[j]] = "getting" => i < j

LockOK == AtLock(lock, pc, hand)

\* A tree runs its messages one by one, but for those that a /stop has freed; a
\* reply runs after what it replies to.
TreeOK ==
  /\ \A t \in freed : pc[t] \in {"cleanup", "shielding", "removing", "stopping", "over"}
  /\ \A t, u \in Task :
       t # u /\ tree[t] = tree[u] /\ pc[t] \notin Idle /\ pc[u] \notin Idle =>
         t \in freed \/ u \in freed
  /\ \A t \in Task :
       pc[t] # "none" /\ parent[t] \in Task => pc[parent[t]] = "over" \/ parent[t] \in freed

\* What the manager has under an id is the session of a task that goes by that id.
MapsOK ==
  /\ \A id \in Id : pending[id] # None =>
       LET s == pending[id] IN session[s] = s /\ captured[s] = None /\ FirstId(s) = id
  /\ \A id \in Id : sessions[id] # None =>
       LET s == sessions[id] IN id = Real(s) /\ captured[s] = id
  /\ \A id \in Id : tempToReal[id] # None =>
       \E s \in Task : tempToReal[id] = Real(s) /\ session[s] = s /\ FirstId(s) = id

\* Of two tasks that began under one id, the earlier is over or was freed; what a
\* reply resumes is not in the manager any more.
KeysOK ==
  /\ \A t, u \in Task :
       /\ t # u /\ session[t] = t /\ captured[t] = None
       /\ pending[FirstId(t)] = u
       => t \in freed \/ pc[t] = "over"
  /\ \A t, u \in Task :
       session[u] = u /\ parent[u] = t /\ nodeId[t] # None => sessions[Real(t)] = None

\* Whose sessions the manager has.
HeldOK ==
  \A t \in Task : Held(t) =>
    /\ session[t] = t
    /\ pc[t] # "stopping"
    /\ pc[t] = "over" => t \in cutShort
    /\ ~StopUnderWay => t \notin freed

\* While a /stop is under way, no task has a session but those it has freed, and
\* it will stop all of these.
StopOK ==
  /\ StopUnderWay =>
       \A t \in Task : session[t] = None \/ pc[t] = "over" \/ t \in freed
  /\ \A k \in StopCmd : pc[k] = "stopping" =>
       \A t \in alive : Held(t) => \E i \in DOMAIN hand[k] : hand[k][i] = t

\* A task that has a process, or will start one, can be stopped by what the manager
\* has.
KeptOK ==
  \A t \in Task : (t \in alive \/ pc[t] = "spawning") /\ t \notin cutShort =>
    \/ Held(t)
    \/ pc[t] = "stopping" /\ hand[t] = <<t>>
    \/ pc["shutdown"] # "none"
    \/ \E u \in Task : SameKey(u, t)

IInv ==
  /\ TypeOK /\ SessionOK /\ ProcessOK /\ LockOK /\ TreeOK
  /\ MapsOK /\ KeysOK /\ HeldOK /\ StopOK /\ KeptOK
-----------------------------------------------------------------------------
(* Names.                                                                   *)

LEMMA Names ==
  /\ None \notin Task /\ None \notin Id /\ None \notin Past
  /\ Task \cap Past = {} /\ Past \subseteq Id
  /\ Task \subseteq Actor /\ StopCmd \subseteq Actor /\ Stopper \cap Task = {}
  /\ StopCmd \cap Task = {} /\ StopCmd \subseteq Stopper
  /\ "shutdown" \in Actor /\ "shutdown" \notin Task \cup StopCmd
  /\ Actor = Task \cup Stopper
BY CLIAssumption DEF Actor, Stopper, Id

LEMMA Ids ==
  ASSUME NEW t \in Task
  PROVE  /\ Real(t) \in Id /\ Temp(t) \in Id
         /\ Real(t) \notin Past /\ Temp(t) \notin Past
         /\ Real(t) # None /\ Temp(t) # None
BY CLIAssumption DEF Id, OwnIds, Real, Temp

LEMMA IdsDiffer ==
  ASSUME NEW t \in Task, NEW u \in Task
  PROVE  /\ Real(t) = Real(u) => t = u
         /\ Temp(t) = Temp(u) => t = u
         /\ Real(t) # Temp(u)
BY DEF Real, Temp

\* What a task's parent is, and the id it resumes.
LEMMA Parents ==
  ASSUME TypeOK, SessionOK, NEW t \in Task
  PROVE  \/ parent[t] = None /\ ParentSession(t) = None
         \/ parent[t] \in Past /\ parent[t] \notin Task /\ ParentSession(t) = parent[t]
         \/ /\ parent[t] \in Task /\ ParentSession(t) = nodeId[parent[t]]
            /\ nodeId[parent[t]] \in {None, Real(parent[t])}
BY Names DEF TypeOK, SessionOK, ParentSession

LEMMA FirstIds ==
  ASSUME TypeOK, SessionOK, NEW t \in Task
  PROVE  FirstId(t) \in Id /\ FirstId(t) # None
BY Parents, Names, Ids DEF FirstId

\* Who begins under the id of another answers the same message, or that other.
LEMMA SameFirst ==
  ASSUME TypeOK, SessionOK, NEW t \in Task, NEW u \in Task, t # u,
         FirstId(t) = FirstId(u)
  PROVE  /\ ParentSession(t) = FirstId(t) /\ ParentSession(t) # None
         /\ tree[t] = tree[u]
<1>1. Real(t) # Temp(u) /\ Temp(t) # Temp(u)
  BY IdsDiffer
<1>2. ParentSession(t) # None /\ ParentSession(u) # None
      /\ ParentSession(t) = FirstId(t) /\ ParentSession(u) = FirstId(t)
  <2>1. ParentSession(t) # Temp(u) /\ ParentSession(u) # Temp(t)
    BY Parents, Ids, IdsDiffer
  <2> QED BY <1>1, <2>1, Ids DEF FirstId
<1>3. CASE parent[t] \in Past
  <2>1. parent[u] = parent[t]
    BY <1>2, <1>3, Parents, Ids, Names
  <2>2. parent[t] # None /\ parent[u] # None
    BY <1>3, <2>1, Names
  <2>3. tree[t] = tree[parent[t]] /\ tree[u] = tree[parent[u]]
    BY <2>2 DEF TypeOK
  <2> QED BY <1>2, <2>1, <2>3
<1>4. CASE parent[t] \in Task
  <2>1. parent[u] = parent[t]
    <3>1. nodeId[parent[t]] = Real(parent[t]) /\ ParentSession(u) = Real(parent[t])
      BY <1>2, <1>4, Parents, Names
    <3>2. parent[u] \in Task /\ ParentSession(u) = Real(parent[u])
      BY <1>2, <1>4, <3>1, Parents, Ids, Names
    <3> QED BY <1>4, <3>1, <3>2, IdsDiffer
  <2>2. parent[t] # None /\ parent[u] # None
    BY <1>4, <2>1, Names
  <2>3. tree[t] = tree[parent[t]] /\ tree[u] = tree[parent[u]]
    BY <2>2 DEF TypeOK
  <2> QED BY <1>2, <2>1, <2>3
<1> QED BY <1>2, <1>3, <1>4, Parents

LEMMA FirstOfReply ==
  ASSUME TypeOK, SessionOK, NEW t \in Task, NEW u \in Task, FirstId(u) = Real(t)
  PROVE  /\ parent[u] = t /\ tree[u] = tree[t] /\ ParentSession(u) = Real(t)
         /\ nodeId[t] = Real(t) /\ session[t] = t
<1>1. ParentSession(u) = Real(t)
  BY Ids, IdsDiffer DEF FirstId
<1>2. parent[u] = t /\ nodeId[t] = Real(t)
  BY <1>1, Parents, Ids, IdsDiffer
<1>3. session[t] = t
  BY <1>2, Ids DEF SessionOK
<1> QED BY <1>1, <1>2, <1>3, Names DEF TypeOK
-----------------------------------------------------------------------------
(* Steps that change neither what the manager has nor any id.               *)

LEMMA SameNames ==
  ASSUME UNCHANGED <<parent, locals, manager>>
  PROVE  /\ \A t : ParentSession(t)' = ParentSession(t)
         /\ \A t : FirstId(t)' = FirstId(t)
         /\ \A t : Held(t)' = Held(t)
BY DEF ParentSession, FirstId, Held, locals, manager

\* A step of which only this is known: tasks may be freed or get to their end, and
\* processes start and die.
Quiet ==
  /\ UNCHANGED <<parent, tree, locals, manager>>
  /\ freed \subseteq freed' /\ cutShort \subseteq cutShort'
  /\ \A t \in Task : pc[t] = "over" => pc'[t] = "over"

LEMMA QuietMaps ==
  ASSUME MapsOK, KeysOK, Quiet
  PROVE  MapsOK' /\ KeysOK'
<1>1. UNCHANGED <<parent, locals, manager>>
  BY DEF Quiet
<1>2. MapsOK'
  BY <1>1, SameNames DEF MapsOK, locals, manager
<1>3. KeysOK'
  BY <1>1, SameNames DEF KeysOK, Quiet, locals, manager
<1> QED BY <1>2, <1>3

LEMMA QuietSameKey ==
  ASSUME Quiet, NEW t, NEW u, SameKey(u, t)
  PROVE  SameKey(u, t)'
BY SameNames DEF SameKey, Quiet, locals

\* A step of one task that leaves the lock alone.
LEMMA LockStays ==
  ASSUME TypeOK, LockOK, NEW t \in Task, pc[t] \notin Waiting,
         NEW w \in TaskPC \ Waiting, pc' = [pc EXCEPT ![t] = w], UNCHANGED <<lock, hand>>
  PROVE  LockOK'
BY Names DEF TypeOK, LockOK, AtLock, Waiting

LEMMA StopStays ==
  ASSUME TypeOK, LockOK, HeldOK, StopOK, NEW t \in Task, pc[t] \notin Waiting,
         NEW w \in TaskPC \ Waiting, pc' = [pc EXCEPT ![t] = w], UNCHANGED <<lock, hand>>,
         Quiet, UNCHANGED freed, alive' \subseteq alive \/ ~StopUnderWay
  PROVE  StopOK' /\ (StopUnderWay' <=> StopUnderWay)
<1>1. StopUnderWay' <=> StopUnderWay
  BY Names DEF StopUnderWay, TypeOK, Stopper
<1>2. \A k \in StopCmd : pc'[k] = pc[k]
  BY Names DEF TypeOK, Stopper
<1>5. StopUnderWay =>
       \A u \in Task : session'[u] = None \/ pc'[u] = "over" \/ u \in freed'
  BY DEF Quiet, StopOK, locals
<1>6. ASSUME NEW k \in StopCmd, pc'[k] = "stopping", NEW u \in alive', Held(u)'
      PROVE  \E i \in DOMAIN hand'[k] : hand'[k][i] = u
  <2>1. StopUnderWay /\ u \in alive /\ Held(u)
    BY <1>2, <1>6, SameNames DEF StopUnderWay, Quiet
  <2> QED BY <1>2, <1>6, <2>1 DEF StopOK
<1> QED BY <1>1, <1>5, <1>6 DEF StopOK
-----------------------------------------------------------------------------
(* What a task does while it has its session.                               *)

LEMMA WorkStep ==
  ASSUME IInv, NEW t \in Task, pc[t] \notin Waiting \cup Idle \cup {"cleanup"},
         NEW w \in {"reading", "handling", "leaving", "cleanup"},
         t \in freed => w = "cleanup",
         pc' = [pc EXCEPT ![t] = w],
         UNCHANGED <<locals, tasks, manager, lock, hand>>,
         process' \in [Task -> Task \cup {None}], alive' \subseteq Task, pids' \subseteq Task,
         ProcessOK', abandoned' \subseteq abandoned \cup {t},
         alive' \subseteq alive \/ (pc[t] = "spawning" /\ alive' = alive \cup {t})
  PROVE  IInv'
<1> USE DEF IInv
<1>1. Quiet /\ UNCHANGED <<locals, tasks, manager>>
  BY DEF Quiet, tasks, TypeOK, Idle
<1>2. /\ \A u \in Task : FirstId(u)' = FirstId(u) /\ (Held(u)' <=> Held(u))
      /\ \A u \in Task : pc'[u] # pc[u] => u = t
      /\ pc'[t] = w
  BY <1>1, SameNames, Names DEF TypeOK, tasks
<1>3. TypeOK'
  BY <1>1, Names DEF TypeOK, PC, TaskPC, Stopper, locals, tasks, manager
<1>4. SessionOK'
  BY <1>1, <1>2 DEF SessionOK, Idle, Waiting, locals
<1>5. LockOK'
  BY LockStays DEF TaskPC, Waiting
<1>6. TreeOK'
  BY <1>1, <1>2 DEF TreeOK, tasks, Idle
<1>7. MapsOK' /\ KeysOK'
  BY <1>1, QuietMaps
<1>8. alive' \subseteq alive \/ ~StopUnderWay
  <2>1. StopUnderWay /\ pc[t] = "spawning" => FALSE
    BY Names DEF StopOK, TreeOK, SessionOK, Idle, Waiting
  <2> QED BY <2>1
<1>9. StopOK' /\ (StopUnderWay' <=> StopUnderWay)
  BY <1>1, <1>8, StopStays DEF TaskPC, Waiting, tasks
<1>10. HeldOK'
  BY <1>1, <1>2, <1>9 DEF HeldOK, tasks, locals, Idle, Waiting
<1>11. KeptOK'
  <2> SUFFICES ASSUME NEW u \in Task, (u \in alive \/ pc[u] = "spawning"), u \notin cutShort
               PROVE  \/ Held(u)'
                      \/ pc'[u] = "stopping" /\ hand'[u] = <<u>>
                      \/ pc'["shutdown"] # "none"
                      \/ \E v \in Task : SameKey(v, u)'
    BY <1>1, <1>2 DEF KeptOK, tasks
  <2>1. pc[u] = "stopping" => pc'[u] = "stopping"
    BY <1>2 DEF Waiting
  <2>2. pc'["shutdown"] = pc["shutdown"]
    BY Names DEF TypeOK
  <2>3. \A v \in Task : SameKey(v, u) => SameKey(v, u)'
    BY <1>1, QuietSameKey
  <2> QED BY <1>2, <2>1, <2>2, <2>3 DEF KeptOK
<1> QED BY <1>3, <1>4, <1>5, <1>6, <1>7, <1>9, <1>10, <1>11

\* The process of a session lives exactly when that of its task does.
LEMMA Lives ==
  ASSUME ProcessOK, NEW s \in Task
  PROVE  Live(s) <=> s \in alive
BY Names DEF ProcessOK, Live

LEMMA SpawnKeeps ==
  ASSUME IInv, NEW t \in Task, Spawn(t)
  PROVE  IInv'
<1>1. session[t] = t /\ pc[t] = "spawning" /\ t \notin freed
  BY DEF IInv, SessionOK, TreeOK, Spawn
<1>2. /\ pc \in [Actor -> PC] /\ process \in [Task -> Task \cup {None}]
      /\ alive \subseteq Task /\ pids \subseteq Task /\ t \in Actor
  BY Names DEF IInv, TypeOK
<1>3. /\ pc' = [pc EXCEPT ![t] = "reading"] /\ process' = [process EXCEPT ![t] = t]
      /\ alive' = alive \cup {t} /\ pids' = pids \cup {t}
      /\ UNCHANGED <<session, abandoned>>
      /\ UNCHANGED <<locals, tasks, manager, lock, hand>>
  BY <1>1 DEF Spawn, locals
<1>4. process' \in [Task -> Task \cup {None}]
  BY <1>2, <1>3
<1>5. ProcessOK'
  BY <1>1, <1>2, <1>3, <1>4 DEF IInv, ProcessOK
<1> QED BY <1>1, <1>2, <1>3, <1>4, <1>5, WorkStep DEF Waiting, Idle

\* The end of a generator: its process has died, or never was.
LEMMA ClosedKeeps ==
  ASSUME IInv, NEW t \in Task, session[t] = t, t \notin alive, CloseGenerator(t)
  PROVE  pids' \subseteq Task /\ alive \subseteq pids'
<1>1. pids' = pids \ {process[t]} /\ process[t] \in {None, t}
  BY DEF CloseGenerator, IInv, ProcessOK
<1>2. pids \subseteq Task /\ alive \subseteq pids /\ None \notin alive
  BY Names DEF IInv, TypeOK, ProcessOK
<1> QED BY <1>1, <1>2

\* A step of a task that starts no process.
LEMMA WorkStepNoSpawn ==
  ASSUME IInv, NEW t \in Task, pc[t] \notin Waiting \cup Idle \cup {"cleanup"},
         NEW w \in {"reading", "handling", "leaving", "cleanup"},
         t \in freed => w = "cleanup", w = "leaving" => t \notin alive,
         pc' = [pc EXCEPT ![t] = w],
         UNCHANGED <<locals, tasks, manager, lock, hand, process, alive>>,
         pids' \subseteq Task, alive \subseteq pids', abandoned' \subseteq abandoned \cup {t}
  PROVE  IInv'
<1>1. /\ pc \in [Actor -> PC] /\ process \in [Task -> Task \cup {None}]
      /\ alive \subseteq Task /\ t \in Actor
  BY Names DEF IInv, TypeOK
<1>2. ProcessOK'
  BY <1>1 DEF IInv, ProcessOK, locals
<1>3. /\ process' \in [Task -> Task \cup {None}] /\ alive' \subseteq Task /\ alive' \subseteq alive
      /\ UNCHANGED <<locals, tasks, manager, lock, hand>>
  BY <1>1
<1>4. alive' \subseteq alive \/ (pc[t] = "spawning" /\ alive' = alive \cup {t})
  BY <1>3
<1> QED BY <1>2, <1>3, <1>4, WorkStep

LEMMA SpawnFailsKeeps ==
  ASSUME IInv, NEW t \in Task, SpawnFails(t)
  PROVE  IInv'
<1>1. session[t] = t /\ pc[t] = "spawning" /\ t \notin alive
  BY DEF IInv, SessionOK, ProcessOK, SpawnFails
<1>2. pids' \subseteq Task /\ alive \subseteq pids'
  BY <1>1, ClosedKeeps DEF SpawnFails
<1>3. /\ pc' = [pc EXCEPT ![t] = "cleanup"]
      /\ UNCHANGED <<locals, tasks, manager, lock, hand, process, alive, abandoned>>
  BY DEF SpawnFails
<1> QED BY <1>1, <1>2, <1>3, WorkStepNoSpawn DEF Waiting, Idle

LEMMA HandleKeeps ==
  ASSUME IInv, NEW t \in Task, Handle(t)
  PROVE  IInv'
<1>1. PICK w \in {"reading", "handling"} : pc' = [pc EXCEPT ![t] = w]
  BY DEF Handle
<1>2. pc[t] \in {"reading", "handling"} /\ t \notin freed
  BY DEF Handle, IInv, TreeOK
<1>3. UNCHANGED <<locals, tasks, manager, lock, hand, process, alive, pids, abandoned>>
  BY DEF Handle, procs
<1>4. pids \subseteq Task /\ alive \subseteq pids
  BY DEF IInv, TypeOK, ProcessOK
<1> QED BY <1>1, <1>2, <1>3, <1>4, WorkStepNoSpawn DEF Waiting, Idle

LEMMA HandleFailsKeeps ==
  ASSUME IInv, NEW t \in Task, HandleFails(t)
  PROVE  IInv'
<1>1. pc[t] = "handling" /\ pc' = [pc EXCEPT ![t] = "cleanup"]
  BY DEF HandleFails
<1>2. /\ UNCHANGED <<locals, tasks, manager, lock, hand, process, alive, pids>>
      /\ abandoned' = abandoned \cup {t}
  BY DEF HandleFails, procs
<1>3. pids \subseteq Task /\ alive \subseteq pids
  BY DEF IInv, TypeOK, ProcessOK
<1> QED BY <1>1, <1>2, <1>3, WorkStepNoSpawn DEF Waiting, Idle

LEMMA ReadExitKeeps ==
  ASSUME IInv, NEW t \in Task, ReadExit(t)
  PROVE  IInv'
<1>1. pc[t] = "reading" /\ pc' = [pc EXCEPT ![t] = "leaving"] /\ t \notin alive
  BY DEF ReadExit
<1>2. t \notin freed
  BY <1>1 DEF IInv, TreeOK
<1>3. UNCHANGED <<locals, tasks, manager, lock, hand, process, alive, pids, abandoned>>
  BY DEF ReadExit, procs
<1>4. pids \subseteq Task /\ alive \subseteq pids
  BY DEF IInv, TypeOK, ProcessOK
<1> QED BY <1>1, <1>2, <1>3, <1>4, WorkStepNoSpawn DEF Waiting, Idle

LEMMA ShieldEndsKeeps ==
  ASSUME IInv, NEW t \in Task, ShieldEnds(t)
  PROVE  IInv'
<1>1. session[t] = t /\ pc[t] = "shielding" /\ t \notin alive
  BY DEF IInv, SessionOK, ShieldEnds
<1>2. pids' \subseteq Task /\ alive \subseteq pids'
  BY <1>1, ClosedKeeps DEF ShieldEnds
<1>3. /\ pc' = [pc EXCEPT ![t] = "cleanup"]
      /\ UNCHANGED <<locals, tasks, manager, lock, hand, process, alive, abandoned>>
  BY DEF ShieldEnds
<1> QED BY <1>1, <1>2, <1>3, WorkStepNoSpawn DEF Waiting, Idle

\* Steps of processes alone.
LEMMA ProcessStep ==
  ASSUME IInv, UNCHANGED <<pc, locals, tasks, manager, lock, hand, process>>,
         alive' \subseteq alive, pids' \subseteq Task, alive' \subseteq pids',
         abandoned' \subseteq abandoned
  PROVE  IInv'
<1> USE DEF IInv
<1>1. Quiet /\ UNCHANGED <<locals, tasks, manager>>
  BY DEF Quiet, tasks
<1>2. /\ \A u \in Task : FirstId(u)' = FirstId(u) /\ (Held(u)' <=> Held(u))
      /\ StopUnderWay' <=> StopUnderWay
  BY <1>1, SameNames DEF tasks, StopUnderWay
<1>3. TypeOK' /\ SessionOK'
  BY <1>1, <1>2 DEF TypeOK, SessionOK, locals, tasks, manager
<1>4. ProcessOK' /\ LockOK' /\ TreeOK'
  BY <1>1 DEF ProcessOK, LockOK, TreeOK, TypeOK, locals, tasks
<1>5. MapsOK' /\ KeysOK'
  BY <1>1, QuietMaps
<1>6. HeldOK' /\ StopOK'
  BY <1>1, <1>2 DEF HeldOK, StopOK, locals, tasks
<1>7. KeptOK'
  <2>1. \A u, v \in Task : SameKey(v, u) => SameKey(v, u)'
    BY <1>1, QuietSameKey
  <2> QED BY <1>1, <1>2, <2>1 DEF KeptOK, tasks
<1> QED BY <1>3, <1>4, <1>5, <1>6, <1>7

LEMMA DieKeeps ==
  ASSUME IInv, NEW t \in Task, Die(t)
  PROVE  IInv'
BY ProcessStep DEF Die, IInv, ProcessOK, TypeOK

LEMMA EscalateKeeps ==
  ASSUME IInv, NEW a \in Actor, Escalate(a)
  PROVE  IInv'
BY ProcessStep DEF Escalate, IInv, ProcessOK, TypeOK

LEMMA CloseAbandonedKeeps ==
  ASSUME IInv, NEW t \in Task, CloseAbandoned(t)
  PROVE  IInv'
<1>1. session[t] = t /\ t \notin alive
  BY DEF IInv, SessionOK, CloseAbandoned
<1>2. pids' \subseteq Task /\ (alive \subseteq pids')
  BY <1>1, ClosedKeeps DEF CloseAbandoned
<1> QED BY <1>2, ProcessStep DEF CloseAbandoned
-----------------------------------------------------------------------------
(* Coming to the lock while somebody has it.                                *)

LEMMA Appended ==
  ASSUME NEW S, NEW q \in Seq(S), NEW e \in S
  PROVE  /\ Append(q, e) \in Seq(S)
         /\ Len(q) + 1 \in DOMAIN Append(q, e) /\ Append(q, e)[Len(q) + 1] = e
         /\ \A i \in DOMAIN q : i \in DOMAIN Append(q, e) /\ Append(q, e)[i] = q[i]
                                /\ i < Len(q) + 1
         /\ \A i \in DOMAIN Append(q, e) : i \in DOMAIN q \/ i = Len(q) + 1
OBVIOUS

LEMMA FirstPlace ==
  ASSUME NEW S, NEW q \in Seq(S), q # <<>>
  PROVE  1 \in DOMAIN q /\ Head(q) = q[1] /\ Head(q) \in S
OBVIOUS

LEMMA Enters ==
  ASSUME NEW lk \in Seq(Actor), NEW p \in [Actor -> PC], NEW h, AtLock(lk, p, h),
         NEW a \in Actor, p[a] \notin Waiting,
         NEW w \in Waiting \ {"stopping"},
         a \in StopCmd => w # "getting" /\ \A b \in Actor : p[b] # "getting"
  PROVE  AtLock(Append(lk, a), [p EXCEPT ![a] = w], h)
<1> DEFINE lk2 == Append(lk, a)
           p2 == [p EXCEPT ![a] = w]
<1>1. /\ Len(lk) + 1 \in DOMAIN lk2 /\ lk2[Len(lk) + 1] = a
      /\ \A i \in DOMAIN lk : i \in DOMAIN lk2 /\ lk2[i] = lk[i] /\ i < Len(lk) + 1
      /\ \A i \in DOMAIN lk2 : i \in DOMAIN lk \/ i = Len(lk) + 1
      /\ lk # <<>> => 1 \in DOMAIN lk
  BY Appended, FirstPlace
<1>2. \A i \in DOMAIN lk : lk[i] # a /\ lk[i] \in Actor
  BY DEF AtLock
<1>3. \A b \in Actor : p2[b] = IF b = a THEN w ELSE p[b]
  OBVIOUS
<1> HIDE DEF lk2, p2
<1>4. \A i, j \in DOMAIN lk2 : lk2[i] = lk2[j] => i = j
  BY <1>1, <1>2 DEF AtLock
<1>5. ASSUME NEW i \in DOMAIN lk2
      PROVE  p2[lk2[i]] \in Waiting
  <2>1. CASE i \in DOMAIN lk
    BY <1>1, <1>2, <1>3, <2>1 DEF AtLock
  <2>2. CASE i = Len(lk) + 1
    BY <1>1, <1>3, <2>2
  <2> QED BY <1>1, <2>1, <2>2
<1>6. \A b \in Actor : p2[b] \in Waiting => \E i \in DOMAIN lk2 : lk2[i] = b
  BY <1>1, <1>3 DEF AtLock
<1>7. ASSUME NEW b \in Actor, p2[b] = "stopping"
      PROVE  lk2[1] = b
  <2>1. p[b] = "stopping" /\ p[b] \in Waiting
    BY <1>3, <1>7 DEF Waiting
  <2>2. lk # <<>> /\ lk[1] = b
    BY <2>1 DEF AtLock
  <2> QED BY <1>1, <2>2
<1>8. \A b \in Actor : h[b] = <<>> <=> p2[b] # "stopping"
  BY <1>3 DEF AtLock, Waiting
<1>9. \A u \in Task : p2[u] = "stopping" => Len(h[u]) = 1
  BY <1>3, Names DEF AtLock
<1>10. ASSUME NEW i \in DOMAIN lk2, NEW j \in DOMAIN lk2,
              lk2[i] \in StopCmd, p2[lk2[j]] = "getting"
       PROVE  i < j
  <2>1. CASE i = Len(lk) + 1
    <3>1. lk2[j] \in Actor /\ p2[lk2[j]] = IF j = Len(lk) + 1 THEN w ELSE p[lk2[j]]
      BY <1>1, <1>2, <1>3
    <3> QED BY <1>1, <1>10, <2>1, <3>1
  <2>2. CASE i \in DOMAIN lk /\ j = Len(lk) + 1
    BY <1>1, <2>2
  <2>3. CASE i \in DOMAIN lk /\ j \in DOMAIN lk
    BY <1>1, <1>2, <1>3, <1>10, <2>3 DEF AtLock
  <2> QED BY <1>1, <2>1, <2>2, <2>3
<1> QED BY <1>4, <1>5, <1>6, <1>7, <1>8, <1>9, <1>10 DEF AtLock, lk2, p2

\* A task waits for the lock.
LEMMA WaitStep ==
  ASSUME IInv, NEW t \in Task, pc[t] \notin Waiting \cup {"over"}, lock # <<>>,
         NEW w \in {"getting", "registering", "removing"},
         pc' = [pc EXCEPT ![t] = w], lock' = Append(lock, t),
         UNCHANGED <<locals, tasks, manager, hand, process, alive>>, SessionOK', TreeOK',
         pids' \subseteq Task, alive \subseteq pids', abandoned' \subseteq Task
  PROVE  IInv'
<1> USE DEF IInv
<1>1. Quiet /\ UNCHANGED <<locals, tasks, manager, hand, process, alive>>
  BY DEF Quiet, tasks, TypeOK, Idle
<1>2. /\ \A u \in Task : FirstId(u)' = FirstId(u) /\ (Held(u)' <=> Held(u))
      /\ \A u \in Actor : pc'[u] # pc[u] => u = t
      /\ pc'[t] = w
  BY <1>1, SameNames, Names DEF TypeOK, tasks
<1>3. t \in Actor /\ lock \in Seq(Actor)
  BY Names DEF TypeOK
<1>4. TypeOK'
  <2>1. lock' \in Seq(Actor)
    BY <1>3, Appended
  <2> QED BY <1>1, <2>1, Names DEF TypeOK, PC, TaskPC, Stopper, locals, tasks, manager
<1>5. ProcessOK'
  BY <1>1, <1>2, Names DEF ProcessOK, locals
<1>6. LockOK'
  <2>1. AtLock(Append(lock, t), [pc EXCEPT ![t] = w], hand)
    BY <1>3, Names, Enters DEF Waiting, LockOK, TypeOK
  <2> QED BY <1>1, <2>1 DEF LockOK
<1>7. MapsOK' /\ KeysOK'
  BY <1>1, QuietMaps
<1>8. /\ StopUnderWay' <=> StopUnderWay
      /\ \A k \in StopCmd : pc'[k] = pc[k]
  BY <1>2, Names DEF StopUnderWay
<1>9. StopOK'
  <2>2. StopUnderWay' =>
       \A u \in Task : session'[u] = None \/ pc'[u] = "over" \/ u \in freed'
    BY <1>1, <1>2, <1>8, Names DEF StopOK, locals, tasks
  <2>3. \A k \in StopCmd : pc'[k] = "stopping" =>
       \A u \in alive' : Held(u)' => \E i \in DOMAIN hand'[k] : hand'[k][i] = u
    BY <1>1, <1>2, <1>8 DEF StopOK, TypeOK
  <2> QED BY <2>2, <2>3 DEF StopOK
<1>10. HeldOK'
  BY <1>1, <1>2, <1>8, Names DEF HeldOK, tasks, locals
<1>11. KeptOK'
  <2> SUFFICES ASSUME NEW u \in Task, (u \in alive \/ pc[u] = "spawning"), u \notin cutShort
               PROVE  \/ Held(u)'
                      \/ pc'[u] = "stopping" /\ hand'[u] = <<u>>
                      \/ pc'["shutdown"] # "none"
                      \/ \E v \in Task : SameKey(v, u)'
    BY <1>1, <1>2, Names DEF KeptOK, tasks
  <2>1. pc[u] = "stopping" => pc'[u] = "stopping"
    BY <1>2, Names DEF Waiting
  <2>2. pc'["shutdown"] = pc["shutdown"]
    BY <1>2, Names
  <2>3. \A v \in Task : SameKey(v, u) => SameKey(v, u)'
    BY <1>1, QuietSameKey
  <2> QED BY <1>1, <1>2, <2>1, <2>2, <2>3 DEF KeptOK
<1> QED BY <1>4, <1>5, <1>6, <1>7, <1>9, <1>10, <1>11
-----------------------------------------------------------------------------
(* Having the lock.                                                         *)

\* It is free and nobody waits, or `a` is the first; then `queue` is who waits.
Served(lk, p, a, queue) ==
  \/ lk = <<>> /\ p[a] \notin Waiting /\ queue = <<>>
  \/ lk # <<>> /\ p[a] \in Waiting /\ Head(lk) = a /\ queue = Tail(lk)

LEMMA ServedFacts ==
  ASSUME NEW lk \in Seq(Actor), NEW p, NEW h, AtLock(lk, p, h),
         NEW a \in Actor, NEW queue, Served(lk, p, a, queue)
  PROVE  /\ queue \in Seq(Actor)
         /\ \A i \in DOMAIN queue : i \in Nat /\ i + 1 \in DOMAIN lk /\ lk[i + 1] = queue[i]
                                    /\ queue[i] # a /\ queue[i] \in Actor
         /\ \A i \in DOMAIN lk : lk[i] = a \/ \E j \in DOMAIN queue : queue[j] = lk[i]
         /\ \A b \in Actor : p[b] = "stopping" => b = a
<1>1. CASE lk = <<>> /\ queue = <<>>
  BY <1>1 DEF AtLock, Waiting
<1>2. CASE lk # <<>> /\ Head(lk) = a /\ queue = Tail(lk)
  <2>1. /\ queue \in Seq(Actor) /\ lk[1] = a /\ 1 \in DOMAIN lk
        /\ \A i \in DOMAIN queue : i \in Nat /\ i + 1 \in DOMAIN lk /\ lk[i + 1] = queue[i]
                                   /\ i + 1 # 1
        /\ \A i \in DOMAIN lk : i # 1 => i - 1 \in DOMAIN queue /\ queue[i - 1] = lk[i]
    BY <1>2
  <2>2. \A i \in DOMAIN queue : queue[i] # a /\ queue[i] \in Actor
    BY <2>1 DEF AtLock
  <2>3. \A b \in Actor : p[b] = "stopping" => b = a
    BY <2>1 DEF AtLock
  <2> QED BY <2>1, <2>2, <2>3
<1> QED BY <1>1, <1>2 DEF Served

LEMMA Leaves ==
  ASSUME NEW lk \in Seq(Actor), NEW p \in [Actor -> PC], NEW h \in [Actor -> Seq(Task)],
         AtLock(lk, p, h), NEW a \in Actor, NEW queue, Served(lk, p, a, queue),
         NEW w \in PC \ Waiting
  PROVE  AtLock(queue, [p EXCEPT ![a] = w], [h EXCEPT ![a] = <<>>])
<1> DEFINE p2 == [p EXCEPT ![a] = w]
           h2 == [h EXCEPT ![a] = <<>>]
<1>1. /\ queue \in Seq(Actor)
      /\ \A i \in DOMAIN queue : i \in Nat /\ i + 1 \in DOMAIN lk /\ lk[i + 1] = queue[i]
                                 /\ queue[i] # a /\ queue[i] \in Actor
      /\ \A i \in DOMAIN lk : lk[i] = a \/ \E j \in DOMAIN queue : queue[j] = lk[i]
      /\ \A b \in Actor : p[b] = "stopping" => b = a
  BY ServedFacts
<1>2. \A b \in Actor : /\ p2[b] = IF b = a THEN w ELSE p[b]
                       /\ h2[b] = IF b = a THEN <<>> ELSE h[b]
  OBVIOUS
<1> HIDE DEF p2, h2
<1>3. \A i, j \in DOMAIN queue : queue[i] = queue[j] => i = j
  BY <1>1 DEF AtLock
<1>4. ASSUME NEW i \in DOMAIN queue
      PROVE  p2[queue[i]] \in Waiting
  <2>1. i + 1 \in DOMAIN lk /\ lk[i + 1] = queue[i] /\ queue[i] # a /\ queue[i] \in Actor
    BY <1>1
  <2>2. p[lk[i + 1]] \in Waiting
    BY <2>1 DEF AtLock
  <2> QED BY <1>2, <2>1, <2>2
<1>5. \A b \in Actor : p2[b] \in Waiting => \E i \in DOMAIN queue : queue[i] = b
  BY <1>1, <1>2 DEF AtLock
<1>6. \A b \in Actor : p2[b] # "stopping" /\ h2[b] = <<>>
  BY <1>1, <1>2 DEF AtLock, Waiting
<1>7. ASSUME NEW i \in DOMAIN queue, NEW j \in DOMAIN queue,
             queue[i] \in StopCmd, p2[queue[j]] = "getting"
      PROVE  i < j
  <2>1. /\ i \in Nat /\ i + 1 \in DOMAIN lk /\ lk[i + 1] \in StopCmd
        /\ j \in Nat /\ j + 1 \in DOMAIN lk /\ p[lk[j + 1]] = "getting"
    BY <1>1, <1>2, <1>7
  <2>2. i + 1 < j + 1
    BY <2>1 DEF AtLock
  <2> QED BY <2>1, <2>2
<1> QED BY <1>3, <1>4, <1>5, <1>6, <1>7, Names DEF AtLock, p2, h2

LEMMA InFront ==
  ASSUME NEW S, NEW q \in Seq(S), NEW e \in S
  PROVE  /\ <<e>> \o q \in Seq(S) /\ 1 \in DOMAIN (<<e>> \o q) /\ (<<e>> \o q)[1] = e
         /\ DOMAIN (<<e>> \o q) \subseteq Nat
         /\ \A i \in DOMAIN (<<e>> \o q) :
              i = 1 \/ (i > 1 /\ i - 1 \in DOMAIN q /\ (<<e>> \o q)[i] = q[i - 1])
         /\ \A i \in DOMAIN q : i + 1 \in DOMAIN (<<e>> \o q) /\ (<<e>> \o q)[i + 1] = q[i]
OBVIOUS

LEMMA Holds ==
  ASSUME NEW lk \in Seq(Actor), NEW p \in [Actor -> PC], NEW h \in [Actor -> Seq(Task)],
         AtLock(lk, p, h), NEW a \in Actor, NEW queue, Served(lk, p, a, queue),
         NEW q \in Seq(Task), q # <<>>, a \in Task => Len(q) = 1
  PROVE  AtLock(<<a>> \o queue, [p EXCEPT ![a] = "stopping"], [h EXCEPT ![a] = q])
<1> DEFINE p2 == [p EXCEPT ![a] = "stopping"]
           h2 == [h EXCEPT ![a] = q]
           lk2 == <<a>> \o queue
<1>1. /\ queue \in Seq(Actor)
      /\ \A i \in DOMAIN queue : i \in Nat /\ i + 1 \in DOMAIN lk /\ lk[i + 1] = queue[i]
                                 /\ queue[i] # a /\ queue[i] \in Actor
      /\ \A i \in DOMAIN lk : lk[i] = a \/ \E j \in DOMAIN queue : queue[j] = lk[i]
      /\ \A b \in Actor : p[b] = "stopping" => b = a
  BY ServedFacts
<1>2. \A b \in Actor : /\ p2[b] = IF b = a THEN "stopping" ELSE p[b]
                       /\ h2[b] = IF b = a THEN q ELSE h[b]
  OBVIOUS
<1> HIDE DEF lk2
<1>3. /\ 1 \in DOMAIN lk2 /\ lk2[1] = a
      /\ \A i \in DOMAIN lk2 :
           i = 1 \/ (i > 1 /\ i - 1 \in DOMAIN queue /\ lk2[i] = queue[i - 1])
      /\ \A i \in DOMAIN queue : i + 1 \in DOMAIN lk2 /\ lk2[i + 1] = queue[i]
      /\ DOMAIN lk2 \subseteq Nat
  <2>1. queue \in Seq(Actor)
    BY <1>1
  <2> HIDE <1>1
  <2> QED BY <2>1, InFront DEF lk2
<1> HIDE DEF p2, h2
<1>4. \A i \in DOMAIN lk2 : i # 1 => i \in DOMAIN lk /\ lk2[i] = lk[i] /\ lk2[i] # a
                                      /\ lk2[i] \in Actor
  BY <1>1, <1>3
<1>5. \A i, j \in DOMAIN lk2 : lk2[i] = lk2[j] => i = j
  BY <1>3, <1>4 DEF AtLock
<1>6. \A i \in DOMAIN lk2 : p2[lk2[i]] \in Waiting
  BY <1>2, <1>3, <1>4 DEF AtLock, Waiting
<1>7. ASSUME NEW b \in Actor, p2[b] \in Waiting
      PROVE  \E i \in DOMAIN lk2 : lk2[i] = b
  <2>1. CASE b = a
    BY <1>3, <2>1
  <2>2. CASE b # a
    <3>1. PICK i \in DOMAIN lk : lk[i] = b
      BY <1>2, <1>7, <2>2 DEF AtLock
    <3>2. PICK j \in DOMAIN queue : queue[j] = b
      BY <1>1, <2>2, <3>1
    <3> QED BY <1>3, <3>2
  <2> QED BY <2>1, <2>2
<1>8. \A b \in Actor : p2[b] = "stopping" => lk2[1] = b
  BY <1>1, <1>2, <1>3
<1>9. \A b \in Actor : h2[b] = <<>> <=> p2[b] # "stopping"
  BY <1>1, <1>2 DEF AtLock
<1>10. \A u \in Task : p2[u] = "stopping" => Len(h2[u]) = 1
  BY <1>1, <1>2, Names
<1>11. ASSUME NEW i \in DOMAIN lk2, NEW j \in DOMAIN lk2,
              lk2[i] \in StopCmd, p2[lk2[j]] = "getting"
       PROVE  i < j
  <2>1. j # 1 /\ p[lk2[j]] = "getting"
    BY <1>2, <1>3, <1>4, <1>11
  <2>2. CASE i = 1
    BY <1>3, <2>1, <2>2
  <2>3. CASE i # 1
    BY <1>4, <1>11, <2>1, <2>3 DEF AtLock
  <2> QED BY <2>2, <2>3
<1> QED BY <1>5, <1>6, <1>7, <1>8, <1>9, <1>10, <1>11 DEF AtLock, p2, h2, lk2
-----------------------------------------------------------------------------
(* Getting a session.                                                       *)

\* The task may begin now, or has begun and waits for its session.
Beginning(t) == MayBegin(t) \/ pc[t] = "getting"

LEMMA BeginningTree ==
  ASSUME IInv, NEW t \in Task, Beginning(t), NEW w \in {"getting", "spawning"},
         pc' = [pc EXCEPT ![t] = w], UNCHANGED tasks
  PROVE  TreeOK'
<1>1. /\ pc \in [Actor -> PC] /\ t \in Actor /\ freed \subseteq Task
      /\ UNCHANGED <<parent, tree, freed>>
  BY Names DEF IInv, TypeOK, tasks
<1>2. t \notin freed /\ pc[t] \in {"none", "getting"}
  BY DEF IInv, TreeOK, Beginning, MayBegin
<1>3. \A u \in Task : pc'[u] = IF u = t THEN w ELSE pc[u]
  BY <1>1, Names
<1>4. \A u \in freed' : pc'[u] \in {"cleanup", "shielding", "removing", "stopping", "over"}
  BY <1>1, <1>2, <1>3 DEF IInv, TreeOK
<1>5. \A u \in Task \ {t} : tree[u] = tree[t] => pc[u] \in Idle \/ u \in freed
  BY <1>2 DEF IInv, TreeOK, Beginning, MayBegin, Idle
<1>6. parent[t] \in Task => pc[parent[t]] = "over" \/ parent[t] \in freed
  <2>1. CASE pc[t] = "getting"
    BY <2>1 DEF IInv, TreeOK
  <2>2. CASE MayBegin(t) /\ parent[t] \in Task
    <3>1. parent[t] # t /\ tree[parent[t]] = tree[t] /\ pc[parent[t]] # "none"
      BY <2>2, Names DEF IInv, TypeOK, MayBegin
    <3> QED BY <1>5, <2>2, <3>1 DEF Idle
  <2> QED BY <2>1, <2>2 DEF Beginning
<1>7. \A u, v \in Task :
       u # v /\ tree'[u] = tree'[v] /\ pc'[u] \notin Idle /\ pc'[v] \notin Idle =>
         u \in freed' \/ v \in freed'
  BY <1>1, <1>3, <1>5 DEF IInv, TreeOK
<1>8. \A u \in Task :
       pc'[u] # "none" /\ parent'[u] \in Task =>
         pc'[parent'[u]] = "over" \/ parent'[u] \in freed'
  BY <1>1, <1>2, <1>3, <1>6 DEF IInv, TreeOK
<1> QED BY <1>4, <1>7, <1>8 DEF TreeOK

LEMMA NoStop ==
  ASSUME TypeOK, LockOK, NEW t \in Task, pc[t] \in {"none", "getting"},
         NEW queue, Served(lock, pc, t, queue)
  PROVE  ~StopUnderWay
<1> SUFFICES ASSUME NEW k \in StopCmd, pc[k] \in {"queued", "stopping"} PROVE FALSE
  BY DEF StopUnderWay
<1>1. lock \in Seq(Actor) /\ k \in Actor /\ pc[k] \in Waiting
  BY Names DEF TypeOK, Waiting
<1>2. PICK i \in DOMAIN lock : lock[i] = k
  BY <1>1 DEF LockOK, AtLock
<1>3. lock # <<>> /\ pc[t] = "getting" /\ Head(lock) = t
  BY <1>1, <1>2 DEF Served, Waiting
<1>4. 1 \in DOMAIN lock /\ lock[1] = t
  BY <1>1, <1>3, FirstPlace
<1>5. i < 1
  BY <1>2, <1>3, <1>4 DEF LockOK, AtLock
<1> QED BY <1>1, <1>5

\* What the manager has is held by somebody.
LEMMA WhoHolds ==
  ASSUME TypeOK, MapsOK, NEW id \in Id
  PROVE  /\ pending[id] # None => /\ pending[id] \in Task /\ Held(pending[id])
                                  /\ FirstId(pending[id]) = id
         /\ sessions[id] # None => /\ sessions[id] \in Task /\ Held(sessions[id])
                                   /\ Real(sessions[id]) = id
BY DEF TypeOK, MapsOK, Held

\* When a task comes to get its session, the manager has none of its tree.
LEMMA NoneOfTree ==
  ASSUME IInv, NEW t \in Task, Beginning(t), ~StopUnderWay, NEW s \in Task, Held(s)
  PROVE  s # t /\ tree[s] # tree[t]
<1>1. session[s] = s /\ pc[s] \notin Idle \cup {"getting"} /\ s \notin freed
  <2>1. session[s] = s /\ s \notin freed /\ pc[s] # "over"
    BY DEF IInv, HeldOK, TypeOK
  <2> QED BY <2>1, Names DEF IInv, SessionOK, Idle
<1>2. pc[t] \in {"none", "getting"} /\ t \notin freed
  BY DEF IInv, TreeOK, Beginning, MayBegin
<1> QED BY <1>1, <1>2 DEF IInv, TreeOK, Beginning, MayBegin, Idle

LEMMA NothingFound ==
  ASSUME IInv, NEW t \in Task, Beginning(t), ~StopUnderWay
  PROVE  Found(ParentSession(t)) = None /\ pending[FirstId(t)] = None
<1> USE DEF IInv
<1>1. session[t] = None
  BY DEF SessionOK, Beginning, MayBegin
<1>2. ASSUME NEW s \in Task, Held(s)
      PROVE  FirstId(s) # FirstId(t) /\ FirstId(s) # ParentSession(t)
             /\ Real(s) # ParentSession(t)
  <2>1. s # t /\ tree[s] # tree[t]
    BY <1>2, NoneOfTree
  <2>2. FirstId(s) # FirstId(t)
    BY <2>1, SameFirst
  <2>3. FirstId(s) # ParentSession(t)
    BY <2>2, FirstIds DEF FirstId
  <2>4. Real(s) # ParentSession(t)
    BY <2>1, FirstOfReply, Ids DEF FirstId
  <2> QED BY <2>2, <2>3, <2>4
<1>3. pending[FirstId(t)] = None
  BY <1>2, FirstIds, WhoHolds
<1>4. CASE ParentSession(t) = None
  BY <1>3, <1>4 DEF Found
<1>5. CASE ParentSession(t) # None
  <2> DEFINE id == ParentSession(t)
  <2>1. id = FirstId(t) /\ id \in Id
    BY <1>5, FirstIds DEF FirstId
  <2>2. CASE tempToReal[id] = None
    <3>1. sessions[id] = None
      BY <1>2, <2>1, WhoHolds
    <3> QED BY <1>3, <1>5, <2>1, <2>2, <3>1 DEF Found, Lookup
  <2>3. CASE tempToReal[id] # None
    <3>1. PICK x \in Task : tempToReal[id] = Real(x) /\ session[x] = x /\ FirstId(x) = id
      BY <2>1, <2>3 DEF MapsOK
    <3>2. tree[x] = tree[t]
      BY <1>1, <2>1, <3>1, SameFirst, Names
    <3>3. sessions[Real(x)] = None
      BY <3>2, Ids, IdsDiffer, WhoHolds, NoneOfTree
    <3>4. pending[Real(x)] = None
      BY <3>2, Ids, FirstOfReply, WhoHolds, NoneOfTree
    <3>5. Lookup(id) = Real(x)
      BY <2>3, <3>1 DEF Lookup
    <3> QED BY <1>3, <1>5, <3>3, <3>4, <3>5 DEF Found
  <2> QED BY <2>2, <2>3
<1> QED BY <1>3, <1>4, <1>5

\* GetSession, once the manager is known to have nothing for the task.
LEMMA GetsNew ==
  ASSUME IInv, NEW t \in Task, Beginning(t), ~StopUnderWay, GetSession(t)
  PROVE  /\ session' = [session EXCEPT ![t] = t] /\ pc' = [pc EXCEPT ![t] = "spawning"]
         /\ pending' = [pending EXCEPT ![FirstId(t)] = t]
         /\ temp' = [temp EXCEPT ![t] = FirstId(t)] /\ captured' = captured
BY NothingFound DEF GetSession, JoinSession, FirstId

LEMMA GetStep ==
  ASSUME IInv, NEW t \in Task, Beginning(t), NEW queue, Served(lock, pc, t, queue),
         GetSession(t), lock' = queue,
         UNCHANGED <<nodeId, tasks, sessions, tempToReal, realToTemp, hand, procs, abandoned>>
  PROVE  IInv'
<1> USE DEF IInv
<1>1. pc[t] \in {"none", "getting"} /\ t \notin freed /\ session[t] = None
      /\ captured[t] = None /\ nodeId[t] = None
  BY DEF TreeOK, SessionOK, Beginning, MayBegin
<1>2. ~StopUnderWay
  BY <1>1, NoStop
<1>3. /\ session' = [session EXCEPT ![t] = t] /\ pc' = [pc EXCEPT ![t] = "spawning"]
      /\ pending' = [pending EXCEPT ![FirstId(t)] = t]
      /\ temp' = [temp EXCEPT ![t] = FirstId(t)] /\ captured' = captured
  BY <1>2, GetsNew
<1>4. /\ UNCHANGED <<nodeId, sessions, tempToReal, realToTemp, hand, process, alive, pids>>
      /\ UNCHANGED <<parent, tree, freed, cutShort, abandoned>>
  BY DEF tasks, procs
<1>5. /\ session \in [Task -> Task \cup {None}] /\ pc \in [Actor -> PC]
      /\ pending \in [Id -> Task \cup {None}] /\ temp \in [Task -> Id \cup {None}]
      /\ FirstId(t) \in Id /\ t \in Actor /\ t # None
      /\ lock \in Seq(Actor) /\ hand \in [Actor -> Seq(Task)]
  BY FirstIds, Names DEF TypeOK
<1>6. /\ \A u \in Task : session'[u] = IF u = t THEN t ELSE session[u]
      /\ \A u \in Task : temp'[u] = IF u = t THEN FirstId(t) ELSE temp[u]
      /\ \A a \in Actor : pc'[a] = IF a = t THEN "spawning" ELSE pc[a]
      /\ \A id \in Id : pending'[id] = IF id = FirstId(t) THEN t ELSE pending[id]
      /\ \A u : FirstId(u)' = FirstId(u) /\ ParentSession(u)' = ParentSession(u)
  BY <1>3, <1>4, <1>5 DEF FirstId, ParentSession
<1>7. pending[FirstId(t)] = None
  BY <1>2, NothingFound
<1>8. \A u \in Task : Held(u)' <=> u = t \/ Held(u)
  BY <1>4, <1>5, <1>6, <1>7, FirstIds, Names DEF Held
<1>9. ~StopUnderWay'
  BY <1>2, <1>6, Names DEF StopUnderWay
<1>10. TypeOK'
  <2>1. queue \in Seq(Actor)
    BY <1>5, ServedFacts DEF LockOK
  <2>2. session' \in [Task -> Task \cup {None}] /\ pending' \in [Id -> Task \cup {None}]
        /\ temp' \in [Task -> Id \cup {None}] /\ pc' \in [Actor -> PC]
    BY <1>3, <1>5 DEF PC, TaskPC
  <2>3. \A u \in Task : pc'[u] \in TaskPC
    BY <1>6, Names DEF TypeOK, TaskPC
  <2>4. \A k \in Stopper : pc'[k] = pc[k]
    BY <1>6, Names
  <2> QED BY <1>3, <1>4, <2>1, <2>2, <2>3, <2>4 DEF TypeOK
<1>11. SessionOK'
  BY <1>1, <1>3, <1>4, <1>5, <1>6, Names DEF SessionOK
<1>12. ProcessOK'
  BY <1>1, <1>4, <1>5, <1>6, Names DEF ProcessOK
<1>13. LockOK'
  <2>1. AtLock(queue, [pc EXCEPT ![t] = "spawning"], [hand EXCEPT ![t] = <<>>])
    BY <1>5, Leaves DEF LockOK, PC, TaskPC, Waiting
  <2>2. hand[t] = <<>>
    BY <1>1, <1>5 DEF LockOK, AtLock
  <2>3. hand = [hand EXCEPT ![t] = <<>>]
    BY <1>5, <2>2
  <2> QED BY <1>3, <1>4, <2>1, <2>3 DEF LockOK
<1>14. TreeOK'
  BY <1>3, BeginningTree
<1>15. MapsOK'
  BY <1>1, <1>3, <1>4, <1>5, <1>6 DEF MapsOK, TypeOK
<1>16. KeysOK'
  <2>1. ASSUME NEW x \in Task, NEW y \in Task, x # y, session'[x] = x, captured'[x] = None,
               pending'[FirstId(x)] = y
        PROVE  x \in freed' \/ pc'[x] = "over"
    <3>1. CASE y = t
      <4>1. FirstId(x) = FirstId(t)
        <5>1. ASSUME FirstId(x) # FirstId(t) PROVE FALSE
          <6>1. pending[FirstId(x)] = t
            BY <1>6, <2>1, <3>1, <5>1, FirstIds
          <6> QED BY <1>1, <1>5, <6>1, FirstIds DEF MapsOK
        <5> QED BY <5>1
      <4>2. tree[x] = tree[t] /\ session[x] = x /\ pc'[x] = pc[x]
        BY <1>6, <2>1, <3>1, <4>1, SameFirst, Names
      <4>3. pc[x] \notin {"none", "getting"}
        BY <4>2, Names DEF SessionOK
      <4> QED BY <1>1, <1>4, <2>1, <3>1, <4>2, <4>3 DEF TreeOK, Beginning, MayBegin, Idle
    <3>2. CASE y # t
      <4>1. FirstId(x) # FirstId(t) /\ x # t /\ pending[FirstId(x)] = y /\ session[x] = x
            /\ pc'[x] = pc[x]
        BY <1>5, <1>6, <2>1, <3>2, FirstIds, Names
      <4> QED BY <1>3, <1>4, <2>1, <4>1 DEF KeysOK
    <3> QED BY <3>1, <3>2
  <2>2. ASSUME NEW x \in Task, NEW u \in Task, session'[u] = u, parent'[u] = x,
               nodeId'[x] # None
        PROVE  sessions'[Real(x)] = None
    <3>1. CASE u = t
      <4>1. tree[x] = tree[t]
        BY <1>4, <2>2, <3>1, Names DEF TypeOK
      <4> QED BY <1>2, <1>4, <4>1, Ids, IdsDiffer, WhoHolds, NoneOfTree
    <3>2. CASE u # t
      BY <1>4, <1>6, <2>2, <3>2 DEF KeysOK
    <3> QED BY <3>1, <3>2
  <2> QED BY <1>6, <2>1, <2>2 DEF KeysOK
<1>17. HeldOK'
  BY <1>1, <1>2, <1>4, <1>6, <1>8, <1>9, Names DEF HeldOK
<1>18. StopOK'
  BY <1>9 DEF StopOK, StopUnderWay
<1>19. KeptOK'
  <2> SUFFICES ASSUME NEW u \in Task, u # t, (u \in alive \/ pc[u] = "spawning"),
                      u \notin cutShort
               PROVE  \/ Held(u)'
                      \/ pc'[u] = "stopping" /\ hand'[u] = <<u>>
                      \/ pc'["shutdown"] # "none"
                      \/ \E v \in Task : SameKey(v, u)'
    BY <1>4, <1>6, <1>8, Names DEF KeptOK
  <2>1. pc'[u] = pc[u] /\ pc'["shutdown"] = pc["shutdown"] /\ hand' = hand
    BY <1>4, <1>6, Names
  <2>2. \A v \in Task : SameKey(v, u) => SameKey(v, u)'
    BY <1>1, <1>3, <1>4, <1>6 DEF SameKey
  <2> QED BY <1>8, <2>1, <2>2 DEF KeptOK
<1> QED BY <1>10, <1>11, <1>12, <1>13, <1>14, <1>15, <1>16, <1>17, <1>18, <1>19

LEMMA BeginKeeps ==
  ASSUME IInv, NEW t \in Task, Begin(t)
  PROVE  IInv'
<1>1. MayBegin(t) /\ pc[t] = "none" /\ session[t] = None /\ t \notin freed /\ t \notin abandoned
  BY Names DEF IInv, SessionOK, TreeOK, Begin, MayBegin
<1>2. CASE LockFree
  <2>1. Served(lock, pc, t, <<>>)
    BY <1>1, <1>2 DEF Served, LockFree, Waiting
  <2> QED BY <1>1, <1>2, <2>1, GetStep DEF Begin, LockFree, Beginning
<1>3. CASE ~LockFree
  <2>1. /\ lock # <<>> /\ lock' = Append(lock, t) /\ pc' = [pc EXCEPT ![t] = "getting"]
        /\ UNCHANGED <<locals, tasks, manager, hand, process, alive, pids, abandoned>>
    BY <1>3 DEF Begin, LockFree, locals, manager, procs
  <2>2. TreeOK'
    BY <1>1, <2>1, BeginningTree DEF Beginning
  <2>3. SessionOK'
    <3>1. pc \in [Actor -> PC] /\ t \in Actor
      BY Names DEF IInv, TypeOK
    <3>2. \A u \in Task : FirstId(u)' = FirstId(u)
      BY <2>1, SameNames DEF tasks
    <3> QED BY <1>1, <2>1, <3>1, <3>2, Names DEF IInv, SessionOK, locals
  <2>4. pids' \subseteq Task /\ alive \subseteq pids' /\ abandoned' \subseteq Task
    BY <2>1 DEF IInv, TypeOK, ProcessOK
  <2> QED BY <1>1, <2>1, <2>2, <2>3, <2>4, WaitStep DEF Waiting
<1> QED BY <1>2, <1>3

LEMMA GetKeeps ==
  ASSUME IInv, NEW t \in Task, Get(t)
  PROVE  IInv'
<1>1. pc[t] = "getting" /\ Head(lock) = t /\ lock # <<>>
  <2>1. lock \in Seq(Actor) /\ t \in Actor
    BY Names DEF IInv, TypeOK
  <2>2. PICK i \in DOMAIN lock : lock[i] = t
    BY <2>1 DEF IInv, LockOK, AtLock, Get, Waiting
  <2> QED BY <2>1, <2>2 DEF Get
<1>2. Served(lock, pc, t, Tail(lock))
  BY <1>1 DEF Served, Waiting
<1> QED BY <1>1, <1>2, GetStep DEF Get, Beginning
-----------------------------------------------------------------------------
(* Registering the id that the CLI reports.                                 *)

LEMMA RegisterStep ==
  ASSUME IInv, NEW t \in Task, pc[t] \in {"reading", "registering"}, temp[t] # None,
         Register(t), pc' = [pc EXCEPT ![t] = "reading"],
         lock' \in Seq(Actor), AtLock(lock', pc', hand),
         UNCHANGED <<session, tasks, hand, cliLock, procs, abandoned>>
  PROVE  IInv'
<1> USE DEF IInv
<1>1. /\ session[t] = t /\ captured[t] = None /\ nodeId[t] = None /\ temp[t] = FirstId(t)
      /\ t \notin freed
  BY Names DEF SessionOK, TreeOK
<1>2. /\ UNCHANGED <<session, hand, process, alive, pids>>
      /\ UNCHANGED <<parent, tree, freed, cutShort, abandoned>>
  BY DEF tasks, procs
<1>3. /\ captured' = [captured EXCEPT ![t] = Real(t)] /\ temp' = [temp EXCEPT ![t] = None]
      /\ nodeId' = [nodeId EXCEPT ![t] = Real(t)]
  BY DEF Register
<1>4. /\ captured \in [Task -> Id \cup {None}] /\ temp \in [Task -> Id \cup {None}]
      /\ nodeId \in [Task -> Id \cup {None}] /\ pc \in [Actor -> PC]
      /\ pending \in [Id -> Task \cup {None}] /\ sessions \in [Id -> Task \cup {None}]
      /\ tempToReal \in [Id -> Id \cup {None}] /\ realToTemp \in [Id -> Id \cup {None}]
      /\ FirstId(t) \in Id /\ Real(t) \in Id /\ t \in Actor /\ t # None
  BY FirstIds, Ids, Names DEF TypeOK
<1>5. /\ \A u \in Task : captured'[u] = IF u = t THEN Real(t) ELSE captured[u]
      /\ \A u \in Task : temp'[u] = IF u = t THEN None ELSE temp[u]
      /\ \A u \in Task : nodeId'[u] = IF u = t THEN Real(t) ELSE nodeId[u]
      /\ \A a \in Actor : pc'[a] = IF a = t THEN "reading" ELSE pc[a]
  BY <1>3, <1>4
\* Who has begun keeps its id: what it replies to does not register any more.
<1>6. ASSUME NEW u \in Task, pc[u] # "none"
      PROVE  FirstId(u)' = FirstId(u) /\ ParentSession(u)' = ParentSession(u)
  <2>1. parent[u] # t
    BY <1>1, <1>6 DEF TreeOK
  <2>2. ParentSession(u)' = ParentSession(u)
    BY <1>2, <1>5, <2>1 DEF ParentSession
  <2> QED BY <2>2 DEF FirstId
<1>7. \A u \in Task : session[u] = u => pc[u] # "none"
  BY Names DEF SessionOK
\* Nobody else has a session under the id.
<1>8. pending[FirstId(t)] \in {None, t} /\ sessions[Real(t)] = None
  <2>1. pending[FirstId(t)] \in Task => pending[FirstId(t)] = t
    BY <1>1 DEF KeysOK
  <2>2. sessions[Real(t)] = None
    BY <1>1, <1>4, Ids, IdsDiffer DEF MapsOK, TypeOK
  <2> QED BY <1>4, <2>1, <2>2
<1>9. /\ \A id \in Id : pending'[id] = IF id = FirstId(t) THEN None ELSE pending[id]
      /\ \A id \in Id : sessions'[id] = IF id = Real(t) THEN pending[FirstId(t)] ELSE sessions[id]
      /\ \A id \in Id : tempToReal'[id] = tempToReal[id]
                        \/ (id = FirstId(t) /\ tempToReal'[id] = Real(t))
      /\ pending' \in [Id -> Task \cup {None}] /\ sessions' \in [Id -> Task \cup {None}]
      /\ tempToReal' \in [Id -> Id \cup {None}] /\ realToTemp' \in [Id -> Id \cup {None}]
  <2>1. CASE pending[FirstId(t)] = None
    <3>1. UNCHANGED <<sessions, pending, tempToReal, realToTemp>>
      BY <1>1, <2>1 DEF Register
    <3> QED BY <1>4, <1>8, <2>1, <3>1
  <2>2. CASE pending[FirstId(t)] # None
    <3>1. /\ sessions' = [sessions EXCEPT ![Real(t)] = pending[FirstId(t)]]
          /\ pending' = [pending EXCEPT ![FirstId(t)] = None]
          /\ tempToReal' = [tempToReal EXCEPT ![FirstId(t)] = Real(t)]
          /\ realToTemp' = [realToTemp EXCEPT ![Real(t)] = FirstId(t)]
      BY <1>1, <2>2 DEF Register
    <3> QED BY <1>4, <1>8, <2>2, <3>1
  <2> QED BY <2>1, <2>2
<1>10. ASSUME NEW u \in Task, session[u] = u
       PROVE  Held(u)' <=> Held(u)
  <2>1. FirstId(u)' = FirstId(u) /\ FirstId(u) \in Id /\ Real(u) \in Id
    BY <1>6, <1>7, <1>10, FirstIds, Ids
  <2>2. CASE u = t
    BY <1>4, <1>8, <1>9, <2>1, <2>2 DEF Held
  <2>3. CASE u # t
    BY <1>4, <1>8, <1>9, <2>1, <2>3, IdsDiffer, Names DEF Held
  <2> QED BY <2>2, <2>3
<1>11. ASSUME NEW u \in Task, Held(u)'
       PROVE  session[u] = u
  <2>1. u # None /\ Real(u) \in Id
    BY Names, Ids
  <2>2. FirstId(u)' \in Id
    <3>1. CASE parent[u] = t
      BY <1>2, <1>4, <1>5, <3>1, Ids DEF FirstId, ParentSession
    <3>2. CASE parent[u] # t
      BY <1>2, <1>5, <3>2, FirstIds DEF FirstId, ParentSession
    <3> QED BY <3>1, <3>2
  <2>3. CASE pending'[FirstId(u)'] = u
    BY <1>9, <2>1, <2>2, <2>3 DEF MapsOK
  <2>4. CASE sessions'[Real(u)] = u
    BY <1>1, <1>9, <2>1, <2>4, IdsDiffer, WhoHolds DEF HeldOK
  <2> QED BY <1>11, <2>3, <2>4 DEF Held
<1>12. ~StopUnderWay /\ ~StopUnderWay'
  <2>1. ~StopUnderWay
    BY <1>1, Names DEF StopOK
  <2> QED BY <1>5, <2>1, Names DEF StopUnderWay
<1>13. TypeOK'
  <2>1. captured' \in [Task -> Id \cup {None}] /\ temp' \in [Task -> Id \cup {None}]
        /\ nodeId' \in [Task -> Id \cup {None}] /\ pc' \in [Actor -> PC]
    BY <1>3, <1>4 DEF PC, TaskPC
  <2>2. \A u \in Task : pc'[u] \in TaskPC
    BY <1>5, Names DEF TypeOK, TaskPC
  <2>3. \A k \in Stopper : pc'[k] = pc[k]
    BY <1>5, Names
  <2> QED BY <1>2, <1>9, <2>1, <2>2, <2>3 DEF TypeOK
<1>14. SessionOK'
  <2> SUFFICES ASSUME NEW u \in Task
               PROVE  /\ session'[u] \in {None, u}
                      /\ session'[u] = None => captured'[u] = None /\ temp'[u] = None /\ nodeId'[u] = None
                      /\ session'[u] = u =>
                           \/ captured'[u] = None /\ nodeId'[u] = None /\ temp'[u] = FirstId(u)'
                           \/ captured'[u] = Real(u) /\ nodeId'[u] = Real(u) /\ temp'[u] = None
                      /\ pc'[u] \in {"none", "getting"} => session'[u] = None
                      /\ pc'[u] \notin {"none", "getting", "cleanup", "over"} => session'[u] = u
                      /\ pc'[u] = "registering" => captured'[u] = None
                      /\ u \in abandoned' => session'[u] = u
    BY DEF SessionOK
  <2>1. CASE u = t
    BY <1>1, <1>2, <1>4, <1>5, <2>1 DEF SessionOK
  <2>2. CASE u # t
    BY <1>2, <1>5, <1>6, <1>7, <2>2, Names DEF SessionOK
  <2> QED BY <2>1, <2>2
<1>15. ProcessOK'
  BY <1>2, <1>4, <1>5, Names DEF ProcessOK
<1>16. LockOK'
  BY <1>2 DEF LockOK
<1>17. TreeOK'
  BY <1>1, <1>2, <1>4, <1>5, Names DEF TreeOK, Idle, TypeOK
<1>18. MapsOK'
  <2>1. ASSUME NEW id \in Id, NEW s \in Task, pending'[id] = s
        PROVE  session'[s] = s /\ captured'[s] = None /\ FirstId(s)' = id
    <3>1. id # FirstId(t) /\ pending[id] = s
      BY <1>9, <2>1, Names
    <3>2. session[s] = s /\ captured[s] = None /\ FirstId(s) = id
      BY <3>1, Names DEF MapsOK
    <3> QED BY <1>2, <1>5, <1>6, <1>7, <3>1, <3>2
  <2>2. ASSUME NEW id \in Id, NEW s \in Task, sessions'[id] = s
        PROVE  id = Real(s) /\ captured'[s] = id
    <3>1. CASE id = Real(t)
      BY <1>4, <1>5, <1>8, <1>9, <2>2, <3>1, Names
    <3>2. CASE id # Real(t)
      <4>1. sessions[id] = s
        BY <1>9, <2>2, <3>2
      <4>2. id = Real(s) /\ captured[s] = id
        BY <4>1, Names DEF MapsOK
      <4> QED BY <1>5, <3>2, <4>2
    <3> QED BY <3>1, <3>2
  <2>3. ASSUME NEW id \in Id, tempToReal'[id] # None
        PROVE  \E s \in Task : tempToReal'[id] = Real(s) /\ session'[s] = s /\ FirstId(s)' = id
    <3>1. CASE tempToReal'[id] = tempToReal[id]
      <4>1. PICK s \in Task : tempToReal[id] = Real(s) /\ session[s] = s /\ FirstId(s) = id
        BY <2>3, <3>1 DEF MapsOK
      <4> QED BY <1>2, <1>6, <1>7, <3>1, <4>1
    <3>2. CASE id = FirstId(t) /\ tempToReal'[id] = Real(t)
      BY <1>1, <1>2, <1>6, <1>7, <3>2
    <3> QED BY <1>9, <3>1, <3>2
  <2> QED BY <1>9, <2>1, <2>2, <2>3 DEF MapsOK
<1>19. KeysOK'
  <2>1. ASSUME NEW x \in Task, NEW y \in Task, x # y, session'[x] = x, captured'[x] = None,
               pending'[FirstId(x)'] = y
        PROVE  x \in freed' \/ pc'[x] = "over"
    <3>1. x # t /\ session[x] = x /\ captured[x] = None
      BY <1>2, <1>5, <2>1, Ids
    <3>3. FirstId(x)' = FirstId(x) /\ FirstId(x) \in Id
      BY <1>6, <1>7, <3>1, FirstIds
    <3>2. pending[FirstId(x)] = y
      BY <1>9, <2>1, <3>3, Names
    <3> QED BY <1>2, <1>5, <2>1, <3>1, <3>2, Names DEF KeysOK
  <2>2. ASSUME NEW x \in Task, NEW u \in Task, session'[u] = u, parent'[u] = x,
               nodeId'[x] # None
        PROVE  sessions'[Real(x)] = None
    <3>1. x # t
      BY <1>1, <1>2, <1>7, <2>2 DEF TreeOK
    <3>2. sessions[Real(x)] = None
      BY <1>2, <1>5, <2>2, <3>1 DEF KeysOK
    <3> QED BY <1>9, <3>1, <3>2, Ids, IdsDiffer
  <2> QED BY <2>1, <2>2 DEF KeysOK
<1>20. HeldOK'
  BY <1>1, <1>2, <1>5, <1>10, <1>11, <1>12, Names DEF HeldOK
<1>21. StopOK'
  BY <1>12 DEF StopOK, StopUnderWay
<1>22. KeptOK'
  <2> SUFFICES ASSUME NEW u \in Task, (u \in alive' \/ pc'[u] = "spawning"), u \notin cutShort'
               PROVE  \/ Held(u)'
                      \/ pc'[u] = "stopping" /\ hand'[u] = <<u>>
                      \/ pc'["shutdown"] # "none"
                      \/ \E v \in Task : SameKey(v, u)'
    BY DEF KeptOK
  <2>1. /\ session[u] = u /\ u \notin cutShort /\ (u \in alive \/ pc[u] = "spawning")
        /\ pc[u] = "stopping" => pc'[u] = "stopping"
        /\ pc'["shutdown"] = pc["shutdown"] /\ hand' = hand
    BY <1>1, <1>2, <1>5, Names DEF SessionOK, ProcessOK
  <2>2. ASSUME NEW v \in Task, SameKey(v, u)
        PROVE  SameKey(v, u)'
    <3>1. v # t /\ ParentSession(u)' = ParentSession(u)
      BY <1>1, <1>6, <1>7, <2>1, <2>2 DEF SameKey
    <3> QED BY <1>2, <1>5, <2>2, <3>1 DEF SameKey
  <2> QED BY <1>10, <2>1, <2>2 DEF KeptOK
<1> QED BY <1>13, <1>14, <1>15, <1>16, <1>17, <1>18, <1>19, <1>20, <1>21, <1>22

LEMMA SessionInfoKeeps ==
  ASSUME IInv, NEW t \in Task, SessionInfo(t)
  PROVE  IInv'
<1>1. /\ pc[t] = "reading" /\ temp[t] # None /\ pc \in [Actor -> PC] /\ t \in Actor
      /\ lock \in Seq(Actor)
  BY Names DEF SessionInfo, IInv, TypeOK
<1>2. CASE LockFree
  <2>1. pc' = pc /\ lock' = lock /\ Register(t)
        /\ UNCHANGED <<session, tasks, hand, cliLock, procs, abandoned>>
    BY <1>2 DEF SessionInfo
  <2>2. pc' = [pc EXCEPT ![t] = "reading"] /\ AtLock(lock', pc', hand)
    BY <1>1, <2>1 DEF IInv, LockOK
  <2> QED BY <1>1, <2>1, <2>2, RegisterStep
<1>3. CASE ~LockFree
  <2>1. /\ lock # <<>> /\ lock' = Append(lock, t) /\ pc' = [pc EXCEPT ![t] = "registering"]
        /\ UNCHANGED <<locals, tasks, manager, hand, process, alive, pids, abandoned>>
    BY <1>3 DEF SessionInfo, LockFree, locals, procs
  <2>2. \A u \in Task : FirstId(u)' = FirstId(u)
    BY <2>1, SameNames DEF tasks
  <2>3. captured[t] = None /\ session[t] = t /\ t \notin freed
    BY <1>1, Names DEF IInv, SessionOK, TreeOK
  <2>4. SessionOK'
    BY <1>1, <2>1, <2>2, <2>3, Names DEF IInv, SessionOK, locals
  <2>5. TreeOK'
    BY <1>1, <2>1, <2>3, Names DEF IInv, TreeOK, TypeOK, tasks, Idle
  <2>6. pids' \subseteq Task /\ alive \subseteq pids' /\ abandoned' \subseteq Task
    BY <2>1 DEF IInv, TypeOK, ProcessOK
  <2> QED BY <1>1, <2>1, <2>4, <2>5, <2>6, WaitStep DEF Waiting
<1> QED BY <1>2, <1>3

\* Who waits at the lock waits in it.
LEMMA SomeoneWaits ==
  ASSUME TypeOK, LockOK, NEW a \in Actor, pc[a] \in Waiting
  PROVE  lock # <<>> /\ lock \in Seq(Actor) /\ pc \in [Actor -> PC]
BY DEF TypeOK, LockOK, AtLock

LEMMA RegisterLaterKeeps ==
  ASSUME IInv, NEW t \in Task, RegisterLater(t)
  PROVE  IInv'
<1>1. pc[t] = "registering" /\ Head(lock) = t /\ t \in Actor
  BY Names DEF RegisterLater
<1>2. temp[t] # None
  <2>1. session[t] = t /\ captured[t] = None
    BY <1>1 DEF IInv, SessionOK
  <2>2. temp[t] = FirstId(t) /\ FirstId(t) # None
    BY <2>1, Ids, FirstIds DEF IInv, SessionOK
  <2> QED BY <2>2
<1>3. lock # <<>> /\ lock \in Seq(Actor) /\ pc \in [Actor -> PC]
      /\ hand \in [Actor -> Seq(Task)] /\ hand[t] = <<>>
  BY <1>1, SomeoneWaits DEF IInv, Waiting, TypeOK, LockOK, AtLock
<1>4. Served(lock, pc, t, Tail(lock)) /\ Tail(lock) \in Seq(Actor)
  BY <1>1, <1>3 DEF Served, Waiting
<1>5. AtLock(Tail(lock), [pc EXCEPT ![t] = "reading"], [hand EXCEPT ![t] = <<>>])
  BY <1>1, <1>3, <1>4, Leaves DEF IInv, LockOK, PC, TaskPC, Waiting
<1>6. hand = [hand EXCEPT ![t] = <<>>]
  BY <1>3
<1>7. AtLock(lock', pc', hand)
  BY <1>5, <1>6 DEF RegisterLater
<1> QED BY <1>1, <1>2, <1>4, <1>7, RegisterStep DEF RegisterLater
-----------------------------------------------------------------------------
(* Giving the session back.                                                 *)

LEMMA OwnKeys ==
  ASSUME TypeOK, SessionOK, NEW t \in Task
  PROVE  /\ session[t] = t => /\ OwnKey(t) \in Id /\ OwnKey(t) # None
                              /\ \/ captured[t] = None /\ temp[t] = FirstId(t) /\ OwnKey(t) = FirstId(t)
                                 \/ captured[t] = Real(t) /\ OwnKey(t) = Real(t)
         /\ session[t] # t => OwnKey(t) = None /\ session[t] = None
<1>1. CASE session[t] = t
  <2>1. FirstId(t) \in Id /\ FirstId(t) # None /\ Real(t) \in Id /\ Real(t) # None /\ t # None
    BY FirstIds, Ids, Names
  <2> QED BY <1>1, <2>1 DEF SessionOK, OwnKey
<1>2. CASE session[t] # t
  BY <1>2, Names DEF SessionOK, OwnKey
<1> QED BY <1>1, <1>2

\* The session under the id of a task that gives its session back.
AtOwnKey(t) ==
  IF pending[OwnKey(t)] # None THEN pending[OwnKey(t)] ELSE sessions[OwnKey(t)]

\* It is its own, or the task was freed and another one began under the same id.
LEMMA WhoseIsIt ==
  ASSUME IInv, NEW t \in Task, session[t] = t, pc[t] # "over"
  PROVE  /\ AtOwnKey(t) \in Task \cup {None}
         /\ AtOwnKey(t) \in Task \ {t} => SameKey(t, AtOwnKey(t))
         /\ Held(t) <=> AtOwnKey(t) = t
         /\ AtOwnKey(t) \in Task => /\ Held(AtOwnKey(t))
                                    /\ captured[AtOwnKey(t)] = None => pending[OwnKey(t)] # None
<1> USE DEF IInv
<1>1. /\ OwnKey(t) \in Id
      /\ \/ captured[t] = None /\ temp[t] = FirstId(t) /\ OwnKey(t) = FirstId(t)
         \/ captured[t] = Real(t) /\ OwnKey(t) = Real(t)
  BY OwnKeys
<1>2. FirstId(t) \in Id /\ Real(t) \in Id /\ Real(t) # None /\ t # None
  BY FirstIds, Ids, Names
<1>3. CASE pending[OwnKey(t)] # None
  <2> DEFINE s == pending[OwnKey(t)]
  <2>1. /\ s \in Task /\ session[s] = s /\ captured[s] = None /\ FirstId(s) = OwnKey(t)
        /\ Held(s) /\ AtOwnKey(t) = s
    BY <1>1, <1>3, WhoHolds DEF MapsOK, AtOwnKey
  <2> HIDE DEF s
  <2>2. ASSUME s # t, captured[t] = None
        PROVE  SameKey(t, s)
    <3>1. FirstId(t) = OwnKey(t) /\ temp[t] = OwnKey(t)
      BY <1>1, <1>2, <2>2
    <3>2. ParentSession(s) = OwnKey(t) /\ ParentSession(s) # None
      BY <2>1, <2>2, <3>1, SameFirst
    <3>3. t \in freed
      BY <2>1, <2>2, <3>1 DEF KeysOK, s
    <3> QED BY <2>2, <3>1, <3>2, <3>3 DEF SameKey
  <2>3. ASSUME captured[t] # None
        PROVE  s # t /\ SameKey(t, s) /\ sessions[Real(t)] = None /\ pending[FirstId(t)] # t
    <3>1. OwnKey(t) = Real(t) /\ captured[t] = Real(t)
      BY <1>1, <2>3
    <3>2. parent[s] = t /\ ParentSession(s) = Real(t) /\ nodeId[t] = Real(t)
      BY <2>1, <3>1, FirstOfReply
    <3>3. s # t
      BY <2>1, <2>3
    <3>4. pc[s] # "none"
      BY <2>1, Names DEF SessionOK
    <3>5. t \in freed
      BY <2>1, <3>2, <3>4 DEF TreeOK
    <3>6. sessions[Real(t)] = None
      BY <1>2, <2>1, <3>2 DEF KeysOK
    <3>7. pending[FirstId(t)] # t
      BY <1>2, <2>3 DEF MapsOK
    <3> QED BY <1>2, <3>1, <3>2, <3>3, <3>5, <3>6, <3>7 DEF SameKey
  <2>4. captured[t] = None => sessions[Real(t)] # t
    BY <1>2 DEF MapsOK
  <2>5. Held(t) <=> s = t
    <3>1. CASE captured[t] = None
      <4>1. OwnKey(t) = FirstId(t)
        BY <1>1, <1>2, <3>1
      <4> QED BY <2>4, <3>1, <4>1 DEF Held, s
    <3>2. CASE captured[t] # None
      BY <1>2, <2>3, <3>2 DEF Held
    <3> QED BY <3>1, <3>2
  <2> QED BY <1>3, <2>1, <2>2, <2>3, <2>5
<1>4. CASE pending[OwnKey(t)] = None
  <2> DEFINE s == sessions[OwnKey(t)]
  <2>1. AtOwnKey(t) = s /\ s \in Task \cup {None}
    BY <1>1, <1>4 DEF AtOwnKey, TypeOK
  <2>2. ASSUME s # None
        PROVE  s = t /\ Held(t) /\ captured[t] # None
    <3>1. s \in Task /\ OwnKey(t) = Real(s) /\ captured[s] = Real(s) /\ Held(s)
      BY <1>1, <2>1, <2>2, WhoHolds DEF MapsOK
    <3>2. CASE captured[t] = None
      <4>1. FirstId(t) = Real(s) /\ s \in Task
        BY <1>1, <1>2, <3>1, <3>2
      <4>2. parent[t] = s /\ nodeId[s] = Real(s)
        BY <4>1, FirstOfReply
      <4>3. sessions[Real(s)] = None
        BY <4>1, <4>2, Ids DEF KeysOK
      <4> QED BY <2>2, <3>1, <4>3
    <3>3. CASE captured[t] # None
      BY <1>1, <1>2, <3>1, <3>3, IdsDiffer
    <3> QED BY <3>2, <3>3
  <2>3. ASSUME s = None
        PROVE  ~Held(t)
    <3>1. CASE captured[t] = None
      <4>1. sessions[Real(t)] # t /\ pending[FirstId(t)] = None
        BY <1>1, <1>2, <1>4, <3>1 DEF MapsOK
      <4> QED BY <1>2, <4>1 DEF Held
    <3>2. CASE captured[t] # None
      <4>1. sessions[Real(t)] = None /\ pending[FirstId(t)] # t
        BY <1>1, <1>2, <2>3, <3>2 DEF MapsOK
      <4> QED BY <1>2, <4>1 DEF Held
    <3> QED BY <3>1, <3>2
  <2> HIDE DEF s
  <2>4. CASE s = None
    <3>1. AtOwnKey(t) = None /\ None \notin Task /\ ~Held(t)
      BY <2>1, <2>3, <2>4, Names
    <3> QED BY <3>1
  <2>5. CASE s # None
    <3>1. AtOwnKey(t) = t /\ Held(t) /\ captured[t] # None
      BY <2>1, <2>2, <2>5
    <3> QED BY <3>1
  <2> QED BY <2>4, <2>5
<1> QED BY <1>3, <1>4

LEMMA Forgets ==
  ASSUME TypeOK, NEW id \in Id, Forget(id)
  PROVE  /\ tempToReal' \in [Id -> Id \cup {None}] /\ realToTemp' \in [Id -> Id \cup {None}]
         /\ \A i \in Id : tempToReal'[i] \in {None, tempToReal[i]}
BY DEF Forget, TypeOK

\* Steps that only take sessions off the manager's maps.
Shrinks ==
  /\ UNCHANGED <<parent, tree, locals>>
  /\ pending' \in [Id -> Task \cup {None}] /\ sessions' \in [Id -> Task \cup {None}]
  /\ tempToReal' \in [Id -> Id \cup {None}] /\ realToTemp' \in [Id -> Id \cup {None}]
  /\ \A id \in Id : /\ pending'[id] \in {None, pending[id]}
                    /\ sessions'[id] \in {None, sessions[id]}
                    /\ tempToReal'[id] \in {None, tempToReal[id]}

\* Nor does a step that leaves the manager alone add to it.
LEMMA NothingMoves ==
  ASSUME IInv, UNCHANGED <<parent, tree, locals>>, UNCHANGED manager PROVE Shrinks
<1>1. UNCHANGED <<pending, sessions, tempToReal, realToTemp>>
  BY DEF manager
<1>2. /\ pending \in [Id -> Task \cup {None}] /\ sessions \in [Id -> Task \cup {None}]
      /\ tempToReal \in [Id -> Id \cup {None}] /\ realToTemp \in [Id -> Id \cup {None}]
  BY DEF IInv, TypeOK
<1> QED BY <1>1, <1>2 DEF Shrinks

LEMMA ShrinksNames ==
  ASSUME Shrinks
  PROVE  /\ UNCHANGED <<session, captured, temp, nodeId, parent, tree>>
         /\ \A u : FirstId(u)' = FirstId(u) /\ ParentSession(u)' = ParentSession(u)
         /\ \A u, v : (SameKey(u, v) /\ freed \subseteq freed') => SameKey(u, v)'
BY DEF Shrinks, locals, FirstId, ParentSession, SameKey

LEMMA ShrinksMaps ==
  ASSUME IInv, Shrinks, freed \subseteq freed',
         \A t \in Task : pc[t] = "over" => pc'[t] = "over"
  PROVE  /\ MapsOK' /\ KeysOK'
         /\ \A u \in Task : Held(u)' => Held(u)
<1> USE DEF IInv
<1>1. /\ UNCHANGED <<session, captured, temp, nodeId, parent, tree>>
      /\ \A u : FirstId(u)' = FirstId(u)
  BY ShrinksNames
<1>2. \A id \in Id : /\ pending'[id] \in {None, pending[id]}
                     /\ sessions'[id] \in {None, sessions[id]}
                     /\ tempToReal'[id] \in {None, tempToReal[id]}
  BY DEF Shrinks
<1>3. MapsOK'
  <2>1. ASSUME NEW id \in Id, pending'[id] # None
        PROVE  /\ pending'[id] = pending[id] /\ session[pending[id]] = pending[id]
               /\ captured[pending[id]] = None /\ FirstId(pending[id]) = id
    BY <1>2, <2>1 DEF MapsOK
  <2>2. ASSUME NEW id \in Id, sessions'[id] # None
        PROVE  /\ sessions'[id] = sessions[id] /\ id = Real(sessions[id])
               /\ captured[sessions[id]] = id
    BY <1>2, <2>2 DEF MapsOK
  <2>3. ASSUME NEW id \in Id, tempToReal'[id] # None
        PROVE  \E s \in Task : tempToReal'[id] = Real(s) /\ session[s] = s /\ FirstId(s) = id
    BY <1>2, <2>3 DEF MapsOK
  <2> QED BY <1>1, <2>1, <2>2, <2>3 DEF MapsOK
<1>4. KeysOK'
  <2>1. ASSUME NEW x \in Task, NEW y \in Task, x # y, session[x] = x, captured[x] = None,
               pending'[FirstId(x)] = y
        PROVE  x \in freed' \/ pc'[x] = "over"
    <3>1. pending[FirstId(x)] = y
      BY <1>2, <2>1, FirstIds, Names
    <3> QED BY <2>1, <3>1 DEF KeysOK
  <2>2. ASSUME NEW x \in Task, NEW u \in Task, session[u] = u, parent[u] = x, nodeId[x] # None
        PROVE  sessions'[Real(x)] = None
    BY <1>2, <2>2, Ids DEF KeysOK
  <2> QED BY <1>1, <2>1, <2>2 DEF KeysOK
<1>5. ASSUME NEW u \in Task, Held(u)'
      PROVE  Held(u)
  BY <1>1, <1>2, <1>5, FirstIds, Ids, Names DEF Held
<1> QED BY <1>3, <1>4, <1>5

LEMMA TakenOff ==
  ASSUME IInv, NEW t \in Task, session[t] = t, pc[t] # "over",
         UNCHANGED <<parent, tree, locals>>,
         pending' = [pending EXCEPT ![OwnKey(t)] = None],
         sessions' = IF pending[OwnKey(t)] # None THEN sessions
                     ELSE [sessions EXCEPT ![OwnKey(t)] = None],
         tempToReal' \in [Id -> Id \cup {None}], realToTemp' \in [Id -> Id \cup {None}],
         \A i \in Id : tempToReal'[i] \in {None, tempToReal[i]}
  PROVE  /\ Shrinks
         /\ \A u \in Task : Held(u)' <=> Held(u) /\ u # AtOwnKey(t)
<1> USE DEF IInv
<1>1. OwnKey(t) \in Id
  BY OwnKeys
<1>2. /\ pending \in [Id -> Task \cup {None}] /\ sessions \in [Id -> Task \cup {None}]
  BY DEF TypeOK
<1>3. Shrinks
  BY <1>1, <1>2 DEF Shrinks
<1>4. \A u \in Task : FirstId(u)' = FirstId(u)
  BY <1>3, ShrinksNames
<1>5. ASSUME NEW u \in Task
      PROVE  Held(u)' <=> Held(u) /\ u # AtOwnKey(t)
  <2>1. FirstId(u) \in Id /\ Real(u) \in Id /\ u # None /\ Real(u) # None
    BY FirstIds, Ids, Names
  <2>2. ~(pending[FirstId(u)] = u /\ sessions[Real(u)] = u)
    BY <2>1 DEF MapsOK
  <2>3. pending[OwnKey(t)] = u => FirstId(u) = OwnKey(t)
    BY <1>1, <2>1 DEF MapsOK
  <2>4. sessions[OwnKey(t)] = u => Real(u) = OwnKey(t)
    BY <1>1, <2>1 DEF MapsOK
  <2>5. CASE pending[OwnKey(t)] # None
    <3>1. /\ AtOwnKey(t) = pending[OwnKey(t)] /\ sessions' = sessions
          /\ pending'[FirstId(u)] = IF FirstId(u) = OwnKey(t) THEN None ELSE pending[FirstId(u)]
      BY <1>1, <1>2, <2>1, <2>5 DEF AtOwnKey
    <3> QED BY <1>4, <2>1, <2>2, <2>3, <3>1 DEF Held
  <2>6. CASE pending[OwnKey(t)] = None
    <3>1. /\ AtOwnKey(t) = sessions[OwnKey(t)] /\ pending'[FirstId(u)] = pending[FirstId(u)]
          /\ sessions'[Real(u)] = IF Real(u) = OwnKey(t) THEN None ELSE sessions[Real(u)]
      BY <1>1, <1>2, <2>1, <2>6 DEF AtOwnKey
    <3> QED BY <1>4, <2>1, <2>2, <2>4, <3>1 DEF Held
  <2> QED BY <2>5, <2>6
<1> QED BY <1>3, <1>5

LEMMA RemoveStep ==
  ASSUME IInv, NEW t \in Task, pc[t] \in {"leaving", "cleanup", "removing"},
         session[t] = t, NEW queue, Served(lock, pc, t, queue), TakeRemove(t, queue),
         UNCHANGED <<locals, tasks, process, alive, abandoned>>,
         pids' \subseteq Task, alive \subseteq pids'
  PROVE  IInv'
<1> USE DEF IInv
<1> DEFINE s == AtOwnKey(t)
           stops == s # None /\ Live(s)
<1>1. /\ OwnKey(t) \in Id /\ t \in Actor /\ t # None
      /\ pc \in [Actor -> PC] /\ hand \in [Actor -> Seq(Task)] /\ lock \in Seq(Actor)
      /\ hand[t] = <<>> /\ queue \in Seq(Actor)
      /\ \A a \in Actor : pc[a] = "stopping" => a = t
      /\ UNCHANGED <<parent, tree, freed, cutShort, session, captured, temp, nodeId>>
  <2>1. /\ OwnKey(t) \in Id /\ t \in Actor /\ t # None
        /\ pc \in [Actor -> PC] /\ hand \in [Actor -> Seq(Task)] /\ lock \in Seq(Actor)
    BY OwnKeys, Names DEF TypeOK
  <2>2. hand[t] = <<>>
    BY <2>1 DEF LockOK, AtLock
  <2>3. queue \in Seq(Actor) /\ \A a \in Actor : pc[a] = "stopping" => a = t
    BY <2>1, ServedFacts DEF LockOK
  <2> QED BY <2>1, <2>2, <2>3 DEF tasks, locals
<1>2. /\ s \in Task \cup {None}
      /\ s \in Task \ {t} => SameKey(t, s)
      /\ Held(t) <=> s = t
      /\ s \in Task => (Live(s) <=> s \in alive)
  BY WhoseIsIt, Lives
<1> HIDE DEF s
<1>3. /\ tempToReal' \in [Id -> Id \cup {None}] /\ realToTemp' \in [Id -> Id \cup {None}]
      /\ \A i \in Id : tempToReal'[i] \in {None, tempToReal[i]}
  <2>1. Forget(OwnKey(t)) \/ UNCHANGED <<tempToReal, realToTemp>>
    BY DEF TakeRemove
  <2> QED BY <1>1, <2>1, Forgets DEF TypeOK
<1>4. Shrinks /\ \A u \in Task : Held(u)' <=> Held(u) /\ u # s
  BY <1>1, <1>3, TakenOff DEF TakeRemove, s
<1>5. \/ /\ stops
         /\ pc' = [pc EXCEPT ![t] = "stopping"]
         /\ hand' = [hand EXCEPT ![t] = <<s>>] /\ lock' = <<t>> \o queue
      \/ /\ ~stops
         /\ pc' = [pc EXCEPT ![t] = "over"] /\ hand' = hand /\ lock' = queue
  BY DEF TakeRemove, AtOwnKey, s
<1> DEFINE w == IF stops THEN "stopping" ELSE "over"
<1>6. /\ \A a \in Actor : pc'[a] = IF a = t THEN w ELSE pc[a]
      /\ \A a \in Actor : a # t => hand'[a] = hand[a]
      /\ stops => hand'[t] = <<s>>
      /\ w \in {"stopping", "over"} /\ (w = "stopping" <=> stops)
  BY <1>1, <1>5
<1> HIDE DEF w, stops
<1>7. hand' \in [Actor -> Seq(Task)] /\ pc' \in [Actor -> PC] /\ lock' \in Seq(Actor)
  <2>1. CASE stops
    <3>1. <<s>> \in Seq(Task) /\ "stopping" \in PC
      BY <1>2, <2>1 DEF stops, PC, TaskPC
    <3>2. <<t>> \o queue \in Seq(Actor)
      BY <1>1, InFront
    <3> QED BY <1>1, <1>5, <2>1, <3>1, <3>2
  <2>2. CASE ~stops
    BY <1>1, <1>5, <2>2 DEF PC, TaskPC
  <2> QED BY <2>1, <2>2
<1>8. TypeOK'
  <2>1. \A u \in Task : pc'[u] \in TaskPC
    BY <1>6, Names DEF TypeOK, TaskPC
  <2>2. \A k \in Stopper : pc'[k] = pc[k]
    BY <1>6, Names
  <2>3. UNCHANGED <<captured, temp, nodeId, session, parent, tree, freed, cutShort,
                    process, alive, abandoned>>
    BY <1>1
  <2> QED BY <1>3, <1>4, <1>7, <2>1, <2>2, <2>3 DEF TypeOK, Shrinks
<1>9. SessionOK'
  <2>1. \A u \in Task : FirstId(u)' = FirstId(u)
    BY <1>4, ShrinksNames
  <2> QED BY <1>1, <1>6, <2>1, Names DEF SessionOK
<1>10. ProcessOK'
  BY <1>1, <1>6, Names DEF ProcessOK
<1>11. LockOK'
  <2>1. CASE stops
    <3>1. <<s>> \in Seq(Task) /\ <<s>> # <<>> /\ Len(<<s>>) = 1
      BY <1>2, <2>1 DEF stops
    <3>2. AtLock(<<t>> \o queue, [pc EXCEPT ![t] = "stopping"], [hand EXCEPT ![t] = <<s>>])
      BY <1>1, <3>1, Holds DEF LockOK
    <3> QED BY <1>5, <2>1, <3>2 DEF LockOK
  <2>2. CASE ~stops
    <3>1. AtLock(queue, [pc EXCEPT ![t] = "over"], [hand EXCEPT ![t] = <<>>])
      BY <1>1, Leaves DEF LockOK, PC, TaskPC, Waiting
    <3>2. hand = [hand EXCEPT ![t] = <<>>]
      BY <1>1
    <3> QED BY <1>5, <2>2, <3>1, <3>2 DEF LockOK
  <2> QED BY <2>1, <2>2
<1>12. TreeOK'
  BY <1>1, <1>6, Names DEF TreeOK, Idle, TypeOK
<1>13. MapsOK' /\ KeysOK'
  <2>1. \A u \in Task : pc[u] = "over" => pc'[u] = "over"
    BY <1>6, Names
  <2> QED BY <1>1, <1>4, <2>1, ShrinksMaps
<1>14. /\ StopUnderWay' <=> StopUnderWay
       /\ \A k \in StopCmd : pc'[k] = pc[k]
  BY <1>6, Names DEF StopUnderWay
<1>15. HeldOK'
  <2>1. ASSUME NEW u \in Task, Held(u)'
        PROVE  u # t /\ Held(u) /\ pc'[u] = pc[u]
    BY <1>2, <1>4, <1>6, <2>1, Names
  <2> QED BY <1>1, <1>14, <2>1 DEF HeldOK
<1>16. StopOK'
  <2>1. \A k \in StopCmd : pc[k] # "stopping"
    BY <1>1, Names
  <2>2. StopUnderWay => t \in freed
    BY <1>1, Names DEF StopOK
  <2>3. \A u \in Task : pc[u] = "over" => pc'[u] = "over"
    BY <1>6, Names
  <2> QED BY <1>1, <1>14, <2>1, <2>2, <2>3 DEF StopOK
<1>17. KeptOK'
  <2> SUFFICES ASSUME NEW u \in Task, (u \in alive \/ pc'[u] = "spawning"), u \notin cutShort
               PROVE  \/ Held(u)'
                      \/ pc'[u] = "stopping" /\ hand'[u] = <<u>>
                      \/ pc'["shutdown"] # "none"
                      \/ \E v \in Task : SameKey(v, u)'
    BY <1>1 DEF KeptOK
  <2>1. pc'["shutdown"] = pc["shutdown"]
    BY <1>6, Names
  <2>2. \A v \in Task : SameKey(v, u) => SameKey(v, u)'
    BY <1>1, <1>4, ShrinksNames
  <2>3. CASE s = u
    <3>1. CASE u = t
      BY <1>1, <1>2, <1>6, <2>3, <3>1 DEF stops
    <3>2. CASE u # t
      BY <1>2, <2>2, <2>3, <3>2
    <3> QED BY <3>1, <3>2
  <2>4. CASE s # u
    <3>1. Held(u) => Held(u)'
      BY <1>4, <2>4
    <3>2. u # t => pc'[u] = pc[u] /\ hand'[u] = hand[u]
      BY <1>6, Names
    <3>3. u = t => u \in alive /\ pc[u] # "stopping"
      BY <1>1, <1>6
    <3> QED BY <2>1, <2>2, <3>1, <3>2, <3>3 DEF KeptOK
  <2> QED BY <2>3, <2>4
<1> QED BY <1>8, <1>9, <1>10, <1>11, <1>12, <1>13, <1>15, <1>16, <1>17

\* A task that never got a session is over at once.
LEMMA NothingToGiveBack ==
  ASSUME IInv, NEW t \in Task, pc[t] = "cleanup", session[t] = None,
         pc' = [pc EXCEPT ![t] = "over"],
         UNCHANGED <<locals, tasks, manager, lock, hand, process, alive, pids, abandoned>>
  PROVE  IInv'
<1> USE DEF IInv
<1>1. Quiet /\ UNCHANGED <<locals, tasks, manager>>
  BY DEF Quiet, tasks, TypeOK
<1>2. /\ \A u \in Task : FirstId(u)' = FirstId(u) /\ (Held(u)' <=> Held(u))
      /\ \A a \in Actor : pc'[a] = IF a = t THEN "over" ELSE pc[a]
      /\ StopUnderWay' <=> StopUnderWay
      /\ pc \in [Actor -> PC] /\ t \in Actor
  BY <1>1, SameNames, Names DEF TypeOK, tasks, StopUnderWay
<1>3. ~Held(t) /\ t \notin alive
  BY Names DEF HeldOK, ProcessOK
<1>4. TypeOK'
  BY <1>1, Names DEF TypeOK, PC, TaskPC, Stopper, locals, tasks, manager
<1>5. SessionOK'
  BY <1>1, <1>2, Names DEF SessionOK, locals
<1>6. ProcessOK' /\ TreeOK'
  BY <1>1, <1>2, Names DEF ProcessOK, TreeOK, Idle, TypeOK, locals, tasks
<1>7. LockOK'
  BY LockStays DEF TaskPC, Waiting
<1>8. MapsOK' /\ KeysOK'
  BY <1>1, QuietMaps
<1>9. StopOK'
  BY <1>1, StopStays DEF TaskPC, Waiting, tasks
<1>10. HeldOK'
  BY <1>1, <1>2, <1>3, Names DEF HeldOK, locals, tasks
<1>11. KeptOK'
  <2>1. \A u, v \in Task : SameKey(v, u) => SameKey(v, u)'
    BY <1>1, QuietSameKey
  <2>2. /\ \A u \in Task : (u \in alive' \/ pc'[u] = "spawning") => u # t /\ pc'[u] = pc[u]
        /\ pc'["shutdown"] = pc["shutdown"]
    BY <1>2, <1>3, Names
  <2> QED BY <1>1, <1>2, <2>1, <2>2 DEF KeptOK, tasks
<1> QED BY <1>4, <1>5, <1>6, <1>7, <1>8, <1>9, <1>10, <1>11

\* GiveBack, with or without the end of the generator before it.
LEMMA GiveBackStep ==
  ASSUME IInv, NEW t \in Task, pc[t] \in {"leaving", "cleanup"}, session[t] = t, GiveBack(t),
         UNCHANGED <<locals, tasks, process, alive, abandoned>>,
         pids' \subseteq Task, alive \subseteq pids'
  PROVE  IInv'
<1>1. OwnKey(t) # None /\ t # None
  BY OwnKeys, Names DEF IInv
<1>2. CASE LockFree
  <2>1. Served(lock, pc, t, <<>>)
    BY <1>2 DEF Served, LockFree, Waiting
  <2>2. TakeRemove(t, <<>>)
    BY <1>1, <1>2 DEF GiveBack
  <2> QED BY <2>1, <2>2, RemoveStep
<1>3. CASE ~LockFree
  <2>1. /\ lock # <<>> /\ lock' = Append(lock, t) /\ pc' = [pc EXCEPT ![t] = "removing"]
        /\ UNCHANGED <<locals, tasks, manager, hand, process, alive>>
    BY <1>1, <1>3 DEF GiveBack, LockFree
  <2>2. /\ pc \in [Actor -> PC] /\ t \in Actor /\ abandoned' \subseteq Task
        /\ \A u \in Task : FirstId(u)' = FirstId(u)
    BY <2>1, Names, SameNames DEF IInv, TypeOK, tasks
  <2>3. SessionOK'
    BY <1>1, <2>1, <2>2 DEF IInv, SessionOK, locals
  <2>4. TreeOK'
    BY <2>1, <2>2 DEF IInv, TreeOK, TypeOK, tasks, Idle
  <2> QED BY <2>1, <2>2, <2>3, <2>4, WaitStep DEF Waiting
<1> QED BY <1>2, <1>3

LEMMA LeaveKeeps ==
  ASSUME IInv, NEW t \in Task, Leave(t)
  PROVE  IInv'
<1>1. pc[t] = "leaving" /\ session[t] = t /\ t \notin alive
  BY DEF Leave, IInv, SessionOK, ProcessOK
<1>2. pids' \subseteq Task /\ alive \subseteq pids'
  BY <1>1, ClosedKeeps DEF Leave
<1> QED BY <1>1, <1>2, GiveBackStep DEF Leave

LEMMA CleanUpKeeps ==
  ASSUME IInv, NEW t \in Task, CleanUp(t)
  PROVE  IInv'
<1>1. pc[t] = "cleanup" /\ session[t] \in {None, t}
  BY DEF CleanUp, IInv, SessionOK
<1>2. pids' \subseteq Task /\ alive \subseteq pids'
  BY DEF CleanUp, IInv, TypeOK, ProcessOK
<1>3. CASE session[t] = t
  BY <1>1, <1>2, <1>3, GiveBackStep DEF CleanUp
<1>4. CASE session[t] = None
  <2>1. OwnKey(t) = None
    BY <1>4, OwnKeys, Names DEF IInv
  <2> QED BY <1>1, <1>4, <2>1, NothingToGiveBack DEF CleanUp, GiveBack
<1> QED BY <1>1, <1>3, <1>4

LEMMA GiveBackLaterKeeps ==
  ASSUME IInv, NEW t \in Task, GiveBackLater(t)
  PROVE  IInv'
<1>1. pc[t] = "removing" /\ Head(lock) = t /\ session[t] = t /\ t \in Actor
  BY Names DEF GiveBackLater, IInv, SessionOK
<1>2. lock # <<>>
  BY <1>1, SomeoneWaits DEF IInv, Waiting
<1>3. Served(lock, pc, t, Tail(lock))
  BY <1>1, <1>2 DEF Served, Waiting
<1>4. pids' \subseteq Task /\ alive \subseteq pids'
  BY DEF GiveBackLater, IInv, TypeOK, ProcessOK
<1> QED BY <1>1, <1>3, <1>4, RemoveStep DEF GiveBackLater
-----------------------------------------------------------------------------
(* Those who are taken out of the lock's queue.                             *)

\* What is left is in the order it was.
LeftIn(q, lk, X) ==
  \E at \in [DOMAIN q -> DOMAIN lk] :
     /\ \A k \in DOMAIN q : q[k] = lk[at[k]] /\ q[k] \notin X
     /\ \A i \in DOMAIN lk : lk[i] \notin X => \E k \in DOMAIN q : at[k] = i
     /\ \A k, l \in DOMAIN q : k < l => at[k] < at[l]

LEMMA WithoutFacts ==
  ASSUME NEW S, NEW lk \in Seq(S), NEW X, NEW q \in Without(lk, X)
  PROVE  q \in Seq(S) /\ LeftIn(q, lk, X)
<1> DEFINE kept == {i \in DOMAIN lk : lk[i] \notin X}
           places == 1..Cardinality(kept)
<1>1. Cardinality(kept) \in Nat
  <2>1. IsFiniteSet(1..Len(lk)) /\ DOMAIN lk = 1..Len(lk)
    BY FS_Interval
  <2>2. IsFiniteSet(kept)
    BY <2>1, FS_Subset
  <2> QED BY <2>2, FS_CardinalityType
<1>2. PICK at \in [places -> kept] :
        /\ \A i \in kept : \E k \in places : at[k] = i
        /\ \A k, l \in places : k < l => at[k] < at[l]
        /\ q = [k \in places |-> lk[at[k]]]
  BY DEF Without
<1>3. DOMAIN q = places /\ \A k \in places : q[k] = lk[at[k]] /\ at[k] \in kept
  BY <1>2
<1>4. \A k \in places : lk[at[k]] \in S
  BY <1>3
<1>5. PICK n \in Nat : n = Cardinality(kept)
  BY <1>1
<1>6. q \in Seq(S)
  <2>1. q \in [1..n -> S]
    BY <1>2, <1>4, <1>5
  <2> HIDE DEF kept, places
  <2> QED BY <2>1
<1>7. at \in [DOMAIN q -> DOMAIN lk]
  BY <1>2, <1>3
<1> QED BY <1>2, <1>3, <1>6, <1>7 DEF LeftIn

\* Nobody of a set is at the lock any more.
NoLonger(X, p, h, p2, h2) ==
  \A a \in Actor : IF a \in X THEN p2[a] \notin Waiting /\ h2[a] = <<>>
                   ELSE p2[a] = p[a] /\ h2[a] = h[a]

LEMMA GoneFromLock ==
  ASSUME NEW lk \in Seq(Actor), NEW p \in [Actor -> PC], NEW h \in [Actor -> Seq(Task)], AtLock(lk, p, h),
         NEW X \in SUBSET Actor, NEW q \in Without(lk, X),
         NEW p2 \in [Actor -> PC], NEW h2 \in [Actor -> Seq(Task)],
         NoLonger(X, p, h, p2, h2)
  PROVE  q \in Seq(Actor) /\ AtLock(q, p2, h2)
<1>1. q \in Seq(Actor)
  BY WithoutFacts
<1>2. PICK at \in [DOMAIN q -> DOMAIN lk] :
        /\ \A k \in DOMAIN q : q[k] = lk[at[k]] /\ q[k] \notin X
        /\ \A i \in DOMAIN lk : lk[i] \notin X => \E k \in DOMAIN q : at[k] = i
        /\ \A k, l \in DOMAIN q : k < l => at[k] < at[l]
  <2>1. LeftIn(q, lk, X)
    BY WithoutFacts
  <2> QED BY <2>1 DEF LeftIn
<1> USE DEF NoLonger
<1>3. \A k \in DOMAIN q : /\ k \in Nat /\ k >= 1 /\ at[k] \in DOMAIN lk /\ at[k] \in Nat /\ at[k] >= 1
                          /\ q[k] = lk[at[k]] /\ q[k] \in Actor /\ q[k] \notin X
                          /\ 1 \in DOMAIN q
  BY <1>1, <1>2
<1>4. ASSUME NEW i \in DOMAIN q, NEW j \in DOMAIN q, q[i] = q[j]
      PROVE  i = j
  <2>1. at[i] = at[j]
    BY <1>3, <1>4 DEF AtLock
  <2>2. ~(i < j) /\ ~(j < i)
    BY <1>2, <1>3, <2>1
  <2> QED BY <1>3, <2>2
<1>5. ASSUME NEW i \in DOMAIN q
      PROVE  p2[q[i]] \in Waiting
  BY <1>3 DEF AtLock
<1>6. ASSUME NEW a \in Actor, p2[a] \in Waiting
      PROVE  \E k \in DOMAIN q : q[k] = a
  <2>1. a \notin X /\ p[a] \in Waiting
    BY <1>6
  <2>2. PICK i \in DOMAIN lk : lk[i] = a
    BY <2>1 DEF AtLock
  <2>3. PICK k \in DOMAIN q : at[k] = i
    BY <1>2, <2>1, <2>2
  <2> QED BY <1>3, <2>2, <2>3
<1>7. ASSUME NEW a \in Actor, p2[a] = "stopping"
      PROVE  q[1] = a
  <2>1. p2[a] \in Waiting
    BY <1>7 DEF Waiting
  <2>2. lk[1] = a /\ a \notin X
    BY <1>7, <2>1 DEF AtLock
  <2>3. PICK k \in DOMAIN q : q[k] = a
    BY <1>6, <2>1
  <2>4. at[k] = 1
    <3>1. 1 \in DOMAIN lk
      BY <1>3, <2>3
    <3> QED BY <1>3, <2>2, <2>3, <3>1 DEF AtLock
  <2>5. ~(1 < k)
    BY <1>2, <1>3, <2>3, <2>4
  <2> QED BY <1>3, <2>3, <2>5
<1>8. \A a \in Actor : h2[a] = <<>> <=> p2[a] # "stopping"
  BY DEF AtLock, Waiting
<1>9. \A t \in Task : p2[t] = "stopping" => Len(h2[t]) = 1
  BY Names DEF AtLock, Waiting
<1>10. ASSUME NEW i \in DOMAIN q, NEW j \in DOMAIN q, q[i] \in StopCmd, p2[q[j]] = "getting"
       PROVE  i < j
  <2>1. lk[at[i]] \in StopCmd /\ p[lk[at[j]]] = "getting"
    BY <1>3, <1>10
  <2>2. at[i] < at[j]
    BY <1>3, <2>1 DEF AtLock
  <2>3. ~(j < i) /\ i # j
    BY <1>2, <1>3, <2>2
  <2> QED BY <1>3, <2>3
<1> QED BY <1>1, <1>4, <1>5, <1>6, <1>7, <1>8, <1>9, <1>10 DEF AtLock

-----------------------------------------------------------------------------
(* Stopping all sessions.                                                   *)

LEMMA FirstLiveFacts ==
  ASSUME NEW queue \in Seq(Task), NEW rest \in FirstLive(queue)
  PROVE  /\ rest \in Seq(Task)
         /\ \A i \in DOMAIN queue : Live(queue[i]) => \E j \in DOMAIN rest : rest[j] = queue[i]
<1> DEFINE live == {i \in DOMAIN queue : Live(queue[i])}
<1>1. CASE live = {}
  BY <1>1 DEF FirstLive
<1>2. CASE live # {}
  <2>1. PICK n \in live : (\A j \in live : n <= j) /\ rest = SubSeq(queue, n, Len(queue))
    BY <1>2 DEF FirstLive
  <2>2. n \in 1..Len(queue) /\ Len(queue) \in Nat
    BY <2>1
  <2>3. /\ rest \in Seq(Task) /\ DOMAIN rest = 1..(Len(queue) - n + 1)
        /\ \A j \in 1..(Len(queue) - n + 1) : rest[j] = queue[n + j - 1]
    BY <2>1, <2>2
  <2>4. ASSUME NEW i \in DOMAIN queue, Live(queue[i])
        PROVE  \E j \in DOMAIN rest : rest[j] = queue[i]
    <3>1. n <= i /\ i \in Nat /\ i <= Len(queue)
      BY <2>1, <2>4
    <3>2. i - n + 1 \in DOMAIN rest /\ rest[i - n + 1] = queue[i]
      BY <2>2, <2>3, <3>1
    <3> QED BY <3>2
  <2> QED BY <2>3, <2>4
<1> QED BY <1>1, <1>2

LEMMA ListedFacts ==
  ASSUME NEW map \in [Id -> Task \cup {None}], NEW f \in Listed(map)
  PROVE  /\ f \in Seq(Task)
         /\ \A id \in Id : map[id] # None => \E i \in DOMAIN f : f[i] = map[id]
<1> DEFINE held == {map[id] : id \in {i \in Id : map[i] # None}}
<1>1. held \subseteq Task
  BY Names
<1>2. Cardinality(held) \in Nat
  BY <1>1, CLIAssumption, FS_Subset, FS_CardinalityType
<1>3. f \in [1..Cardinality(held) -> held] /\ \A s \in held : \E i \in DOMAIN f : f[i] = s
  BY DEF Listed
<1> HIDE DEF held
<1>4. f \in Seq(Task)
  BY <1>1, <1>2, <1>3
<1>5. \A id \in Id : map[id] # None => map[id] \in held
  BY DEF held
<1> QED BY <1>3, <1>4, <1>5

LEMMA Joined ==
  ASSUME NEW S, NEW f \in Seq(S), NEW g \in Seq(S)
  PROVE  /\ f \o g \in Seq(S)
         /\ \A i \in DOMAIN f : i \in DOMAIN (f \o g) /\ (f \o g)[i] = f[i]
         /\ \A i \in DOMAIN g : Len(f) + i \in DOMAIN (f \o g) /\ (f \o g)[Len(f) + i] = g[i]
OBVIOUS

LEMMA Forgotten ==
  ASSUME IInv, ForgetAll, UNCHANGED <<parent, tree, locals>>
  PROVE  Shrinks /\ \A u \in Task : ~Held(u)'
<1>1. /\ pending' = Cleared /\ sessions' = Cleared /\ tempToReal' = Cleared
      /\ realToTemp' = Cleared
  BY DEF ForgetAll
<1>2. Shrinks
  BY <1>1 DEF Shrinks, Cleared
<1>3. \A u \in Task : FirstId(u)' \in Id /\ Real(u) \in Id /\ u # None
  BY <1>2, ShrinksNames, FirstIds, Ids, Names DEF IInv
<1> QED BY <1>1, <1>2, <1>3 DEF Held, Cleared

\* What stop_all does under the lock, when `p1` and `h1` are what the cancellations left.
StopAllDoes(a, queue, p1, h1) ==
  \E first \in Listed(sessions), second \in Listed(pending) :
  \E all \in FirstLive(first \o second) :
  IF all # <<>>
  THEN /\ hand' = [h1 EXCEPT ![a] = all] /\ pc' = [p1 EXCEPT ![a] = "stopping"]
       /\ lock' = <<a>> \o queue /\ UNCHANGED manager
  ELSE /\ hand' = h1 /\ pc' = [p1 EXCEPT ![a] = "over"]
       /\ lock' = queue /\ ForgetAll

StoppedAll(a, p1, h1) ==
  /\ lock' \in Seq(Actor) /\ hand' \in [Actor -> Seq(Task)] /\ pc' \in [Actor -> PC]
  /\ AtLock(lock', pc', hand')
  /\ pc'[a] \in {"stopping", "over"}
  /\ \A b \in Actor : b # a => pc'[b] = p1[b] /\ hand'[b] = h1[b]
  /\ \A b \in Actor : p1[b] # "stopping"
  /\ Shrinks
  /\ pc'[a] = "stopping" =>
       /\ UNCHANGED manager
       /\ \A u \in alive : Held(u) => \E i \in DOMAIN hand'[a] : hand'[a][i] = u
  /\ pc'[a] = "over" => \A u \in Task : ~Held(u)' /\ (u \in alive => ~Held(u))

LEMMA StopAllEffect ==
  ASSUME IInv, NEW a \in Stopper, NEW p1 \in [Actor -> PC], NEW h1 \in [Actor -> Seq(Task)],
         NEW lk \in Seq(Actor), AtLock(lk, p1, h1), NEW queue, Served(lk, p1, a, queue),
         p1[a] # "stopping",
         StopAllDoes(a, queue, p1, h1),
         UNCHANGED <<parent, tree, locals>>
  PROVE  StoppedAll(a, p1, h1)
<1> USE DEF StoppedAll
<1>0. PICK first \in Listed(sessions), second \in Listed(pending) :
        \E all \in FirstLive(first \o second) :
        IF all # <<>>
        THEN /\ hand' = [h1 EXCEPT ![a] = all] /\ pc' = [p1 EXCEPT ![a] = "stopping"]
             /\ lock' = <<a>> \o queue /\ UNCHANGED manager
        ELSE /\ hand' = h1 /\ pc' = [p1 EXCEPT ![a] = "over"]
             /\ lock' = queue /\ ForgetAll
  BY DEF StopAllDoes
<1>1. PICK all \in FirstLive(first \o second) :
        IF all # <<>>
        THEN /\ hand' = [h1 EXCEPT ![a] = all] /\ pc' = [p1 EXCEPT ![a] = "stopping"]
             /\ lock' = <<a>> \o queue /\ UNCHANGED manager
        ELSE /\ hand' = h1 /\ pc' = [p1 EXCEPT ![a] = "over"]
             /\ lock' = queue /\ ForgetAll
  BY <1>0
<1>2. /\ a \in Actor /\ a \notin Task /\ alive \subseteq Task
      /\ sessions \in [Id -> Task \cup {None}] /\ pending \in [Id -> Task \cup {None}]
      /\ tempToReal \in [Id -> Id \cup {None}] /\ realToTemp \in [Id -> Id \cup {None}]
  BY Names DEF IInv, TypeOK
<1>3. /\ first \in Seq(Task) /\ \A id \in Id : sessions[id] # None => \E i \in DOMAIN first : first[i] = sessions[id]
      /\ second \in Seq(Task) /\ \A id \in Id : pending[id] # None => \E i \in DOMAIN second : second[i] = pending[id]
  BY <1>2, ListedFacts
<1>4. /\ first \o second \in Seq(Task)
      /\ \A u \in Task : Held(u) => \E i \in DOMAIN (first \o second) : (first \o second)[i] = u
  <2>1. /\ first \o second \in Seq(Task)
        /\ \A i \in DOMAIN first : i \in DOMAIN (first \o second) /\ (first \o second)[i] = first[i]
        /\ \A i \in DOMAIN second : Len(first) + i \in DOMAIN (first \o second)
                                    /\ (first \o second)[Len(first) + i] = second[i]
    BY <1>3, Joined
  <2>2. ASSUME NEW u \in Task, Held(u)
        PROVE  \E i \in DOMAIN (first \o second) : (first \o second)[i] = u
    <3>1. FirstId(u) \in Id /\ Real(u) \in Id /\ u # None
      BY FirstIds, Ids, Names DEF IInv
    <3>2. (\E i \in DOMAIN first : first[i] = u) \/ (\E i \in DOMAIN second : second[i] = u)
      BY <1>3, <2>2, <3>1 DEF Held
    <3> QED BY <2>1, <3>2
  <2> QED BY <2>1, <2>2
<1>5. /\ all \in Seq(Task)
      /\ \A u \in alive : Held(u) => \E i \in DOMAIN all : all[i] = u
  <2> DEFINE both == first \o second
  <2> HIDE DEF both
  <2>1. both \in Seq(Task) /\ all \in FirstLive(both)
        /\ \A u \in Task : Held(u) => \E i \in DOMAIN both : both[i] = u
    BY <1>1, <1>4 DEF both
  <2>2. all \in Seq(Task) /\ \A i \in DOMAIN both : Live(both[i]) => \E j \in DOMAIN all : all[j] = both[i]
    BY <2>1, FirstLiveFacts
  <2>3. \A u \in alive : Live(u)
    BY <1>2, Lives DEF IInv
  <2> QED BY <1>2, <2>1, <2>2, <2>3
<1>6. queue \in Seq(Actor) /\ \A b \in Actor : p1[b] # "stopping"
  BY <1>2, ServedFacts
<1>7. CASE all # <<>>
  <2>1. /\ hand' = [h1 EXCEPT ![a] = all] /\ pc' = [p1 EXCEPT ![a] = "stopping"]
        /\ lock' = <<a>> \o queue /\ UNCHANGED manager
    BY <1>1, <1>7
  <2>2. AtLock(<<a>> \o queue, [p1 EXCEPT ![a] = "stopping"], [h1 EXCEPT ![a] = all])
    BY <1>2, <1>5, <1>7, Holds
  <2>3. lock' \in Seq(Actor)
    BY <1>2, <1>6, <2>1, InFront
  <2>4. Shrinks
    BY <1>2, <2>1 DEF Shrinks, manager
  <2> QED BY <1>2, <1>5, <1>6, <2>1, <2>2, <2>3, <2>4 DEF PC, TaskPC
<1>8. CASE all = <<>>
  <2>1. /\ hand' = h1 /\ pc' = [p1 EXCEPT ![a] = "over"]
        /\ lock' = queue /\ ForgetAll
    BY <1>1, <1>8
  <2>2. AtLock(queue, [p1 EXCEPT ![a] = "over"], [h1 EXCEPT ![a] = <<>>])
    BY <1>2, Leaves DEF PC, TaskPC, Waiting
  <2>3. AtLock(queue, [p1 EXCEPT ![a] = "over"], h1)
    <3>1. h1[a] = <<>>
      BY <1>2 DEF AtLock
    <3>2. h1 = [h1 EXCEPT ![a] = <<>>]
      BY <1>2, <3>1
    <3> QED BY <2>2, <3>2
  <2>5. Shrinks /\ \A u \in Task : ~Held(u)'
    BY <2>1, Forgotten
  <2>7. \A u \in Task : u \in alive => ~Held(u)
    BY <1>5, <1>8
  <2> QED BY <1>2, <1>6, <2>1, <2>3, <2>5, <2>7 DEF PC, TaskPC
<1> QED BY <1>7, <1>8

LEMMA Kept ==
  ASSUME KeptOK, NEW u \in Task, (u \in alive \/ pc[u] = "spawning"), u \notin cutShort
  PROVE  \/ Held(u) \/ (pc[u] = "stopping" /\ hand[u] = <<u>>)
         \/ pc["shutdown"] # "none" \/ (\E v \in Task : SameKey(v, u))
BY DEF KeptOK

\* A step of a /stop or of the shutdown, once nobody is to be cancelled.
LEMMA StopperStep ==
  ASSUME IInv, NEW a \in Stopper, Shrinks,
         UNCHANGED <<parent, tree, locals, freed, cutShort, process, alive, abandoned>>,
         pids' \subseteq Task, alive \subseteq pids',
         pc' \in [Actor -> PC], lock' \in Seq(Actor), hand' \in [Actor -> Seq(Task)],
         LockOK', pc'[a] \in {"queued", "stopping", "over"},
         \A b \in Actor : b # a => pc'[b] = pc[b] /\ hand'[b] = hand[b],
         a \in StopCmd =>
           /\ pc[a] \in {"queued", "stopping"} /\ pc'[a] # "queued"
           /\ pc'[a] = "stopping" =>
                /\ UNCHANGED manager
                /\ \A u \in alive : Held(u) => \E i \in DOMAIN hand'[a] : hand'[a][i] = u
           /\ pc'[a] = "over" =>
                /\ \A u \in Task : ~Held(u)' /\ (u \in alive => ~Held(u))
                /\ \A u \in Task : pc[u] # "stopping"
  PROVE  IInv'
<1> USE DEF IInv
<1>1. /\ a \in Actor /\ a \notin Task /\ pc \in [Actor -> PC]
      /\ \A t \in Task : pc'[t] = pc[t] /\ hand'[t] = hand[t]
      /\ \A b \in Stopper : b \in Actor
      /\ a \in StopCmd \/ a = "shutdown"
  BY Names DEF TypeOK, Stopper
<1>2. /\ UNCHANGED <<session, captured, temp, nodeId, parent, tree>>
      /\ \A u : FirstId(u)' = FirstId(u) /\ ParentSession(u)' = ParentSession(u)
      /\ \A u, v : SameKey(u, v) => SameKey(u, v)'
  BY ShrinksNames
<1>3. MapsOK' /\ KeysOK' /\ \A u \in Task : Held(u)' => Held(u)
  BY <1>1, ShrinksMaps
<1>4. TypeOK'
  <2>1. \A k \in Stopper : pc'[k] \in StopPC
    BY <1>1 DEF TypeOK, StopPC
  <2> QED BY <1>1, <1>2, <2>1 DEF TypeOK, Shrinks
<1>5. SessionOK'
  BY <1>1, <1>2 DEF SessionOK
<1>6. ProcessOK'
  BY <1>1, <1>2 DEF ProcessOK
<1>7. TreeOK'
  BY <1>1, <1>2 DEF TreeOK, TypeOK
<1>8. StopUnderWay' => StopUnderWay
  BY <1>1, Names DEF StopUnderWay
<1>9. HeldOK'
  <2>1. ASSUME NEW u \in Task, Held(u)', ~StopUnderWay'
        PROVE  u \notin freed
    <3>1. a = "shutdown"
      BY <1>1, <2>1 DEF StopUnderWay
    <3>2. ~StopUnderWay
      BY <2>1, <3>1, Names DEF StopUnderWay
    <3> QED BY <1>3, <2>1, <3>2 DEF HeldOK
  <2> QED BY <1>1, <1>2, <1>3, <2>1 DEF HeldOK
<1>10. StopOK'
  <2>1. ASSUME NEW k \in StopCmd, pc'[k] = "stopping", NEW u \in alive, Held(u)'
        PROVE  \E i \in DOMAIN hand'[k] : hand'[k][i] = u
    <3>1. u \in Task /\ Held(u) /\ k \in Actor
      BY <1>3, <2>1, Names DEF TypeOK
    <3>2. CASE k = a
      BY <2>1, <3>1, <3>2
    <3>3. CASE k # a
      <4>1. pc[k] = "stopping" /\ hand'[k] = hand[k]
        BY <2>1, <3>1, <3>3
      <4> QED BY <2>1, <3>1, <4>1 DEF StopOK
    <3> QED BY <3>2, <3>3
  <2>2. StopUnderWay' => \A t \in Task : session'[t] = None \/ pc'[t] = "over" \/ t \in freed'
    BY <1>1, <1>2, <1>8 DEF StopOK
  <2> QED BY <2>1, <2>2 DEF StopOK
<1>11. KeptOK'
  <2> SUFFICES ASSUME NEW u \in Task, (u \in alive \/ pc[u] = "spawning"), u \notin cutShort
               PROVE  \/ Held(u)'
                      \/ pc'[u] = "stopping" /\ hand'[u] = <<u>>
                      \/ pc'["shutdown"] # "none"
                      \/ \E v \in Task : SameKey(v, u)'
    BY <1>1 DEF KeptOK
  <2>1. CASE a = "shutdown"
    BY <2>1
  <2>2. CASE a \in StopCmd
    <3>1. pc'["shutdown"] = pc["shutdown"]
      BY <2>2, Names
    <3>2. \/ Held(u) \/ (pc[u] = "stopping" /\ hand[u] = <<u>>)
          \/ pc["shutdown"] # "none" \/ (\E v \in Task : SameKey(v, u))
      BY Kept
    <3>3. CASE pc'[a] = "stopping"
      <4>1. Held(u)' <=> Held(u)
        BY <1>2, <2>2, <3>3 DEF Held, manager
      <4> QED BY <1>1, <1>2, <3>1, <3>2, <4>1
    <3>4. CASE pc'[a] = "over"
      <4>1. StopUnderWay
        BY <2>2 DEF StopUnderWay
      <4>2. session[u] = None \/ pc[u] = "over" \/ u \in freed
        BY <4>1 DEF StopOK
      <4>3. pc[u] # "spawning"
        BY <4>2, Names DEF TreeOK, SessionOK
      <4> QED BY <1>2, <2>2, <3>1, <3>2, <3>4, <4>3
    <3> QED BY <2>2, <3>3, <3>4
  <2> QED BY <1>1, <2>1, <2>2
<1> QED BY <1>3, <1>4, <1>5, <1>6, <1>7, <1>9, <1>10, <1>11

LEMMA StopSessionsKeeps ==
  ASSUME IInv, NEW a \in Actor, StopSessions(a)
  PROVE  IInv'
<1>1. /\ pc[a] = "queued" /\ a \in Stopper /\ lock # <<>> /\ Head(lock) = a
      /\ lock \in Seq(Actor) /\ pc \in [Actor -> PC] /\ hand \in [Actor -> Seq(Task)]
  <2>1. pc[a] = "queued" /\ Head(lock) = a
    BY DEF StopSessions
  <2>2. a \notin Task
    BY <2>1 DEF IInv, TypeOK, TaskPC
  <2> QED BY <2>1, <2>2, SomeoneWaits, Names DEF IInv, Waiting, TypeOK
<1>2. Served(lock, pc, a, Tail(lock)) /\ AtLock(lock, pc, hand)
  BY <1>1 DEF Served, Waiting, IInv, LockOK
<1>3. /\ StopAllDoes(a, Tail(lock), pc, hand)
      /\ UNCHANGED <<parent, tree, locals, freed, cutShort, process, alive, pids, abandoned>>
  BY DEF StopSessions, TakeStopAll, StopAllDoes, tasks
<1>4. StoppedAll(a, pc, hand)
  BY <1>1, <1>2, <1>3, StopAllEffect
<1>5. LockOK'
  BY <1>4 DEF LockOK, StoppedAll
<1>6. pids' \subseteq Task /\ alive \subseteq pids'
  BY <1>3 DEF IInv, TypeOK, ProcessOK
<1>7. \A u \in Task : pc[u] # "stopping"
  BY <1>4, Names DEF StoppedAll
<1> QED BY <1>1, <1>3, <1>4, <1>5, <1>6, <1>7, StopperStep DEF StoppedAll

LEMMA BeginShutdownKeeps ==
  ASSUME IInv, BeginShutdown
  PROVE  IInv'
<1> DEFINE a == "shutdown"
<1>1. /\ pc[a] = "none" /\ a \in Stopper /\ a \in Actor /\ a \notin StopCmd
      /\ lock \in Seq(Actor) /\ pc \in [Actor -> PC] /\ hand \in [Actor -> Seq(Task)]
      /\ AtLock(lock, pc, hand)
  BY Names DEF BeginShutdown, Stopper, IInv, TypeOK, LockOK
<1>2. UNCHANGED <<parent, tree, locals, freed, cutShort, process, alive, pids, abandoned>>
  BY DEF BeginShutdown, tasks
<1>3. pids' \subseteq Task /\ alive \subseteq pids'
  BY <1>2 DEF IInv, TypeOK, ProcessOK
<1>4. CASE LockFree
  <2>1. Served(lock, pc, a, <<>>)
    BY <1>1, <1>4 DEF Served, LockFree, Waiting
  <2>2. StopAllDoes(a, <<>>, pc, hand)
    BY <1>4 DEF BeginShutdown, TakeStopAll, StopAllDoes
  <2> HIDE DEF a
  <2>3. StoppedAll(a, pc, hand)
    BY <1>1, <1>2, <2>1, <2>2, StopAllEffect
  <2>4. LockOK'
    BY <2>3 DEF LockOK, StoppedAll
  <2> QED BY <1>1, <1>2, <1>3, <2>3, <2>4, StopperStep DEF StoppedAll
<1>5. CASE ~LockFree
  <2>1. /\ pc' = [pc EXCEPT ![a] = "queued"] /\ lock' = Append(lock, a)
        /\ UNCHANGED <<manager, hand>> /\ lock # <<>>
    BY <1>5 DEF BeginShutdown, LockFree
  <2> HIDE DEF a
  <2>2. AtLock(Append(lock, a), [pc EXCEPT ![a] = "queued"], hand)
    BY <1>1, <2>1, Enters DEF Waiting
  <2>3. LockOK'
    BY <2>1, <2>2 DEF LockOK
  <2>4. lock' \in Seq(Actor) /\ pc' \in [Actor -> PC] /\ hand' \in [Actor -> Seq(Task)]
    BY <1>1, <2>1, Appended DEF PC, StopPC
  <2>5. Shrinks
    BY <1>2, <2>1 DEF Shrinks, manager, IInv, TypeOK
  <2> QED BY <1>1, <1>2, <1>3, <2>1, <2>3, <2>4, <2>5, StopperStep
<1> QED BY <1>4, <1>5

LEMMA ShutdownTimesOutKeeps ==
  ASSUME IInv, ShutdownTimesOut
  PROVE  IInv'
<1> DEFINE a == "shutdown"
<1>1. /\ a \in Stopper /\ a \in Actor /\ a \notin StopCmd
      /\ lock \in Seq(Actor) /\ pc \in [Actor -> PC] /\ hand \in [Actor -> Seq(Task)]
      /\ AtLock(lock, pc, hand)
  BY Names DEF Stopper, IInv, TypeOK, LockOK
<1>2. /\ UNCHANGED <<parent, tree, locals, freed, cutShort, process, alive, pids, abandoned>>
      /\ UNCHANGED manager
      /\ pc' = [pc EXCEPT ![a] = "over"] /\ hand' = [hand EXCEPT ![a] = <<>>]
      /\ lock' \in Without(lock, {a})
  BY DEF ShutdownTimesOut, tasks, procs
<1>3. pids' \subseteq Task /\ alive \subseteq pids'
  BY <1>2 DEF IInv, TypeOK, ProcessOK
<1> HIDE DEF a
<1>4. /\ pc' \in [Actor -> PC] /\ hand' \in [Actor -> Seq(Task)]
      /\ \A b \in Actor : IF b = a THEN pc'[b] = "over" /\ hand'[b] = <<>>
                          ELSE pc'[b] = pc[b] /\ hand'[b] = hand[b]
  BY <1>1, <1>2 DEF PC, StopPC
<1>5. lock' \in Seq(Actor) /\ AtLock(lock', pc', hand')
  <2> DEFINE gone == {a}
  <2>1. NoLonger(gone, pc, hand, pc', hand')
    BY <1>4 DEF NoLonger, Waiting
  <2>2. gone \in SUBSET Actor /\ lock' \in Without(lock, gone)
    BY <1>1, <1>2
  <2> HIDE DEF gone
  <2>3. /\ lock \in Seq(Actor) /\ pc \in [Actor -> PC] /\ hand \in [Actor -> Seq(Task)]
        /\ AtLock(lock, pc, hand) /\ pc' \in [Actor -> PC] /\ hand' \in [Actor -> Seq(Task)]
    BY <1>1, <1>4
  <2> HIDE <1>1, <1>4
  <2> QED BY <2>1, <2>2, <2>3, GoneFromLock
<1>6. LockOK'
  BY <1>5 DEF LockOK
<1>7. Shrinks
  BY <1>2 DEF Shrinks, manager, IInv, TypeOK
<1> QED BY <1>1, <1>2, <1>3, <1>4, <1>5, <1>6, <1>7, StopperStep

\* The session that is being stopped, and what comes after it.
LEMMA Stops ==
  ASSUME IInv, NEW a \in Actor, Stopped(a)
  PROVE  /\ pc[a] = "stopping" /\ lock \in Seq(Actor) /\ pc \in [Actor -> PC]
         /\ hand \in [Actor -> Seq(Task)] /\ hand[a] \in Seq(Task) /\ hand[a] # <<>>
         /\ AtLock(lock, pc, hand) /\ Served(lock, pc, a, Tail(lock))
         /\ Tail(lock) \in Seq(Actor)
         /\ Head(hand[a]) = hand[a][1] /\ Head(hand[a]) \in Task /\ Tail(hand[a]) \in Seq(Task)
         /\ pids' \subseteq Task /\ alive \subseteq pids'
         /\ UNCHANGED <<parent, tree, locals, freed, cutShort, process, alive, abandoned>>
<1>1. /\ pc[a] = "stopping" /\ lock \in Seq(Actor) /\ pc \in [Actor -> PC]
      /\ hand \in [Actor -> Seq(Task)] /\ hand[a] \in Seq(Task) /\ AtLock(lock, pc, hand)
  BY DEF Stopped, IInv, TypeOK, LockOK
<1>2. hand[a] # <<>> /\ lock[1] = a
  BY <1>1 DEF AtLock
<1>3. lock # <<>>
  BY <1>1, SomeoneWaits DEF IInv, Waiting
<1>4. Served(lock, pc, a, Tail(lock)) /\ Tail(lock) \in Seq(Actor)
  BY <1>1, <1>2, <1>3, FirstPlace DEF Served, Waiting
<1>5. /\ Head(hand[a]) = hand[a][1] /\ Head(hand[a]) \in Task /\ Tail(hand[a]) \in Seq(Task)
  BY <1>1, <1>2
<1>6. UNCHANGED <<parent, tree, locals, freed, cutShort, process, alive, abandoned>>
  BY DEF Stopped, tasks
<1>7. pids' \subseteq Task /\ alive \subseteq pids'
  <2> DEFINE s == Head(hand[a])
  <2>1. pids' = pids \ {process[s]} /\ ~Live(s) /\ s \in Task
    BY <1>5 DEF Stopped
  <2> HIDE DEF s
  <2>2. process[s] \notin alive
    BY <2>1, Names DEF Live, IInv, TypeOK
  <2> QED BY <2>1, <2>2 DEF IInv, TypeOK, ProcessOK
<1> QED BY <1>1, <1>2, <1>4, <1>5, <1>6, <1>7

LEMMA OnlyOne ==
  ASSUME NEW S, NEW q \in Seq(S), Len(q) = 1
  PROVE  Tail(q) = <<>>
<1>1. q # <<>>
  OBVIOUS
<1>2. Tail(q) \in Seq(S) /\ Len(Tail(q)) = 0
  BY <1>1
<1>3. \A s \in Seq(S) : Len(s) = 0 => s = <<>>
  OBVIOUS
<1> QED BY <1>2, <1>3

\* A task has stopped its session.
LEMMA TaskStopped ==
  ASSUME IInv, NEW a \in Task, Stopped(a)
  PROVE  IInv'
<1> USE DEF IInv
<1>1. /\ pc[a] = "stopping" /\ lock \in Seq(Actor) /\ pc \in [Actor -> PC] /\ a \in Actor
      /\ hand \in [Actor -> Seq(Task)] /\ hand[a] \in Seq(Task) /\ hand[a] # <<>>
      /\ AtLock(lock, pc, hand) /\ Served(lock, pc, a, Tail(lock))
      /\ Tail(lock) \in Seq(Actor)
      /\ Head(hand[a]) = hand[a][1] /\ Head(hand[a]) \in Task
      /\ pids' \subseteq Task /\ alive \subseteq pids'
      /\ UNCHANGED <<parent, tree, locals, freed, cutShort, process, alive, abandoned>>
  BY Stops, Names
<1>2. Len(hand[a]) = 1 /\ Tail(hand[a]) = <<>>
  <2>1. Len(hand[a]) = 1
    BY <1>1 DEF AtLock
  <2> QED BY <1>1, <2>1, OnlyOne
<1>3. FirstLive(Tail(hand[a])) = {<<>>}
  <2>1. {i \in DOMAIN << >> : Live(<< >>[i])} = {}
    OBVIOUS
  <2> QED BY <1>2, <2>1 DEF FirstLive
<1>4. /\ hand' = [hand EXCEPT ![a] = <<>>] /\ pc' = [pc EXCEPT ![a] = "over"]
      /\ lock' = Tail(lock) /\ Forget(OwnKey(a)) /\ UNCHANGED <<sessions, pending>>
      /\ ~Live(Head(hand[a]))
  BY <1>3 DEF Stopped
<1>5. /\ \A b \in Actor : pc'[b] = IF b = a THEN "over" ELSE pc[b]
      /\ \A b \in Actor : b # a => hand'[b] = hand[b]
      /\ hand' \in [Actor -> Seq(Task)] /\ pc' \in [Actor -> PC]
      /\ UNCHANGED <<parent, tree, freed, cutShort, session, captured, temp, nodeId>>
  BY <1>1, <1>4 DEF PC, TaskPC, locals
<1>6. session[a] = a /\ OwnKey(a) \in Id
  BY <1>1, OwnKeys DEF SessionOK
<1>7. Shrinks
  BY <1>1, <1>4, <1>6, Forgets DEF Shrinks, TypeOK
<1>8. /\ \A u : FirstId(u)' = FirstId(u) /\ ParentSession(u)' = ParentSession(u)
      /\ \A u, v : SameKey(u, v) => SameKey(u, v)'
      /\ \A u \in Task : Held(u)' <=> Held(u)
  BY <1>4, <1>5, <1>7, ShrinksNames DEF Held
<1>9. MapsOK' /\ KeysOK'
  <2>1. \A u \in Task : pc[u] = "over" => pc'[u] = "over"
    BY <1>5, Names
  <2> QED BY <1>5, <1>7, <2>1, ShrinksMaps
<1>10. TypeOK'
  <2>1. \A u \in Task : pc'[u] \in TaskPC
    BY <1>5, Names DEF TypeOK, TaskPC
  <2>2. \A k \in Stopper : pc'[k] = pc[k]
    BY <1>5, Names
  <2>3. lock' \in Seq(Actor)
    BY <1>1, <1>4
  <2> QED BY <1>1, <1>5, <1>7, <2>1, <2>2, <2>3 DEF TypeOK, Shrinks
<1>11. SessionOK'
  <2>1. pc[a] = "stopping" /\ abandoned' = abandoned /\ SessionOK
    BY <1>1
  <2> HIDE DEF IInv
  <2> QED BY <1>5, <1>6, <1>8, <2>1, Names DEF SessionOK
<1>12. ProcessOK'
  BY <1>1, <1>5, Names DEF ProcessOK
<1>13. LockOK'
  <2>1. AtLock(Tail(lock), [pc EXCEPT ![a] = "over"], [hand EXCEPT ![a] = <<>>])
    BY <1>1, Leaves DEF PC, TaskPC, Waiting
  <2> QED BY <1>4, <2>1 DEF LockOK
<1>14. TreeOK'
  <2>1. pc[a] = "stopping" /\ TreeOK /\ freed \subseteq Task
    BY <1>1 DEF TypeOK
  <2> HIDE DEF IInv
  <2> QED BY <1>5, <2>1, Names DEF TreeOK, Idle
<1>15. /\ StopUnderWay' <=> StopUnderWay
       /\ \A k \in StopCmd : pc'[k] = pc[k] /\ hand'[k] = hand[k]
  BY <1>5, Names DEF StopUnderWay
<1>16. HeldOK'
  BY <1>1, <1>5, <1>8, <1>15, Names DEF HeldOK
<1>17. StopOK'
  <2>1. \A u \in Task : pc[u] = "over" => pc'[u] = "over"
    BY <1>5, Names
  <2> QED BY <1>1, <1>5, <1>8, <1>15, <2>1 DEF StopOK, TypeOK
<1>18. KeptOK'
  <2> SUFFICES ASSUME NEW u \in Task, (u \in alive \/ pc'[u] = "spawning"), u \notin cutShort
               PROVE  \/ Held(u)'
                      \/ pc'[u] = "stopping" /\ hand'[u] = <<u>>
                      \/ pc'["shutdown"] # "none"
                      \/ \E v \in Task : SameKey(v, u)'
    BY <1>1, <1>5 DEF KeptOK
  <2>1. pc'["shutdown"] = pc["shutdown"]
    BY <1>5, Names
  <2>2. \/ Held(u) \/ (pc[u] = "stopping" /\ hand[u] = <<u>>)
        \/ pc["shutdown"] # "none" \/ (\E v \in Task : SameKey(v, u))
    <3>1. u \in alive \/ pc[u] = "spawning"
      BY <1>5, Names
    <3> QED BY <3>1, Kept
  <2>3. CASE u = a /\ pc[u] = "stopping" /\ hand[u] = <<u>>
    <3>1. ~Live(a) /\ a \in alive
      BY <1>1, <1>4, <1>5, <2>3
    <3> QED BY <3>1, Lives
  <2>4. CASE u # a
    <3>1. pc'[u] = pc[u] /\ hand'[u] = hand[u]
      BY <1>5, <2>4, Names
    <3> QED BY <1>8, <2>1, <2>2, <3>1
  <2> QED BY <1>8, <2>1, <2>2, <2>3, <2>4
<1> QED BY <1>9, <1>10, <1>11, <1>12, <1>13, <1>14, <1>16, <1>17, <1>18

\* stop_all has stopped one session and goes to the next, or is done.
LEMMA StopperStopped ==
  ASSUME IInv, NEW a \in Stopper, Stopped(a)
  PROVE  IInv'
<1>1. /\ pc[a] = "stopping" /\ lock \in Seq(Actor) /\ pc \in [Actor -> PC] /\ a \in Actor
      /\ a \notin Task
      /\ hand \in [Actor -> Seq(Task)] /\ hand[a] \in Seq(Task) /\ hand[a] # <<>>
      /\ AtLock(lock, pc, hand) /\ Served(lock, pc, a, Tail(lock))
      /\ Tail(lock) \in Seq(Actor)
      /\ Head(hand[a]) = hand[a][1] /\ Head(hand[a]) \in Task /\ Tail(hand[a]) \in Seq(Task)
      /\ pids' \subseteq Task /\ alive \subseteq pids'
      /\ UNCHANGED <<parent, tree, locals, freed, cutShort, process, alive, abandoned>>
  BY Stops, Names
<1>2. ~Live(Head(hand[a])) /\ alive \subseteq Task
  BY DEF Stopped, IInv, TypeOK
<1>3. PICK rest \in FirstLive(Tail(hand[a])) :
        /\ hand' = [hand EXCEPT ![a] = rest]
        /\ IF rest # <<>> THEN UNCHANGED <<pc, lock, manager>>
           ELSE pc' = [pc EXCEPT ![a] = "over"] /\ lock' = Tail(lock) /\ ForgetAll
  BY <1>1 DEF Stopped
<1>4. /\ rest \in Seq(Task)
      /\ a \in StopCmd => \A u \in alive : Held(u) => \E i \in DOMAIN rest : rest[i] = u
  <2> DEFINE queue == Tail(hand[a])
  <2>1. /\ queue \in Seq(Task)
        /\ \A i \in DOMAIN hand[a] : i # 1 => i - 1 \in DOMAIN queue /\ queue[i - 1] = hand[a][i]
    BY <1>1
  <2>2. /\ rest \in Seq(Task)
        /\ \A i \in DOMAIN queue : Live(queue[i]) => \E j \in DOMAIN rest : rest[j] = queue[i]
    BY <2>1, FirstLiveFacts
  <2> HIDE DEF queue
  <2>3. ASSUME a \in StopCmd, NEW u \in alive, Held(u)
        PROVE  \E i \in DOMAIN rest : rest[i] = u
    <3>1. PICK i \in DOMAIN hand[a] : hand[a][i] = u
      BY <1>1, <2>3 DEF IInv, StopOK
    <3>2. Live(u)
      BY <1>2, Lives DEF IInv
    <3>3. i # 1
      BY <1>1, <1>2, <3>1, <3>2
    <3> QED BY <2>1, <2>2, <3>1, <3>2, <3>3
  <2> QED BY <2>2, <2>3
<1>5. \A u \in Task : pc[u] # "stopping"
  <2>1. ASSUME NEW u \in Actor, pc[u] = "stopping" PROVE u = a
    <3>1. \A b \in Actor : pc[b] = "stopping" => lock[1] = b
      BY <1>1 DEF AtLock
    <3> QED BY <1>1, <2>1, <3>1
  <2> QED BY <1>1, <2>1, Names
<1>6. CASE rest # <<>>
  <2>1. hand' = [hand EXCEPT ![a] = rest] /\ UNCHANGED <<pc, lock, manager>>
    BY <1>3, <1>6
  <2>2. /\ \A b \in Actor : hand'[b] = IF b = a THEN rest ELSE hand[b]
        /\ hand' \in [Actor -> Seq(Task)]
    BY <1>1, <1>4, <2>1
  <2>3. LockOK'
    BY <1>1, <1>6, <2>1, <2>2, Names DEF LockOK, AtLock
  <2>4. Shrinks
    <3>1. UNCHANGED <<parent, tree, locals>> /\ UNCHANGED manager
      BY <1>1, <2>1
    <3> QED BY <3>1, NothingMoves
  <2>5. /\ \A b \in Actor : b # a => pc'[b] = pc[b] /\ hand'[b] = hand[b]
        /\ pc'[a] = "stopping" /\ pc' \in [Actor -> PC] /\ lock' \in Seq(Actor)
        /\ UNCHANGED manager
    BY <1>1, <2>1, <2>2
  <2>6. a \in StopCmd =>
          \A u \in alive : Held(u) => \E i \in DOMAIN hand'[a] : hand'[a][i] = u
    BY <1>1, <1>4, <2>2
  <2> QED BY <1>1, <2>2, <2>3, <2>4, <2>5, <2>6, StopperStep
<1>7. CASE rest = <<>>
  <2>1. /\ hand' = [hand EXCEPT ![a] = <<>>] /\ pc' = [pc EXCEPT ![a] = "over"]
        /\ lock' = Tail(lock) /\ ForgetAll
    BY <1>3, <1>7
  <2>2. /\ \A b \in Actor : b # a => pc'[b] = pc[b] /\ hand'[b] = hand[b]
        /\ pc'[a] = "over" /\ lock' \in Seq(Actor)
        /\ hand' \in [Actor -> Seq(Task)] /\ pc' \in [Actor -> PC]
    BY <1>1, <2>1 DEF PC, TaskPC
  <2>3. AtLock(Tail(lock), [pc EXCEPT ![a] = "over"], [hand EXCEPT ![a] = <<>>])
    BY <1>1, Leaves DEF PC, TaskPC, Waiting
  <2>4. LockOK'
    BY <2>1, <2>3 DEF LockOK
  <2>5. Shrinks /\ \A u \in Task : ~Held(u)'
    BY <1>1, <2>1, Forgotten
  <2>6. a \in StopCmd => \A u \in Task : u \in alive => ~Held(u)
    BY <1>4, <1>7
  <2> QED BY <1>1, <1>5, <2>2, <2>4, <2>5, <2>6, StopperStep
<1> QED BY <1>6, <1>7

LEMMA StoppedKeeps ==
  ASSUME IInv, NEW a \in Actor, Stopped(a)
  PROVE  IInv'
BY TaskStopped, StopperStopped, Names
-----------------------------------------------------------------------------
(* Cancelling tasks.                                                        *)

\* Where a cancellation leaves a task that runs.
LEMMA AfterCancelling ==
  ASSUME TypeOK, NEW t \in Task, pc[t] \notin Idle
  PROVE  /\ AfterCancel(t) \in {"cleanup", "shielding", "over"}
         /\ AfterCancel(t) = "over" <=> pc[t] \in {"removing", "stopping"}
         /\ AfterCancel(t) = "shielding" <=> pc[t] = "shielding" \/ (pc[t] = "reading" /\ t \in alive)
BY DEF TypeOK, TaskPC, Idle, AfterCancel

\* What holds whoever is cancelled, and whatever becomes of the lock and the manager.
LEMMA CancelStep ==
  ASSUME IInv, NEW X \in SUBSET Task, \A t \in X : pc[t] \notin Idle, CancelTasks(X),
         \A t \in Task : pc'[t] = IF t \in X THEN AfterCancel(t) ELSE pc[t],
         \A k \in Stopper : pc'[k] \in StopPC, pc' \in [Actor -> PC],
         freed \subseteq freed', freed' \subseteq freed \cup X,
         \A t \in X : pc[t] \in {"removing", "stopping"} => t \in freed',
         lock' \in Seq(Actor), hand' \in [Actor -> Seq(Task)], Shrinks
  PROVE  /\ TypeOK' /\ SessionOK' /\ ProcessOK' /\ TreeOK' /\ MapsOK' /\ KeysOK'
         /\ \A t \in Task :
              /\ pc'[t] = "spawning" => pc[t] = "spawning" /\ t \notin X
              /\ pc'[t] = "stopping" => pc[t] = "stopping" /\ t \notin X
              /\ pc[t] = "stopping" => t \in cutShort' \/ t \notin X
              /\ pc[t] = "over" => pc'[t] = "over"
              /\ pc'[t] = "over" => pc[t] = "over" \/ t \in cutShort'
         /\ cutShort \subseteq cutShort' /\ UNCHANGED <<process, alive>>
<1> USE DEF IInv
<1> DEFINE closed == {t \in X : pc[t] \in {"spawning", "reading"} /\ cliLock[session[t]] = t
                                 /\ t \notin alive}
           cut == {t \in X : pc[t] \in {"removing", "stopping"}}
           left == {t \in X : pc[t] \in {"registering", "handling", "leaving"}}
<1>1. /\ cutShort' = cutShort \cup cut /\ abandoned' = abandoned \cup left
      /\ pids' = pids \ {process[session[t]] : t \in closed}
      /\ UNCHANGED <<parent, tree, locals, process, alive>>
      /\ UNCHANGED <<session, captured, temp, nodeId>>
  BY DEF CancelTasks, locals
<1>2. \A t \in X : /\ pc'[t] \in {"cleanup", "shielding", "over"}
                   /\ pc'[t] = "over" <=> t \in cut
                   /\ pc'[t] = "shielding" => pc[t] \in {"shielding", "reading"}
                   /\ pc[t] \notin Idle
  BY AfterCancelling
<1>3. \A t \in Task \ X : pc'[t] = pc[t]
  OBVIOUS
<1>4. /\ \A u : FirstId(u)' = FirstId(u)
  BY ShrinksNames
<1> HIDE DEF cut, left, closed
<1>5. \A t \in Task :
              /\ pc'[t] = "spawning" => pc[t] = "spawning" /\ t \notin X
              /\ pc'[t] = "stopping" => pc[t] = "stopping" /\ t \notin X
              /\ pc[t] = "stopping" => t \in cutShort' \/ t \notin X
              /\ pc[t] = "over" => pc'[t] = "over"
              /\ pc'[t] = "over" => pc[t] = "over" \/ t \in cutShort'
  BY <1>1, <1>2, <1>3 DEF cut, Idle
<1>6. /\ alive \subseteq pids' /\ pids' \subseteq Task
  <2>1. ASSUME NEW t \in closed
        PROVE  process[session[t]] \notin alive
    <3>1. session[t] = t /\ t \notin alive /\ process[t] \in {None, t}
      BY <2>1 DEF closed, SessionOK, ProcessOK
    <3> QED BY <3>1, Names DEF TypeOK
  <2> QED BY <1>1, <2>1 DEF TypeOK, ProcessOK
<1>7. TypeOK'
  <2>1. \A t \in Task : pc'[t] \in TaskPC
    BY <1>2, <1>3 DEF TypeOK, TaskPC
  <2>2. abandoned' \subseteq Task /\ freed' \subseteq Task /\ cutShort' \subseteq freed'
    BY <1>1 DEF TypeOK, left, cut
  <2> QED BY <1>1, <1>6, <2>1, <2>2 DEF TypeOK, Shrinks
<1>8. SessionOK'
  <2>1. \A t \in left : session[t] = t
    BY DEF SessionOK, left
  <2>2. SessionOK
    OBVIOUS
  <2> HIDE DEF IInv
  <2>3. ASSUME NEW t \in Task
        PROVE  /\ pc'[t] \in {"none", "getting"} => session[t] = None
               /\ pc'[t] \notin {"none", "getting", "cleanup", "over"} => session[t] = t
               /\ pc'[t] = "registering" => captured[t] = None
               /\ t \in abandoned' => session[t] = t
    BY <1>1, <1>2, <1>3, <2>1, <2>2 DEF SessionOK
  <2> QED BY <1>1, <1>4, <2>2, <2>3 DEF SessionOK
<1>9. ProcessOK'
  <2>1. ProcessOK
    OBVIOUS
  <2> HIDE DEF IInv
  <2> QED BY <1>1, <1>2, <1>3, <1>6, <2>1 DEF ProcessOK
<1>10. TreeOK'
  <2>1. TreeOK /\ freed \subseteq Task
    BY DEF TypeOK
  <2> HIDE DEF IInv
  <2>2. \A t \in freed' : pc'[t] \in {"cleanup", "shielding", "removing", "stopping", "over"}
    BY <1>2, <1>3, <2>1 DEF TreeOK
  <2>3. \A t \in Task : /\ pc'[t] \notin Idle => pc[t] \notin Idle
                        /\ pc'[t] # "none" => pc[t] # "none"
    BY <1>2, <1>3 DEF Idle
  <2> QED BY <1>1, <1>5, <2>1, <2>2, <2>3 DEF TreeOK
<1>11. MapsOK' /\ KeysOK'
  BY <1>5, ShrinksMaps
<1> QED BY <1>1, <1>5, <1>7, <1>8, <1>9, <1>10, <1>11

LEMMA CancelOneKeeps ==
  ASSUME IInv, NEW t \in Task, CancelOne(t)
  PROVE  IInv'
<1> USE DEF IInv
<1> DEFINE X == {t}
<1>1. /\ pc \in [Actor -> PC] /\ hand \in [Actor -> Seq(Task)] /\ lock \in Seq(Actor)
      /\ AtLock(lock, pc, hand) /\ t \in Actor
      /\ pc[t] \notin Idle \cup {"removing", "stopping"}
      /\ CancelTasks(X) /\ lock' \in Without(lock, X)
      /\ UNCHANGED <<freed, manager, parent, tree, locals, process, alive>>
      /\ X \in SUBSET Task /\ X \in SUBSET Actor
  BY Names DEF CancelOne, CancelTasks, TypeOK, LockOK
<1>2. /\ pc' = [a \in Actor |-> IF a \in X THEN AfterCancel(a) ELSE pc[a]]
      /\ hand' = [a \in Actor |-> IF a \in X THEN <<>> ELSE hand[a]]
  BY DEF CancelOne, Cancelled
<1>3. AfterCancel(t) \in {"cleanup", "shielding"}
  BY <1>1, AfterCancelling
<1>4. /\ pc' \in [Actor -> PC] /\ hand' \in [Actor -> Seq(Task)]
      /\ \A a \in Actor : pc'[a] = IF a = t THEN AfterCancel(t) ELSE pc[a]
      /\ \A a \in Actor : hand'[a] = IF a = t THEN <<>> ELSE hand[a]
  BY <1>1, <1>2, <1>3 DEF PC, TaskPC
<1>5. NoLonger(X, pc, hand, pc', hand')
  BY <1>1, <1>3, <1>4 DEF NoLonger, Waiting
<1>6. \A u \in X : u = t
  OBVIOUS
<1>7. t \in X
  OBVIOUS
<1> HIDE DEF X
<1>8. lock' \in Seq(Actor) /\ AtLock(lock', pc', hand')
  BY <1>1, <1>4, <1>5, GoneFromLock
<1>9. Shrinks
  BY <1>1 DEF Shrinks, manager, TypeOK
<1>10. \A u \in Task : pc'[u] = IF u \in X THEN AfterCancel(u) ELSE pc[u]
  BY <1>4, <1>6, <1>7, Names
<1>11. /\ \A k \in Stopper : pc'[k] = pc[k] /\ hand'[k] = hand[k]
       /\ \A k \in Stopper : pc'[k] \in StopPC
  BY <1>4, Names DEF TypeOK
<1>12. /\ TypeOK' /\ SessionOK' /\ ProcessOK' /\ TreeOK' /\ MapsOK' /\ KeysOK'
       /\ cutShort \subseteq cutShort'
       /\ \A u \in Task : pc[u] = "over" => pc'[u] = "over"
  BY <1>1, <1>4, <1>6, <1>8, <1>9, <1>10, <1>11, CancelStep
<1>13. /\ \A u \in Task : Held(u)' <=> Held(u)
       /\ \A u, v : SameKey(u, v) => SameKey(u, v)'
       /\ StopUnderWay' <=> StopUnderWay
       /\ session' = session
  <2>1. \A u \in Task : Held(u)' <=> Held(u)
    BY <1>1, <1>9, ShrinksNames DEF Held, manager
  <2> QED BY <1>1, <1>9, <1>11, <2>1, ShrinksNames, Names DEF StopUnderWay, locals
<1>14. LockOK'
  BY <1>8 DEF LockOK
<1>15. HeldOK'
  BY <1>1, <1>3, <1>4, <1>12, <1>13, Names DEF HeldOK
<1>16. StopOK'
  <2>1. StopUnderWay' => \A u \in Task : session'[u] = None \/ pc'[u] = "over" \/ u \in freed'
    BY <1>1, <1>12, <1>13 DEF StopOK
  <2>2. ASSUME NEW k \in StopCmd, pc'[k] = "stopping", NEW u \in alive, Held(u)'
        PROVE  \E i \in DOMAIN hand'[k] : hand'[k][i] = u
    <3>1. pc[k] = "stopping" /\ hand'[k] = hand[k] /\ u \in Task
      BY <1>11, <2>2, Names DEF TypeOK
    <3>2. Held(u)
      BY <1>13, <2>2, <3>1
    <3> QED BY <2>2, <3>1, <3>2 DEF StopOK
  <2> QED BY <1>1, <2>1, <2>2 DEF StopOK
<1>17. KeptOK'
  <2> SUFFICES ASSUME NEW u \in Task, (u \in alive \/ pc'[u] = "spawning"), u \notin cutShort
               PROVE  \/ Held(u)'
                      \/ pc'[u] = "stopping" /\ hand'[u] = <<u>>
                      \/ pc'["shutdown"] # "none"
                      \/ \E v \in Task : SameKey(v, u)'
    BY <1>1, <1>12 DEF KeptOK
  <2>1. pc'["shutdown"] = pc["shutdown"]
    BY <1>4, Names
  <2>2. \/ Held(u) \/ (pc[u] = "stopping" /\ hand[u] = <<u>>)
        \/ pc["shutdown"] # "none" \/ (\E v \in Task : SameKey(v, u))
    <3>1. u \in alive \/ pc[u] = "spawning"
      BY <1>3, <1>4, Names
    <3> QED BY <3>1, Kept
  <2>3. pc[u] = "stopping" => pc'[u] = "stopping" /\ hand'[u] = hand[u]
    BY <1>1, <1>4, Names
  <2> QED BY <1>13, <2>1, <2>2, <2>3
<1> QED BY <1>12, <1>14, <1>15, <1>16, <1>17

\* /stop cancels the current task of each tree, and goes on to the sessions or waits
\* for the lock.
LEMMA StopAllTasksKeeps ==
  ASSUME IInv, NEW k \in StopCmd, StopAllTasks(k)
  PROVE  IInv'
<1> DEFINE X == Running
           p1 == Cancelled(X).pc
           h1 == Cancelled(X).hand
<1>1. /\ pc \in [Actor -> PC] /\ hand \in [Actor -> Seq(Task)] /\ lock \in Seq(Actor)
      /\ AtLock(lock, pc, hand) /\ k \in Actor /\ k \in Stopper /\ k \notin Task
      /\ pc[k] = "none"
      /\ CancelTasks(X) /\ freed' = freed \cup X
      /\ UNCHANGED <<parent, tree, locals, process, alive>>
  BY Names DEF StopAllTasks, CancelTasks, IInv, TypeOK, LockOK
<1>2. /\ X \in SUBSET Task /\ X \in SUBSET Actor /\ k \notin X
      /\ \A t \in X : pc[t] \notin Idle
      /\ \A t \in Task : pc[t] \in Idle \/ t \in freed \/ t \in X
  BY Names DEF Running
<1>3. /\ p1 = [a \in Actor |-> IF a \in X THEN AfterCancel(a) ELSE pc[a]]
      /\ h1 = [a \in Actor |-> IF a \in X THEN <<>> ELSE hand[a]]
  BY DEF Cancelled
<1>4. \/ LockFree /\ StopAllDoes(k, <<>>, p1, h1)
      \/ /\ ~LockFree /\ UNCHANGED manager
         /\ pc' = [p1 EXCEPT ![k] = "queued"] /\ hand' = h1
         /\ \E queue \in Without(lock, X) : lock' = Append(queue, k)
  BY DEF StopAllTasks, TakeStopAll, StopAllDoes
<1> HIDE DEF X, p1, h1
<1>5. \A t \in X : AfterCancel(t) \in {"cleanup", "shielding", "over"}
  BY <1>2, AfterCancelling DEF IInv
<1>6. /\ p1 \in [Actor -> PC] /\ h1 \in [Actor -> Seq(Task)]
      /\ \A a \in Actor : p1[a] = IF a \in X THEN AfterCancel(a) ELSE pc[a]
      /\ \A a \in Actor : h1[a] = IF a \in X THEN <<>> ELSE hand[a]
      /\ p1[k] = "none"
  BY <1>1, <1>2, <1>3, <1>5 DEF PC, TaskPC
<1>7. NoLonger(X, pc, hand, p1, h1)
  BY <1>5, <1>6 DEF NoLonger, Waiting
\* Nobody who still runs has yet to get a session.
<1>8. \A a \in Actor : p1[a] # "getting" /\ p1[a] # "spawning"
  <2>1. \A t \in Task : p1[t] # "getting" /\ p1[t] # "spawning"
    BY <1>2, <1>5, <1>6, Names DEF IInv, TreeOK, Idle
  <2>2. \A b \in Stopper : p1[b] # "getting" /\ p1[b] # "spawning"
    BY <1>2, <1>6, Names DEF IInv, TypeOK, StopPC
  <2> QED BY <2>1, <2>2, Names
\* Either way: who waits now, and what the manager has.
<1> DEFINE Either ==
      /\ lock' \in Seq(Actor) /\ hand' \in [Actor -> Seq(Task)] /\ pc' \in [Actor -> PC]
      /\ AtLock(lock', pc', hand') /\ Shrinks
      /\ \A b \in Actor : b # k => pc'[b] = p1[b] /\ hand'[b] = h1[b]
      /\ pc'[k] \in {"queued", "stopping", "over"}
      /\ pc'[k] = "stopping" =>
           \A u \in alive : Held(u) => \E i \in DOMAIN hand'[k] : hand'[k][i] = u
      /\ pc'[k] # "over" => UNCHANGED manager
      /\ pc'[k] = "over" => /\ \A u \in Task : ~Held(u)' /\ (u \in alive => ~Held(u))
                            /\ \A u \in Actor : p1[u] # "stopping"
<1>9. ASSUME LockFree /\ StopAllDoes(k, <<>>, p1, h1)
      PROVE  Either
  <2>1. lock = <<>>
    BY <1>9 DEF LockFree
  <2>2. AtLock(lock, p1, h1)
    <3>1. \A a \in Actor : pc[a] \notin Waiting
      BY <1>1, <2>1 DEF AtLock
    <3>2. \A a \in Actor : p1[a] \notin Waiting /\ h1[a] = <<>>
      BY <1>1, <1>5, <1>6, <3>1 DEF AtLock, Waiting
    <3>3. DOMAIN lock = {}
      BY <2>1
    <3> QED BY <3>2, <3>3, Names DEF AtLock, Waiting
  <2>3. Served(lock, p1, k, <<>>)
    BY <1>6, <2>1 DEF Served, Waiting
  <2>4. StoppedAll(k, p1, h1)
    BY <1>1, <1>6, <1>9, <2>2, <2>3, StopAllEffect
  <2>5. /\ lock' \in Seq(Actor) /\ hand' \in [Actor -> Seq(Task)] /\ pc' \in [Actor -> PC]
        /\ AtLock(lock', pc', hand') /\ Shrinks /\ pc'[k] \in {"stopping", "over"}
        /\ pc'[k] = "stopping" => UNCHANGED manager
    BY <2>4 DEF StoppedAll
  <2>6. \A b \in Actor : b # k => pc'[b] = p1[b] /\ hand'[b] = h1[b]
    BY <2>4 DEF StoppedAll
  <2>7. pc'[k] = "stopping" =>
           \A u \in alive : Held(u) => \E i \in DOMAIN hand'[k] : hand'[k][i] = u
    BY <2>4 DEF StoppedAll
  <2>8. pc'[k] = "over" => /\ \A u \in Task : ~Held(u)' /\ (u \in alive => ~Held(u))
                           /\ \A u \in Actor : p1[u] # "stopping"
    BY <2>4 DEF StoppedAll
  <2>9. pc'[k] # "over" => UNCHANGED manager
    BY <2>5
  <2>10. pc'[k] \in {"queued", "stopping", "over"}
    BY <2>5
  <2> QED BY ONLY <2>5, <2>6, <2>7, <2>8, <2>9, <2>10
<1>10. ASSUME ~LockFree /\ UNCHANGED manager,
              pc' = [p1 EXCEPT ![k] = "queued"] /\ hand' = h1,
              \E queue \in Without(lock, X) : lock' = Append(queue, k)
       PROVE  Either
  <2>1. PICK queue \in Without(lock, X) : lock' = Append(queue, k)
    BY <1>10
  <2>2. queue \in Seq(Actor) /\ AtLock(queue, p1, h1)
    BY <1>1, <1>2, <1>6, <1>7, GoneFromLock
  <2>3. AtLock(Append(queue, k), [p1 EXCEPT ![k] = "queued"], h1)
    BY <1>1, <1>6, <1>8, <2>2, Enters DEF Waiting
  <2>4. lock' \in Seq(Actor) /\ pc' \in [Actor -> PC]
    BY <1>1, <1>6, <1>10, <2>1, <2>2, Appended DEF PC, StopPC
  <2>5. Shrinks
    BY <1>1, <1>10, NothingMoves
  <2>6. /\ \A b \in Actor : b # k => pc'[b] = p1[b] /\ hand'[b] = h1[b]
        /\ pc'[k] = "queued"
    BY <1>1, <1>6, <1>10
  <2>7. AtLock(lock', pc', hand') /\ hand' \in [Actor -> Seq(Task)]
    BY <1>6, <1>10, <2>1, <2>3
  <2> QED BY ONLY <1>10, <2>4, <2>5, <2>6, <2>7
<1> HIDE DEF Either
<1>11. Either
  BY ONLY <1>4, <1>9, <1>10
<1> USE DEF Either
<1>12. /\ \A t \in Task : pc'[t] = IF t \in X THEN AfterCancel(t) ELSE pc[t]
       /\ \A t \in Task : hand'[t] = IF t \in X THEN <<>> ELSE hand[t]
       /\ \A b \in Stopper : b # k => pc'[b] = pc[b] /\ hand'[b] = hand[b]
       /\ \A b \in Stopper : pc'[b] \in StopPC
  <2>1. \A b \in Stopper : b \notin X /\ b \in Actor
    BY <1>2, Names
  <2>2. \A b \in Stopper : pc[b] \in StopPC
    BY DEF IInv, TypeOK
  <2>3. /\ \A b \in Actor : b # k => pc'[b] = p1[b] /\ hand'[b] = h1[b]
        /\ pc'[k] \in {"queued", "stopping", "over"}
    BY <1>11
  <2>4. \A t \in Task : t \in Actor /\ t # k
    BY <1>1, Names
  <2> HIDE DEF Either
  <2>5. /\ \A t \in Task : pc'[t] = IF t \in X THEN AfterCancel(t) ELSE pc[t]
        /\ \A t \in Task : hand'[t] = IF t \in X THEN <<>> ELSE hand[t]
    BY <1>6, <2>3, <2>4
  <2>6. \A b \in Stopper : b # k => pc'[b] = pc[b] /\ hand'[b] = hand[b]
    BY <1>6, <2>1, <2>3
  <2>7. \A b \in Stopper : pc'[b] \in StopPC
    BY <2>2, <2>3, <2>6 DEF StopPC
  <2> QED BY <2>5, <2>6, <2>7
<1>13. /\ TypeOK' /\ SessionOK' /\ ProcessOK' /\ TreeOK' /\ MapsOK' /\ KeysOK'
       /\ \A t \in Task :
            /\ pc'[t] = "spawning" => pc[t] = "spawning" /\ t \notin X
            /\ pc'[t] = "stopping" => pc[t] = "stopping" /\ t \notin X
            /\ pc[t] = "stopping" => t \in cutShort' \/ t \notin X
            /\ pc[t] = "over" => pc'[t] = "over"
            /\ pc'[t] = "over" => pc[t] = "over" \/ t \in cutShort'
       /\ cutShort \subseteq cutShort'
  BY <1>1, <1>2, <1>11, <1>12, CancelStep
<1>14. /\ \A u \in Task : Held(u)' => Held(u)
       /\ pc'[k] # "over" => \A u \in Task : Held(u)' <=> Held(u)
       /\ \A u, v : SameKey(u, v) => SameKey(u, v)'
       /\ session' = session
  <2>1. \A u \in Task : Held(u)' => Held(u)
    BY <1>1, <1>11, <1>13, ShrinksMaps
  <2>2. ASSUME pc'[k] # "over" PROVE \A u \in Task : Held(u)' <=> Held(u)
    BY <1>11, <2>2, ShrinksNames DEF Held, manager
  <2>3. (\A u, v : SameKey(u, v) => SameKey(u, v)') /\ session' = session
    BY <1>1, <1>11, ShrinksNames
  <2> QED BY <2>1, <2>2, <2>3
<1>15. LockOK'
  BY <1>11 DEF LockOK
<1>16. HeldOK'
  <2>1. ASSUME NEW u \in Task, Held(u)'
        PROVE  /\ Held(u) /\ session[u] = u /\ pc'[u] # "stopping" /\ StopUnderWay'
               /\ pc'[u] = "over" => u \in cutShort'
    <3>1. pc'[k] \in {"queued", "stopping"}
      BY <1>11, <2>1
    <3>2. StopUnderWay'
      BY <3>1 DEF StopUnderWay
    <3> QED BY <1>13, <1>14, <2>1, <3>2 DEF IInv, HeldOK
  <2> QED BY <1>14, <2>1 DEF HeldOK
<1>17. StopOK'
  <2>1. ASSUME NEW t \in Task
        PROVE  session'[t] = None \/ pc'[t] = "over" \/ t \in freed'
    BY <1>1, <1>2, <1>13, <1>14 DEF Idle, IInv, SessionOK
  <2>2. ASSUME NEW b \in StopCmd, pc'[b] = "stopping", NEW u \in alive, Held(u)'
        PROVE  \E i \in DOMAIN hand'[b] : hand'[b][i] = u
    <3>1. u \in Task /\ Held(u) /\ b \in Stopper
      BY <1>14, <2>2, Names DEF IInv, TypeOK
    <3>2. CASE b = k
      BY <1>11, <2>2, <3>1, <3>2
    <3>3. CASE b # k
      <4>1. pc[b] = "stopping" /\ hand'[b] = hand[b]
        BY <1>12, <2>2, <3>1, <3>3
      <4> QED BY <2>2, <3>1, <4>1 DEF IInv, StopOK
    <3> QED BY <3>2, <3>3
  <2> QED BY <1>1, <2>1, <2>2 DEF StopOK
<1>18. KeptOK'
  <2> SUFFICES ASSUME NEW u \in Task, (u \in alive \/ pc'[u] = "spawning"), u \notin cutShort'
               PROVE  \/ Held(u)'
                      \/ pc'[u] = "stopping" /\ hand'[u] = <<u>>
                      \/ pc'["shutdown"] # "none"
                      \/ \E v \in Task : SameKey(v, u)'
    BY <1>1 DEF KeptOK
  <2>1. pc'["shutdown"] = pc["shutdown"]
    BY <1>12, Names DEF Stopper
  <2>2. pc'[u] # "spawning" /\ u \in alive /\ u \notin cutShort
    BY <1>1, <1>8, <1>11, <1>13, Names
  <2>3. \/ Held(u) \/ (pc[u] = "stopping" /\ hand[u] = <<u>>)
        \/ pc["shutdown"] # "none" \/ (\E v \in Task : SameKey(v, u))
    BY <2>2, Kept DEF IInv
  <2>4. pc[u] = "stopping" => pc'[u] = "stopping" /\ hand'[u] = hand[u] /\ pc'[k] # "over"
    <3>1. ASSUME pc[u] = "stopping"
          PROVE  pc'[u] = "stopping" /\ hand'[u] = hand[u]
      BY <1>12, <1>13, <3>1
    <3>2. ASSUME pc[u] = "stopping", pc'[k] = "over"
          PROVE  FALSE
      BY <1>1, <1>11, <3>1, <3>2, Names
    <3> QED BY <3>1, <3>2
  <2>5. Held(u) => Held(u)'
    BY <1>11, <1>14, <2>2
  <2> QED BY <1>14, <2>1, <2>3, <2>4, <2>5
<1> QED BY <1>13, <1>15, <1>16, <1>17, <1>18 DEF IInv
-----------------------------------------------------------------------------
(* The invariant.                                                           *)

LEMMA InitInv == Init => IInv
<1> SUFFICES ASSUME Init PROVE IInv
  OBVIOUS
<1>1. PICK r \in Replies : parent = r.parent /\ tree = r.tree
  BY DEF Init
<1>2. /\ pc = [a \in Actor |-> "none"] /\ session = [t \in Task |-> None]
      /\ captured = [t \in Task |-> None] /\ temp = [t \in Task |-> None]
      /\ nodeId = [t \in Task |-> None] /\ freed = {} /\ cutShort = {}
      /\ sessions = [id \in Id |-> None] /\ pending = [id \in Id |-> None]
      /\ tempToReal = [id \in Id |-> None] /\ realToTemp = [id \in Id |-> None]
      /\ lock = <<>> /\ hand = [a \in Actor |-> <<>>] /\ process = [s \in Task |-> None]
      /\ abandoned = {} /\ alive = {} /\ pids = {}
  BY DEF Init, Cleared
<1>3. parent \in [Task -> Task \cup Past \cup {None}]
      /\ \A t \in Task : parent[t] # None => tree[t] = tree[parent[t]]
  BY <1>1, CLIAssumption
<1>4. /\ \A a \in Actor : pc[a] = "none" /\ hand[a] = <<>>
      /\ \A t \in Task : t \in Actor /\ session[t] = None /\ captured[t] = None
                         /\ temp[t] = None /\ nodeId[t] = None /\ process[t] = None
      /\ \A id \in Id : sessions[id] = None /\ pending[id] = None /\ tempToReal[id] = None
      /\ \A k \in Stopper : k \in Actor
  BY <1>2, Names
<1>5. TypeOK
  <2>1. /\ pc \in [Actor -> PC] /\ \A t \in Task : pc[t] \in TaskPC
        /\ \A k \in Stopper : pc[k] \in StopPC
    BY <1>2, <1>4 DEF PC, TaskPC, StopPC
  <2>2. lock \in Seq(Actor) /\ hand \in [Actor -> Seq(Task)]
    BY <1>2
  <2> QED BY <1>2, <1>3, <2>1, <2>2 DEF TypeOK
<1>6. SessionOK
  BY <1>2, <1>4, Names DEF SessionOK
<1>7. ProcessOK /\ TreeOK
  BY <1>2, <1>4 DEF ProcessOK, TreeOK, Idle
<1>8. LockOK
  <2>1. DOMAIN lock = {}
    BY <1>2
  <2> QED BY <1>4, <2>1 DEF LockOK, AtLock, Waiting
<1>9. MapsOK
  BY <1>4 DEF MapsOK
<1>10. KeysOK
  BY <1>4, Names DEF KeysOK
<1>11. \A t \in Task : ~Held(t)
  BY <1>4, <1>5, <1>6, FirstIds, Ids, Names DEF Held
<1>12. HeldOK
  BY <1>11 DEF HeldOK
<1>13. StopOK /\ KeptOK
  BY <1>2, <1>4, Names DEF StopOK, StopUnderWay, KeptOK
<1> QED BY <1>5, <1>6, <1>7, <1>8, <1>9, <1>10, <1>12, <1>13 DEF IInv

LEMMA StutterKeeps ==
  ASSUME IInv, UNCHANGED vars
  PROVE  IInv'
<1>1. UNCHANGED <<pc, parent, tree, freed, cutShort, session, captured, temp, nodeId, sessions,
                  pending, tempToReal, realToTemp, lock, hand, process, alive, pids, abandoned>>
  BY DEF vars, tasks, locals, manager, procs
<1>2. UNCHANGED <<pc, locals, tasks, manager, lock, hand, process>>
  BY DEF vars, procs
<1>3. alive' \subseteq alive /\ pids' \subseteq Task /\ alive' \subseteq pids'
      /\ abandoned' \subseteq abandoned
  BY <1>1 DEF IInv, TypeOK, ProcessOK
<1> QED BY <1>2, <1>3, ProcessStep

LEMMA NextKeeps ==
  ASSUME IInv, [Next]_vars
  PROVE  IInv'
<1>1. ASSUME NEW t \in Task, Begin(t) \/ Run(t) \/ SessionInfo(t) \/ Handle(t) \/ HandleFails(t)
                             \/ Die(t) \/ CloseAbandoned(t) \/ CancelOne(t)
      PROVE  IInv'
  <2>1. CASE Begin(t)
    BY <2>1, BeginKeeps
  <2>2. CASE Run(t)
    BY <2>2, GetKeeps, SpawnKeeps, SpawnFailsKeeps, RegisterLaterKeeps, ReadExitKeeps,
       LeaveKeeps, CleanUpKeeps, GiveBackLaterKeeps, ShieldEndsKeeps DEF Run
  <2>3. CASE SessionInfo(t) \/ Handle(t) \/ HandleFails(t)
    BY <2>3, SessionInfoKeeps, HandleKeeps, HandleFailsKeeps
  <2>4. CASE Die(t) \/ CloseAbandoned(t) \/ CancelOne(t)
    BY <2>4, DieKeeps, CloseAbandonedKeeps, CancelOneKeeps
  <2> QED BY <1>1, <2>1, <2>2, <2>3, <2>4
<1>2. ASSUME NEW k \in StopCmd, StopAllTasks(k)
      PROVE  IInv'
  BY <1>2, StopAllTasksKeeps
<1>3. CASE BeginShutdown \/ ShutdownTimesOut
  BY <1>3, BeginShutdownKeeps, ShutdownTimesOutKeeps
<1>4. ASSUME NEW a \in Actor, Stopped(a) \/ Escalate(a) \/ StopSessions(a)
      PROVE  IInv'
  BY <1>4, StoppedKeeps, EscalateKeeps, StopSessionsKeeps
<1>5. CASE UNCHANGED vars
  BY <1>5, StutterKeeps
<1> QED BY <1>1, <1>2, <1>3, <1>4, <1>5 DEF Next

\* What the code relies on holds in every state: a task works with a session of its own,
\* only its own process runs in it, the manager's lock goes to one caller after the
\* other, a tree runs one message at a time unless /stop has freed it, and whoever has a
\* process is known to the manager or is being stopped.
THEOREM Invariant == Spec => []IInv
<1>1. IInv /\ [Next]_vars => IInv'
  BY NextKeeps
<1> QED BY InitInv, <1>1, PTL DEF Spec
-----------------------------------------------------------------------------
(* What the runs check on a small instance.                                 *)

\* Two tasks that run never share a CLISession, so no event of one conversation is shown
\* in another.
THEOREM NeverShared == Spec => []NotShared
<1>1. IInv => NotShared
  BY Names DEF IInv, SessionOK, NotShared
<1> QED BY Invariant, <1>1, PTL

\* Whenever the server's process ends, kill_all_best_effort reaches every CLI that runs.
THEOREM NothingSurvives == Spec => []NothingSurvivesExit
<1>1. IInv => NothingSurvivesExit
  BY DEF IInv, ProcessOK, TypeOK, NothingSurvivesExit, Survivors
<1> QED BY Invariant, <1>1, PTL

\* A task that is over has left no CLI behind, but for the three exceptions that
\* NoProcessLeft names.
THEOREM NoneLeftBehind == Spec => []NoProcessLeft
<1>1. IInv => NoProcessLeft
  <2> SUFFICES ASSUME IInv, NEW t \in Task, pc[t] = "over", t \in alive, t \notin cutShort
               PROVE  pc["shutdown"] # "none" \/ \E u \in Task : SameKey(u, t)
    BY DEF NoProcessLeft
  <2>1. ~Held(t)
    BY DEF IInv, HeldOK
  <2>2. \/ Held(t) \/ (pc[t] = "stopping" /\ hand[t] = <<t>>)
        \/ pc["shutdown"] # "none" \/ (\E v \in Task : SameKey(v, t))
    BY Kept DEF IInv
  <2> QED BY <2>1, <2>2
<1> QED BY Invariant, <1>1, PTL

\* What a task stops when it gives its session back: what the manager had under its id.
LEMMA OwnStop ==
  ASSUME IInv, NEW t \in Task, pc[t] # "over", session[t] = t, NEW queue, TakeRemove(t, queue),
         hand[t] = <<>>, hand'[t] # <<>>, NEW u \in Task, process[hand'[t][1]] = u
  PROVE  u = t \/ SameKey(t, u)
<1>1. hand \in [Actor -> Seq(Task)] /\ t \in Actor
  BY Names DEF IInv, TypeOK
<1>2. AtOwnKey(t) # None /\ hand' = [hand EXCEPT ![t] = <<AtOwnKey(t)>>]
  BY DEF TakeRemove, AtOwnKey
<1>3. hand'[t][1] = AtOwnKey(t)
  BY <1>1, <1>2
<1>4. AtOwnKey(t) \in Task /\ (AtOwnKey(t) # t => SameKey(t, AtOwnKey(t)))
  BY <1>2, WhoseIsIt
<1>5. process[AtOwnKey(t)] \in {None, AtOwnKey(t)}
  BY <1>4 DEF IInv, ProcessOK
<1> QED BY <1>3, <1>4, <1>5, Names

\* A task that gives its session back, and stops what the manager has under its id,
\* stops its own process, or that of a task with the same key.
THEOREM OnlyOwnStopped == Spec => StopsOwnProcess
<1>1. ASSUME IInv, [Next]_vars
      PROVE  [\A t, u \in Task :
                Len(hand'[t]) > 0 /\ hand[t] = <<>> /\ process[hand'[t][1]] = u =>
                  u = t \/ SameKey(t, u)]_vars
  <2> SUFFICES ASSUME NEW t \in Task, NEW u \in Task, hand[t] = <<>>, hand'[t] # <<>>,
                      process[hand'[t][1]] = u
               PROVE  u = t \/ SameKey(t, u)
    <3>1. \A t \in Task : hand'[t] = <<>> => ~(Len(hand'[t]) > 0)
      OBVIOUS
    <3> QED BY <3>1
  <2>1. hand \in [Actor -> Seq(Task)] /\ t \in Actor
    BY <1>1, Names DEF IInv, TypeOK
  <2>2. ~UNCHANGED hand
    OBVIOUS
  <2>3. ASSUME NEW x \in Task, NEW queue, TakeRemove(x, queue), pc[x] # "over",
               OwnKey(x) # None \/ session[x] = x
        PROVE  u = t \/ SameKey(t, u)
    <3>1. session[x] = x
      BY <1>1, <2>3, OwnKeys DEF IInv
    <3>2. hand' = hand \/ \E q : hand' = [hand EXCEPT ![x] = q]
      BY <2>3 DEF TakeRemove
    <3>3. x = t
      BY <2>1, <3>2
    <3> QED BY <1>1, <2>3, <3>1, <3>3, OwnStop
  <2>4. ASSUME NEW x \in Task, GiveBack(x), pc[x] # "over"
        PROVE  u = t \/ SameKey(t, u)
    <3>1. OwnKey(x) # None /\ TakeRemove(x, <<>>)
      BY <2>2, <2>4 DEF GiveBack
    <3> QED BY <2>3, <2>4, <3>1
  <2>5. ASSUME NEW x \in Task, Begin(x) \/ Run(x) \/ SessionInfo(x) \/ Handle(x) \/ HandleFails(x)
                               \/ Die(x) \/ CloseAbandoned(x) \/ CancelOne(x)
        PROVE  u = t \/ SameKey(t, u)
    <3>1. CASE Leave(x) \/ CleanUp(x)
      BY <2>4, <3>1 DEF Leave, CleanUp
    <3>2. CASE GiveBackLater(x)
      <4>1. session[x] = x /\ pc[x] = "removing" /\ TakeRemove(x, Tail(lock))
        BY <1>1, <3>2 DEF GiveBackLater, IInv, SessionOK
      <4> QED BY <2>3, <4>1
    <3>3. CASE CancelOne(x)
      <4>1. hand' = [a \in Actor |-> IF a \in {x} THEN <<>> ELSE hand[a]]
        BY <3>3 DEF CancelOne, Cancelled
      <4> QED BY <2>1, <4>1
    <3>4. CASE Begin(x) \/ SessionInfo(x) \/ Handle(x) \/ HandleFails(x) \/ Die(x)
               \/ CloseAbandoned(x) \/ Get(x) \/ Spawn(x) \/ SpawnFails(x)
               \/ RegisterLater(x) \/ ReadExit(x) \/ ShieldEnds(x)
      BY <2>2, <3>4 DEF Begin, SessionInfo, Handle, HandleFails, Die, CloseAbandoned, Get,
         Spawn, SpawnFails, RegisterLater, ReadExit, ShieldEnds
    <3> QED BY <2>5, <3>1, <3>2, <3>3, <3>4 DEF Run
  <2>6. ASSUME NEW k \in StopCmd, StopAllTasks(k)
        PROVE  FALSE
    <3>1. k \in Stopper
      BY Names
    <3>2. \/ hand' = Cancelled(Running).hand
          \/ \E q : hand' = [Cancelled(Running).hand EXCEPT ![k] = q]
      BY <2>6 DEF StopAllTasks, TakeStopAll
    <3>3. Cancelled(Running).hand = [a \in Actor |-> IF a \in Running THEN <<>> ELSE hand[a]]
      BY DEF Cancelled
    <3>4. t # k
      BY Names
    <3> HIDE DEF Running
    <3> QED BY <2>1, <3>2, <3>3, <3>4
  <2>7. ASSUME NEW a \in Stopper, NEW queue,
               TakeStopAll(a, queue, [pc |-> pc, hand |-> hand, signalled |-> signalled])
        PROVE  FALSE
    <3>1. hand' = hand \/ \E q : hand' = [hand EXCEPT ![a] = q]
      BY <2>7 DEF TakeStopAll
    <3>2. t # a
      BY Names
    <3> QED BY <2>1, <2>2, <3>1, <3>2
  <2>8. CASE BeginShutdown \/ ShutdownTimesOut
    <3>1. "shutdown" \in Stopper /\ t # "shutdown"
      BY Names DEF Stopper
    <3>2. CASE ShutdownTimesOut
      <4>1. hand' = [hand EXCEPT !["shutdown"] = <<>>]
        BY <3>2 DEF ShutdownTimesOut
      <4> QED BY <2>1, <3>1, <4>1
    <3>3. CASE BeginShutdown
      BY <2>2, <2>7, <3>1, <3>3 DEF BeginShutdown
    <3> QED BY <2>8, <3>2, <3>3
  <2>9. ASSUME NEW a \in Actor, Stopped(a) \/ Escalate(a) \/ StopSessions(a)
        PROVE  FALSE
    <3>1. CASE Escalate(a)
      BY <2>2, <3>1 DEF Escalate
    <3>2. CASE Stopped(a)
      <4>1. hand[a] # <<>> /\ \E q : hand' = [hand EXCEPT ![a] = q]
        BY <1>1, <3>2, Stops DEF Stopped
      <4> QED BY <2>1, <4>1
    <3>3. CASE StopSessions(a)
      <4>1. a \notin Task
        BY <1>1, <3>3 DEF StopSessions, IInv, TypeOK, TaskPC
      <4>2. a \in Stopper
        BY <4>1, Names
      <4> QED BY <2>7, <3>3, <4>2 DEF StopSessions
    <3> QED BY <2>9, <3>1, <3>2, <3>3
  <2>10. CASE UNCHANGED vars
    BY <2>2, <2>10 DEF vars
  <2> QED BY <1>1, <2>5, <2>6, <2>8, <2>9, <2>10 DEF Next
<1> QED BY Invariant, <1>1, PTL DEF Spec, StopsOwnProcess
=============================================================================
