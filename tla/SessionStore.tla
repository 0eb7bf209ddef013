---------------------------- MODULE SessionStore ----------------------------
(***************************************************************************)
(* SessionStore (messaging/session.py): the conversation trees, the map     *)
(* from messages to trees and the log of message ids, kept in memory and    *)
(* written to one file.  A change starts a debounce timer; each timer is a  *)
(* thread that takes a snapshot under the lock and writes it after giving   *)
(* the lock up.  The event loop's own writes, in flush_pending_save and     *)
(* clear_all, block the loop but not the timers.  Every `with self._lock`   *)
(* region is one step.                                                      *)
(*                                                                          *)
(* Of a tree only the set of its nodes is kept, and one chat is logged.     *)
(***************************************************************************)
EXTENDS Naturals, Sequences

CONSTANTS Tree,         \* root ids
          Node,         \* node and status message ids
          Msg,          \* message ids of the chat's log
          None,         \* no tree
          Timer,        \* the timer threads
          Loop,         \* the event loop's thread
          Cap,          \* message_log_cap; 0 for none
          MaxChanges,   \* bound: calls that change the store
          MaxFailures,  \* bound: writes that fail
          MaxCrashes    \* bound: crashes of the process

ASSUME SessionStoreAssumption ==
  /\ None \notin Tree /\ None \notin Timer
  /\ Loop \notin Timer
  /\ Cap \in Nat /\ MaxChanges \in Nat /\ MaxFailures \in Nat /\ MaxCrashes \in Nat

Writer == Timer \cup {Loop}

VARIABLES
  trees,       \* _trees: the nodes of each stored tree, {} if it has none
  nodeToTree,  \* _node_to_tree
  log,         \* _message_log of the chat
  logIds,      \* _message_log_ids of the chat
  dirty,       \* _dirty
  saveTimer,   \* _save_timer
  phase,       \* where a writer stands
  snap,        \* the snapshot a writer holds
  disk,        \* the file
  changes, failures, crashes,  \* counters for the bounds
  taken,       \* history: the newest snapshot
  overlapped   \* history: a snapshot was taken while another was being written

memory == <<trees, nodeToTree, log, logIds>>
saving == <<dirty, saveTimer, phase, snap, taken, overlapped>>
counters == <<changes, failures, crashes>>
vars == <<memory, saving, disk, counters>>

(***************************************************************************)
(* idle; armed (the debounce runs); fired (past its cancellation, waits for *)
(* the lock); writing (the snapshot, without the lock); failed (the write   *)
(* raised, dirty not set yet); over (saved, cancelled or nothing to do).    *)
(***************************************************************************)
Phases == {"idle", "armed", "fired", "writing", "failed", "over"}

Contents == [trees : [Tree -> SUBSET Node], nodeToTree : [Node -> Tree \cup {None}],
             log : Seq(Msg)]
Empty == [trees |-> [t \in Tree |-> {}], nodeToTree |-> [n \in Node |-> None],
          log |-> <<>>]

\* _snapshot.
Snapshot == [trees |-> trees, nodeToTree |-> nodeToTree, log |-> log]

-----------------------------------------------------------------------------
(* Saving.                                                                  *)

\* Timer.cancel: in time only while the debounce runs.
Cancelled ==
  IF saveTimer # None /\ phase[saveTimer] = "armed"
  THEN [phase EXCEPT ![saveTimer] = "over"] ELSE phase

\* (mutant) a pending timer is cancelled but no new one is started.
ScheduleOnce ==
  /\ dirty' = TRUE
  /\ UNCHANGED <<snap, taken, overlapped>>
  /\ \/ /\ saveTimer = None
        /\ \E i \in Timer : /\ phase[i] = "idle"
                            /\ saveTimer' = i
                            /\ phase' = [phase EXCEPT ![i] = "armed"]
     \/ /\ saveTimer # None
        /\ phase' = Cancelled
        /\ saveTimer' = None

\* _schedule_save.
ScheduleSave ==
  /\ dirty' = TRUE
  /\ \E i \in Timer :
       /\ phase[i] = "idle"
       /\ saveTimer' = i
       /\ phase' = [Cancelled EXCEPT ![i] = "armed"]
  /\ UNCHANGED <<snap, taken, overlapped>>

\* The debounce is over.
Fire(i) ==
  /\ phase[i] = "armed"
  /\ phase' = [phase EXCEPT ![i] = "fired"]
  /\ UNCHANGED <<memory, dirty, saveTimer, snap, taken, overlapped, disk, counters>>

\* A writer takes the snapshot `data`, to write it without the lock.
Take(w, data) ==
  /\ snap' = [snap EXCEPT ![w] = data]
  /\ taken' = data
  /\ overlapped' = (overlapped \/ \E v \in Writer : phase[v] \in {"writing", "failed"})

\* The locked part of _save_from_timer.
SaveFromTimer(i) ==
  /\ phase[i] = "fired"
  /\ saveTimer' = None
  /\ dirty' = FALSE
  /\ \/ /\ dirty
        /\ Take(i, Snapshot)
        /\ phase' = [phase EXCEPT ![i] = "writing"]
     \/ /\ ~dirty
        /\ phase' = [phase EXCEPT ![i] = "over"]
        /\ UNCHANGED <<snap, taken, overlapped>>
  /\ UNCHANGED <<memory, disk, counters>>

\* (mutant) the store is marked clean when the write is done.
ReplaceMarksClean(w) ==
  /\ phase[w] = "writing"
  /\ disk' = snap[w]
  /\ dirty' = FALSE
  /\ phase' = [phase EXCEPT ![w] = IF w = Loop THEN "idle" ELSE "over"]
  /\ UNCHANGED <<memory, saveTimer, snap, taken, overlapped, counters>>

\* _write_data, at its os.replace.
Replace(w) ==
  /\ phase[w] = "writing"
  /\ disk' = snap[w]
  /\ phase' = [phase EXCEPT ![w] = IF w = Loop THEN "idle" ELSE "over"]
  /\ UNCHANGED <<memory, dirty, saveTimer, snap, taken, overlapped, counters>>

\* _write_data raises: the file keeps its old contents.
WriteFails(w) ==
  /\ phase[w] = "writing" /\ failures < MaxFailures
  /\ failures' = failures + 1
  /\ phase' = [phase EXCEPT ![w] = "failed"]
  /\ UNCHANGED <<memory, dirty, saveTimer, snap, taken, overlapped, disk, changes, crashes>>

\* The except clause of the savers.
StaysDirty(w) ==
  /\ phase[w] = "failed"
  /\ dirty' = TRUE
  /\ phase' = [phase EXCEPT ![w] = IF w = Loop THEN "idle" ELSE "over"]
  /\ UNCHANGED <<memory, saveTimer, snap, taken, overlapped, disk, counters>>

\* (mutant) the pending timer is cancelled, the store stays dirty.
FlushStaysDirty(data) ==
  /\ saveTimer' = None
  /\ Take(Loop, data)
  /\ phase' = [Cancelled EXCEPT ![Loop] = "writing"]
  /\ UNCHANGED dirty

\* (mutant) the store is marked clean, but nothing is written.
FlushForgetsToWrite(data) ==
  /\ dirty' = FALSE
  /\ saveTimer' = None
  /\ Take(Loop, data)
  /\ phase' = Cancelled

\* _flush_save, by the event loop.
FlushSave(data) ==
  /\ dirty' = FALSE
  /\ saveTimer' = None
  /\ Take(Loop, data)
  /\ phase' = [Cancelled EXCEPT ![Loop] = "writing"]
-----------------------------------------------------------------------------
(* The calls of the event loop.                                             *)

\* The loop is free, and calls a method that changes the store.
Change ==
  /\ phase[Loop] = "idle" /\ changes < MaxChanges
  /\ changes' = changes + 1
  /\ UNCHANGED <<disk, failures, crashes>>

SaveTree(t, ns) ==
  /\ Change
  /\ trees' = [trees EXCEPT ![t] = ns]
  /\ nodeToTree' = [n \in Node |-> IF n \in ns THEN t ELSE nodeToTree[n]]
  /\ ScheduleSave
  /\ UNCHANGED <<log, logIds>>

RegisterNode(n, t) ==
  /\ Change
  /\ nodeToTree' = [nodeToTree EXCEPT ![n] = t]
  /\ ScheduleSave
  /\ UNCHANGED <<trees, log, logIds>>

RemoveNodeMappings(ns) ==
  /\ Change
  /\ nodeToTree' = [n \in Node |-> IF n \in ns THEN None ELSE nodeToTree[n]]
  /\ ScheduleSave
  /\ UNCHANGED <<trees, log, logIds>>

RemoveTree(t) ==
  /\ Change
  /\ trees[t] # {}
  /\ trees' = [trees EXCEPT ![t] = {}]
  /\ nodeToTree' = [n \in Node |-> IF n \in trees[t] THEN None ELSE nodeToTree[n]]
  /\ ScheduleSave
  /\ UNCHANGED <<log, logIds>>

\* The restored trees are handed back with their stale nodes marked; their
\* nodes are the same.
SyncFromTreeData ==
  /\ Change
  /\ ScheduleSave
  /\ UNCHANGED memory

Ids(s) == {s[i] : i \in DOMAIN s}

\* (mutant) the ids of the entries that are cut off are kept.
RecordKeepsIds(m) ==
  /\ Change
  /\ m \notin logIds
  /\ LET longer == Append(log, m) IN
       /\ log' = IF Cap > 0 /\ Len(longer) > Cap
                 THEN SubSeq(longer, Len(longer) - Cap + 1, Len(longer)) ELSE longer
       /\ logIds' = logIds \cup {m}
  /\ ScheduleSave
  /\ UNCHANGED <<trees, nodeToTree>>

\* A known id returns early, without a change.
RecordMessageId(m) ==
  /\ Change
  /\ m \notin logIds
  /\ LET longer == Append(log, m) IN
     IF Cap > 0 /\ Len(longer) > Cap
     THEN /\ log' = SubSeq(longer, Len(longer) - Cap + 1, Len(longer))
          /\ logIds' = Ids(log')
     ELSE /\ log' = longer
          /\ logIds' = logIds \cup {m}
  /\ ScheduleSave
  /\ UNCHANGED <<trees, nodeToTree>>

\* clear_all up to its write.
ClearAll ==
  /\ Change
  /\ trees' = Empty.trees
  /\ nodeToTree' = Empty.nodeToTree
  /\ log' = Empty.log
  /\ logIds' = {}
  /\ FlushSave(Empty)

\* flush_pending_save up to its write.
FlushPendingSave ==
  /\ Change
  /\ FlushSave(Snapshot)
  /\ UNCHANGED memory

\* The process dies at any moment, and a new one loads the file.  _load drops
\* ids it has seen; what the store wrote has none twice.
CrashAndLoad ==
  /\ crashes < MaxCrashes
  /\ crashes' = crashes + 1
  /\ trees' = disk.trees
  /\ nodeToTree' = disk.nodeToTree
  /\ log' = disk.log
  /\ logIds' = Ids(disk.log)
  /\ dirty' = FALSE
  /\ saveTimer' = None
  /\ phase' = [w \in Writer |-> IF w = Loop \/ phase[w] = "idle" THEN "idle" ELSE "over"]
  /\ taken' = disk
  /\ overlapped' = FALSE
  /\ UNCHANGED <<snap, disk, changes, failures>>

Init ==
  /\ disk = Empty
  /\ trees = Empty.trees /\ nodeToTree = Empty.nodeToTree
  /\ log = <<>> /\ logIds = {}
  /\ dirty = FALSE /\ saveTimer = None
  /\ phase = [w \in Writer |-> "idle"]
  /\ snap = [w \in Writer |-> Empty]
  /\ changes = 0 /\ failures = 0 /\ crashes = 0
  /\ taken = Empty
  /\ overlapped = FALSE

Call ==
  \/ \E t \in Tree, ns \in SUBSET Node \ {{}} : SaveTree(t, ns)
  \/ \E n \in Node, t \in Tree : RegisterNode(n, t)
  \/ \E ns \in SUBSET Node : RemoveNodeMappings(ns)
  \/ \E t \in Tree : RemoveTree(t)
  \/ SyncFromTreeData
  \/ \E m \in Msg : RecordMessageId(m)
  \/ ClearAll
  \/ FlushPendingSave

Next ==
  \/ Call
  \/ \E i \in Timer : Fire(i) \/ SaveFromTimer(i)
  \/ \E w \in Writer : Replace(w) \/ WriteFails(w) \/ StaysDirty(w)
  \/ CrashAndLoad

Spec == Init /\ [][Next]_vars
-----------------------------------------------------------------------------
\* Every variable has its type.
StoreTypeOK ==
  /\ Snapshot \in Contents
  /\ logIds \subseteq Msg
  /\ dirty \in BOOLEAN
  /\ saveTimer \in Timer \cup {None}
  /\ phase \in [Writer -> Phases]
  /\ snap \in [Writer -> Contents]
  /\ disk \in Contents
  /\ changes \in 0..MaxChanges /\ failures \in 0..MaxFailures /\ crashes \in 0..MaxCrashes
  /\ taken \in Contents
  /\ overlapped \in BOOLEAN

\* No change misses its snapshot, whichever thread interleaves: a store that is
\* not dirty holds exactly what its newest snapshot holds.  (record, save_tree
\* and the timers decide under the lock.)
CleanIsTaken == ~dirty => taken = Snapshot

\* A change is never stranded: a dirty store has a timer that will save it, or a
\* write has failed.  Cancelling a timer too late, or losing its handle, does
\* not strand anything.
DirtyHasTimer ==
  dirty => failures > 0 \/ \E i \in Timer : phase[i] \in {"armed", "fired"}

\* The log's index agrees with the log, through the cap, /clear and restarts:
\* an id is recorded once, can be recorded again after it was cut off, and the
\* log keeps to its cap.
LogIndexed ==
  /\ logIds = Ids(log)
  /\ \A i, j \in DOMAIN log : log[i] = log[j] => i = j
  /\ Cap > 0 => Len(log) <= Cap

\* The file falls behind the newest snapshot only while that is being written,
\* after a write that failed, or when two writes overlapped: the savers have no
\* order among them, so only then can an older snapshot replace a newer one.
FileIsNewest ==
  \/ disk = taken
  \/ overlapped \/ failures > 0
  \/ \E w \in Writer : phase[w] \in {"writing", "failed"}

\* The timers run and the writes end.
Fairness ==
  /\ \A i \in Timer : WF_vars(Fire(i)) /\ WF_vars(SaveFromTimer(i))
  /\ \A w \in Writer : WF_vars(Replace(w)) /\ WF_vars(StaysDirty(w))

FairSpec == Spec /\ Fairness

\* Every change is taken for writing in the end, if no write fails.
EventuallyTaken == dirty ~> (~dirty \/ failures > 0)
=============================================================================
