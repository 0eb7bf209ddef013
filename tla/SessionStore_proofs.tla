-------------------------- MODULE SessionStore_proofs --------------------------
(***************************************************************************)
(* What the session store guarantees for any number of trees, messages,      *)
(* timer threads, failed writes and crashes.                                 *)
(***************************************************************************)
EXTENDS SessionStore, TLAPS

Distinct(s) == \A i, j \in DOMAIN s : s[i] = s[j] => i = j

\* A log that a restart may load.
LogSound(s) == Distinct(s) /\ (Cap > 0 => Len(s) <= Cap)

\* The memory: what a snapshot would take is sound, and the log's index is right.
MemoryOK ==
  /\ Snapshot \in Contents
  /\ LogSound(log)
  /\ logIds = Ids(log)

SavingTyped ==
  /\ dirty \in BOOLEAN /\ overlapped \in BOOLEAN
  /\ saveTimer \in Timer \cup {None}
  /\ phase \in [Writer -> Phases]
  /\ snap \in [Writer -> Contents]
  /\ disk \in Contents /\ taken \in Contents
  /\ changes \in 0..MaxChanges /\ failures \in 0..MaxFailures /\ crashes \in 0..MaxCrashes

\* Whatever may get into the file, and from there into the memory, is sound.
SnapshotsSound == LogSound(disk.log) /\ \A w \in Writer : LogSound(snap[w].log)

\* Only a write that has failed is in "failed".
FailuresCounted == \A w \in Writer : phase[w] = "failed" => failures > 0

\* As long as no writes overlap and none fails, who writes holds the newest
\* snapshot, and nobody else writes.
SoleWriter ==
  \/ overlapped \/ failures > 0
  \/ /\ \A w \in Writer : phase[w] = "writing" => snap[w] = taken
     /\ \A v, w \in Writer : phase[v] = "writing" /\ phase[w] = "writing" => v = w

SavingOK ==
  /\ SavingTyped
  /\ SnapshotsSound
  /\ FailuresCounted
  /\ DirtyHasTimer
  /\ SoleWriter
  /\ FileIsNewest

SSInv == MemoryOK /\ SavingOK /\ CleanIsTaken
-----------------------------------------------------------------------------
(* The log.                                                                 *)

\* A new id is appended.
LEMMA LogGrows ==
  ASSUME NEW S, NEW s \in Seq(S), Distinct(s), NEW x \in S, x \notin Ids(s)
  PROVE  /\ Append(s, x) \in Seq(S)
         /\ Len(Append(s, x)) = Len(s) + 1
         /\ Ids(Append(s, x)) = Ids(s) \cup {x}
         /\ Distinct(Append(s, x))
<1> DEFINE L == Len(s)
           t == Append(s, x)
<1>1. L \in Nat /\ DOMAIN s = 1..L
  OBVIOUS
<1>2. /\ t \in Seq(S) /\ Len(t) = L + 1 /\ DOMAIN t = 1..(L + 1)
      /\ t[L + 1] = x
      /\ \A j \in 1..L : t[j] = s[j]
  BY <1>1
<1> HIDE DEF L, t
<1>3. \A j \in 1..(L + 1) : j \in 1..L \/ j = L + 1
  BY <1>1
<1>4. L + 1 \in 1..(L + 1) /\ \A j \in 1..L : j \in 1..(L + 1)
  BY <1>1
<1>5. Ids(t) = Ids(s) \cup {x}
  BY <1>1, <1>2, <1>3, <1>4 DEF Ids
<1>6. Distinct(t)
  BY <1>1, <1>2, <1>3 DEF Ids, Distinct
<1> QED BY <1>2, <1>5, <1>6 DEF t, L

\* The oldest entries are cut off.
LEMMA LogIsCut ==
  ASSUME NEW S, NEW s \in Seq(S), Distinct(s), NEW n \in Nat, n > 0, Len(s) > n
  PROVE  /\ SubSeq(s, Len(s) - n + 1, Len(s)) \in Seq(S)
         /\ Len(SubSeq(s, Len(s) - n + 1, Len(s))) = n
         /\ Distinct(SubSeq(s, Len(s) - n + 1, Len(s)))
<1> DEFINE L == Len(s)
           k == L - n
           t == SubSeq(s, k + 1, L)
<1>1. L \in Nat /\ DOMAIN s = 1..L /\ k \in Nat /\ L = k + n
  OBVIOUS
<1>2. \A j \in 1..n : k + j \in 1..L
  BY <1>1
<1>3. /\ t \in Seq(S) /\ Len(t) = n /\ DOMAIN t = 1..n
      /\ \A j \in 1..n : t[j] = s[k + j]
  BY <1>1, <1>2
<1> HIDE DEF L, k, t
<1>4. Distinct(t)
  <2> SUFFICES ASSUME NEW i \in 1..n, NEW j \in 1..n, t[i] = t[j] PROVE i = j
    BY <1>3 DEF Distinct
  <2>1. k + i = k + j
    BY <1>1, <1>2, <1>3 DEF Distinct
  <2> QED BY <1>1, <2>1
<1> QED BY <1>3, <1>4 DEF L, k, t

\* RecordMessageId keeps the log sound and its index right.
LEMMA RecordKeepsIndex ==
  ASSUME MemoryOK, NEW m \in Msg, RecordMessageId(m)
  PROVE  log' \in Seq(Msg) /\ LogSound(log') /\ logIds' = Ids(log')
<1> DEFINE longer == Append(log, m)
<1>1. log \in Seq(Msg) /\ Cap \in Nat /\ Distinct(log) /\ m \notin Ids(log)
  BY SessionStoreAssumption DEF MemoryOK, Snapshot, Contents, LogSound, RecordMessageId
<1>2. /\ longer \in Seq(Msg) /\ Len(longer) = Len(log) + 1
      /\ Ids(longer) = Ids(log) \cup {m} /\ Distinct(longer)
  <2>1. \A x \in Msg : x \notin Ids(log) =>
          /\ Append(log, x) \in Seq(Msg) /\ Len(Append(log, x)) = Len(log) + 1
          /\ Ids(Append(log, x)) = Ids(log) \cup {x} /\ Distinct(Append(log, x))
    BY <1>1, LogGrows, ZenonT(60)
  <2> QED BY <1>1, <2>1
<1>3. CASE Cap > 0 /\ Len(longer) > Cap
  <2>1. log' = SubSeq(longer, Len(longer) - Cap + 1, Len(longer)) /\ logIds' = Ids(log')
    BY <1>3 DEF RecordMessageId
  <2> HIDE DEF longer
  <2>2. log' \in Seq(Msg) /\ Len(log') = Cap /\ Distinct(log')
    BY <1>1, <1>2, <1>3, <2>1, LogIsCut
  <2>3. LogSound(log')
    BY <1>1, <2>2 DEF LogSound
  <2> QED BY <2>1, <2>2, <2>3
<1>4. CASE ~(Cap > 0 /\ Len(longer) > Cap)
  <2>1. log' = longer /\ logIds' = logIds \cup {m}
    BY <1>4 DEF RecordMessageId
  <2>2. Len(longer) \in Nat
    BY <1>2
  <2> HIDE DEF longer
  <2>3. LogSound(log')
    BY <1>1, <1>2, <1>4, <2>1, <2>2 DEF LogSound
  <2>4. logIds' = Ids(log')
    BY <1>2, <2>1 DEF MemoryOK
  <2> QED BY <1>2, <2>1, <2>3, <2>4
<1> QED BY <1>3, <1>4
-----------------------------------------------------------------------------
(* Saving.                                                                  *)

\* A change is scheduled: a timer is armed, and no writer is disturbed.
LEMMA ScheduleFacts ==
  ASSUME SavingOK, ScheduleSave
  PROVE  /\ dirty' = TRUE /\ saveTimer' \in Timer \cup {None}
         /\ phase' \in [Writer -> Phases]
         /\ \E i \in Timer : phase'[i] = "armed"
         /\ \A w \in Writer : \A p \in {"writing", "failed"} : phase'[w] = p <=> phase[w] = p
<1>1. PICK i \in Timer : /\ phase[i] = "idle"
                         /\ saveTimer' = i
                         /\ phase' = [Cancelled EXCEPT ![i] = "armed"]
  BY DEF ScheduleSave
<1>2. phase \in [Writer -> Phases] /\ i \in Writer /\ saveTimer \in Timer \cup {None}
  BY DEF SavingOK, SavingTyped, Writer
<1>3. /\ Cancelled \in [Writer -> Phases]
      /\ \A w \in Writer : \A p \in {"writing", "failed"} : Cancelled[w] = p <=> phase[w] = p
  BY <1>2 DEF Cancelled, Phases, Writer
<1>4. /\ phase' \in [Writer -> Phases] /\ phase'[i] = "armed"
      /\ \A w \in Writer : w # i => phase'[w] = Cancelled[w]
  BY <1>1, <1>2, <1>3 DEF Phases
<1>5. \A w \in Writer : \A p \in {"writing", "failed"} : phase'[w] = p <=> phase[w] = p
  BY <1>1, <1>3, <1>4
<1> QED BY <1>1, <1>4, <1>5 DEF ScheduleSave

\* A call is counted.
LEMMA ChangeCounts ==
  ASSUME SavingOK, Change
  PROVE  /\ UNCHANGED <<disk, failures, crashes>>
         /\ changes' \in 0..MaxChanges /\ failures' \in 0..MaxFailures
         /\ crashes' \in 0..MaxCrashes
<1>1. /\ UNCHANGED <<disk, failures, crashes>>
      /\ changes' = changes + 1 /\ changes < MaxChanges
  BY DEF Change
<1>2. /\ changes \in 0..MaxChanges /\ failures \in 0..MaxFailures
      /\ crashes \in 0..MaxCrashes
  BY DEF SavingOK, SavingTyped
<1>3. changes' \in 0..MaxChanges
  BY <1>1, <1>2, SessionStoreAssumption
<1> QED BY <1>1, <1>2, <1>3

LEMMA ScheduleKeepsSaving ==
  ASSUME SavingOK, Change, ScheduleSave
  PROVE  SavingOK' /\ dirty'
<1>1. UNCHANGED <<disk, failures, crashes, snap, taken, overlapped>>
  BY DEF Change, ScheduleSave
<1>2. SavingTyped'
  BY <1>1, ScheduleFacts, ChangeCounts, Zenon DEF SavingOK, SavingTyped
<1>3. SnapshotsSound' /\ FailuresCounted' /\ DirtyHasTimer'
  BY <1>1, ScheduleFacts DEF SavingOK, SnapshotsSound, FailuresCounted, DirtyHasTimer
<1>4. SoleWriter' /\ FileIsNewest'
  BY <1>1, ScheduleFacts DEF SavingOK, SoleWriter, FileIsNewest
<1> QED BY <1>2, <1>3, <1>4, ScheduleFacts DEF SavingOK

\* A writer takes a snapshot: it is the newest, and alone unless writes overlap.
LEMMA TakeKeepsSaving ==
  ASSUME SavingOK, NEW w \in Writer, NEW data \in Contents, LogSound(data.log),
         phase[w] \notin {"writing", "failed"}, Take(w, data),
         phase' \in [Writer -> Phases], phase'[w] = "writing",
         \A v \in Writer \ {w} : \A p \in {"writing", "failed"} : phase'[v] = p <=> phase[v] = p,
         UNCHANGED <<disk, failures>>
  PROVE  /\ snap' \in [Writer -> Contents] /\ taken' = data /\ overlapped' \in BOOLEAN
         /\ SnapshotsSound' /\ FailuresCounted' /\ SoleWriter' /\ FileIsNewest'
<1>1. /\ snap' = [snap EXCEPT ![w] = data] /\ taken' = data
      /\ overlapped' \in BOOLEAN
  BY DEF Take
<1>2. /\ snap' \in [Writer -> Contents] /\ snap'[w] = data
      /\ \A v \in Writer \ {w} : snap'[v] = snap[v]
  BY <1>1 DEF SavingOK, SavingTyped
<1>3. SnapshotsSound' /\ FailuresCounted'
  BY <1>2 DEF SavingOK, SnapshotsSound, FailuresCounted
<1>4. FileIsNewest'
  BY DEF FileIsNewest
<1>5. SoleWriter'
  <2>1. CASE \E v \in Writer : phase[v] \in {"writing", "failed"}
    BY <2>1 DEF Take, SoleWriter
  <2>2. CASE ~ \E v \in Writer : phase[v] \in {"writing", "failed"}
    <3>1. \A v \in Writer : phase'[v] = "writing" => v = w
      BY <2>2
    <3> QED BY <1>1, <1>2, <3>1 DEF SoleWriter
  <2> QED BY <2>1, <2>2
<1> QED BY <1>1, <1>2, <1>3, <1>4, <1>5

LEMMA FlushKeepsSaving ==
  ASSUME SavingOK, Change, NEW data \in Contents, LogSound(data.log), FlushSave(data)
  PROVE  SavingOK' /\ ~dirty' /\ taken' = data
<1>1. /\ UNCHANGED <<disk, failures, crashes>>
      /\ dirty' = FALSE /\ saveTimer' = None /\ Take(Loop, data)
      /\ phase' = [Cancelled EXCEPT ![Loop] = "writing"]
      /\ phase[Loop] = "idle"
  BY DEF Change, FlushSave
<1>2. Loop \in Writer /\ phase \in [Writer -> Phases] /\ saveTimer \in Timer \cup {None}
  BY DEF SavingOK, SavingTyped, Writer
<1>3. /\ Cancelled \in [Writer -> Phases]
      /\ \A w \in Writer : \A p \in {"writing", "failed"} : Cancelled[w] = p <=> phase[w] = p
  BY <1>2 DEF Cancelled, Phases, Writer
<1>4. /\ phase' \in [Writer -> Phases] /\ phase'[Loop] = "writing"
      /\ \A v \in Writer \ {Loop} : \A p \in {"writing", "failed"} : phase'[v] = p <=> phase[v] = p
  BY <1>1, <1>2, <1>3 DEF Phases
<1>5. /\ snap' \in [Writer -> Contents] /\ taken' = data /\ overlapped' \in BOOLEAN
      /\ SnapshotsSound' /\ FailuresCounted' /\ SoleWriter' /\ FileIsNewest'
  BY <1>1, <1>2, <1>4, TakeKeepsSaving
<1>6. SavingTyped'
  BY <1>1, <1>4, <1>5, ChangeCounts, Zenon DEF SavingOK, SavingTyped
<1> QED BY <1>1, <1>5, <1>6 DEF SavingOK, DirtyHasTimer
-----------------------------------------------------------------------------
(* The steps of the writers.                                                *)

LEMMA FireStep ==
  ASSUME SSInv, NEW i \in Timer, Fire(i)
  PROVE  SSInv'
<1> USE DEF SSInv
<1>1. /\ phase[i] = "armed" /\ phase' = [phase EXCEPT ![i] = "fired"]
      /\ UNCHANGED <<memory, dirty, saveTimer, snap, taken, overlapped, disk, counters>>
  BY DEF Fire
<1>2. i \in Writer /\ phase \in [Writer -> Phases]
  BY DEF SavingOK, SavingTyped, Writer
<1>3. /\ phase' \in [Writer -> Phases] /\ phase'[i] = "fired"
      /\ \A w \in Writer : w # i => phase'[w] = phase[w]
  BY <1>1, <1>2 DEF Phases
<1>4. \A w \in Writer : \A p \in {"writing", "failed"} : phase'[w] = p <=> phase[w] = p
  BY <1>1, <1>3
<1>5. MemoryOK' /\ CleanIsTaken'
  BY <1>1 DEF MemoryOK, CleanIsTaken, Snapshot, memory
<1>6. SavingTyped' /\ SnapshotsSound'
  BY <1>1, <1>3 DEF SavingOK, SavingTyped, SnapshotsSound, counters
<1>7. FailuresCounted' /\ SoleWriter' /\ FileIsNewest'
  BY <1>1, <1>4 DEF SavingOK, FailuresCounted, SoleWriter, FileIsNewest, counters
<1>8. DirtyHasTimer'
  BY <1>1, <1>2, <1>3 DEF SavingOK, DirtyHasTimer, counters
<1> QED BY <1>5, <1>6, <1>7, <1>8 DEF SavingOK

LEMMA SaveFromTimerStep ==
  ASSUME SSInv, NEW i \in Timer, SaveFromTimer(i)
  PROVE  SSInv'
<1> USE DEF SSInv
<1>1. /\ phase[i] = "fired" /\ saveTimer' = None /\ dirty' = FALSE
      /\ UNCHANGED <<memory, disk, counters>>
  BY DEF SaveFromTimer
<1>2. i \in Writer /\ phase \in [Writer -> Phases]
  BY DEF SavingOK, SavingTyped, Writer
<1>3. MemoryOK' /\ DirtyHasTimer' /\ Snapshot' = Snapshot
  BY <1>1 DEF MemoryOK, DirtyHasTimer, Snapshot, memory
<1>4. CASE dirty
  <2>1. Take(i, Snapshot) /\ phase' = [phase EXCEPT ![i] = "writing"]
    BY <1>4 DEF SaveFromTimer
  <2>2. /\ phase' \in [Writer -> Phases] /\ phase'[i] = "writing"
        /\ \A v \in Writer \ {i} : \A p \in {"writing", "failed"} : phase'[v] = p <=> phase[v] = p
    BY <1>2, <2>1 DEF Phases
  <2>3. Snapshot \in Contents /\ LogSound(Snapshot.log)
    BY DEF MemoryOK, Snapshot
  <2>4. /\ snap' \in [Writer -> Contents] /\ taken' = Snapshot /\ overlapped' \in BOOLEAN
        /\ SnapshotsSound' /\ FailuresCounted' /\ SoleWriter' /\ FileIsNewest'
    BY <1>1, <1>2, <2>1, <2>2, <2>3, TakeKeepsSaving DEF counters
  <2>5. SavingTyped'
    BY <1>1, <2>2, <2>3, <2>4, Zenon DEF SavingOK, SavingTyped, counters
  <2>6. CleanIsTaken'
    BY <1>3, <2>4 DEF CleanIsTaken
  <2> QED BY <1>3, <2>4, <2>5, <2>6 DEF SavingOK
<1>5. CASE ~dirty
  <2>1. phase' = [phase EXCEPT ![i] = "over"] /\ UNCHANGED <<snap, taken, overlapped>>
    BY <1>5 DEF SaveFromTimer
  <2>2. /\ phase' \in [Writer -> Phases] /\ phase'[i] = "over"
        /\ \A w \in Writer : w # i => phase'[w] = phase[w]
    BY <1>2, <2>1 DEF Phases
  <2>3. \A w \in Writer : \A p \in {"writing", "failed"} : phase'[w] = p <=> phase[w] = p
    BY <1>1, <2>2
  <2>4. SavingTyped' /\ SnapshotsSound'
    BY <1>1, <2>1, <2>2 DEF SavingOK, SavingTyped, SnapshotsSound, counters
  <2>5. FailuresCounted' /\ SoleWriter' /\ FileIsNewest'
    BY <1>1, <2>1, <2>3 DEF SavingOK, FailuresCounted, SoleWriter, FileIsNewest, counters
  <2>6. CleanIsTaken'
    BY <1>3, <1>5, <2>1 DEF CleanIsTaken
  <2> QED BY <1>3, <2>4, <2>5, <2>6 DEF SavingOK
<1> QED BY <1>4, <1>5 DEF SaveFromTimer

\* A writer is through with its write, or gives it up.
LEMMA WriterLeaves ==
  ASSUME SavingOK, NEW w \in Writer, phase[w] \in {"writing", "failed"},
         phase' = [phase EXCEPT ![w] = IF w = Loop THEN "idle" ELSE "over"]
  PROVE  /\ phase' \in [Writer -> Phases] /\ phase'[w] \notin {"writing", "failed"}
         /\ \A v \in Writer : v # w => phase'[v] = phase[v]
         /\ \A i \in Timer : phase[i] \in {"armed", "fired"} => phase'[i] = phase[i]
<1>1. phase \in [Writer -> Phases] /\ Timer \subseteq Writer
  BY DEF SavingOK, SavingTyped, Writer
<1> QED BY <1>1 DEF Phases

LEMMA ReplaceStep ==
  ASSUME SSInv, NEW w \in Writer, Replace(w)
  PROVE  SSInv'
<1> USE DEF SSInv
<1>1. /\ phase[w] = "writing" /\ disk' = snap[w]
      /\ phase' = [phase EXCEPT ![w] = IF w = Loop THEN "idle" ELSE "over"]
      /\ UNCHANGED <<memory, dirty, saveTimer, snap, taken, overlapped, counters>>
  BY DEF Replace
<1>2. /\ phase' \in [Writer -> Phases] /\ phase'[w] \notin {"writing", "failed"}
      /\ \A v \in Writer : v # w => phase'[v] = phase[v]
      /\ \A i \in Timer : phase[i] \in {"armed", "fired"} => phase'[i] = phase[i]
  BY <1>1, WriterLeaves
<1>3. MemoryOK' /\ CleanIsTaken'
  BY <1>1 DEF MemoryOK, CleanIsTaken, Snapshot, memory
<1>4. snap[w] \in Contents
  BY DEF SavingOK, SavingTyped
<1>5. SavingTyped' /\ SnapshotsSound'
  BY <1>1, <1>2, <1>4 DEF SavingOK, SavingTyped, SnapshotsSound, counters
<1>6. FailuresCounted' /\ SoleWriter'
  BY <1>1, <1>2 DEF SavingOK, FailuresCounted, SoleWriter, counters
<1>7. DirtyHasTimer'
  BY <1>1, <1>2 DEF SavingOK, DirtyHasTimer, counters
<1>8. FileIsNewest'
  <2>1. CASE overlapped \/ failures > 0
    BY <1>1, <2>1 DEF FileIsNewest, counters
  <2>2. CASE ~(overlapped \/ failures > 0)
    <3>1. snap[w] = taken
      BY <1>1, <2>2 DEF SavingOK, SoleWriter
    <3> QED BY <1>1, <3>1 DEF FileIsNewest
  <2> QED BY <2>1, <2>2
<1> QED BY <1>3, <1>5, <1>6, <1>7, <1>8 DEF SavingOK

LEMMA WriteFailsStep ==
  ASSUME SSInv, NEW w \in Writer, WriteFails(w)
  PROVE  SSInv'
<1> USE DEF SSInv
<1>1. /\ phase[w] = "writing" /\ failures < MaxFailures /\ failures' = failures + 1
      /\ phase' = [phase EXCEPT ![w] = "failed"]
      /\ UNCHANGED <<memory, dirty, saveTimer, snap, taken, overlapped, disk, changes, crashes>>
  BY DEF WriteFails
<1>2. phase' \in [Writer -> Phases]
  BY <1>1 DEF SavingOK, SavingTyped, Phases
<1>3. failures \in 0..MaxFailures
  BY DEF SavingOK, SavingTyped
<1>4. failures' \in 0..MaxFailures /\ failures' > 0
  BY <1>1, <1>3, SessionStoreAssumption
<1>5. MemoryOK' /\ CleanIsTaken'
  BY <1>1 DEF MemoryOK, CleanIsTaken, Snapshot, memory
<1>6. SavingTyped' /\ SnapshotsSound'
  BY <1>1, <1>2, <1>4, Zenon DEF SavingOK, SavingTyped, SnapshotsSound
<1>7. FailuresCounted' /\ SoleWriter' /\ FileIsNewest' /\ DirtyHasTimer'
  BY <1>4, Zenon DEF FailuresCounted, SoleWriter, FileIsNewest, DirtyHasTimer
<1> QED BY <1>5, <1>6, <1>7 DEF SavingOK

LEMMA StaysDirtyStep ==
  ASSUME SSInv, NEW w \in Writer, StaysDirty(w)
  PROVE  SSInv'
<1> USE DEF SSInv
<1>1. /\ phase[w] = "failed" /\ dirty' = TRUE
      /\ phase' = [phase EXCEPT ![w] = IF w = Loop THEN "idle" ELSE "over"]
      /\ UNCHANGED <<memory, saveTimer, snap, taken, overlapped, disk, counters>>
  BY DEF StaysDirty
<1>2. phase' \in [Writer -> Phases]
  BY <1>1, WriterLeaves
<1>3. failures > 0 /\ failures' > 0
  BY <1>1 DEF SavingOK, FailuresCounted, counters
<1>4. MemoryOK' /\ CleanIsTaken'
  BY <1>1 DEF MemoryOK, CleanIsTaken, Snapshot, memory
<1>5. SavingTyped' /\ SnapshotsSound'
  BY <1>1, <1>2 DEF SavingOK, SavingTyped, SnapshotsSound, counters
<1>6. FailuresCounted' /\ SoleWriter' /\ FileIsNewest' /\ DirtyHasTimer'
  BY <1>3, Zenon DEF FailuresCounted, SoleWriter, FileIsNewest, DirtyHasTimer
<1> QED BY <1>4, <1>5, <1>6 DEF SavingOK

\* What a new process loads was sound, and is the newest there is.
LEMMA CrashStep ==
  ASSUME SSInv, CrashAndLoad
  PROVE  SSInv'
<1> USE DEF SSInv
<1>1. /\ trees' = disk.trees /\ nodeToTree' = disk.nodeToTree /\ log' = disk.log
      /\ logIds' = Ids(disk.log)
      /\ dirty' = FALSE /\ saveTimer' = None /\ taken' = disk /\ overlapped' = FALSE
      /\ phase' = [w \in Writer |-> IF w = Loop \/ phase[w] = "idle" THEN "idle" ELSE "over"]
      /\ crashes < MaxCrashes /\ crashes' = crashes + 1
      /\ UNCHANGED <<snap, disk, changes, failures>>
  BY DEF CrashAndLoad
<1>2. disk \in Contents /\ LogSound(disk.log) /\ crashes \in 0..MaxCrashes
  BY DEF SavingOK, SavingTyped, SnapshotsSound
<1>3. Snapshot' = disk
  BY <1>1, <1>2 DEF Snapshot, Contents
<1>4. MemoryOK' /\ CleanIsTaken'
  <2>1. logIds' = Ids(log')
    BY <1>1
  <2> QED BY <1>1, <1>2, <1>3, <2>1 DEF MemoryOK, CleanIsTaken
<1>5. crashes' \in 0..MaxCrashes
  BY <1>1, <1>2, SessionStoreAssumption
<1>6. phase' \in [Writer -> Phases] /\ \A w \in Writer : phase'[w] \in {"idle", "over"}
  BY <1>1 DEF Phases
<1>7. SavingTyped'
  BY <1>1, <1>2, <1>5, <1>6, Zenon DEF SavingOK, SavingTyped
<1>8. SnapshotsSound' /\ FailuresCounted' /\ SoleWriter' /\ FileIsNewest' /\ DirtyHasTimer'
  BY <1>1, <1>6 DEF SavingOK, SnapshotsSound, FailuresCounted, SoleWriter, FileIsNewest, DirtyHasTimer
<1> QED BY <1>4, <1>7, <1>8 DEF SavingOK
-----------------------------------------------------------------------------
(* The calls of the event loop.                                             *)

\* A call that changes the memory to something sound and schedules a save.
LEMMA ScheduledCall ==
  ASSUME SSInv, Change, ScheduleSave, MemoryOK'
  PROVE  SSInv'
BY ScheduleKeepsSaving DEF SSInv, CleanIsTaken

\* Only the trees and the node map are changed.
LEMMA TreesCall ==
  ASSUME SSInv, Change, ScheduleSave, UNCHANGED <<log, logIds>>,
         trees' \in [Tree -> SUBSET Node], nodeToTree' \in [Node -> Tree \cup {None}]
  PROVE  SSInv'
<1>1. log \in Seq(Msg) /\ LogSound(log) /\ logIds = Ids(log)
  BY DEF SSInv, MemoryOK, Snapshot, Contents
<1>2. MemoryOK'
  BY <1>1 DEF MemoryOK, Snapshot, Contents
<1> QED BY <1>2, ScheduledCall

\* The loop writes what it has in memory itself.
LEMMA FlushingCall ==
  ASSUME SSInv, Change, NEW data \in Contents, FlushSave(data), Snapshot' = data, MemoryOK',
         LogSound(data.log)
  PROVE  SSInv'
BY FlushKeepsSaving DEF SSInv, CleanIsTaken

LEMMA CallStep ==
  ASSUME SSInv, Call
  PROVE  SSInv'
<1>1. /\ trees \in [Tree -> SUBSET Node] /\ nodeToTree \in [Node -> Tree \cup {None}]
      /\ log \in Seq(Msg) /\ LogSound(log) /\ logIds = Ids(log)
  BY DEF SSInv, MemoryOK, Snapshot, Contents
<1>2. ASSUME NEW t \in Tree, NEW ns \in SUBSET Node \ {{}}, SaveTree(t, ns)
      PROVE  SSInv'
  BY <1>1, <1>2, TreesCall DEF SaveTree
<1>3. ASSUME NEW n \in Node, NEW t \in Tree, RegisterNode(n, t)
      PROVE  SSInv'
  BY <1>1, <1>3, TreesCall DEF RegisterNode
<1>4. ASSUME NEW ns \in SUBSET Node, RemoveNodeMappings(ns)
      PROVE  SSInv'
  BY <1>1, <1>4, TreesCall DEF RemoveNodeMappings
<1>5. ASSUME NEW t \in Tree, RemoveTree(t)
      PROVE  SSInv'
  BY <1>1, <1>5, TreesCall DEF RemoveTree
<1>6. CASE SyncFromTreeData
  BY <1>1, <1>6, TreesCall DEF SyncFromTreeData, memory
<1>7. ASSUME NEW m \in Msg, RecordMessageId(m)
      PROVE  SSInv'
  <2>1. Change /\ ScheduleSave /\ UNCHANGED <<trees, nodeToTree>>
    BY <1>7 DEF RecordMessageId
  <2>2. log' \in Seq(Msg) /\ LogSound(log') /\ logIds' = Ids(log')
    BY <1>7, RecordKeepsIndex DEF SSInv
  <2>3. MemoryOK'
    BY <1>1, <2>1, <2>2 DEF MemoryOK, Snapshot, Contents
  <2> QED BY <2>1, <2>3, ScheduledCall
<1>8. CASE ClearAll
  <2>1. /\ Change /\ FlushSave(Empty) /\ Snapshot' = Empty /\ log' = <<>> /\ logIds' = {}
    BY <1>8 DEF ClearAll, Snapshot, Empty
  <2>2. Empty \in Contents /\ LogSound(<<>>) /\ Ids(<<>>) = {} /\ Empty.log = <<>>
    BY SessionStoreAssumption DEF Empty, Contents, LogSound, Distinct, Ids
  <2>3. MemoryOK'
    BY <2>1, <2>2 DEF MemoryOK
  <2> QED BY <2>1, <2>2, <2>3, FlushingCall
<1>9. CASE FlushPendingSave
  <2>1. Change /\ FlushSave(Snapshot) /\ UNCHANGED memory
    BY <1>9 DEF FlushPendingSave
  <2>2. Snapshot' = Snapshot /\ MemoryOK' /\ Snapshot \in Contents /\ LogSound(Snapshot.log)
    BY <2>1 DEF SSInv, MemoryOK, Snapshot, memory
  <2> QED BY <2>1, <2>2, FlushingCall
<1> QED BY <1>2, <1>3, <1>4, <1>5, <1>6, <1>7, <1>8, <1>9 DEF Call
-----------------------------------------------------------------------------
(* The theorems.                                                            *)

LEMMA InitSound ==
  ASSUME Init
  PROVE  SSInv
<1>1. Empty \in Contents /\ LogSound(Empty.log) /\ Ids(<<>>) = {} /\ Snapshot = Empty
  BY SessionStoreAssumption DEF Init, Empty, Snapshot, Contents, LogSound, Distinct, Ids
<1>2. MemoryOK /\ CleanIsTaken
  BY <1>1 DEF Init, Empty, MemoryOK, CleanIsTaken
<1>3. SavingTyped
  <2>1. changes \in 0..MaxChanges /\ failures \in 0..MaxFailures /\ crashes \in 0..MaxCrashes
    BY SessionStoreAssumption DEF Init
  <2>2. /\ phase \in [Writer -> Phases] /\ snap \in [Writer -> Contents]
        /\ disk \in Contents /\ taken \in Contents
    BY <1>1 DEF Init, Phases
  <2>3. dirty \in BOOLEAN /\ overlapped \in BOOLEAN /\ saveTimer \in Timer \cup {None}
    BY DEF Init
  <2> QED BY <2>1, <2>2, <2>3, Zenon DEF SavingTyped
<1>4. SnapshotsSound /\ FailuresCounted /\ DirtyHasTimer /\ SoleWriter /\ FileIsNewest
  BY <1>1 DEF Init, SnapshotsSound, FailuresCounted, DirtyHasTimer, SoleWriter, FileIsNewest
<1> QED BY <1>2, <1>3, <1>4 DEF SSInv, SavingOK

LEMMA StepSound ==
  ASSUME SSInv, [Next]_vars
  PROVE  SSInv'
<1>1. CASE Call
  BY <1>1, CallStep
<1>2. ASSUME NEW i \in Timer, Fire(i) \/ SaveFromTimer(i)
      PROVE  SSInv'
  BY <1>2, FireStep, SaveFromTimerStep
<1>3. ASSUME NEW w \in Writer, Replace(w) \/ WriteFails(w) \/ StaysDirty(w)
      PROVE  SSInv'
  BY <1>3, ReplaceStep, WriteFailsStep, StaysDirtyStep
<1>4. CASE CrashAndLoad
  BY <1>4, CrashStep
<1>5. CASE UNCHANGED vars
  <2>1. UNCHANGED <<memory, saving, disk, counters>>
    BY <1>5 DEF vars
  <2>2. MemoryOK' /\ CleanIsTaken'
    BY <2>1 DEF SSInv, MemoryOK, CleanIsTaken, Snapshot, memory, saving
  <2>3. SavingTyped' /\ SnapshotsSound'
    BY <2>1 DEF SSInv, SavingOK, SavingTyped, SnapshotsSound, saving, counters
  <2>4. FailuresCounted' /\ DirtyHasTimer' /\ SoleWriter' /\ FileIsNewest'
    BY <2>1 DEF SSInv, SavingOK, FailuresCounted, DirtyHasTimer, SoleWriter, FileIsNewest,
                saving, counters
  <2> QED BY <2>2, <2>3, <2>4 DEF SSInv, SavingOK
<1> QED BY <1>1, <1>2, <1>3, <1>4, <1>5 DEF Next

\* The inductive invariant: memory, snapshots and writers of SessionStore fit together.
THEOREM StoreInductive == Spec => []SSInv
BY InitSound, StepSound, PTL DEF Spec

\* Every variable of the store keeps its type.
THEOREM StoreTypeCorrect == Spec => []StoreTypeOK
<1>1. SSInv => StoreTypeOK
  <2> SUFFICES ASSUME SSInv PROVE StoreTypeOK
    OBVIOUS
  <2>1. log \in Seq(Msg) /\ logIds = Ids(log)
    BY DEF SSInv, MemoryOK, Snapshot, Contents
  <2>2. logIds \subseteq Msg
    BY <2>1 DEF Ids
  <2> QED BY <2>2 DEF SSInv, MemoryOK, SavingOK, SavingTyped, StoreTypeOK
<1> QED BY <1>1, StoreInductive, PTL

\* No change of the store misses its snapshot, whichever threads interleave.
THEOREM NoChangeIsMissed == Spec => []CleanIsTaken
<1>1. SSInv => CleanIsTaken
  BY DEF SSInv
<1> QED BY <1>1, StoreInductive, PTL

\* A dirty store has a timer that will save it, short of a failed write.
THEOREM NoChangeIsStranded == Spec => []DirtyHasTimer
<1>1. SSInv => DirtyHasTimer
  BY DEF SSInv, SavingOK
<1> QED BY <1>1, StoreInductive, PTL

\* The log keeps its cap and its index agrees with it, also after a crash.
THEOREM IndexAgrees == Spec => []LogIndexed
<1>1. SSInv => LogIndexed
  BY DEF SSInv, MemoryOK, LogSound, Distinct, LogIndexed
<1> QED BY <1>1, StoreInductive, PTL

\* The file holds the newest snapshot unless a write is under way, has failed or
\* has overlapped another.
THEOREM FileKeepsUp == Spec => []FileIsNewest
<1>1. SSInv => FileIsNewest
  BY DEF SSInv, SavingOK
<1> QED BY <1>1, StoreInductive, PTL
=============================================================================
