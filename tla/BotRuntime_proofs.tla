--------------------------- MODULE BotRuntime_proofs ---------------------------
(***************************************************************************)
(* What the bot guarantees for any number of voice notes, messages and runs  *)
(* of its process: what /clear disposed of stays away, what was taken is      *)
(* known again.                                                              *)
(***************************************************************************)
EXTENDS BotRuntime, TLAPS

Trees == UNION {[S -> {"open", "closed"}] : S \in SUBSET Messages}
Step == {"new", "announcing", "transcribing", "handing", "done", "withdrawn", "failed", "lost"}
Done == {x \in Messages : step[x] = "done"}

\* Every variable that matters here has its type.
BotTypeOK ==
  /\ mode \in {"off", "starting", "running", "stopping"} /\ at \in Nat
  /\ mode = "starting" => at \in 1..4
  /\ mode = "stopping" => at \in 1..3
  /\ connected \in BOOLEAN /\ dirty \in BOOLEAN
  /\ step \in [Messages -> Step]
  /\ queue \in Trees /\ saved \in Trees /\ file \in Trees
  /\ tasks \subseteq Messages /\ owed \subseteq Messages /\ cleared \subseteq Messages
  /\ clearing \subseteq [nodes : SUBSET Messages, whole : BOOLEAN]

\* Only a message that was handed over is part of a conversation.
OnlyDone ==
  /\ DOMAIN queue \subseteq Done /\ DOMAIN saved \subseteq Done /\ DOMAIN file \subseteq Done
  /\ tasks \subseteq Done
  /\ \A c \in clearing : c.nodes \subseteq Done

\* Before the platform is connected nothing is going on.
Quiet ==
  mode \in {"off", "starting"} =>
    ~connected /\ InHand = {} /\ tasks = {} /\ clearing = {}

\* The registry has both keys of a note or none, and only of one that has not gone on.
PendingPaired ==
  \A v \in Messages :
    /\ <<v, "voice">> \in pending <=> <<v, "status">> \in pending
    /\ <<v, "voice">> \in pending => step[v] \in {"transcribing", "failed"}

\* A task is that of an open message, and what waits to be cleared has none.
TasksMatch ==
  /\ \A x \in DOMAIN queue : queue[x] = "open" <=> x \in tasks
  /\ \A c \in clearing : c.nodes \cap tasks = {}

\* What another /clear has removed before is not in the store either.
ClearingKnown ==
  \A c \in clearing :
    /\ ~c.whole => \E x \in Messages : c.nodes = {x}
    /\ c.nodes \cap DOMAIN saved \subseteq DOMAIN queue

\* What is written now will be read by the next process.
Written == mode \in {"off", "starting"} \/ (mode = "stopping" /\ at > 1)
Loaded == mode \in {"running", "stopping"} \/ (mode = "starting" /\ at > 1)
Restored == mode \in {"running", "stopping"} \/ (mode = "starting" /\ at > 2)

ClearedIsGone ==
  \A x \in cleared :
    /\ step[x] \notin {"new", "announcing", "handing"}
    /\ <<x, "voice">> \notin pending
    /\ x \notin tasks /\ x \notin DOMAIN queue /\ x \notin DOMAIN saved
    /\ Written => x \notin DOMAIN file

OwedIsKept ==
  /\ Restored => owed \subseteq DOMAIN queue
  /\ Loaded => owed \subseteq DOMAIN saved
  /\ Written => owed \subseteq DOMAIN file

\* The timer waits only for what was loaded.
DirtyIsLoaded == dirty => Loaded

BotInv ==
  /\ BotTypeOK
  /\ OnlyDone
  /\ Quiet
  /\ PendingPaired
  /\ TasksMatch
  /\ ClearingKnown
  /\ ClearedIsGone
  /\ OwedIsKept
  /\ DirtyIsLoaded
-----------------------------------------------------------------------------
(* Conversations as functions.                                              *)

LEMMA NoneFacts == None \in Trees /\ DOMAIN None = {}
BY DEF None, Trees

LEMMA ClosedFacts ==
  ASSUME NEW f \in Trees, NEW S
  PROVE  /\ Closed(f, S) \in Trees /\ DOMAIN Closed(f, S) = DOMAIN f
         /\ \A x \in DOMAIN f : Closed(f, S)[x] = IF x \in S THEN "closed" ELSE f[x]
BY DEF Closed, Trees

LEMMA WithoutFacts ==
  ASSUME NEW f \in Trees, NEW S
  PROVE  /\ Without(f, S) \in Trees /\ DOMAIN Without(f, S) = DOMAIN f \ S
         /\ \A x \in DOMAIN f \ S : Without(f, S)[x] = f[x]
<1>1. PICK D \in SUBSET Messages : f \in [D -> {"open", "closed"}]
  BY DEF Trees
<1>2. Without(f, S) = [x \in D \ S |-> f[x]]
  BY <1>1 DEF Without, Restrict
<1>3. Without(f, S) \in [D \ S -> {"open", "closed"}] /\ D \ S \in SUBSET Messages
  BY <1>1, <1>2
<1>4. DOMAIN f = D /\ DOMAIN Without(f, S) = D \ S
  BY <1>1, <1>2
<1>5. \A x \in D \ S : Without(f, S)[x] = f[x]
  BY <1>2
<1>6. Without(f, S) \in Trees
  BY <1>3 DEF Trees
<1> QED BY <1>4, <1>5, <1>6

LEMMA WithFacts ==
  ASSUME NEW f \in Trees, NEW x \in Messages, NEW s \in {"open", "closed"}
  PROVE  /\ With(f, x, s) \in Trees /\ DOMAIN With(f, x, s) = DOMAIN f \cup {x}
         /\ With(f, x, s)[x] = s
         /\ \A y \in DOMAIN f : y # x => With(f, x, s)[y] = f[y]
<1>1. PICK D \in SUBSET Messages : f \in [D -> {"open", "closed"}]
  BY DEF Trees
<1>2. With(f, x, s) = [y \in D \cup {x} |-> IF y = x THEN s ELSE f[y]]
  BY <1>1 DEF With
<1>3. With(f, x, s) \in [D \cup {x} -> {"open", "closed"}] /\ D \cup {x} \in SUBSET Messages
  BY <1>1, <1>2
<1>4. DOMAIN f = D /\ DOMAIN With(f, x, s) = D \cup {x}
  BY <1>1, <1>2
<1>5. With(f, x, s)[x] = s /\ \A y \in D : y # x => With(f, x, s)[y] = f[y]
  BY <1>2
<1>6. With(f, x, s) \in Trees
  BY <1>3 DEF Trees
<1> QED BY <1>4, <1>5, <1>6

\* The stages of startup and shutdown.
LEMMA Stages ==
  ASSUME BotTypeOK
  PROVE  /\ Starting("store") <=> mode = "starting" /\ at = 1
         /\ Starting("restore") <=> mode = "starting" /\ at = 2
         /\ Starting("listen") <=> mode = "starting" /\ at = 3
         /\ Starting("platform") <=> mode = "starting" /\ at = 4
         /\ Stopping("flush") <=> mode = "stopping" /\ at = 1
         /\ Stopping("platform") <=> mode = "stopping" /\ at = 2
         /\ Len(Startup) = 4 /\ Len(Shutdown) = 2
<1>1. /\ Len(Startup) = 4 /\ Startup[1] = "store" /\ Startup[2] = "restore"
      /\ Startup[3] = "listen" /\ Startup[4] = "platform"
  BY DEF Startup
<1>2. Len(Shutdown) = 2 /\ Shutdown[1] = "flush" /\ Shutdown[2] = "platform"
  BY DEF Shutdown
<1> HIDE DEF Startup, Shutdown
<1>3. mode = "starting" => at = 1 \/ at = 2 \/ at = 3 \/ at = 4
  BY DEF BotTypeOK
<1>4. mode = "stopping" => at = 1 \/ at = 2 \/ at = 3
  BY DEF BotTypeOK
<1> QED BY <1>1, <1>2, <1>3, <1>4 DEF Starting, Stopping
-----------------------------------------------------------------------------
(* The process.                                                             *)

LEMMA BootKeeps ==
  ASSUME BotInv, Boot
  PROVE  BotInv'
BY DEF BotInv, BotTypeOK, OnlyDone, Quiet, PendingPaired, TasksMatch, ClearingKnown,
         ClearedIsGone, OwedIsKept, DirtyIsLoaded, Written, Loaded, Restored, Done, InHand,
         Boot, store

\* The store is loaded, and only then does the queue follow.
LEMMA LoadStoreKeeps ==
  ASSUME BotInv, LoadStore
  PROVE  BotInv'
<1>1. mode = "starting" /\ at = 1 /\ mode' = "starting" /\ at' = 2
  BY Stages DEF BotInv, LoadStore, Advance
<1> QED
  BY <1>1 DEF BotInv, BotTypeOK, OnlyDone, Quiet, PendingPaired, TasksMatch, ClearingKnown,
         ClearedIsGone, OwedIsKept, DirtyIsLoaded, Written, Loaded, Restored, Done, InHand,
         LoadStore, store

LEMMA ListenKeeps ==
  ASSUME BotInv, Listen
  PROVE  BotInv'
<1>1. mode = "starting" /\ at = 3 /\ mode' = "starting" /\ at' = 4
  BY Stages DEF BotInv, Listen, Advance
<1> QED
  BY <1>1 DEF BotInv, BotTypeOK, OnlyDone, Quiet, PendingPaired, TasksMatch, ClearingKnown,
         ClearedIsGone, OwedIsKept, DirtyIsLoaded, Written, Loaded, Restored, Done, InHand,
         Listen, store

LEMMA ConnectKeeps ==
  ASSUME BotInv, Connect
  PROVE  BotInv'
<1>1. mode = "starting" /\ at = 4 /\ mode' = "running" /\ at' = 1
  BY Stages DEF BotInv, Connect, Advance
<1> QED
  BY <1>1 DEF BotInv, BotTypeOK, OnlyDone, Quiet, PendingPaired, TasksMatch, ClearingKnown,
         ClearedIsGone, OwedIsKept, DirtyIsLoaded, Written, Loaded, Restored, Done, InHand,
         Connect, store

LEMMA GiveUpKeeps ==
  ASSUME BotInv, GiveUp
  PROVE  BotInv'
<1>1. mode = "starting" /\ at = 4 /\ mode' = "running" /\ at' = 1
  BY Stages DEF BotInv, GiveUp, Advance
<1> QED
  BY <1>1 DEF BotInv, BotTypeOK, OnlyDone, Quiet, PendingPaired, TasksMatch, ClearingKnown,
         ClearedIsGone, OwedIsKept, DirtyIsLoaded, Written, Loaded, Restored, Done, InHand,
         GiveUp, store

LEMMA ConnectLateKeeps ==
  ASSUME BotInv, ConnectLate
  PROVE  BotInv'
BY DEF BotInv, BotTypeOK, OnlyDone, Quiet, PendingPaired, TasksMatch, ClearingKnown,
         ClearedIsGone, OwedIsKept, DirtyIsLoaded, Written, Loaded, Restored, Done, InHand,
         ConnectLate, store

LEMMA BeginShutdownKeeps ==
  ASSUME BotInv, BeginShutdown
  PROVE  BotInv'
BY DEF BotInv, BotTypeOK, OnlyDone, Quiet, PendingPaired, TasksMatch, ClearingKnown,
         ClearedIsGone, OwedIsKept, DirtyIsLoaded, Written, Loaded, Restored, Done, InHand,
         BeginShutdown, store

LEMMA FlushPendingSaveKeeps ==
  ASSUME BotInv, FlushPendingSave
  PROVE  BotInv'
<1>1. mode = "stopping" /\ at = 1 /\ mode' = "stopping" /\ at' = 2
  BY Stages DEF BotInv, FlushPendingSave, Advance
<1>2. connected' \in BOOLEAN /\ dirty' \in BOOLEAN
  BY ZenonT(30) DEF BotInv, BotTypeOK, FlushPendingSave
<1>3. BotTypeOK'
  BY <1>1, <1>2 DEF BotInv, BotTypeOK, FlushPendingSave
<1>4. OnlyDone'
  BY DEF BotInv, OnlyDone, Done, FlushPendingSave
<1>5. Quiet' /\ PendingPaired' /\ TasksMatch' /\ ClearingKnown'
  BY <1>1 DEF BotInv, Quiet, InHand, PendingPaired, TasksMatch, ClearingKnown, FlushPendingSave
<1>6. ClearedIsGone'
  BY <1>1 DEF BotInv, ClearedIsGone, FlushPendingSave
<1>7. OwedIsKept' /\ DirtyIsLoaded'
  BY <1>1 DEF BotInv, OwedIsKept, DirtyIsLoaded, Loaded, Restored, FlushPendingSave
<1> QED
  BY <1>3, <1>4, <1>5, <1>6, <1>7 DEF BotInv

LEMMA StopPlatformKeeps ==
  ASSUME BotInv, StopPlatform
  PROVE  BotInv'
<1>1. mode = "stopping" /\ at = 2 /\ mode' = "stopping" /\ at' = 3
  BY Stages DEF BotInv, StopPlatform, Advance
<1>2. connected' \in BOOLEAN
  BY DEF BotInv, BotTypeOK, StopPlatform
<1> QED
  BY <1>1, <1>2 DEF BotInv, BotTypeOK, OnlyDone, Quiet, PendingPaired, TasksMatch, ClearingKnown,
         ClearedIsGone, OwedIsKept, DirtyIsLoaded, Written, Loaded, Restored, Done, InHand,
         StopPlatform, store

LEMMA TimerFiresKeeps ==
  ASSUME BotInv, TimerFires
  PROVE  BotInv'
BY DEF BotInv, BotTypeOK, OnlyDone, Quiet, PendingPaired, TasksMatch, ClearingKnown,
         ClearedIsGone, OwedIsKept, DirtyIsLoaded, Written, Loaded, Restored, Done, InHand,
         TimerFires, process

LEMMA RestoreTreesKeeps ==
  ASSUME BotInv, RestoreTrees
  PROVE  BotInv'
<1>1. mode = "starting" /\ at = 2 /\ mode' = "starting" /\ at' = 3
  BY Stages DEF BotInv, RestoreTrees, Advance
<1>2. queue' \in Trees /\ DOMAIN queue' = DOMAIN saved /\ \A x \in DOMAIN queue' : queue'[x] = "closed"
  BY ClosedFacts DEF BotInv, BotTypeOK, RestoreTrees
<1>3. saved' = queue' /\ file' = file /\ dirty' \in BOOLEAN
  BY DEF BotInv, BotTypeOK, RestoreTrees, Save, store
<1>4. UNCHANGED <<connected, step, pending, tasks, clearing, owed, cleared>>
  BY DEF RestoreTrees
<1>5. tasks = {} /\ clearing = {}
  BY <1>1 DEF BotInv, Quiet
<1> QED
  BY <1>1, <1>2, <1>3, <1>4, <1>5 DEF BotInv, BotTypeOK, OnlyDone, Quiet, PendingPaired, TasksMatch, ClearingKnown,
         ClearedIsGone, OwedIsKept, DirtyIsLoaded, Written, Loaded, Restored, Done, InHand

\* What is left when memory is lost.
LEMMA MemoryLost ==
  ASSUME BotInv, LoseMemory
  PROVE  /\ mode' = "off"
         /\ BotTypeOK' <=> (owed' \subseteq Messages /\ cleared' \subseteq Messages)
         /\ OnlyDone' /\ Quiet' /\ PendingPaired' /\ TasksMatch' /\ ClearingKnown' /\ DirtyIsLoaded'
         /\ file' = file /\ pending' = {} /\ tasks' = {} /\ DOMAIN queue' = {} /\ DOMAIN saved' = {}
         /\ \A x \in Messages : step'[x] \in {"announcing", "handing", "new"} => step'[x] = step[x]
<1>1. /\ mode' = "off" /\ at' = 1 /\ connected' = FALSE /\ dirty' = FALSE /\ file' = file
      /\ pending' = {} /\ tasks' = {} /\ clearing' = {} /\ queue' = None /\ saved' = None
  BY DEF LoseMemory
<1>2. /\ step' \in [Messages -> Step]
      /\ \A x \in Messages : step'[x] = IF x \in InHand THEN "lost" ELSE step[x]
  BY DEF BotInv, BotTypeOK, Step, LoseMemory, InHand
<1>3. InHand' = {} /\ Done' = Done
  BY <1>2 DEF InHand, Done
<1>4. None \in Trees /\ DOMAIN None = {}
  BY NoneFacts
<1>5. BotTypeOK' <=> (owed' \subseteq Messages /\ cleared' \subseteq Messages)
  BY <1>1, <1>2, <1>4 DEF BotInv, BotTypeOK
<1>6. OnlyDone'
  BY <1>1, <1>3, <1>4 DEF BotInv, OnlyDone
<1>7. Quiet' /\ PendingPaired' /\ TasksMatch' /\ ClearingKnown' /\ DirtyIsLoaded'
  BY <1>1, <1>3, <1>4 DEF Quiet, PendingPaired, TasksMatch, ClearingKnown, DirtyIsLoaded
<1>8. \A x \in Messages : step'[x] \in {"announcing", "handing", "new"} => step'[x] = step[x]
  BY <1>2
<1> QED
  BY <1>1, <1>4, <1>5, <1>6, <1>7, <1>8

LEMMA ExitKeeps ==
  ASSUME BotInv, Exit
  PROVE  BotInv'
<1>1. LoseMemory /\ mode = "stopping" /\ at > 1 /\ UNCHANGED <<owed, cleared>>
  BY Stages DEF Exit, BotInv, BotTypeOK
<1> QED
  BY <1>1, MemoryLost DEF BotInv, BotTypeOK, ClearedIsGone, OwedIsKept, Written, Loaded, Restored

LEMMA CrashKeeps ==
  ASSUME BotInv, Crash
  PROVE  BotInv'
<1>1. LoseMemory /\ owed' = owed \cap DOMAIN file /\ cleared' = cleared \ DOMAIN file
  BY DEF Crash
<1> QED
  BY <1>1, MemoryLost DEF BotInv, BotTypeOK, ClearedIsGone, OwedIsKept, Written, Loaded, Restored

-----------------------------------------------------------------------------
(* Messages.                                                                *)

LEMMA InTrees ==
  ASSUME BotInv
  PROVE  queue \in Trees /\ saved \in Trees /\ file \in Trees
BY DEF BotInv, BotTypeOK

Serving == mode \in {"running", "stopping"}

LEMMA ServingWhen ==
  ASSUME BotInv, connected \/ InHand # {} \/ tasks # {} \/ clearing # {}
  PROVE  Serving
BY DEF BotInv, BotTypeOK, Quiet, Serving

LEMMA MovesFacts ==
  ASSUME BotInv, NEW x \in Messages, NEW next \in Step, Moves(x, next)
  PROVE  /\ step' \in [Messages -> Step]
         /\ step'[x] = next /\ \A y \in Messages : y # x => step'[y] = step[y]
         /\ Done' = IF next = "done" THEN Done \cup {x} ELSE Done \ {x}
         /\ UNCHANGED <<mode, at, connected>>
<1>1. step' \in [Messages -> Step] /\ \A y \in Messages : step'[y] = IF y = x THEN next ELSE step[y]
  BY DEF BotInv, BotTypeOK, Moves
<1>2. UNCHANGED <<mode, at, connected>>
  BY DEF Moves, process
<1> QED
  BY <1>1, <1>2 DEF Done

\* A message that moves without being handed over leaves the conversations alone.
LEMMA MovingKeeps ==
  ASSUME BotInv, NEW x \in Messages, NEW next \in Step, Moves(x, next), Serving,
         step[x] # "done", next # "done", PendingPaired',
         UNCHANGED <<queue, tasks, store, clearing, owed, cleared>>,
         x \in cleared => next \notin {"new", "announcing", "handing"},
         \A y \in cleared : <<y, "voice">> \notin pending'
  PROVE  BotInv'
<1>1. /\ step' \in [Messages -> Step]
      /\ step'[x] = next /\ \A y \in Messages : y # x => step'[y] = step[y]
      /\ UNCHANGED <<mode, at, connected>>
  BY MovesFacts
<1>2. Done' = Done
  BY MovesFacts DEF Done
<1>3. UNCHANGED <<saved, dirty, file>>
  BY DEF store
<1>4. BotTypeOK' /\ Quiet'
  BY <1>1, <1>3 DEF BotInv, BotTypeOK, Quiet, Serving
<1>5. OnlyDone' /\ TasksMatch' /\ ClearingKnown'
  BY <1>2, <1>3 DEF BotInv, OnlyDone, TasksMatch, ClearingKnown
<1>6. ClearedIsGone'
  BY <1>1, <1>3 DEF BotInv, BotTypeOK, ClearedIsGone, Written
<1>7. OwedIsKept' /\ DirtyIsLoaded'
  BY <1>1, <1>3 DEF BotInv, OwedIsKept, DirtyIsLoaded, Written, Loaded, Restored
<1> QED
  BY <1>4, <1>5, <1>6, <1>7 DEF BotInv

LEMMA ReceiveTextKeeps ==
  ASSUME BotInv, NEW x \in Messages, ReceiveText(x)
  PROVE  BotInv'
<1>1. step[x] = "new" /\ Serving
  BY ServingWhen DEF ReceiveText, InHand, MayHandle
<1>2. Moves(x, "handing") /\ UNCHANGED <<queue, tasks, store, clearing, owed, cleared>>
  BY DEF ReceiveText
<1>3. step'[x] = "handing" /\ \A y \in Messages : y # x => step'[y] = step[y]
  BY <1>2, MovesFacts DEF Step
<1>4. PendingPaired'
  BY <1>1, <1>3 DEF BotInv, PendingPaired, ReceiveText, Keys
<1>5. x \in cleared => "handing" \notin {"new", "announcing", "handing"}
  BY <1>1 DEF BotInv, ClearedIsGone, ReceiveText
<1>6. \A y \in cleared : <<y, "voice">> \notin pending'
  BY <1>1 DEF BotInv, ClearedIsGone, ReceiveText, Keys
<1> QED
  BY <1>1, <1>2, <1>4, <1>5, <1>6, MovingKeeps DEF Step

LEMMA ReceiveVoiceKeeps ==
  ASSUME BotInv, NEW x \in Messages, ReceiveVoice(x)
  PROVE  BotInv'
<1>1. step[x] = "new" /\ Serving
  BY ServingWhen DEF ReceiveVoice, InHand, MayHandle
<1>2. Moves(x, "announcing") /\ UNCHANGED <<queue, tasks, store, clearing, owed, cleared>>
  BY DEF ReceiveVoice
<1>3. step'[x] = "announcing" /\ \A y \in Messages : y # x => step'[y] = step[y]
  BY <1>2, MovesFacts DEF Step
<1>4. PendingPaired'
  BY <1>1, <1>3 DEF BotInv, PendingPaired, ReceiveVoice, Keys
<1>5. x \in cleared => "announcing" \notin {"new", "announcing", "handing"}
  BY <1>1 DEF BotInv, ClearedIsGone, ReceiveVoice
<1>6. \A y \in cleared : <<y, "voice">> \notin pending'
  BY <1>1 DEF BotInv, ClearedIsGone, ReceiveVoice, Keys
<1> QED
  BY <1>1, <1>2, <1>4, <1>5, <1>6, MovingKeeps DEF Step

LEMMA RegisterKeeps ==
  ASSUME BotInv, NEW x \in Messages, Register(x)
  PROVE  BotInv'
<1>1. step[x] = "announcing" /\ Serving
  BY ServingWhen DEF Register, InHand, MayHandle
<1>2. Moves(x, "transcribing") /\ UNCHANGED <<queue, tasks, store, clearing, owed, cleared>>
  BY DEF Register
<1>3. step'[x] = "transcribing" /\ \A y \in Messages : y # x => step'[y] = step[y]
  BY <1>2, MovesFacts DEF Step
<1>4. PendingPaired'
  BY <1>1, <1>3 DEF BotInv, PendingPaired, Register, Keys
<1>5. x \in cleared => "transcribing" \notin {"new", "announcing", "handing"}
  BY <1>1 DEF BotInv, ClearedIsGone, Register
<1>6. \A y \in cleared : <<y, "voice">> \notin pending'
  BY <1>1 DEF BotInv, ClearedIsGone, Register, Keys
<1> QED
  BY <1>1, <1>2, <1>4, <1>5, <1>6, MovingKeeps DEF Step

LEMMA WithdrawKeeps ==
  ASSUME BotInv, NEW x \in Messages, Withdraw(x)
  PROVE  BotInv'
<1>1. step[x] = "transcribing" /\ Serving
  BY ServingWhen DEF Withdraw, InHand, MayHandle
<1>2. Moves(x, "withdrawn") /\ UNCHANGED <<queue, tasks, store, clearing, owed, cleared>>
  BY DEF Withdraw
<1>3. step'[x] = "withdrawn" /\ \A y \in Messages : y # x => step'[y] = step[y]
  BY <1>2, MovesFacts DEF Step
<1>4. PendingPaired'
  BY <1>1, <1>3 DEF BotInv, PendingPaired, Withdraw, Keys
<1>5. x \in cleared => "withdrawn" \notin {"new", "announcing", "handing"}
  BY <1>1 DEF BotInv, ClearedIsGone, Withdraw
<1>6. \A y \in cleared : <<y, "voice">> \notin pending'
  BY <1>1 DEF BotInv, ClearedIsGone, Withdraw, Keys
<1> QED
  BY <1>1, <1>2, <1>4, <1>5, <1>6, MovingKeeps DEF Step

LEMMA TranscribedKeeps ==
  ASSUME BotInv, NEW x \in Messages, Transcribed(x)
  PROVE  BotInv'
<1>1. step[x] = "transcribing" /\ Serving
  BY ServingWhen DEF Transcribed, InHand, MayHandle
<1>2. Moves(x, "handing") /\ UNCHANGED <<queue, tasks, store, clearing, owed, cleared>>
  BY DEF Transcribed
<1>3. step'[x] = "handing" /\ \A y \in Messages : y # x => step'[y] = step[y]
  BY <1>2, MovesFacts DEF Step
<1>4. PendingPaired'
  BY <1>1, <1>3 DEF BotInv, PendingPaired, Transcribed, Keys
<1>5. x \in cleared => "handing" \notin {"new", "announcing", "handing"}
  BY <1>1 DEF BotInv, ClearedIsGone, Transcribed
<1>6. \A y \in cleared : <<y, "voice">> \notin pending'
  BY <1>1 DEF BotInv, ClearedIsGone, Transcribed, Keys
<1> QED
  BY <1>1, <1>2, <1>4, <1>5, <1>6, MovingKeeps DEF Step

LEMMA FailsKeeps ==
  ASSUME BotInv, NEW x \in Messages, Fails(x)
  PROVE  BotInv'
<1>1. step[x] \in {"announcing", "transcribing", "handing"} /\ Serving
  BY ServingWhen DEF Fails, InHand, MayHandle
<1>2. Moves(x, "failed") /\ UNCHANGED <<queue, tasks, store, clearing, owed, cleared>>
  BY DEF Fails
<1>3. step'[x] = "failed" /\ \A y \in Messages : y # x => step'[y] = step[y]
  BY <1>2, MovesFacts DEF Step
<1>4. PendingPaired'
  BY <1>1, <1>3 DEF BotInv, PendingPaired, Fails, Keys
<1>5. x \in cleared => "failed" \notin {"new", "announcing", "handing"}
  BY <1>1 DEF BotInv, ClearedIsGone, Fails
<1>6. \A y \in cleared : <<y, "voice">> \notin pending'
  BY <1>1 DEF BotInv, ClearedIsGone, Fails, Keys
<1> QED
  BY <1>1, <1>2, <1>4, <1>5, <1>6, MovingKeeps DEF Step

LEMMA HandOverKeeps ==
  ASSUME BotInv, NEW x \in Messages, HandOver(x)
  PROVE  BotInv'
<1>1. /\ Moves(x, "done") /\ step[x] = "handing"
      /\ queue' = With(queue, x, "open") /\ saved' = With(saved, x, "open")
      /\ dirty' = TRUE /\ tasks' = tasks \cup {x}
      /\ UNCHANGED <<file, pending, clearing, cleared>>
  BY DEF HandOver, Save
<1>2. Serving
  BY <1>1, ServingWhen DEF InHand
<1>3. owed' \subseteq owed \cup {x} /\ (mode # "running" => owed' = owed)
  BY DEF HandOver
<1>4. /\ step' \in [Messages -> Step]
      /\ step'[x] = "done" /\ \A y \in Messages : y # x => step'[y] = step[y]
      /\ UNCHANGED <<mode, at, connected>>
  BY <1>1, MovesFacts DEF Step
<1>5. Done' = Done \cup {x} /\ x \notin Done
  BY <1>1, MovesFacts DEF Step, Done
<1>6. /\ queue' \in Trees /\ DOMAIN queue' = DOMAIN queue \cup {x} /\ queue'[x] = "open"
      /\ \A y \in DOMAIN queue : y # x => queue'[y] = queue[y]
      /\ saved' \in Trees /\ DOMAIN saved' = DOMAIN saved \cup {x}
  <2>1. queue \in Trees /\ saved \in Trees /\ "open" \in {"open", "closed"}
    BY InTrees
  <2>2. /\ With(queue, x, "open") \in Trees /\ DOMAIN With(queue, x, "open") = DOMAIN queue \cup {x}
        /\ With(queue, x, "open")[x] = "open"
        /\ \A y \in DOMAIN queue : y # x => With(queue, x, "open")[y] = queue[y]
    BY <2>1, WithFacts
  <2>3. With(saved, x, "open") \in Trees /\ DOMAIN With(saved, x, "open") = DOMAIN saved \cup {x}
    BY <2>1, WithFacts
  <2> QED
    BY <1>1, <2>2, <2>3
<1>7. x \notin cleared
  BY <1>1 DEF BotInv, ClearedIsGone
<1>8. x \notin DOMAIN queue /\ x \notin tasks /\ \A c \in clearing : x \notin c.nodes
  BY <1>5 DEF BotInv, OnlyDone
<1>9. BotTypeOK' /\ Quiet'
  BY <1>1, <1>2, <1>3, <1>4, <1>6 DEF BotInv, BotTypeOK, Quiet, Serving
<1>10. OnlyDone'
  BY <1>1, <1>5, <1>6 DEF BotInv, OnlyDone
<1>11. PendingPaired'
  BY <1>1, <1>4 DEF BotInv, PendingPaired
<1>12. TasksMatch' /\ ClearingKnown'
  BY <1>1, <1>6, <1>8 DEF BotInv, TasksMatch, ClearingKnown
<1>13. ClearedIsGone'
  BY <1>1, <1>4, <1>6, <1>7 DEF BotInv, BotTypeOK, ClearedIsGone, Written
<1>14. OwedIsKept' /\ DirtyIsLoaded'
  BY <1>1, <1>2, <1>3, <1>4, <1>6 DEF BotInv, OwedIsKept, DirtyIsLoaded, Written, Loaded, Restored, Serving
<1> QED
  BY <1>9, <1>10, <1>11, <1>12, <1>13, <1>14 DEF BotInv

LEMMA FinishKeeps ==
  ASSUME BotInv, NEW x \in Messages, NEW completes \in BOOLEAN, Finish(x, completes)
  PROVE  BotInv'
<1>1. /\ x \in tasks /\ tasks' = tasks \ {x} /\ queue' = Closed(queue, {x})
      /\ UNCHANGED <<mode, at, connected, step, pending, clearing, owed, cleared>>
  BY DEF Finish, process
<1>2. Serving
  BY <1>1, ServingWhen
<1>3. \/ saved' = With(saved, x, "closed") /\ dirty' = TRUE /\ file' = file
      \/ UNCHANGED <<saved, dirty, file>>
  BY DEF Finish, Save, store
<1>4. /\ queue' \in Trees /\ DOMAIN queue' = DOMAIN queue
      /\ \A y \in DOMAIN queue : queue'[y] = IF y = x THEN "closed" ELSE queue[y]
  BY <1>1, ClosedFacts DEF BotInv, BotTypeOK
<1>5. /\ saved' \in Trees /\ file' = file
      /\ DOMAIN saved \subseteq DOMAIN saved' /\ DOMAIN saved' \subseteq DOMAIN saved \cup {x}
  <2>1. saved \in Trees /\ "closed" \in {"open", "closed"}
    BY InTrees
  <2>2. With(saved, x, "closed") \in Trees /\ DOMAIN With(saved, x, "closed") = DOMAIN saved \cup {x}
    BY <2>1, WithFacts
  <2> QED
    BY <1>3, <2>1, <2>2
<1>6. dirty' \in BOOLEAN
  BY <1>3 DEF BotInv, BotTypeOK
<1>7. x \in Done /\ Done' = Done /\ x \notin cleared /\ \A c \in clearing : x \notin c.nodes
  BY <1>1 DEF BotInv, OnlyDone, Done, ClearedIsGone, TasksMatch
<1>8. BotTypeOK' /\ Quiet'
  BY <1>1, <1>2, <1>4, <1>5, <1>6 DEF BotInv, BotTypeOK, Quiet, Serving
<1>9. OnlyDone' /\ PendingPaired'
  BY <1>1, <1>4, <1>5, <1>7 DEF BotInv, OnlyDone, PendingPaired
<1>10. TasksMatch' /\ ClearingKnown'
  <2>1. \A y \in DOMAIN queue : queue'[y] = "open" <=> y \in tasks'
    BY <1>1, <1>4 DEF BotInv, TasksMatch
  <2>2. \A c \in clearing : c.nodes \cap tasks' = {}
    BY <1>1 DEF BotInv, TasksMatch
  <2>3. \A c \in clearing : c.nodes \cap DOMAIN saved' = c.nodes \cap DOMAIN saved
    BY <1>5, <1>7
  <2>4. ClearingKnown'
    BY <1>1, <1>4, <2>3 DEF BotInv, ClearingKnown
  <2>5. DOMAIN queue' = DOMAIN queue /\ clearing' = clearing
    BY <1>1, <1>4
  <2>6. TasksMatch'
    BY <2>1, <2>2, <2>5 DEF TasksMatch
  <2> QED BY <2>4, <2>6
<1>11. ClearedIsGone'
  BY <1>1, <1>4, <1>5, <1>7 DEF BotInv, ClearedIsGone, Written
<1>12. OwedIsKept' /\ DirtyIsLoaded'
  BY <1>1, <1>2, <1>4, <1>5 DEF BotInv, OwedIsKept, DirtyIsLoaded, Written, Loaded, Restored, Serving
<1> QED
  BY <1>8, <1>9, <1>10, <1>11, <1>12 DEF BotInv
-----------------------------------------------------------------------------
(* /clear.                                                                  *)

\* A note in the registry is not part of anything else yet.
LEMMA CancelVoiceKeeps ==
  ASSUME BotInv, NEW v \in Notes, NEW key \in {"voice", "status"}, CancelVoice(v, key)
  PROVE  BotInv'
<1>1. /\ pending' = pending \ Keys(v) /\ cleared' = cleared \cup {v}
      /\ UNCHANGED <<mode, at, connected, step, queue, tasks, saved, dirty, file, clearing, owed>>
  BY DEF CancelVoice, Cancelled, process, store
<1>2. v \in Messages /\ <<v, "voice">> \in pending
  BY DEF CancelVoice, Messages, BotInv, PendingPaired
<1>3. step[v] \in {"transcribing", "failed"} /\ <<v, "voice">> \notin pending'
  BY <1>1, <1>2 DEF BotInv, PendingPaired, Keys
<1>4. v \notin tasks /\ v \notin DOMAIN queue /\ v \notin DOMAIN saved /\ v \notin DOMAIN file
  BY <1>3 DEF BotInv, OnlyDone, Done
<1>5. PendingPaired'
  BY <1>1 DEF BotInv, PendingPaired, Keys
<1>6. ClearedIsGone'
  BY <1>1, <1>3, <1>4 DEF BotInv, ClearedIsGone, Written
<1>7. BotTypeOK' /\ OnlyDone' /\ Quiet' /\ TasksMatch' /\ ClearingKnown' /\ OwedIsKept' /\ DirtyIsLoaded'
  BY <1>1, <1>2 DEF BotInv, BotTypeOK, OnlyDone, Done, Quiet, InHand, TasksMatch, ClearingKnown,
                    OwedIsKept, DirtyIsLoaded, Written, Loaded, Restored
<1> QED
  BY <1>5, <1>6, <1>7 DEF BotInv

LEMMA BeginClearKeeps ==
  ASSUME BotInv, NEW nodes \in SUBSET DOMAIN queue, NEW whole \in BOOLEAN, BeginClear(nodes, whole),
         ~whole => \E x \in Messages : nodes = {x}
  PROVE  BotInv'
<1> DEFINE unfinished == {x \in nodes : queue[x] = "open"}
<1>1. /\ connected /\ queue' = Closed(queue, unfinished) /\ tasks' = tasks \ unfinished
      /\ clearing' = clearing \cup {[nodes |-> nodes, whole |-> whole]}
      /\ UNCHANGED <<mode, at, connected, step, pending, owed, cleared>>
  BY DEF BeginClear, MayHandle, process
<1>2. nodes \cap tasks' = {}
  BY <1>1 DEF BotInv, TasksMatch
<1>3. \/ saved' = Closed(saved, unfinished) /\ dirty' = TRUE /\ file' = file
      \/ UNCHANGED <<saved, dirty, file>>
  BY DEF BeginClear, Save, store
<1> HIDE DEF unfinished
<1>4. Serving
  BY <1>1, ServingWhen
<1>5. /\ queue' \in Trees /\ DOMAIN queue' = DOMAIN queue
      /\ \A y \in DOMAIN queue : queue'[y] = IF y \in unfinished THEN "closed" ELSE queue[y]
  BY <1>1, ClosedFacts DEF BotInv, BotTypeOK
<1>6. saved' \in Trees /\ file' = file /\ DOMAIN saved' = DOMAIN saved
  BY <1>3, ClosedFacts DEF BotInv, BotTypeOK
<1>7. dirty' \in BOOLEAN
  BY <1>3 DEF BotInv, BotTypeOK
<1>8. nodes \subseteq Messages /\ nodes \subseteq Done /\ Done' = Done
  BY <1>1 DEF BotInv, OnlyDone, Done
<1>9. BotTypeOK' /\ Quiet'
  BY <1>1, <1>4, <1>5, <1>6, <1>7, <1>8 DEF BotInv, BotTypeOK, Quiet, Serving
<1>10. OnlyDone' /\ PendingPaired'
  <2>1. tasks' \subseteq Done' /\ \A c \in clearing' : c.nodes \subseteq Done'
    BY <1>1, <1>8 DEF BotInv, OnlyDone
  <2> QED
    BY <2>1, <1>1, <1>5, <1>6, <1>8 DEF BotInv, OnlyDone, PendingPaired
<1>11. TasksMatch'
  BY <1>1, <1>5, <1>2 DEF BotInv, TasksMatch
<1>12. ClearingKnown'
  <2>1. \A c \in clearing : c.nodes \cap DOMAIN saved' \subseteq DOMAIN queue'
    BY <1>5, <1>6 DEF BotInv, ClearingKnown
  <2>2. nodes \cap DOMAIN saved' \subseteq DOMAIN queue'
    BY <1>5
  <2>3. \A c \in clearing' : c \in clearing \/ (c.nodes = nodes /\ c.whole = whole)
    BY <1>1
  <2> QED
    BY <2>1, <2>2, <2>3 DEF BotInv, ClearingKnown
<1>13. ClearedIsGone'
  BY <1>1, <1>5, <1>6 DEF BotInv, ClearedIsGone, Written
<1>14. OwedIsKept' /\ DirtyIsLoaded'
  BY <1>1, <1>4, <1>5, <1>6 DEF BotInv, OwedIsKept, DirtyIsLoaded, Written, Loaded, Restored, Serving
<1> QED
  BY <1>9, <1>10, <1>11, <1>12, <1>13, <1>14 DEF BotInv

LEMMA FinishClearKeeps ==
  ASSUME BotInv, NEW c \in clearing, FinishClear(c)
  PROVE  BotInv'
<1>1. /\ clearing' = clearing \ {c} /\ cleared' = (IF mode = "running" THEN cleared \cup c.nodes ELSE cleared)
      /\ UNCHANGED <<mode, at, connected, step, pending, tasks>>
  BY DEF FinishClear, process
<1>2. Serving
  BY ServingWhen
<1>3. c.nodes \subseteq Messages /\ c.nodes \subseteq Done /\ c.nodes \cap tasks = {} /\ Done' = Done
  BY <1>1 DEF BotInv, BotTypeOK, OnlyDone, TasksMatch, Done
<1>4. \A x \in c.nodes : step[x] = "done" /\ <<x, "voice">> \notin pending
  BY <1>3 DEF BotInv, PendingPaired, Done
<1>5. \* What is left of the conversations, whichever /clear it is.
      /\ queue' \in Trees /\ saved' \in Trees /\ file' \in Trees
      /\ DOMAIN queue' \subseteq DOMAIN queue \ c.nodes /\ DOMAIN saved' \subseteq DOMAIN saved \ c.nodes
      /\ DOMAIN file' \subseteq DOMAIN file
      /\ \A x \in DOMAIN queue' : queue'[x] = queue[x]
      /\ \A d \in clearing : d.nodes \cap DOMAIN saved' \subseteq DOMAIN queue'
      /\ owed' \subseteq owed
      /\ \A x \in owed' : /\ x \in DOMAIN queue => x \in DOMAIN queue'
                          /\ x \in DOMAIN saved => x \in DOMAIN saved'
                          /\ x \in DOMAIN file => x \in DOMAIN file'
  <2>1. CASE FinishBranch(c)
    <3>1. queue' = Without(queue, c.nodes) /\ owed' = owed \ c.nodes /\ file' = file
      BY <2>1 DEF FinishBranch, Save, store
    <3>2. /\ queue' \in Trees /\ DOMAIN queue' = DOMAIN queue \ c.nodes
          /\ \A x \in DOMAIN queue' : queue'[x] = queue[x]
      <4>1. queue \in Trees
        BY InTrees
      <4>2. /\ Without(queue, c.nodes) \in Trees /\ DOMAIN Without(queue, c.nodes) = DOMAIN queue \ c.nodes
            /\ \A x \in DOMAIN queue \ c.nodes : Without(queue, c.nodes)[x] = queue[x]
        BY <4>1, WithoutFacts
      <4> QED
        BY <3>1, <4>2
    <3>3. saved' \in Trees /\ DOMAIN saved' = DOMAIN saved \ c.nodes
      <4>1. CASE c.nodes \subseteq DOMAIN queue
        <5>1. saved' = Without(saved, c.nodes)
          BY <2>1, <4>1 DEF FinishBranch, Save
        <5>2. saved \in Trees
          BY InTrees
        <5> QED
          BY <5>1, <5>2, WithoutFacts
      <4>2. CASE ~(c.nodes \subseteq DOMAIN queue)
        <5>1. saved' = saved
          BY <2>1, <4>2 DEF FinishBranch, store
        <5>2. PICK x \in Messages : c.nodes = {x}
          BY <2>1 DEF FinishBranch, BotInv, ClearingKnown
        <5>3. x \notin DOMAIN saved
          BY <4>2, <5>2 DEF BotInv, ClearingKnown
        <5> QED
          BY <5>1, <5>2, <5>3 DEF BotInv, BotTypeOK
      <4> QED
        BY <4>1, <4>2
    <3> QED
      BY <3>1, <3>2, <3>3 DEF BotInv, BotTypeOK, ClearingKnown
  <2>2. CASE FinishAll(c)
    BY <2>2, NoneFacts DEF FinishAll, BotInv, BotTypeOK
  <2> QED
    BY <2>1, <2>2 DEF FinishClear
<1>6. dirty' \in BOOLEAN
  BY DEF FinishClear, FinishBranch, FinishAll, Save, store, BotInv, BotTypeOK
<1>7. BotTypeOK'
  BY <1>1, <1>3, <1>5, <1>6 DEF BotInv, BotTypeOK
<1>8. Quiet' /\ PendingPaired' /\ OnlyDone'
  BY <1>1, <1>2, <1>3, <1>5 DEF BotInv, Quiet, PendingPaired, OnlyDone, Serving
<1>9. TasksMatch' /\ ClearingKnown'
  BY <1>1, <1>5 DEF BotInv, TasksMatch, ClearingKnown
<1>10. ClearedIsGone'
  BY <1>1, <1>3, <1>4, <1>5 DEF BotInv, ClearedIsGone, Written
<1>11. OwedIsKept' /\ DirtyIsLoaded'
  BY <1>1, <1>2, <1>5 DEF BotInv, OwedIsKept, DirtyIsLoaded, Written, Loaded, Restored, Serving
<1> QED
  BY <1>7, <1>8, <1>9, <1>10, <1>11 DEF BotInv
-----------------------------------------------------------------------------
(* The theorems.                                                            *)

LEMMA InitHolds ==
  ASSUME Init
  PROVE  BotInv
<1>1. None \in Trees /\ DOMAIN None = {}
  BY NoneFacts
<1>2. step \in [Messages -> Step] /\ InHand = {} /\ Done = {}
  BY DEF Init, Step, InHand, Done
<1>3. BotTypeOK
  BY <1>1, <1>2 DEF Init, BotTypeOK
<1> QED
  BY <1>1, <1>2, <1>3 DEF Init, BotInv, OnlyDone, Quiet, PendingPaired, TasksMatch, ClearingKnown,
                          ClearedIsGone, OwedIsKept, DirtyIsLoaded

LEMMA NextKeeps ==
  ASSUME BotInv, Next
  PROVE  BotInv'
<1>1. CASE Boot \/ LoadStore \/ RestoreTrees \/ Listen \/ Connect \/ GiveUp \/ ConnectLate
  BY <1>1, BootKeeps, LoadStoreKeeps, RestoreTreesKeeps, ListenKeeps, ConnectKeeps, GiveUpKeeps, ConnectLateKeeps
<1>2. CASE BeginShutdown \/ FlushPendingSave \/ StopPlatform \/ Exit \/ Crash
  BY <1>2, BeginShutdownKeeps, FlushPendingSaveKeeps, StopPlatformKeeps, ExitKeeps, CrashKeeps
<1>3. CASE \E x \in Messages : ReceiveText(x) \/ ReceiveVoice(x) \/ Register(x) \/ Withdraw(x)
                              \/ Transcribed(x) \/ Fails(x) \/ HandOver(x)
  BY <1>3, ReceiveTextKeeps, ReceiveVoiceKeeps, RegisterKeeps, WithdrawKeeps, TranscribedKeeps,
     FailsKeeps, HandOverKeeps
<1>4. CASE \E x \in Messages, completes \in BOOLEAN : Finish(x, completes)
  BY <1>4, FinishKeeps
<1>5. CASE TimerFires
  BY <1>5, TimerFiresKeeps
<1>6. CASE \E x \in Messages : ClearBranch(x)
  BY <1>6, BeginClearKeeps DEF ClearBranch
<1>7. CASE ClearAll
  BY <1>7, BeginClearKeeps DEF ClearAll
<1>8. CASE \E v \in Notes, key \in {"voice", "status"} : CancelVoice(v, key)
  BY <1>8, CancelVoiceKeeps
<1>9. CASE \E c \in clearing : FinishClear(c)
  BY <1>9, FinishClearKeeps
<1> QED
  BY <1>1, <1>2, <1>3, <1>4, <1>5, <1>6, <1>7, <1>8, <1>9 DEF Next

\* The bot's parts agree, whatever comes first: messages, /clear, the timer of the store,
\* shutdown or crash.
THEOREM BotInductive == Spec => []BotInv
<1>1. Init => BotInv
  BY InitHolds
<1>2. BotInv /\ [Next]_vars => BotInv'
  <2> SUFFICES ASSUME BotInv, [Next]_vars
               PROVE  BotInv'
    OBVIOUS
  <2>1. CASE Next
    BY <2>1, NextKeeps
  <2>2. CASE UNCHANGED vars
    BY <2>2 DEF vars, process, store, BotInv, BotTypeOK, OnlyDone, Done, Quiet, InHand, PendingPaired,
                TasksMatch, ClearingKnown, ClearedIsGone, OwedIsKept, DirtyIsLoaded, Written, Loaded, Restored
  <2> QED
    BY <2>1, <2>2
<1> QED
  BY <1>1, <1>2, PTL DEF Spec

\* What /clear disposed of is neither in a conversation nor on its way into one, on either
\* platform, through every shutdown, crash and restart.
THEOREM ClearedNeverReturns == Spec => []ClearedStaysAway
<1>1. BotInv => ClearedStaysAway
  BY DEF BotInv, ClearedIsGone, ClearedStaysAway
<1> QED
  BY <1>1, BotInductive, PTL

\* Whenever the bot receives messages, what it took in earlier runs is known, and nothing in
\* it waits for a task that died with another process.
THEOREM RestoresEverything == Spec => []RestoredWhole
<1>1. BotInv => RestoredWhole
  BY ServingWhen DEF BotInv, OwedIsKept, Restored, Serving, TasksMatch, RestoredWhole
<1> QED
  BY <1>1, BotInductive, PTL
==============================================================================
