------------------------ MODULE MessageLimiter_proofs ------------------------
(***************************************************************************)
(* What the messaging limiter guarantees for any number of updates, keys    *)
(* and retries: its queue is sound, no caller's future is lost, nothing is  *)
(* sent more often than it was asked for, and only a retry brings an older  *)
(* text back.                                                               *)
(***************************************************************************)
EXTENDS MessageLimiter, TLAPS

Elems(s) == {s[i] : i \in DOMAIN s}
Distinct(s) == \A i, j \in DOMAIN s : s[i] = s[j] => i = j

\* Who has not begun yet stands in `starting` once, if at all.
StartingOnce ==
  /\ \A u \in Elems(starting) : caller[u] = "starting"
  /\ Distinct(starting)
  /\ \A u \in Update : u > issued => caller[u] = "unborn"

\* An entry's futures belong to callers of its key that are not answered, the
\* update to send is one of theirs, ...
EntriesOwned ==
  \A k \in Key :
    /\ Queued(k) => queueMap[k].func \in queueMap[k].futures
    /\ \A u \in queueMap[k].futures :
         KeyOf[u] = k /\ caller[u] \in {"waiting", "cancelled"}

\* ... and so are the job's, which are nowhere else.
JobOwned ==
  /\ worker \in {"holding", "sending"} => job.func \in job.futures
  /\ worker \notin {"holding", "sending"} => job = NoEntry
  /\ \A u \in job.futures :
       /\ caller[u] \in {"waiting", "cancelled"}
       /\ u \notin queueMap[KeyOf[u]].futures

\* There is an attempt left for who sleeps before a retry.
BackoffBounded == \A u \in Update : caller[u] = "backoff" => attempt[u] < MaxRetries

\* The update has yet to be sent for its present attempt.
Unsent(u) ==
  \/ caller[u] \in {"unborn", "starting"}
  \/ queueMap[KeyOf[u]].func = u
  \/ worker = "holding" /\ job.func = u

SendsBounded ==
  \A u \in Update : sends[u] <= attempt[u] + 1 /\ (Unsent(u) => sends[u] <= attempt[u])

MLInv ==
  /\ LimiterTypeOK
  /\ StartingOnce
  /\ QueueMatches
  /\ EntriesOwned
  /\ JobOwned
  /\ BackoffBounded
  /\ NoFutureLost
  /\ SendsBounded
-----------------------------------------------------------------------------
(* Sequences without repetition.                                            *)

\* An element joins a sequence.
LEMMA JoinElems ==
  ASSUME NEW S, NEW s \in Seq(S), Distinct(s), NEW x \in S, x \notin Elems(s)
  PROVE  /\ Append(s, x) \in Seq(S)
         /\ Elems(Append(s, x)) = Elems(s) \cup {x}
         /\ Distinct(Append(s, x))
<1> DEFINE L == Len(s)
           t == Append(s, x)
<1>1. L \in Nat /\ DOMAIN s = 1..L
  OBVIOUS
<1>2. /\ t \in Seq(S) /\ DOMAIN t = 1..(L + 1)
      /\ t[L + 1] = x
      /\ \A j \in 1..L : t[j] = s[j]
  BY <1>1
<1> HIDE DEF L, t
<1>3. \A j \in 1..(L + 1) : j \in 1..L \/ j = L + 1
  BY <1>1
<1>4. L + 1 \in 1..(L + 1) /\ \A j \in 1..L : j \in 1..(L + 1)
  BY <1>1
<1>5. Elems(t) = Elems(s) \cup {x}
  BY <1>1, <1>2, <1>3, <1>4 DEF Elems
<1>6. Distinct(t)
  BY <1>1, <1>2, <1>3 DEF Elems, Distinct
<1> QED BY <1>2, <1>5, <1>6 DEF t

\* The first element leaves.
LEMMA TailElems ==
  ASSUME NEW S, NEW s \in Seq(S), s # <<>>, Distinct(s)
  PROVE  /\ Tail(s) \in Seq(S)
         /\ Head(s) \in S /\ Head(s) \in Elems(s)
         /\ Elems(Tail(s)) = Elems(s) \ {Head(s)}
         /\ Distinct(Tail(s))
<1> DEFINE L == Len(s)
           t == Tail(s)
<1>1. L \in Nat \ {0} /\ DOMAIN s = 1..L /\ Head(s) = s[1] /\ s[1] \in S
  OBVIOUS
<1>2. /\ t \in Seq(S) /\ DOMAIN t = 1..(L - 1)
      /\ \A j \in 1..(L - 1) : t[j] = s[j + 1]
  BY <1>1
<1> HIDE DEF L, t
<1>3. 1 \in 1..L /\ \A j \in 1..(L - 1) : j + 1 \in 1..L /\ j + 1 # 1
  BY <1>1
<1>4. \A i \in 1..L : i # 1 => i - 1 \in 1..(L - 1) /\ (i - 1) + 1 = i
  BY <1>1
<1>5. Head(s) \in Elems(s)
  BY <1>1, <1>3 DEF Elems
<1>6. ASSUME NEW y \in Elems(t) PROVE y \in Elems(s) /\ y # s[1]
  <2>1. PICK j \in 1..(L - 1) : y = s[j + 1]
    BY <1>2 DEF Elems
  <2> QED BY <1>1, <1>3, <2>1 DEF Elems, Distinct
<1>7. ASSUME NEW y \in Elems(s), y # s[1] PROVE y \in Elems(t)
  <2>1. PICK i \in 1..L : y = s[i]
    BY <1>1 DEF Elems
  <2>2. i - 1 \in 1..(L - 1) /\ t[i - 1] = s[(i - 1) + 1] /\ (i - 1) + 1 = i
    BY <1>2, <1>4, <1>7, <2>1
  <2> QED BY <1>2, <2>1, <2>2 DEF Elems
<1>8. Distinct(t)
  <2> SUFFICES ASSUME NEW i \in 1..(L - 1), NEW j \in 1..(L - 1), t[i] = t[j] PROVE i = j
    BY <1>2 DEF Distinct
  <2>1. i + 1 \in 1..L /\ j + 1 \in 1..L /\ s[i + 1] = s[j + 1]
    BY <1>2, <1>3
  <2>2. i + 1 = j + 1
    BY <1>1, <2>1 DEF Distinct
  <2> QED BY <2>2
<1>9. Elems(t) = Elems(s) \ {Head(s)}
  BY <1>1, <1>6, <1>7
<1> QED BY <1>1, <1>2, <1>5, <1>8, <1>9 DEF t

\* Both for the queue, whose keys are distinct.
LEMMA KeyJoins ==
  ASSUME NEW q \in Seq(Key), Distinct(q), NEW k \in Key, k \notin Elems(q),
         NEW t, t = Append(q, k)
  PROVE  t \in Seq(Key) /\ Elems(t) = Elems(q) \cup {k} /\ Distinct(t)
<1>1. /\ Append(q, k) \in Seq(Key) /\ Elems(Append(q, k)) = Elems(q) \cup {k}
      /\ Distinct(Append(q, k))
  BY JoinElems, ZenonT(60)
<1> QED BY <1>1, Zenon

LEMMA KeyLeaves ==
  ASSUME NEW q \in Seq(Key), q # <<>>, Distinct(q), NEW t, t = Tail(q)
  PROVE  /\ t \in Seq(Key)
         /\ Head(q) \in Key /\ Head(q) \in Elems(q)
         /\ Elems(t) = Elems(q) \ {Head(q)}
         /\ Distinct(t)
BY TailElems, Zenon

\* And for the new tasks.
LEMMA TaskJoins ==
  ASSUME NEW q \in Seq(Update), Distinct(q), NEW u \in Update, u \notin Elems(q),
         NEW t, t = Append(q, u)
  PROVE  t \in Seq(Update) /\ Elems(t) = Elems(q) \cup {u} /\ Distinct(t)
<1>1. /\ Append(q, u) \in Seq(Update) /\ Elems(Append(q, u)) = Elems(q) \cup {u}
      /\ Distinct(Append(q, u))
  BY JoinElems, ZenonT(60)
<1> QED BY <1>1, Zenon

LEMMA TaskLeaves ==
  ASSUME NEW q \in Seq(Update), q # <<>>, Distinct(q), NEW t, t = Tail(q)
  PROVE  /\ t \in Seq(Update)
         /\ Head(q) \in Update /\ Head(q) \in Elems(q)
         /\ Elems(t) = Elems(q) \ {Head(q)}
         /\ Distinct(t)
BY TailElems, Zenon

\* QueueMatches says that the list has the queued keys, each once.
LEMMA QueueMatchesElems ==
  QueueMatches <=> Distinct(queueList) /\ \A k \in Key : Queued(k) <=> k \in Elems(queueList)
BY DEF QueueMatches, Distinct, Elems
-----------------------------------------------------------------------------
(* The steps.                                                               *)

\* An update whose caller is not waiting yet enters the queue.
LEMMA EnqueueKeepsInv ==
  ASSUME MLInv, NEW u \in Update, Enqueue(u),
         caller[u] \in {"unborn", "starting", "backoff"},
         caller' = [caller EXCEPT ![u] = "waiting"],
         attempt' \in [Update -> 0..MaxRetries],
         \A v \in Update : attempt'[v] = attempt[v] \/ v = u,
         attempt[u] <= attempt'[u], sends[u] <= attempt'[u],
         UNCHANGED <<work, history>>
  PROVE  /\ queueList' \in Seq(Key) /\ queueMap' \in [Key -> Entry]
         /\ QueueMatches' /\ EntriesOwned' /\ JobOwned' /\ BackoffBounded'
         /\ NoFutureLost' /\ SendsBounded'
<1> DEFINE k == KeyOf[u]
<1>1. /\ k \in Key /\ KeyOf \in [Update -> Key] /\ NoUpdate \notin Update
      /\ queueList \in Seq(Key) /\ queueMap \in [Key -> Entry]
      /\ caller \in [Update -> CallerStates] /\ attempt \in [Update -> 0..MaxRetries]
      /\ sends \in [Update -> Nat] /\ job \in Entry
  BY MessageLimiterAssumption DEF MessageLimiterAssumption, MLInv, LimiterTypeOK
<1>2. /\ queueMap' = [queueMap EXCEPT ![k] = [func |-> u, futures |-> queueMap[k].futures \cup {u}]]
      /\ queueList' = IF Queued(k) THEN queueList ELSE Append(queueList, k)
  BY DEF Enqueue
<1>3. UNCHANGED <<worker, job, paused, shutdown, shown, sends>>
  BY DEF work, history
<1>18. KeyOf[u] = k
  OBVIOUS
<1> HIDE DEF k
<1>4. [func |-> u, futures |-> queueMap[k].futures \cup {u}] \in Entry
  BY <1>1 DEF Entry
<1>5. queueMap' \in [Key -> Entry]
  BY <1>1, <1>2, <1>4
<1>6. /\ queueMap'[k].func = u /\ queueMap'[k].futures = queueMap[k].futures \cup {u}
      /\ \A l \in Key : l # k => queueMap'[l] = queueMap[l]
  BY <1>1, <1>2
<1>7. queueMap'[k] # NoEntry
  BY <1>1, <1>6 DEF NoEntry
<1>8. \A l \in Key : Queued(l)' <=> Queued(l) \/ l = k
  BY <1>6, <1>7 DEF Queued
<1>9. queueList' \in Seq(Key) /\ QueueMatches'
  <2>1. Distinct(queueList) /\ \A l \in Key : Queued(l) <=> l \in Elems(queueList)
    BY QueueMatchesElems DEF MLInv
  <2>2. CASE Queued(k)
    <3>1. queueList' = queueList /\ \A l \in Key : Queued(l)' <=> Queued(l)
      BY <1>2, <1>8, <2>2
    <3> QED BY <1>1, <2>1, <3>1 DEF QueueMatches, Distinct, Elems
  <2>3. CASE ~Queued(k)
    <3>1. queueList' = Append(queueList, k) /\ k \notin Elems(queueList)
      BY <1>1, <1>2, <2>1, <2>3
    <3>2. /\ queueList' \in Seq(Key) /\ Distinct(queueList')
          /\ Elems(queueList') = Elems(queueList) \cup {k}
      BY <1>1, <2>1, <3>1, KeyJoins
    <3>3. \A l \in Key : Queued(l)' <=> l \in Elems(queueList')
      BY <1>8, <2>1, <3>2
    <3> QED BY <3>2, <3>3 DEF QueueMatches, Distinct, Elems
  <2> QED BY <2>2, <2>3
<1>10. \A v \in Update : caller'[v] = IF v = u THEN "waiting" ELSE caller[v]
  BY <1>1
<1>11. \A l \in Key : queueMap[l].futures \subseteq Update /\ u \notin queueMap[l].futures
  BY <1>1 DEF MLInv, EntriesOwned, Entry
<1>12. job.futures \subseteq Update /\ u \notin job.futures
  BY <1>1 DEF MLInv, JobOwned, Entry
<1>13. EntriesOwned'
  <2> SUFFICES ASSUME NEW l \in Key
               PROVE  /\ Queued(l)' => queueMap'[l].func \in queueMap'[l].futures
                      /\ \A v \in queueMap'[l].futures :
                           KeyOf[v] = l /\ caller'[v] \in {"waiting", "cancelled"}
    BY DEF EntriesOwned
  <2>1. CASE l = k
    BY <1>1, <1>6, <1>10, <1>11, <1>18, <2>1 DEF MLInv, EntriesOwned
  <2>2. CASE l # k
    BY <1>1, <1>6, <1>8, <1>10, <1>11, <2>2 DEF MLInv, EntriesOwned
  <2> QED BY <2>1, <2>2
<1>14. JobOwned'
  <2>1. ASSUME NEW v \in job.futures PROVE v \notin queueMap'[KeyOf[v]].futures
    <3>1. v \in Update /\ v # u /\ KeyOf[v] \in Key /\ v \notin queueMap[KeyOf[v]].futures
      BY <1>1, <1>12 DEF MLInv, JobOwned
    <3> QED BY <1>6, <3>1
  <2> QED BY <1>3, <1>10, <1>12, <2>1 DEF MLInv, JobOwned
<1>15. BackoffBounded'
  BY <1>10 DEF MLInv, BackoffBounded
<1>16. NoFutureLost'
  <2> SUFFICES ASSUME NEW v \in Update, caller'[v] = "waiting"
               PROVE  v \in queueMap'[KeyOf[v]].futures \/ v \in job.futures \/ shutdown
    BY <1>3 DEF NoFutureLost
  <2>1. CASE v = u
    BY <1>6, <1>18, <2>1
  <2>2. CASE v # u
    BY <1>1, <1>6, <1>10, <2>2 DEF MLInv, NoFutureLost
  <2> QED BY <2>1, <2>2
<1>17. SendsBounded'
  <2> SUFFICES ASSUME NEW v \in Update
               PROVE  sends[v] <= attempt'[v] + 1 /\ (Unsent(v)' => sends[v] <= attempt'[v])
    BY <1>3 DEF SendsBounded
  <2>1. CASE v = u
    <3>1. sends[v] \in Nat /\ attempt'[v] \in Nat
      BY <1>1, MessageLimiterAssumption DEF MessageLimiterAssumption
    <3> QED BY <2>1, <3>1
  <2>2. CASE v # u
    <3>1. attempt'[v] = attempt[v] /\ (Unsent(v)' => Unsent(v))
      BY <1>1, <1>3, <1>6, <1>10, <2>2 DEF Unsent
    <3> QED BY <3>1 DEF MLInv, SendsBounded
  <2> QED BY <2>1, <2>2
<1> QED BY <1>5, <1>9, <1>13, <1>14, <1>15, <1>16, <1>17

\* The facts about types the steps below need.
LEMMA Types ==
  ASSUME LimiterTypeOK
  PROVE  /\ KeyOf \in [Update -> Key] /\ NoUpdate \notin Update /\ MaxRetries \in Nat /\ N \in Nat
         /\ issued \in 0..N /\ starting \in Seq(Update)
         /\ caller \in [Update -> CallerStates] /\ attempt \in [Update -> 0..MaxRetries]
         /\ queueList \in Seq(Key) /\ queueMap \in [Key -> Entry]
         /\ worker \in WorkerStates /\ job \in Entry
         /\ paused \in BOOLEAN /\ shutdown \in BOOLEAN
         /\ shown \in [Key -> 0..N] /\ sends \in [Update -> Nat]
BY MessageLimiterAssumption DEF MessageLimiterAssumption, LimiterTypeOK

LEMMA IssueKeepsInv == MLInv /\ Issue => MLInv'
<1> SUFFICES ASSUME MLInv, Issue PROVE MLInv'
  OBVIOUS
<1>1. LimiterTypeOK
  BY DEF MLInv
<1>2. PICK u \in Update : u = issued + 1 /\ issued' = u
  BY <1>1, Types DEF Issue, Update
<1>3. /\ issued' \in 0..N /\ u > issued
      /\ \A v \in Update : v > issued' => v > issued /\ v # u
  BY <1>1, <1>2, Types DEF Update
<1>4. caller[u] = "unborn"
  BY <1>3 DEF MLInv, StartingOnce
<1>5. u \notin Elems(starting)
  BY <1>4 DEF MLInv, StartingOnce
<1>6. sends[u] <= attempt[u]
  BY <1>4 DEF MLInv, SendsBounded, Unsent
<1>7. UNCHANGED <<attempt, work, history>>
  BY DEF Issue
<1>8. UNCHANGED <<worker, job, paused, shutdown, shown, sends>>
  BY <1>7 DEF work, history
<1>9. CASE /\ caller' = [caller EXCEPT ![u] = "waiting"]
           /\ Enqueue(u)
           /\ UNCHANGED starting
  <2>1. \A v \in Update : attempt'[v] = attempt[v] \/ v = u
    BY <1>7
  <2>2. attempt' \in [Update -> 0..MaxRetries] /\ attempt[u] <= attempt'[u]
    BY <1>1, <1>7, Types
  <2>3. /\ queueList' \in Seq(Key) /\ queueMap' \in [Key -> Entry]
        /\ QueueMatches' /\ EntriesOwned' /\ JobOwned' /\ BackoffBounded'
        /\ NoFutureLost' /\ SendsBounded'
    BY <1>4, <1>6, <1>7, <1>9, <2>1, <2>2, EnqueueKeepsInv
  <2>4. LimiterTypeOK'
    BY <1>1, <1>3, <1>8, <1>9, <2>2, <2>3, Types DEF LimiterTypeOK, CallerStates
  <2>5. StartingOnce'
    BY <1>1, <1>3, <1>5, <1>9, Types DEF MLInv, StartingOnce
  <2> QED BY <2>3, <2>4, <2>5 DEF MLInv
<1>10. CASE /\ caller' = [caller EXCEPT ![u] = "starting"]
            /\ starting' = Append(starting, u)
            /\ UNCHANGED queue
  <2>1. UNCHANGED <<queueList, queueMap>>
    BY <1>10 DEF queue
  <2>2. \A v \in Update : caller'[v] = IF v = u THEN "starting" ELSE caller[v]
    BY <1>1, <1>10, Types
  <2>3. /\ starting' \in Seq(Update) /\ Distinct(starting')
        /\ Elems(starting') = Elems(starting) \cup {u}
    BY <1>1, <1>5, <1>10, Types, TaskJoins DEF MLInv, StartingOnce
  <2>4. Elems(starting) \subseteq Update
    BY <1>1, Types DEF Elems
  <2>5. StartingOnce'
    BY <1>3, <2>2, <2>3, <2>4 DEF MLInv, StartingOnce
  <2>6. LimiterTypeOK'
    BY <1>1, <1>3, <1>7, <1>8, <1>10, <2>1, <2>3, Types DEF LimiterTypeOK, CallerStates
  <2>7. /\ \A k \in Key : queueMap[k].futures \subseteq Update /\ u \notin queueMap[k].futures
        /\ job.futures \subseteq Update /\ u \notin job.futures
    BY <1>1, <1>4, Types DEF MLInv, EntriesOwned, JobOwned, Entry
  <2>8. QueueMatches' /\ EntriesOwned' /\ JobOwned'
    BY <1>8, <2>1, <2>2, <2>7 DEF MLInv, QueueMatches, EntriesOwned, JobOwned, Queued
  <2>9. BackoffBounded' /\ NoFutureLost'
    BY <1>7, <1>8, <2>1, <2>2 DEF MLInv, BackoffBounded, NoFutureLost
  <2>10. SendsBounded'
    BY <1>4, <1>7, <1>8, <2>1, <2>2 DEF MLInv, SendsBounded, Unsent
  <2> QED BY <2>5, <2>6, <2>8, <2>9, <2>10 DEF MLInv
<1> QED BY <1>2, <1>9, <1>10 DEF Issue

LEMMA BeginKeepsInv == MLInv /\ Begin => MLInv'
<1> SUFFICES ASSUME MLInv, Begin PROVE MLInv'
  OBVIOUS
<1> DEFINE u == Head(starting)
<1>1. LimiterTypeOK
  BY DEF MLInv
<1>2. /\ starting' \in Seq(Update) /\ Distinct(starting')
      /\ u \in Update /\ u \in Elems(starting)
      /\ Elems(starting') = Elems(starting) \ {u}
  BY <1>1, Types, TaskLeaves DEF Begin, MLInv, StartingOnce
<1>3. /\ caller' = [caller EXCEPT ![u] = "waiting"] /\ Enqueue(u)
      /\ UNCHANGED <<issued, attempt, work, history>>
  BY DEF Begin
<1> HIDE DEF u
<1>4. UNCHANGED <<worker, job, paused, shutdown, shown, sends>>
  BY <1>3 DEF work, history
<1>5. caller[u] = "starting"
  BY <1>2 DEF MLInv, StartingOnce
<1>6. sends[u] <= attempt[u]
  BY <1>2, <1>5 DEF MLInv, SendsBounded, Unsent
<1>7. attempt' \in [Update -> 0..MaxRetries] /\ attempt[u] <= attempt'[u]
  BY <1>1, <1>2, <1>3, Types
<1>8. /\ queueList' \in Seq(Key) /\ queueMap' \in [Key -> Entry]
      /\ QueueMatches' /\ EntriesOwned' /\ JobOwned' /\ BackoffBounded'
      /\ NoFutureLost' /\ SendsBounded'
  BY <1>2, <1>3, <1>5, <1>6, <1>7, EnqueueKeepsInv
<1>9. LimiterTypeOK'
  BY <1>1, <1>2, <1>3, <1>4, <1>7, <1>8, Types DEF LimiterTypeOK, CallerStates
<1>10. StartingOnce'
  <2>1. \A v \in Update : caller'[v] = IF v = u THEN "waiting" ELSE caller[v]
    BY <1>1, <1>2, <1>3, Types
  <2>2. ~ u > issued
    BY <1>2, <1>5 DEF MLInv, StartingOnce
  <2>3. Elems(starting) \subseteq Update
    BY <1>1, Types DEF Elems
  <2> QED BY <1>2, <1>3, <2>1, <2>2, <2>3 DEF MLInv, StartingOnce
<1> QED BY <1>8, <1>9, <1>10 DEF MLInv

LEMMA RetryKeepsInv ==
  ASSUME MLInv, NEW u \in Update, Retry(u) PROVE MLInv'
<1>1. LimiterTypeOK
  BY DEF MLInv
<1>2. /\ caller[u] = "backoff" /\ caller' = [caller EXCEPT ![u] = "waiting"]
      /\ attempt' = [attempt EXCEPT ![u] = attempt[u] + 1]
      /\ Enqueue(u) /\ UNCHANGED <<issued, starting, work, history>>
  BY DEF Retry
<1>3. UNCHANGED <<worker, job, paused, shutdown, shown, sends>>
  BY <1>2 DEF work, history
<1>4. attempt[u] < MaxRetries /\ sends[u] <= attempt[u] + 1
  BY <1>2 DEF MLInv, BackoffBounded, SendsBounded
<1>5. attempt[u] \in Nat /\ attempt[u] + 1 \in 0..MaxRetries
  BY <1>1, <1>4, Types
<1>6. /\ attempt' \in [Update -> 0..MaxRetries] /\ attempt'[u] = attempt[u] + 1
      /\ attempt[u] <= attempt'[u] /\ sends[u] <= attempt'[u]
      /\ \A v \in Update : attempt'[v] = attempt[v] \/ v = u
  BY <1>1, <1>2, <1>4, <1>5, Types
<1>7. /\ queueList' \in Seq(Key) /\ queueMap' \in [Key -> Entry]
      /\ QueueMatches' /\ EntriesOwned' /\ JobOwned' /\ BackoffBounded'
      /\ NoFutureLost' /\ SendsBounded'
  BY <1>2, <1>6, EnqueueKeepsInv
<1>8. LimiterTypeOK'
  BY <1>1, <1>2, <1>3, <1>6, <1>7, Types DEF LimiterTypeOK, CallerStates
<1>9. StartingOnce'
  <2>1. \A v \in Update : caller'[v] = IF v = u THEN "waiting" ELSE caller[v]
    BY <1>1, <1>2, Types
  <2>2. ~ u > issued /\ u \notin Elems(starting)
    BY <1>2 DEF MLInv, StartingOnce
  <2>3. Elems(starting) \subseteq Update
    BY <1>1, Types DEF Elems
  <2> QED BY <1>2, <2>1, <2>2, <2>3 DEF MLInv, StartingOnce
<1> QED BY <1>7, <1>8, <1>9 DEF MLInv

LEMMA CancelCallerKeepsInv ==
  ASSUME MLInv, NEW u \in Update, CancelCaller(u) PROVE MLInv'
<1>1. LimiterTypeOK
  BY DEF MLInv
<1>2. /\ caller[u] = "waiting" /\ caller' = [caller EXCEPT ![u] = "cancelled"]
      /\ UNCHANGED <<issued, starting, attempt, queueList, queueMap, worker, job, paused,
                     shutdown, shown, sends>>
  BY DEF CancelCaller, queue, work, history
<1>3. \A v \in Update : caller'[v] = IF v = u THEN "cancelled" ELSE caller[v]
  BY <1>1, <1>2, Types
<1>4. LimiterTypeOK'
  BY <1>1, <1>2, Types DEF LimiterTypeOK, CallerStates
<1>5. StartingOnce'
  <2>1. ~ u > issued /\ u \notin Elems(starting)
    BY <1>2 DEF MLInv, StartingOnce
  <2>2. Elems(starting) \subseteq Update
    BY <1>1, Types DEF Elems
  <2> QED BY <1>2, <1>3, <2>1, <2>2 DEF MLInv, StartingOnce
<1>6. job.futures \subseteq Update /\ \A k \in Key : queueMap[k].futures \subseteq Update
  BY <1>1, Types DEF Entry
<1>7. QueueMatches' /\ EntriesOwned' /\ JobOwned'
  BY <1>2, <1>3, <1>6 DEF MLInv, QueueMatches, EntriesOwned, JobOwned, Queued
<1>8. BackoffBounded' /\ NoFutureLost' /\ SendsBounded'
  BY <1>2, <1>3 DEF MLInv, BackoffBounded, NoFutureLost, SendsBounded, Unsent
<1> QED BY <1>4, <1>5, <1>7, <1>8 DEF MLInv

LEMMA TakeKeepsInv == MLInv /\ Take => MLInv'
<1> SUFFICES ASSUME MLInv, Take PROVE MLInv'
  OBVIOUS
<1> DEFINE k == Head(queueList)
<1>1. LimiterTypeOK
  BY DEF MLInv
<1>2. Distinct(queueList) /\ \A l \in Key : Queued(l) <=> l \in Elems(queueList)
  BY QueueMatchesElems DEF MLInv
<1>3. /\ queueList' \in Seq(Key) /\ Distinct(queueList')
      /\ k \in Key /\ k \in Elems(queueList)
      /\ Elems(queueList') = Elems(queueList) \ {k}
  BY <1>1, <1>2, Types, KeyLeaves DEF Take
<1>4. /\ worker = "idle" /\ worker' = "holding" /\ job' = queueMap[k]
      /\ queueMap' = [queueMap EXCEPT ![k] = NoEntry]
      /\ UNCHANGED <<issued, starting, caller, attempt, paused, shutdown, shown, sends>>
  BY DEF Take, callers, history
<1> HIDE DEF k
<1>5. /\ queueMap'[k] = NoEntry /\ \A l \in Key : l # k => queueMap'[l] = queueMap[l]
  BY <1>1, <1>3, <1>4, Types
<1>6. Queued(k) /\ \A l \in Key : Queued(l)' <=> Queued(l) /\ l # k
  BY <1>2, <1>3, <1>5 DEF Queued
<1>7. QueueMatches'
  <2>1. \A l \in Key : Queued(l)' <=> l \in Elems(queueList')
    BY <1>2, <1>3, <1>6
  <2> QED BY <1>3, <2>1 DEF QueueMatches, Distinct, Elems
<1>8. NoEntry \in Entry /\ NoEntry.futures = {} /\ NoEntry.func \notin Update
  BY <1>1, Types DEF NoEntry, Entry
<1>9. queueMap' \in [Key -> Entry] /\ job' \in Entry
  BY <1>1, <1>3, <1>4, <1>8, Types
<1>10. LimiterTypeOK'
  BY <1>1, <1>3, <1>4, <1>9, Types DEF LimiterTypeOK, WorkerStates
<1>11. StartingOnce' /\ BackoffBounded'
  BY <1>4 DEF MLInv, StartingOnce, BackoffBounded
<1>12. EntriesOwned'
  BY <1>3, <1>4, <1>5, <1>6, <1>8 DEF MLInv, EntriesOwned
<1>13. job = NoEntry
  BY <1>4 DEF MLInv, JobOwned
<1>14. JobOwned'
  <2>1. job'.func \in job'.futures
    BY <1>3, <1>4, <1>6 DEF MLInv, EntriesOwned
  <2>2. ASSUME NEW u \in job'.futures
        PROVE  caller'[u] \in {"waiting", "cancelled"} /\ u \notin queueMap'[KeyOf[u]].futures
    BY <1>3, <1>4, <1>5, <1>8, <2>2 DEF MLInv, EntriesOwned
  <2> QED BY <1>4, <2>1, <2>2 DEF JobOwned
<1>15. NoFutureLost'
  <2> SUFFICES ASSUME NEW u \in Update, caller[u] = "waiting", ~shutdown
               PROVE  u \in queueMap'[KeyOf[u]].futures \/ u \in job'.futures
    BY <1>4 DEF NoFutureLost
  <2>1. u \in queueMap[KeyOf[u]].futures
    BY <1>8, <1>13 DEF MLInv, NoFutureLost
  <2>2. KeyOf[u] \in Key
    BY <1>1, Types
  <2> QED BY <1>4, <1>5, <2>1, <2>2
<1>16. SendsBounded'
  <2>1. ASSUME NEW u \in Update, Unsent(u)' PROVE Unsent(u)
    <3>1. KeyOf[u] \in Key
      BY <1>1, Types
    <3>2. CASE queueMap'[KeyOf[u]].func = u
      <4>1. u \notin {NoEntry.func}
        BY <1>8
      <4>2. queueMap'[KeyOf[u]] = queueMap[KeyOf[u]]
        BY <1>5, <3>1, <3>2, <4>1
      <4> QED BY <3>2, <4>2 DEF Unsent
    <3>3. CASE job'.func = u
      <4>1. u \in queueMap[k].futures
        BY <1>3, <1>4, <1>6, <3>3 DEF MLInv, EntriesOwned
      <4>2. KeyOf[u] = k
        BY <1>3, <4>1 DEF MLInv, EntriesOwned
      <4> QED BY <1>4, <3>3, <4>2 DEF Unsent
    <3> QED BY <1>4, <2>1, <3>2, <3>3 DEF Unsent
  <2> QED BY <1>4, <2>1 DEF MLInv, SendsBounded
<1> QED BY <1>7, <1>10, <1>11, <1>12, <1>14, <1>15, <1>16 DEF MLInv

LEMMA StartSendKeepsInv == MLInv /\ StartSend => MLInv'
<1> SUFFICES ASSUME MLInv, StartSend PROVE MLInv'
  OBVIOUS
<1>1. LimiterTypeOK
  BY DEF MLInv
<1>0. PICK u : u = job.func
  OBVIOUS
<1>2. /\ worker = "holding" /\ worker' = "sending"
      /\ sends' = [sends EXCEPT ![u] = sends[u] + 1]
      /\ UNCHANGED <<issued, starting, caller, attempt, queueList, queueMap, job, paused,
                     shutdown, shown>>
  BY <1>0 DEF StartSend, callers, queue
<1>3. u \in job.futures /\ u \in Update
  BY <1>0, <1>1, <1>2, Types DEF MLInv, JobOwned, Entry
<1>4. Unsent(u)
  BY <1>0, <1>2 DEF Unsent
<1>5. KeyOf[u] \in Key /\ caller[u] \in {"waiting", "cancelled"} /\ queueMap[KeyOf[u]].func # u
  <2>1. KeyOf[u] \in Key /\ NoEntry.func \notin Update
    BY <1>1, <1>3, Types DEF NoEntry
  <2>2. caller[u] \in {"waiting", "cancelled"} /\ u \notin queueMap[KeyOf[u]].futures
    BY <1>3 DEF MLInv, JobOwned
  <2>3. Queued(KeyOf[u]) => queueMap[KeyOf[u]].func # u
    BY <2>1, <2>2 DEF MLInv, EntriesOwned
  <2> QED BY <1>3, <2>1, <2>2, <2>3 DEF Queued
<1>6. /\ sends' \in [Update -> Nat] /\ sends'[u] = sends[u] + 1
      /\ \A v \in Update : v # u => sends'[v] = sends[v]
  BY <1>1, <1>2, <1>3, Types
<1>7. LimiterTypeOK'
  BY <1>1, <1>2, <1>6, Types DEF LimiterTypeOK, WorkerStates
<1>8. StartingOnce' /\ QueueMatches' /\ EntriesOwned' /\ JobOwned' /\ BackoffBounded' /\ NoFutureLost'
  BY <1>2 DEF MLInv, StartingOnce, QueueMatches, EntriesOwned, JobOwned, BackoffBounded,
              NoFutureLost, Queued
<1>9. SendsBounded'
  <2> SUFFICES ASSUME NEW v \in Update
               PROVE  sends'[v] <= attempt[v] + 1 /\ (Unsent(v)' => sends'[v] <= attempt[v])
    BY <1>2 DEF SendsBounded
  <2>1. CASE v = u
    <3>1. sends[u] \in Nat /\ attempt[u] \in Nat /\ sends[u] <= attempt[u]
      BY <1>1, <1>3, <1>4, Types DEF MLInv, SendsBounded
    <3>2. ~Unsent(u)'
      BY <1>2, <1>5 DEF Unsent
    <3> QED BY <1>6, <2>1, <3>1, <3>2
  <2>2. CASE v # u
    <3>1. Unsent(v)' => Unsent(v)
      BY <1>0, <1>2 DEF Unsent
    <3> QED BY <1>6, <2>2, <3>1 DEF MLInv, SendsBounded
  <2> QED BY <2>1, <2>2
<1> QED BY <1>7, <1>8, <1>9 DEF MLInv

\* An outcome answers every future of the job; who is to retry has an attempt
\* left.
LEMMA ResolveKeepsInv ==
  ASSUME MLInv, NEW after \in [Update -> CallerStates], Resolve(after),
         \A u \in Update : after[u] \in {"done", "failed", "backoff"},
         \A u \in Update : after[u] = "backoff" => attempt[u] < MaxRetries,
         paused' \in BOOLEAN, shown' \in [Key -> 0..N]
  PROVE  MLInv'
<1>1. LimiterTypeOK
  BY DEF MLInv
<1>2. /\ worker = "sending" /\ worker' = "idle" /\ job' = NoEntry
      /\ caller' = [u \in Update |-> IF u \in job.futures /\ caller[u] = "waiting"
                                     THEN after[u] ELSE caller[u]]
      /\ UNCHANGED <<issued, starting, attempt, queueList, queueMap, shutdown, sends>>
  BY DEF Resolve, queue
<1>3. /\ caller' \in [Update -> CallerStates]
      /\ \A u \in Update : caller'[u] = IF u \in job.futures /\ caller[u] = "waiting"
                                         THEN after[u] ELSE caller[u]
  BY <1>1, <1>2, Types
<1>4. NoEntry \in Entry /\ NoEntry.futures = {} /\ NoEntry.func \notin Update
  BY <1>1, Types DEF NoEntry, Entry
<1>5. LimiterTypeOK'
  BY <1>1, <1>2, <1>3, <1>4, Types DEF LimiterTypeOK, WorkerStates
<1>6. Elems(starting) \subseteq Update
  BY <1>1, Types DEF Elems
<1>7. StartingOnce'
  BY <1>2, <1>3, <1>6 DEF MLInv, StartingOnce
<1>8. QueueMatches'
  BY <1>2 DEF MLInv, QueueMatches, Queued
<1>9. EntriesOwned'
  <2> SUFFICES ASSUME NEW k \in Key
               PROVE  /\ Queued(k) => queueMap[k].func \in queueMap[k].futures
                      /\ \A u \in queueMap[k].futures :
                           KeyOf[u] = k /\ caller'[u] \in {"waiting", "cancelled"}
    BY <1>2 DEF EntriesOwned, Queued
  <2>1. \A u \in queueMap[k].futures : u \in Update /\ KeyOf[u] = k /\ u \notin job.futures
    BY <1>1, Types DEF MLInv, EntriesOwned, JobOwned, Entry
  <2> QED BY <1>3, <2>1 DEF MLInv, EntriesOwned
<1>10. JobOwned'
  BY <1>2, <1>4 DEF JobOwned
<1>11. BackoffBounded'
  BY <1>2, <1>3 DEF MLInv, BackoffBounded
<1>12. NoFutureLost'
  BY <1>2, <1>3 DEF MLInv, NoFutureLost
<1>13. SendsBounded'
  <2>1. ASSUME NEW u \in Update, Unsent(u)' PROVE Unsent(u)
    BY <1>2, <1>3, <2>1 DEF Unsent
  <2> QED BY <1>2, <2>1 DEF MLInv, SendsBounded
<1> QED BY <1>5, <1>7, <1>8, <1>9, <1>10, <1>11, <1>12, <1>13 DEF MLInv

LEMMA SendKeepsInv ==
  ASSUME MLInv,
         SendSucceeds \/ \E flood, transient \in BOOLEAN : SendFails(flood, transient)
  PROVE  MLInv'
<1>1. LimiterTypeOK
  BY DEF MLInv
<1>2. CASE SendSucceeds
  <2> DEFINE after == [u \in Update |-> "done"]
  <2>1. Resolve(after) /\ paused' = paused
        /\ shown' = [shown EXCEPT ![KeyOf[job.func]] = job.func]
    BY <1>2 DEF SendSucceeds
  <2>2. job.func \in Update
    BY <1>1, <2>1, Types DEF Resolve, MLInv, JobOwned, Entry
  <2>3. shown' \in [Key -> 0..N]
    BY <1>1, <2>1, <2>2, Types DEF Update
  <2>4. /\ after \in [Update -> CallerStates]
        /\ \A u \in Update : after[u] \in {"done", "failed", "backoff"}
        /\ \A u \in Update : after[u] = "backoff" => attempt[u] < MaxRetries
    BY DEF CallerStates
  <2>5. paused' \in BOOLEAN
    BY <1>1, <2>1, Types
  <2> HIDE DEF after
  <2> QED BY <2>1, <2>3, <2>4, <2>5, ResolveKeepsInv
<1>3. ASSUME NEW flood \in BOOLEAN, NEW transient \in BOOLEAN, SendFails(flood, transient)
      PROVE  MLInv'
  <2> DEFINE after == [u \in Update |-> AfterError(u, transient)]
  <2>1. Resolve(after) /\ paused' = (paused \/ flood) /\ shown' = shown
    BY <1>3 DEF SendFails
  <2>2. \A u \in Update : \/ after[u] = "failed"
                          \/ after[u] = "backoff" /\ attempt[u] < MaxRetries
    BY DEF AfterError
  <2>3. after \in [Update -> CallerStates]
    BY DEF AfterError, CallerStates
  <2>4. paused' \in BOOLEAN /\ shown' \in [Key -> 0..N]
    BY <1>1, <2>1, Types
  <2> HIDE DEF after
  <2> QED BY <2>1, <2>2, <2>3, <2>4, ResolveKeepsInv
<1> QED BY <1>2, <1>3

LEMMA PauseEndsKeepsInv == MLInv /\ PauseEnds => MLInv'
<1> SUFFICES ASSUME MLInv, PauseEnds PROVE MLInv'
  OBVIOUS
<1>1. /\ paused' = FALSE
      /\ UNCHANGED <<issued, starting, caller, attempt, queueList, queueMap, worker, job,
                     shutdown, shown, sends>>
  BY DEF PauseEnds, callers, queue, history
<1>2. LimiterTypeOK'
  <2>1. LimiterTypeOK
    BY DEF MLInv
  <2> QED BY <1>1, <2>1 DEF LimiterTypeOK
<1>3. /\ StartingOnce' /\ QueueMatches' /\ EntriesOwned' /\ JobOwned' /\ BackoffBounded'
      /\ NoFutureLost' /\ SendsBounded'
  BY <1>1 DEF MLInv, StartingOnce, QueueMatches, EntriesOwned, JobOwned, BackoffBounded,
              NoFutureLost, SendsBounded, Unsent, Queued
<1> QED BY <1>2, <1>3 DEF MLInv

LEMMA ShutdownKeepsInv == MLInv /\ Shutdown => MLInv'
<1> SUFFICES ASSUME MLInv, Shutdown PROVE MLInv'
  OBVIOUS
<1>1. LimiterTypeOK
  BY DEF MLInv
<1>2. /\ shutdown' = TRUE /\ worker' = "over" /\ job' = NoEntry
      /\ UNCHANGED <<issued, starting, caller, attempt, queueList, queueMap, paused, shown, sends>>
  BY DEF Shutdown, callers, queue, history
<1>3. NoEntry \in Entry /\ NoEntry.futures = {}
  BY DEF NoEntry, Entry
<1>4. LimiterTypeOK'
  BY <1>1, <1>2, <1>3, Types DEF LimiterTypeOK, WorkerStates
<1>5. /\ StartingOnce' /\ QueueMatches' /\ EntriesOwned' /\ JobOwned' /\ BackoffBounded'
      /\ NoFutureLost' /\ SendsBounded'
  BY <1>2, <1>3 DEF MLInv, StartingOnce, QueueMatches, EntriesOwned, JobOwned, BackoffBounded,
                    NoFutureLost, SendsBounded, Unsent, Queued
<1> QED BY <1>4, <1>5 DEF MLInv

LEMMA NextKeepsInv == MLInv /\ [Next]_vars => MLInv'
<1> SUFFICES ASSUME MLInv, [Next]_vars PROVE MLInv'
  OBVIOUS
<1>1. CASE Issue
  BY <1>1, IssueKeepsInv
<1>2. CASE Begin
  BY <1>2, BeginKeepsInv
<1>3. ASSUME NEW u \in Update, Retry(u) \/ CancelCaller(u) PROVE MLInv'
  BY <1>3, RetryKeepsInv, CancelCallerKeepsInv
<1>4. CASE Take
  BY <1>4, TakeKeepsInv
<1>5. CASE PauseEnds
  BY <1>5, PauseEndsKeepsInv
<1>6. CASE StartSend
  BY <1>6, StartSendKeepsInv
<1>7. CASE SendSucceeds \/ \E flood, transient \in BOOLEAN : SendFails(flood, transient)
  BY <1>7, SendKeepsInv
<1>8. CASE Shutdown
  BY <1>8, ShutdownKeepsInv
<1>9. CASE UNCHANGED vars
  BY <1>9 DEF vars, callers, queue, work, history, MLInv, LimiterTypeOK, StartingOnce,
              QueueMatches, EntriesOwned, JobOwned, BackoffBounded, NoFutureLost, SendsBounded,
              Unsent, Queued
<1> QED BY <1>1, <1>2, <1>3, <1>4, <1>5, <1>6, <1>7, <1>8, <1>9 DEF Next, Work

\* Callers, queue and worker agree in every reachable state.
THEOREM MLInductive == Spec => []MLInv
<1>1. Init => MLInv
  <2> SUFFICES ASSUME Init PROVE MLInv
    OBVIOUS
  <2>1. N \in Nat /\ MaxRetries \in Nat /\ NoEntry \in Entry /\ NoEntry.futures = {}
    BY MessageLimiterAssumption DEF MessageLimiterAssumption, NoEntry, Entry
  <2>2. LimiterTypeOK
    <3>1. issued \in 0..N /\ paused \in BOOLEAN /\ shutdown \in BOOLEAN
      <4>1. issued = 0 /\ paused = FALSE /\ shutdown = FALSE
        BY DEF Init
      <4>2. issued \in 0..N
        BY <2>1, <4>1
      <4> QED BY <4>1, <4>2
    <3>2. starting \in Seq(Update) /\ queueList \in Seq(Key)
      <4>1. starting = <<>> /\ queueList = <<>>
        BY DEF Init
      <4>2. <<>> \in Seq(Update) /\ <<>> \in Seq(Key)
        OBVIOUS
      <4> QED BY <4>1, <4>2, Zenon
    <3>3. caller \in [Update -> CallerStates] /\ worker \in WorkerStates
      BY DEF Init, CallerStates, WorkerStates
    <3>4. attempt \in [Update -> 0..MaxRetries] /\ sends \in [Update -> Nat]
      BY <2>1 DEF Init
    <3>5. shown \in [Key -> 0..N]
      BY <2>1 DEF Init
    <3>6. queueMap \in [Key -> Entry] /\ job \in Entry
      BY <2>1 DEF Init
    <3> QED BY <3>1, <3>2, <3>3, <3>4, <3>5, <3>6 DEF LimiterTypeOK
  <2>3. StartingOnce
    <3>1. starting = <<>> /\ \A u \in Update : caller[u] = "unborn"
      BY DEF Init
    <3>2. \A i \in DOMAIN starting : FALSE
      BY <3>1
    <3> QED BY <3>1, <3>2 DEF StartingOnce, Elems, Distinct
  <2>4. QueueMatches
    <3>1. queueList = <<>> /\ \A k \in Key : ~Queued(k)
      BY DEF Init, Queued
    <3>2. \A i \in DOMAIN queueList : FALSE
      BY <3>1
    <3> QED BY <3>1, <3>2 DEF QueueMatches
  <2>6. EntriesOwned /\ JobOwned
    <3>1. /\ \A k \in Key : ~Queued(k) /\ queueMap[k].futures = {}
          /\ worker = "idle" /\ job = NoEntry /\ job.futures = {}
      BY <2>1 DEF Init, Queued
    <3> QED BY <3>1 DEF EntriesOwned, JobOwned
  <2>5. BackoffBounded /\ NoFutureLost /\ SendsBounded
    BY <2>1 DEF Init, BackoffBounded, NoFutureLost, SendsBounded
  <2> QED BY <2>2, <2>3, <2>4, <2>5, <2>6 DEF MLInv
<1> QED BY <1>1, NextKeepsInv, PTL DEF Spec

\* Every variable of the limiter has its type.
THEOREM MessagesTypeCorrect == Spec => []LimiterTypeOK
<1>1. MLInv => LimiterTypeOK
  BY DEF MLInv
<1> QED BY <1>1, MLInductive, PTL

\* The queue's list and map hold the same keys, each once.
THEOREM QueueSound == Spec => []QueueMatches
<1>1. MLInv => QueueMatches
  BY DEF MLInv
<1> QED BY <1>1, MLInductive, PTL

\* Nobody waits for a future that nobody holds, but after a shutdown.
THEOREM FuturesKept == Spec => []NoFutureLost
<1>1. MLInv => NoFutureLost
  BY DEF MLInv
<1> QED BY <1>1, MLInductive, PTL

\* An update goes out at most once per attempt.
THEOREM SendsOncePerAttempt == Spec => []SentOncePerAttempt
<1>1. MLInv => SentOncePerAttempt
  BY DEF MLInv, SendsBounded, SentOncePerAttempt
<1> QED BY <1>1, MLInductive, PTL
-----------------------------------------------------------------------------
(* Order.                                                                   *)

\* The update's caller has come to the queue.
Begun(u) == caller[u] \notin {"unborn", "starting"}

\* New tasks run in the order they were created, after all that have run.
Sorted(s) == \A i, j \in DOMAIN s : i < j => s[i] < s[j]

BegunInOrder ==
  \A u \in Update \ Awaited : Begun(u) => \A v \in Elems(starting) : u < v

\* What waits in the queue is the newest that came to it, ...
QueuedNewest ==
  \A k \in Key : Queued(k) =>
    \A v \in Update : Begun(v) /\ KeyOf[v] = k => UpToDate(v, queueMap[k].func)

\* ... what the worker has taken is no older than all it stands for, nor than
\* what its message shows, ...
JobNewest ==
  worker \in {"holding", "sending"} =>
    /\ \A v \in job.futures : KeyOf[v] = KeyOf[job.func] /\ UpToDate(v, job.func)
    /\ shown[KeyOf[job.func]] > 0 => UpToDate(shown[KeyOf[job.func]], job.func)

\* ... and that came to the queue.
ShownBegun == \A k \in Key : shown[k] > 0 => Begun(shown[k]) /\ KeyOf[shown[k]] = k

OrderInv == Sorted(starting) /\ BegunInOrder /\ QueuedNewest /\ JobNewest /\ ShownBegun

\* A larger number joins a sorted sequence.
LEMMA SortedJoin ==
  ASSUME NEW S, NEW s \in Seq(S), Sorted(s), NEW x \in S, \A y \in Elems(s) : y < x
  PROVE  Sorted(Append(s, x))
<1> DEFINE L == Len(s)
           t == Append(s, x)
<1>1. L \in Nat /\ DOMAIN s = 1..L
  OBVIOUS
<1>2. DOMAIN t = 1..(L + 1) /\ t[L + 1] = x /\ \A j \in 1..L : t[j] = s[j]
  BY <1>1
<1> HIDE DEF L, t
<1>3. SUFFICES ASSUME NEW i \in 1..(L + 1), NEW j \in 1..(L + 1), i < j PROVE t[i] < t[j]
  BY <1>2 DEF Sorted, t
<1>4. i \in 1..L /\ (j \in 1..L \/ j = L + 1)
  BY <1>1, <1>3
<1>5. t[i] = s[i] /\ s[i] \in Elems(s)
  BY <1>1, <1>2, <1>4 DEF Elems
<1>6. CASE j \in 1..L
  BY <1>1, <1>2, <1>3, <1>4, <1>6 DEF Sorted
<1>7. CASE j = L + 1
  BY <1>2, <1>5, <1>7
<1> QED BY <1>4, <1>6, <1>7

\* The first of a sorted sequence is less than those that follow, which are
\* sorted.
LEMMA SortedTail ==
  ASSUME NEW S, NEW s \in Seq(S), Sorted(s), s # <<>>
  PROVE  Sorted(Tail(s)) /\ \A y \in Elems(Tail(s)) : Head(s) < y
<1> DEFINE L == Len(s)
           t == Tail(s)
<1>1. L \in Nat \ {0} /\ DOMAIN s = 1..L /\ Head(s) = s[1]
  OBVIOUS
<1>2. DOMAIN t = 1..(L - 1) /\ \A j \in 1..(L - 1) : t[j] = s[j + 1]
  BY <1>1
<1> HIDE DEF L, t
<1>3. 1 \in 1..L /\ \A j \in 1..(L - 1) : j + 1 \in 1..L /\ 1 < j + 1
  BY <1>1
<1>4. Sorted(t)
  <2> SUFFICES ASSUME NEW i \in 1..(L - 1), NEW j \in 1..(L - 1), i < j PROVE t[i] < t[j]
    BY <1>2 DEF Sorted
  <2>1. i + 1 < j + 1
    OBVIOUS
  <2> QED BY <1>1, <1>2, <1>3, <2>1 DEF Sorted
<1>5. ASSUME NEW y \in Elems(t) PROVE s[1] < y
  <2>1. PICK j \in 1..(L - 1) : y = s[j + 1]
    BY <1>2 DEF Elems
  <2> QED BY <1>1, <1>3, <2>1 DEF Sorted
<1> QED BY <1>1, <1>4, <1>5 DEF t

\* Both for the new tasks.
LEMMA TaskJoinsSorted ==
  ASSUME NEW q \in Seq(Update), Sorted(q), NEW u \in Update, \A v \in Elems(q) : v < u,
         NEW t, t = Append(q, u)
  PROVE  Sorted(t)
BY SortedJoin, Zenon

LEMMA TaskLeavesSorted ==
  ASSUME NEW q \in Seq(Update), Sorted(q), q # <<>>, NEW t, t = Tail(q)
  PROVE  Sorted(t) /\ \A v \in Elems(t) : Head(q) < v
BY SortedTail, Zenon

\* Attempts only grow, so that a version that is up to date stays so.
AttemptsGrow == \A v \in Update : attempt[v] > 0 => attempt'[v] > 0

\* An update that enters the queue is newer than what came before it, or is
\* excused.
NewestOf(u) ==
  \A v \in Update \ Awaited : Begun(v) /\ v # u => v < u \/ attempt'[u] > 0 \/ u \in Awaited

LEMMA EnqueueKeepsOrder ==
  ASSUME MLInv, QueuedNewest, JobNewest, ShownBegun, AttemptsGrow,
         NEW u \in Update, Enqueue(u), NewestOf(u),
         caller' = [caller EXCEPT ![u] = "waiting"],
         UNCHANGED <<work, history>>
  PROVE  QueuedNewest' /\ JobNewest' /\ ShownBegun'
<1> DEFINE k == KeyOf[u]
<1>1. LimiterTypeOK
  BY DEF MLInv
<1>2. /\ k \in Key
      /\ queueMap' = [queueMap EXCEPT ![k] = [func |-> u, futures |-> queueMap[k].futures \cup {u}]]
  BY <1>1, Types DEF Enqueue
<1>3. UNCHANGED <<worker, job, paused, shutdown, shown, sends>>
  BY DEF work, history
<1>4. KeyOf[u] = k
  OBVIOUS
<1> HIDE DEF k
<1>5. /\ queueMap'[k].func = u
      /\ \A l \in Key : l # k => queueMap'[l] = queueMap[l]
  BY <1>1, <1>2, Types
<1>6. \A v \in Update : Begun(v)' <=> Begun(v) \/ v = u
  BY <1>1, Types DEF Begun
<1>7. Update \subseteq Nat
  BY <1>1, Types DEF Update
<1>8. QueuedNewest'
  <2> SUFFICES ASSUME NEW l \in Key, Queued(l)', NEW v \in Update, Begun(v)', KeyOf[v] = l,
                      NEW w, w = queueMap'[l].func
               PROVE  v <= w \/ attempt'[w] > 0 \/ {v, w} \cap Awaited # {}
    BY DEF QueuedNewest, UpToDate
  <2>1. CASE l = k
    <3>1. CASE v = u
      BY <1>5, <1>7, <2>1, <3>1
    <3>2. CASE v # u
      <4>1. v \in Awaited \/ v < u \/ attempt'[u] > 0 \/ u \in Awaited
        BY <1>6, <3>2 DEF NewestOf
      <4> QED BY <1>5, <1>7, <2>1, <4>1
    <3> QED BY <3>1, <3>2
  <2>2. CASE l # k
    <3>1. Queued(l) /\ queueMap'[l] = queueMap[l]
      BY <1>5, <2>2 DEF Queued
    <3>2. Begun(v)
      BY <1>4, <1>6, <2>2
    <3>3. UpToDate(v, w)
      BY <3>1, <3>2 DEF QueuedNewest
    <3>4. w \in Update
      BY <1>1, <3>1, Types DEF MLInv, EntriesOwned, Entry
    <3> QED BY <1>7, <3>3, <3>4 DEF UpToDate, AttemptsGrow
  <2> QED BY <2>1, <2>2
<1>9. JobNewest'
  <2> SUFFICES ASSUME worker \in {"holding", "sending"}
               PROVE  /\ \A v \in job.futures : KeyOf[v] = KeyOf[job.func] /\ UpToDate(v, job.func)'
                      /\ shown[KeyOf[job.func]] > 0 => UpToDate(shown[KeyOf[job.func]], job.func)'
    BY <1>3 DEF JobNewest, UpToDate
  <2>1. job.func \in Update
    BY <1>1, Types DEF MLInv, JobOwned, Entry
  <2> QED BY <1>3, <2>1 DEF JobNewest, UpToDate, AttemptsGrow
<1>10. ShownBegun'
  <2> SUFFICES ASSUME NEW l \in Key, shown[l] > 0, NEW w, w = shown[l]
               PROVE  caller'[w] \notin {"unborn", "starting"} /\ KeyOf[w] = l
    BY <1>3 DEF ShownBegun, Begun
  <2>1. w \in Update /\ Begun(w) /\ KeyOf[w] = l
    BY <1>1, Types DEF Update, ShownBegun
  <2> QED BY <1>6, <2>1 DEF Begun
<1> QED BY <1>8, <1>9, <1>10

\* The callers and the window change: nothing new is queued, taken or shown.
LEMMA OthersKeepOrder ==
  ASSUME MLInv, QueuedNewest, JobNewest, ShownBegun,
         UNCHANGED <<attempt, queueMap, worker, job, shown>>,
         \A v \in Update : Begun(v)' <=> Begun(v)
  PROVE  QueuedNewest' /\ JobNewest' /\ ShownBegun'
<1>1. LimiterTypeOK
  BY DEF MLInv
<1>2. QueuedNewest' /\ JobNewest'
  BY DEF QueuedNewest, JobNewest, Queued, UpToDate
<1>3. ShownBegun'
  <2> SUFFICES ASSUME NEW l \in Key, shown[l] > 0, NEW w, w = shown[l]
               PROVE  caller'[w] \notin {"unborn", "starting"} /\ KeyOf[w] = l
    BY DEF ShownBegun, Begun
  <2>1. w \in Update /\ Begun(w) /\ KeyOf[w] = l
    BY <1>1, Types DEF Update, ShownBegun
  <2> QED BY <2>1 DEF Begun
<1> QED BY <1>2, <1>3

LEMMA IssueKeepsOrder == MLInv /\ OrderInv /\ Issue => OrderInv'
<1> SUFFICES ASSUME MLInv, OrderInv, Issue PROVE OrderInv'
  OBVIOUS
<1>1. LimiterTypeOK
  BY DEF MLInv
<1>2. PICK u \in Update : u = issued + 1
  BY <1>1, Types DEF Issue, Update
<1>3. UNCHANGED <<attempt, work, history>> /\ UNCHANGED <<worker, job, shown>>
  BY DEF Issue, work, history
<1>4. Elems(starting) \subseteq Update /\ Update \subseteq Nat
  BY <1>1, Types DEF Elems, Update
<1>5. caller[u] = "unborn" /\ \A v \in Update : caller[v] # "unborn" => v < u
  BY <1>1, <1>2, <1>4, Types DEF MLInv, StartingOnce
<1>6. \A v \in Elems(starting) : v < u
  BY <1>4, <1>5 DEF MLInv, StartingOnce
<1>7. AttemptsGrow
  BY <1>3 DEF AttemptsGrow
<1>8. CASE /\ u \in Awaited
           /\ caller' = [caller EXCEPT ![u] = "waiting"]
           /\ Enqueue(u)
           /\ UNCHANGED starting
  <2>1. QueuedNewest' /\ JobNewest' /\ ShownBegun'
    BY <1>3, <1>7, <1>8, EnqueueKeepsOrder DEF NewestOf, OrderInv
  <2>2. \A v \in Update \ Awaited : Begun(v)' => Begun(v)
    BY <1>1, <1>8, Types DEF Begun
  <2>3. BegunInOrder'
    BY <1>8, <2>2 DEF OrderInv, BegunInOrder
  <2> QED BY <1>8, <2>1, <2>3 DEF OrderInv
<1>9. CASE /\ caller' = [caller EXCEPT ![u] = "starting"]
           /\ starting' = Append(starting, u)
           /\ UNCHANGED queue
  <2>1. \A v \in Update : Begun(v)' <=> Begun(v)
    BY <1>1, <1>5, <1>9, Types DEF Begun
  <2>2. QueuedNewest' /\ JobNewest' /\ ShownBegun'
    BY <1>3, <1>9, <2>1, OthersKeepOrder DEF OrderInv, queue
  <2>3. Sorted(starting')
    BY <1>1, <1>6, <1>9, Types, TaskJoinsSorted DEF OrderInv
  <2>4. u \notin Elems(starting)
    BY <1>5 DEF MLInv, StartingOnce
  <2>5. Elems(starting') = Elems(starting) \cup {u}
    BY <1>1, <1>9, <2>4, Types, TaskJoins DEF MLInv, StartingOnce
  <2>6. BegunInOrder'
    <3> SUFFICES ASSUME NEW v \in Update \ Awaited, Begun(v), NEW w \in Elems(starting')
                 PROVE  v < w
      BY <2>1 DEF BegunInOrder
    <3>1. v < u
      BY <1>5 DEF Begun
    <3> QED BY <2>5, <3>1 DEF OrderInv, BegunInOrder
  <2> QED BY <2>2, <2>3, <2>6 DEF OrderInv
<1> QED BY <1>2, <1>8, <1>9 DEF Issue

LEMMA BeginKeepsOrder == MLInv /\ OrderInv /\ Begin => OrderInv'
<1> SUFFICES ASSUME MLInv, OrderInv, Begin PROVE OrderInv'
  OBVIOUS
<1> DEFINE u == Head(starting)
<1>1. LimiterTypeOK
  BY DEF MLInv
<1>2. u \in Update /\ u \in Elems(starting) /\ Elems(starting') = Elems(starting) \ {u}
  BY <1>1, Types, TaskLeaves DEF Begin, MLInv, StartingOnce
<1>3. Sorted(starting') /\ \A v \in Elems(starting') : u < v
  BY <1>1, Types, TaskLeavesSorted DEF Begin, OrderInv
<1>4. /\ caller' = [caller EXCEPT ![u] = "waiting"] /\ Enqueue(u)
      /\ UNCHANGED <<issued, attempt, work, history>>
  BY DEF Begin
<1> HIDE DEF u
<1>5. AttemptsGrow
  BY <1>4 DEF AttemptsGrow
<1>6. NewestOf(u)
  BY <1>2 DEF NewestOf, OrderInv, BegunInOrder
<1>7. QueuedNewest' /\ JobNewest' /\ ShownBegun'
  BY <1>2, <1>4, <1>5, <1>6, EnqueueKeepsOrder DEF OrderInv
<1>8. \A v \in Update : Begun(v)' => Begun(v) \/ v = u
  BY <1>1, <1>4, Types DEF Begun
<1>9. BegunInOrder'
  BY <1>2, <1>3, <1>8 DEF OrderInv, BegunInOrder
<1> QED BY <1>3, <1>7, <1>9 DEF OrderInv

LEMMA RetryKeepsOrder ==
  ASSUME MLInv, OrderInv, NEW u \in Update, Retry(u) PROVE OrderInv'
<1>1. LimiterTypeOK
  BY DEF MLInv
<1>2. /\ caller[u] = "backoff" /\ caller' = [caller EXCEPT ![u] = "waiting"]
      /\ attempt' = [attempt EXCEPT ![u] = attempt[u] + 1]
      /\ Enqueue(u) /\ UNCHANGED starting /\ UNCHANGED <<work, history>>
  BY DEF Retry
<1>3. \A v \in Update : attempt[v] \in Nat /\ attempt'[v] = IF v = u THEN attempt[v] + 1 ELSE attempt[v]
  BY <1>1, <1>2, Types
<1>4. AttemptsGrow /\ NewestOf(u)
  BY <1>3 DEF AttemptsGrow, NewestOf
<1>5. QueuedNewest' /\ JobNewest' /\ ShownBegun'
  BY <1>2, <1>4, EnqueueKeepsOrder DEF OrderInv
<1>6. \A v \in Update : Begun(v)' <=> Begun(v)
  BY <1>1, <1>2, Types DEF Begun
<1>7. Sorted(starting)' /\ BegunInOrder'
  BY <1>2, <1>6 DEF OrderInv, BegunInOrder
<1> QED BY <1>5, <1>7 DEF OrderInv

LEMMA CancelCallerKeepsOrder ==
  ASSUME MLInv, OrderInv, NEW u \in Update, CancelCaller(u) PROVE OrderInv'
<1>1. LimiterTypeOK
  BY DEF MLInv
<1>2. /\ caller[u] = "waiting" /\ caller' = [caller EXCEPT ![u] = "cancelled"]
      /\ UNCHANGED <<starting, attempt, queueMap, worker, job, shown>>
  BY DEF CancelCaller, queue, work, history
<1>3. \A v \in Update : Begun(v)' <=> Begun(v)
  BY <1>1, <1>2, Types DEF Begun
<1>4. QueuedNewest' /\ JobNewest' /\ ShownBegun'
  BY <1>2, <1>3, OthersKeepOrder DEF OrderInv
<1> QED BY <1>2, <1>3, <1>4 DEF OrderInv, BegunInOrder

LEMMA TakeKeepsOrder == MLInv /\ OrderInv /\ Take => OrderInv'
<1> SUFFICES ASSUME MLInv, OrderInv, Take PROVE OrderInv'
  OBVIOUS
<1> DEFINE k == Head(queueList)
<1>1. LimiterTypeOK
  BY DEF MLInv
<1>2. Distinct(queueList) /\ \A l \in Key : Queued(l) <=> l \in Elems(queueList)
  BY QueueMatchesElems DEF MLInv
<1>3. k \in Key /\ k \in Elems(queueList)
  BY <1>1, <1>2, Types, KeyLeaves DEF Take
<1>4. /\ job' = queueMap[k] /\ queueMap' = [queueMap EXCEPT ![k] = NoEntry]
      /\ UNCHANGED <<starting, caller, attempt, shown>>
  BY DEF Take, callers, history
<1> HIDE DEF k
<1>5. Queued(k) /\ queueMap'[k] = NoEntry /\ \A l \in Key : l # k => queueMap'[l] = queueMap[l]
  BY <1>1, <1>2, <1>3, <1>4, Types
<1>6. Sorted(starting)' /\ BegunInOrder' /\ ShownBegun'
  BY <1>4 DEF OrderInv, BegunInOrder, ShownBegun, Begun
<1>7. QueuedNewest'
  BY <1>4, <1>5 DEF OrderInv, QueuedNewest, Queued, Begun, UpToDate
<1>8. JobNewest'
  <2> DEFINE f == queueMap[k].func
  <2>1. f \in queueMap[k].futures /\ queueMap[k].futures \subseteq Update
    BY <1>1, <1>3, <1>5, Types DEF MLInv, EntriesOwned, Entry
  <2>2. \A v \in queueMap[k].futures : KeyOf[v] = k /\ Begun(v)
    BY <1>3 DEF MLInv, EntriesOwned, Begun
  <2>3. \A v \in Update : Begun(v) /\ KeyOf[v] = k => UpToDate(v, f)
    BY <1>3, <1>5 DEF OrderInv, QueuedNewest
  <2> HIDE DEF f
  <2>4. shown[k] > 0 => shown[k] \in Update /\ Begun(shown[k]) /\ KeyOf[shown[k]] = k
    BY <1>1, <1>3, Types DEF OrderInv, ShownBegun, Update
  <2>5. shown[k] > 0 => UpToDate(shown[k], f)
    BY <2>3, <2>4
  <2>6. \A v \in queueMap[k].futures : KeyOf[v] = KeyOf[f] /\ UpToDate(v, f)
    BY <2>1, <2>2, <2>3
  <2>7. KeyOf[f] = k
    BY <2>1, <2>2
  <2> QED BY <1>4, <2>5, <2>6, <2>7 DEF JobNewest, UpToDate, f
<1> QED BY <1>6, <1>7, <1>8 DEF OrderInv

\* The job is done: its callers get an outcome.  Its message shows it, or what
\* it showed.
LEMMA ResolveKeepsOrder ==
  ASSUME MLInv, OrderInv, NEW after \in [Update -> CallerStates], Resolve(after),
         \A u \in Update : after[u] \in {"done", "failed", "backoff"},
         \/ shown' = shown
         \/ shown' = [shown EXCEPT ![KeyOf[job.func]] = job.func]
  PROVE  OrderInv'
<1>1. LimiterTypeOK
  BY DEF MLInv
<1>2. /\ worker = "sending" /\ worker' = "idle"
      /\ caller' = [u \in Update |-> IF u \in job.futures /\ caller[u] = "waiting"
                                     THEN after[u] ELSE caller[u]]
      /\ UNCHANGED <<starting, attempt, queueMap>>
  BY DEF Resolve, queue
<1>3. \A v \in Update : Begun(v)' <=> Begun(v)
  BY <1>2 DEF Begun
<1>4. Sorted(starting)' /\ BegunInOrder'
  BY <1>2, <1>3 DEF OrderInv, BegunInOrder
<1>5. QueuedNewest' /\ JobNewest'
  BY <1>2, <1>3 DEF OrderInv, QueuedNewest, JobNewest, Queued, UpToDate
<1>6. job.func \in Update /\ Begun(job.func) /\ KeyOf[job.func] \in Key
  BY <1>1, <1>2, Types DEF MLInv, JobOwned, Entry, Begun
<1>7. ShownBegun'
  <2> SUFFICES ASSUME NEW l \in Key, shown'[l] > 0, NEW w, w = shown'[l]
               PROVE  caller'[w] \notin {"unborn", "starting"} /\ KeyOf[w] = l
    BY DEF ShownBegun, Begun
  <2>1. w = shown[l] \/ (w = job.func /\ l = KeyOf[job.func])
    <3>1. CASE shown' = shown
      BY <3>1
    <3>2. CASE shown' = [shown EXCEPT ![KeyOf[job.func]] = job.func]
      <4>1. DOMAIN shown = Key
        BY <1>1, Types
      <4>2. shown'[l] = IF l = KeyOf[job.func] THEN job.func ELSE shown[l]
        BY <3>2, <4>1
      <4> QED BY <4>2
    <3> QED BY <3>1, <3>2
  <2>2. w \in Update /\ Begun(w) /\ KeyOf[w] = l
    <3>1. CASE w = shown[l]
      BY <1>1, <3>1, Types DEF Update, OrderInv, ShownBegun
    <3>2. CASE w = job.func /\ l = KeyOf[job.func]
      BY <1>6, <3>2
    <3> QED BY <2>1, <3>1, <3>2
  <2> QED BY <1>3, <2>2 DEF Begun
<1> QED BY <1>4, <1>5, <1>7 DEF OrderInv

LEMMA NextKeepsOrder == MLInv /\ OrderInv /\ [Next]_vars => OrderInv'
<1> SUFFICES ASSUME MLInv, OrderInv, [Next]_vars PROVE OrderInv'
  OBVIOUS
<1>1. CASE Issue
  BY <1>1, IssueKeepsOrder
<1>2. CASE Begin
  BY <1>2, BeginKeepsOrder
<1>3. ASSUME NEW u \in Update, Retry(u) \/ CancelCaller(u) PROVE OrderInv'
  BY <1>3, RetryKeepsOrder, CancelCallerKeepsOrder
<1>4. CASE Take
  BY <1>4, TakeKeepsOrder
<1>5. CASE StartSend
  BY <1>5 DEF StartSend, callers, queue, OrderInv, BegunInOrder, QueuedNewest, JobNewest,
              ShownBegun, Begun, Queued, UpToDate
<1>6. CASE SendSucceeds
  <2> DEFINE after == [u \in Update |-> "done"]
  <2>1. Resolve(after) /\ shown' = [shown EXCEPT ![KeyOf[job.func]] = job.func]
    BY <1>6 DEF SendSucceeds
  <2>2. after \in [Update -> CallerStates] /\ \A u \in Update : after[u] \in {"done", "failed", "backoff"}
    BY DEF CallerStates
  <2> HIDE DEF after
  <2> QED BY <2>1, <2>2, ResolveKeepsOrder
<1>7. ASSUME NEW flood \in BOOLEAN, NEW transient \in BOOLEAN, SendFails(flood, transient)
      PROVE  OrderInv'
  <2> DEFINE after == [u \in Update |-> AfterError(u, transient)]
  <2>1. Resolve(after) /\ shown' = shown
    BY <1>7 DEF SendFails
  <2>2. after \in [Update -> CallerStates] /\ \A u \in Update : after[u] \in {"done", "failed", "backoff"}
    BY DEF AfterError, CallerStates
  <2> HIDE DEF after
  <2> QED BY <2>1, <2>2, ResolveKeepsOrder
<1>8. CASE PauseEnds \/ UNCHANGED vars
  BY <1>8 DEF PauseEnds, vars, callers, queue, work, history, OrderInv, BegunInOrder, QueuedNewest,
              JobNewest, ShownBegun, Begun, Queued, UpToDate
<1>9. CASE Shutdown
  BY <1>9 DEF Shutdown, callers, queue, history, OrderInv, BegunInOrder, QueuedNewest,
              JobNewest, ShownBegun, Begun, Queued, UpToDate
<1> QED BY <1>1, <1>2, <1>3, <1>4, <1>5, <1>6, <1>7, <1>8, <1>9 DEF Next, Work

\* In every reachable state, what is queued, taken and shown comes in the order
\* in which the callers came to the queue.
THEOREM OrderInductive == Spec => []OrderInv
<1>1. Init => OrderInv
  <2> SUFFICES ASSUME Init PROVE OrderInv
    OBVIOUS
  <2>1. /\ starting = <<>> /\ worker = "idle" /\ \A u \in Update : caller[u] = "unborn"
        /\ \A k \in Key : ~Queued(k) /\ ~(shown[k] > 0)
    BY DEF Init, Queued
  <2>2. \A i \in DOMAIN starting : FALSE
    BY <2>1
  <2>3. Sorted(starting)
    BY <2>2 DEF Sorted
  <2>4. BegunInOrder
    BY <2>2 DEF BegunInOrder, Elems
  <2>5. QueuedNewest /\ JobNewest /\ ShownBegun
    BY <2>1 DEF QueuedNewest, JobNewest, ShownBegun
  <2> QED BY <2>3, <2>4, <2>5 DEF OrderInv
<1> QED BY <1>1, NextKeepsOrder, MLInductive, PTL DEF Spec

\* The steps that change what a reader sees, or answer a caller with a result.
OrderedStep ==
  /\ \A k \in Key : shown[k] > 0 => UpToDate(shown[k], shown'[k])
  /\ \A u \in Update : caller[u] = "waiting" /\ caller'[u] = "done" =>
       UpToDate(u, shown'[KeyOf[u]])

LEMMA NextIsOrdered == MLInv /\ OrderInv /\ Next => OrderedStep
<1> SUFFICES ASSUME MLInv, OrderInv, Next PROVE OrderedStep
  OBVIOUS
<1>1. LimiterTypeOK
  BY DEF MLInv
<1>2. \A k \in Key : shown[k] \in Nat
  BY <1>1, Types
<1>3. ASSUME shown' = shown, \A u \in Update : caller'[u] = "done" => caller[u] = "done"
      PROVE  OrderedStep
  BY <1>2, <1>3 DEF OrderedStep, UpToDate
<1>4. CASE SendSucceeds
  <2> DEFINE f == job.func
  <2>1. /\ worker = "sending" /\ shown' = [shown EXCEPT ![KeyOf[f]] = f]
        /\ \A u \in Update : caller[u] = "waiting" /\ caller'[u] = "done" => u \in job.futures
    BY <1>4 DEF SendSucceeds, Resolve
  <2>2. /\ f \in Update /\ KeyOf[f] \in Key
        /\ \A u \in job.futures : KeyOf[u] = KeyOf[f] /\ UpToDate(u, f)
        /\ shown[KeyOf[f]] > 0 => UpToDate(shown[KeyOf[f]], f)
    BY <1>1, <2>1, Types DEF MLInv, JobOwned, Entry, OrderInv, JobNewest
  <2> HIDE DEF f
  <2>3. shown'[KeyOf[f]] = f /\ \A k \in Key : k # KeyOf[f] => shown'[k] = shown[k]
    BY <1>1, <2>1, <2>2, Types
  <2>4. \A k \in Key : k # KeyOf[f] => UpToDate(shown[k], shown'[k])
    BY <1>2, <2>3 DEF UpToDate
  <2>5. \A k \in Key : shown[k] > 0 => UpToDate(shown[k], shown'[k])
    BY <2>2, <2>3, <2>4
  <2> QED BY <2>1, <2>2, <2>3, <2>5 DEF OrderedStep
<1>5. ASSUME NEW flood \in BOOLEAN, NEW transient \in BOOLEAN, SendFails(flood, transient)
      PROVE  OrderedStep
  BY <1>3, <1>5 DEF SendFails, Resolve, AfterError
<1>6. CASE Issue
  BY <1>1, <1>3, <1>6, Types DEF Issue, history, Update
<1>7. CASE Begin
  BY <1>1, <1>3, <1>7, Types DEF Begin, history
<1>8. ASSUME NEW u \in Update, Retry(u) \/ CancelCaller(u) PROVE OrderedStep
  BY <1>1, <1>3, <1>8, Types DEF Retry, CancelCaller, history
<1>9. CASE Take \/ PauseEnds \/ StartSend \/ Shutdown
  BY <1>3, <1>9 DEF Take, PauseEnds, StartSend, Shutdown, callers, history
<1> QED BY <1>4, <1>5, <1>6, <1>7, <1>8, <1>9 DEF Next, Work

\* A message goes back to an older version, or leaves a caller's update behind
\* that was answered with a result, only by a retry or next to an awaited update.
THEOREM NeverStale == Spec => StaleOnlyByRetry
<1>1. MLInv /\ OrderInv /\ [Next]_vars => [OrderedStep]_vars
  BY NextIsOrdered
<1>2. Spec => [][OrderedStep]_vars
  BY <1>1, MLInductive, OrderInductive, PTL DEF Spec
<1> QED BY <1>2 DEF StaleOnlyByRetry, OrderedStep
=============================================================================
