----------------------- MODULE ProviderLimiter_proofs -----------------------
(***************************************************************************)
(* The sliding window keeps its promise for every limit, window, number of  *)
(* callers and length of run; and for every number of requests, slots and   *)
(* retries the requests' limiter is a sliding window, and no concurrency     *)
(* slot is lost.                                                            *)
(***************************************************************************)
EXTENDS ProviderLimiter, FiniteSetTheorems, SequenceTheorems, TLAPS

-----------------------------------------------------------------------------
(* The window, whoever calls.                                               *)

USE SlidingWindowAssumption DEF SlidingWindowAssumption

\* What is left of a sequence without its n first elements.
LEMMA SuffixProperties ==
  ASSUME NEW s \in Seq(Nat), NEW n \in 0..Len(s)
  PROVE  LET t == SubSeq(s, n + 1, Len(s)) IN
         /\ t \in Seq(Nat)
         /\ Len(t) = Len(s) - n
         /\ \A i \in 1..(Len(s) - n) : t[i] = s[n + i]
<1>1. Len(s) \in Nat /\ n \in Nat /\ n <= Len(s)
  OBVIOUS
<1>2. \A i \in (n + 1)..Len(s) : s[i] \in Nat
  BY <1>1
<1> QED BY <1>1, <1>2

\* A turn of the loop keeps the invariant.
LEMMA TurnKeepsInv ==
  ASSUME SWInv, NEW c \in Caller, Turn(c), UNCHANGED now
  PROVE  SWInv'
<1>1. PICK n \in 0..Len(times) : Pops(n) /\ TurnWith(c, n, times[n + 1] + Window)
  BY DEF Turn
<1>2. /\ now \in Nat /\ times \in Seq(Nat) /\ acquiring \subseteq Caller
      /\ wakeAt \in [Caller -> Nat] /\ granted \in Seq(Nat)
      /\ TimesAreLatest /\ GrantsInOrder /\ AtMostLimitPerWindow /\ SleepsOnlyWhenFull
  BY DEF SWInv, SWTypeOK
<1>3. PICK L \in Nat, T \in Nat, K \in Nat : L = Len(granted) /\ T = Len(times) /\ K = T - n
  BY <1>2
<1>4. n \in Nat /\ K = T - n /\ T <= L /\ T <= RateLimit
  BY <1>2, <1>3 DEF TimesAreLatest
<1>5. /\ DOMAIN granted = 1..L /\ DOMAIN times = 1..T
      /\ Dropped = L - T
  BY <1>2, <1>3 DEF Dropped
<1>6. /\ \A i \in 1..T : times[i] = granted[(L - T) + i]
      /\ \A i \in 1..(L - T) : Expired(granted[i])
  BY <1>2, <1>5 DEF TimesAreLatest
<1>7. /\ \A i \in 1..L : granted[i] \in Nat
      /\ \A i \in 1..L : granted[i] <= now
      /\ \A i, j \in 1..L : i <= j => granted[i] <= granted[j]
  <2>1. \A i \in DOMAIN granted : granted[i] \in Nat
    BY <1>2
  <2> QED BY <1>2, <1>5, <2>1 DEF GrantsInOrder
<1>8. \A i \in 1..n : Expired(times[i])
  BY <1>1 DEF Pops
<1>9. \A i \in 1..(L - K) : Expired(granted[i])
  <2> SUFFICES ASSUME NEW i \in 1..(L - K) PROVE Expired(granted[i])
    OBVIOUS
  <2>1. CASE i <= L - T
    BY <1>4, <1>6, <2>1
  <2>2. CASE i > L - T
    <3>1. i - (L - T) \in 1..n /\ i - (L - T) \in 1..T /\ (L - T) + (i - (L - T)) = i
      BY <1>4, <2>2
    <3> QED BY <1>6, <1>8, <3>1
  <2> QED BY <1>4, <2>1, <2>2
<1> DEFINE kept == SubSeq(times, n + 1, Len(times))
<1>10. /\ kept \in Seq(Nat) /\ Len(kept) = K
       /\ \A i \in 1..K : kept[i] = times[n + i]
  BY <1>2, <1>3, SuffixProperties
<1> HIDE DEF kept
<1>11. \A i \in 1..K : kept[i] = granted[(L - K) + i]
  <2> SUFFICES ASSUME NEW i \in 1..K PROVE kept[i] = granted[(L - K) + i]
    OBVIOUS
  <2>1. n + i \in 1..T /\ (L - T) + (n + i) = (L - K) + i
    BY <1>4
  <2> QED BY <1>6, <1>10, <2>1
<1>12. CASE /\ Len(kept) < RateLimit
            /\ times' = Append(kept, now)
            /\ granted' = Append(granted, now)
            /\ acquiring' = acquiring \ {c}
            /\ UNCHANGED wakeAt
  <2>1. /\ times' \in Seq(Nat) /\ Len(times') = K + 1 /\ times'[K + 1] = now
        /\ \A i \in 1..K : times'[i] = kept[i]
    <3>1. times' = Append(kept, now) /\ kept \in Seq(Nat) /\ now \in Nat /\ Len(kept) = K
      BY <1>2, <1>10, <1>12
    <3> QED BY <3>1, AppendProperties
  <2>2. /\ granted' \in Seq(Nat) /\ Len(granted') = L + 1 /\ granted'[L + 1] = now
        /\ \A i \in 1..L : granted'[i] = granted[i]
    BY <1>2, <1>3, <1>12
  <2>3. DOMAIN times' = 1..(K + 1) /\ DOMAIN granted' = 1..(L + 1)
    BY <2>1, <2>2
  <2>4. Dropped' = L - K
    BY <1>4, <2>1, <2>2 DEF Dropped
  <2>5. K < RateLimit
    BY <1>10, <1>12
  <2>6. TimesAreLatest'
    <3>1. \A i \in 1..(K + 1) : times'[i] = granted'[(L - K) + i]
      <4> SUFFICES ASSUME NEW i \in 1..(K + 1) PROVE times'[i] = granted'[(L - K) + i]
        OBVIOUS
      <4>1. CASE i = K + 1
        <5>1. (L - K) + i = L + 1
          BY <4>1
        <5> QED BY <2>1, <2>2, <4>1, <5>1
      <4>2. CASE i \in 1..K
        <5>1. (L - K) + i \in 1..L
          BY <1>4, <4>2
        <5> QED BY <1>11, <2>1, <2>2, <4>2, <5>1
      <4> QED BY <4>1, <4>2
    <3>2. \A i \in 1..(L - K) : i \in 1..L /\ granted'[i] = granted[i]
      BY <1>4, <2>2
    <3>3. \A i \in 1..(L - K) : granted'[i] + Window <= now
      BY <1>9, <3>2 DEF Expired
    <3>4. K + 1 <= L + 1 /\ K + 1 <= RateLimit
      BY <1>4, <2>5
    <3> QED BY <2>1, <2>2, <2>3, <2>4, <3>1, <3>3, <3>4 DEF TimesAreLatest, Expired
  <2>7. GrantsInOrder'
    <3>1. \A i \in 1..(L + 1) : granted'[i] <= now
      BY <1>2, <1>7, <2>2
    <3>2. \A i, j \in 1..(L + 1) : i <= j => granted'[i] <= granted'[j]
      <4> SUFFICES ASSUME NEW i \in 1..(L + 1), NEW j \in 1..(L + 1), i <= j
                   PROVE  granted'[i] <= granted'[j]
        OBVIOUS
      <4>1. CASE j = L + 1
        BY <2>2, <3>1, <4>1
      <4>2. CASE j \in 1..L
        BY <1>7, <2>2, <4>2
      <4> QED BY <4>1, <4>2
    <3> QED BY <2>3, <3>1, <3>2 DEF GrantsInOrder
  <2>8. AtMostLimitPerWindow'
    <3> SUFFICES ASSUME NEW i \in 1..(L + 1), i + RateLimit <= L + 1
                 PROVE  granted'[i] + Window <= granted'[i + RateLimit]
      BY <2>2, <2>3 DEF AtMostLimitPerWindow
    <3>1. CASE i + RateLimit <= L
      <4>1. i \in 1..L /\ i + RateLimit \in 1..L
        BY <3>1
      <4>2. granted[i] + Window <= granted[i + RateLimit]
        BY <1>2, <1>3, <1>5, <3>1, <4>1 DEF AtMostLimitPerWindow
      <4> QED BY <2>2, <4>1, <4>2
    <3>2. CASE i + RateLimit = L + 1
      <4>1. i \in 1..(L - K) /\ i \in 1..L
        BY <1>4, <2>5, <3>2
      <4> QED BY <1>9, <2>2, <3>2, <4>1 DEF Expired
    <3> QED BY <3>1, <3>2
  <2>9. SleepsOnlyWhenFull'
    <3> SUFFICES ASSUME NEW d \in acquiring, now < wakeAt[d]
                 PROVE  /\ RateLimit <= L + 1
                        /\ wakeAt[d] <= granted'[(L + 1) - RateLimit + 1] + Window
      BY <1>12, <2>2 DEF SleepsOnlyWhenFull
    <3>1. RateLimit <= L /\ wakeAt[d] <= granted[L - RateLimit + 1] + Window
      BY <1>2, <1>3 DEF SleepsOnlyWhenFull
    <3>2. /\ L - RateLimit + 1 \in 1..L /\ (L + 1) - RateLimit + 1 \in 1..(L + 1)
          /\ L - RateLimit + 1 \in 1..(L + 1)
          /\ L - RateLimit + 1 <= (L + 1) - RateLimit + 1
      BY <3>1
    <3>3. granted'[L - RateLimit + 1] <= granted'[(L + 1) - RateLimit + 1]
      BY <2>3, <2>7, <3>2 DEF GrantsInOrder
    <3>4. granted'[L - RateLimit + 1] = granted[L - RateLimit + 1]
      BY <2>2, <3>2
    <3>5. /\ granted[L - RateLimit + 1] \in Nat /\ wakeAt[d] \in Nat
          /\ granted'[(L + 1) - RateLimit + 1] \in Nat
      BY <1>2, <1>7, <2>2, <2>3, <3>2
    <3> QED BY <3>1, <3>3, <3>4, <3>5
  <2> QED BY <1>2, <1>12, <2>1, <2>2, <2>6, <2>7, <2>8, <2>9 DEF SWInv, SWTypeOK
<1>13. CASE /\ Len(kept) >= RateLimit
            /\ times' = kept
            /\ wakeAt' = [wakeAt EXCEPT ![c] = times[n + 1] + Window]
            /\ acquiring' = acquiring \cup {c}
            /\ UNCHANGED granted
  <2>1. K = RateLimit
    BY <1>4, <1>10, <1>13
  <2>2. Dropped' = L - K
    BY <1>3, <1>10, <1>13 DEF Dropped
  <2>3. times[n + 1] = granted[L - RateLimit + 1] /\ times[n + 1] \in Nat /\ RateLimit <= L
    <3>1. /\ n + 1 \in 1..T /\ (L - T) + (n + 1) = L - RateLimit + 1
          /\ L - RateLimit + 1 \in 1..L /\ RateLimit <= L
      BY <1>4, <2>1
    <3> QED BY <1>6, <1>7, <3>1
  <2>4. TimesAreLatest'
    <3>1. \A i \in 1..(L - K) : granted'[i] + Window <= now
      BY <1>9, <1>13 DEF Expired
    <3>2. DOMAIN kept = 1..K
      BY <1>10
    <3>5. DOMAIN times' = 1..K /\ Len(times') = K /\ Len(granted') = L
      BY <1>3, <1>10, <1>13, <3>2
    <3>3. \A i \in 1..K : times'[i] = granted'[(L - K) + i]
      BY <1>11, <1>13
    <3>4. K <= L /\ K <= RateLimit
      BY <1>4
    <3> QED BY <2>2, <3>1, <3>3, <3>4, <3>5 DEF TimesAreLatest, Expired
  <2>5. GrantsInOrder' /\ AtMostLimitPerWindow'
    BY <1>2, <1>13 DEF GrantsInOrder, AtMostLimitPerWindow
  <2>6. SleepsOnlyWhenFull'
    <3> SUFFICES ASSUME NEW d \in acquiring \cup {c}, now < wakeAt'[d]
                 PROVE  /\ RateLimit <= L
                        /\ wakeAt'[d] <= granted[L - RateLimit + 1] + Window
      BY <1>3, <1>13, <1>2 DEF SleepsOnlyWhenFull
    <3>1. CASE d = c
      <4>1. wakeAt'[d] = times[n + 1] + Window
        BY <1>2, <1>13, <3>1
      <4> QED BY <2>3, <4>1
    <3>2. CASE d # c
      BY <1>2, <1>3, <1>13, <3>2 DEF SleepsOnlyWhenFull
    <3> QED BY <3>1, <3>2
  <2>7. SWTypeOK'
    <3>1. times[n + 1] + Window \in Nat
      BY <2>3
    <3>2. wakeAt' \in [Caller -> Nat]
      BY <1>2, <1>13, <3>1
    <3> QED BY <1>2, <1>10, <1>13, <3>2 DEF SWTypeOK
  <2> QED BY <2>4, <2>5, <2>6, <2>7 DEF SWInv
<1> QED BY <1>1, <1>12, <1>13 DEF TurnWith, kept

\* Every step keeps the invariant.
LEMMA SWNextKeepsInv == SWInv /\ [SWNext]_swVars => SWInv'
<1> SUFFICES ASSUME SWInv, [SWNext]_swVars PROVE SWInv'
  OBVIOUS
<1> USE DEF SWInv, SWTypeOK
<1>1. ASSUME NEW c \in Caller, Turn(c), UNCHANGED now PROVE SWInv'
  BY <1>1, TurnKeepsInv
<1>2. ASSUME NEW c \in Caller, Cancel(c), UNCHANGED now PROVE SWInv'
  BY <1>2 DEF Cancel, TimesAreLatest, Dropped, Expired, GrantsInOrder,
              AtMostLimitPerWindow, SleepsOnlyWhenFull
<1>3. CASE Tick
  <2>1. now' = now + 1 /\ UNCHANGED <<times, acquiring, wakeAt, granted>>
    BY <1>3 DEF Tick, limiterVars
  <2>2. \A i \in DOMAIN granted : granted[i] \in Nat
    OBVIOUS
  <2>3. TimesAreLatest'
    <3>1. \A i \in 1..Dropped : i \in DOMAIN granted
      BY DEF TimesAreLatest, Dropped
    <3> QED BY <2>1, <2>2, <3>1 DEF TimesAreLatest, Dropped, Expired
  <2>4. GrantsInOrder' /\ AtMostLimitPerWindow'
    BY <2>1, <2>2 DEF GrantsInOrder, AtMostLimitPerWindow
  <2>5. SleepsOnlyWhenFull'
    BY <2>1 DEF SleepsOnlyWhenFull
  <2> QED BY <2>1, <2>3, <2>4, <2>5
<1>4. CASE UNCHANGED swVars
  BY <1>4 DEF swVars, limiterVars, TimesAreLatest, Dropped, Expired, GrantsInOrder,
              AtMostLimitPerWindow, SleepsOnlyWhenFull
<1> QED BY <1>1, <1>2, <1>3, <1>4 DEF SWNext

\* The invariant holds in every reachable state.
THEOREM SWInductive == SWSpec => []SWInv
<1>1. SWInit => SWInv
  <2> SUFFICES ASSUME SWInit PROVE SWInv
    OBVIOUS
  <2>1. SWTypeOK
    BY EmptySeq DEF SWInit, SWTypeOK
  <2> QED
    BY <2>1 DEF SWInit, SWInv, TimesAreLatest, Dropped, GrantsInOrder,
                AtMostLimitPerWindow, SleepsOnlyWhenFull
<1> QED BY <1>1, SWNextKeepsInv, PTL DEF SWSpec

\* At most RateLimit acquisitions in any window, for every RateLimit and
\* Window, any number of callers and any cancellations.
THEOREM LimitHolds == SWSpec => []AtMostLimitPerWindow
BY SWInductive, PTL DEF SWInv

\* No caller sleeps while a slot is free.
THEOREM NeverOversleeps == SWSpec => []SleepsOnlyWhenFull
BY SWInductive, PTL DEF SWInv
-----------------------------------------------------------------------------
(* The requests.                                                            *)

\* A step of a request is a step of its sliding window, or leaves it alone.
LEMMA StepsRefine == [PLNext]_allVars => [SWNext]_swVars
<1> SUFFICES ASSUME [PLNext]_allVars PROVE [SWNext]_swVars
  OBVIOUS
<1>1. ASSUME NEW r \in Caller, Acquire(r), UNCHANGED now PROVE SWNext
  BY <1>1 DEF Acquire, SWNext
<1>2. ASSUME NEW r \in Caller, Attempt(r), UNCHANGED now PROVE [SWNext]_swVars
  BY <1>1, <1>2 DEF Attempt, swVars
<1>3. CASE UNCHANGED allVars
  BY <1>3 DEF allVars
<1>4. CASE Tick /\ UNCHANGED plVars
  BY <1>4 DEF SWNext
<1>5. ASSUME NEW r \in Caller,
             \/ Begin(r) \/ GetSlot(r) \/ Unblocked(r) \/ NextTurn(r) \/ BackoffOver(r)
             \/ Answered(r) \/ Backoff(r) \/ RateLimited(r) \/ Rewrite(r) \/ End(r)
      PROVE  [SWNext]_swVars
  <2>1. CASE Begin(r)
    BY <1>2, <2>1 DEF Begin, swVars
  <2>2. CASE GetSlot(r)
    BY <1>2, <2>2 DEF GetSlot
  <2>3. CASE Unblocked(r)
    BY <1>1, <2>3 DEF Unblocked
  <2>4. CASE NextTurn(r)
    BY <1>1, <2>4 DEF NextTurn
  <2>5. CASE BackoffOver(r)
    BY <1>2, <2>5 DEF BackoffOver
  <2>6. CASE Rewrite(r)
    BY <1>2, <2>6 DEF Rewrite
  <2>7. CASE End(r)
    BY <2>7 DEF End, SWNext, swVars
  <2>8. CASE Answered(r) \/ Backoff(r) \/ RateLimited(r)
    BY <2>8 DEF Answered, Backoff, RateLimited
  <2> QED BY <1>5, <2>1, <2>2, <2>3, <2>4, <2>5, <2>6, <2>7, <2>8
<1> QED BY <1>3, <1>4, <1>5 DEF PLNext

\* Every upstream call of execute_with_retry goes through the window.
THEOREM CallsThrottled == PLSpec => CallsGoThroughWindow
<1>1. PLInit => SWInit
  BY DEF PLInit
<1> QED BY <1>1, StepsRefine, PTL DEF PLSpec, CallsGoThroughWindow, SWSpec

\* So the requests of a provider never exceed its rate limit.
THEOREM RequestsWithinLimit == PLSpec => []AtMostLimitPerWindow
  BY CallsThrottled, LimitHolds, PTL DEF CallsGoThroughWindow

\* And no request sleeps while the window has room.
THEOREM RequestsSleepOnlyWhenFull == PLSpec => []SleepsOnlyWhenFull
  BY CallsThrottled, NeverOversleeps, PTL DEF CallsGoThroughWindow
-----------------------------------------------------------------------------
PLInv ==
  /\ PLTypeOK
  /\ SlotsConserved
  /\ IsFiniteSet(Holders)

\* What a sequence holds, and that it holds it once.
Elems(s) == {s[i] : i \in DOMAIN s}
Distinct(s) == \A i, j \in DOMAIN s : s[i] = s[j] => i = j

\* What is left of a sequence without its i-th element.
LEMMA RemovalProperties ==
  ASSUME NEW s \in Seq(Caller), NEW L \in Nat, DOMAIN s = 1..L,
         NEW i \in 1..L,
         Distinct(s),
         NEW t, DOMAIN t = 1..(L - 1),
         \A j \in 1..(L - 1) : t[j] = IF j < i THEN s[j] ELSE s[j + 1]
  PROVE  /\ Elems(t) = Elems(s) \ {s[i]}
         /\ Distinct(t)
<1> DEFINE at(x) == IF x < i THEN x ELSE x + 1
<1>1. ASSUME NEW j \in 1..(L - 1)
      PROVE  t[j] = s[at(j)] /\ at(j) \in 1..L /\ at(j) # i
  OBVIOUS
<1>2. ASSUME NEW k \in 1..L, k # i
      PROVE  \E j \in 1..(L - 1) : at(j) = k
  <2>1. CASE k < i
    <3>1. k \in 1..(L - 1) /\ at(k) = k
      BY <2>1
    <3> QED BY <3>1
  <2>2. CASE k > i
    <3>1. k - 1 \in 1..(L - 1) /\ at(k - 1) = k
      BY <2>2
    <3> QED BY <3>1
  <2> QED BY <1>2, <2>1, <2>2
<1>3. \A j, k \in 1..(L - 1) : at(j) = at(k) => j = k
  OBVIOUS
<1> HIDE DEF at
<1>4. {t[j] : j \in 1..(L - 1)} = {s[j] : j \in 1..L} \ {s[i]}
  <2>1. ASSUME NEW j \in 1..(L - 1) PROVE t[j] \in {s[k] : k \in 1..L} \ {s[i]}
    BY <1>1 DEF Distinct
  <2>2. ASSUME NEW k \in 1..L, s[k] # s[i] PROVE s[k] \in {t[j] : j \in 1..(L - 1)}
    <3>1. PICK j \in 1..(L - 1) : at(j) = k
      BY <1>2, <2>2
    <3> QED BY <1>1, <3>1
  <2> QED BY <2>1, <2>2
<1>5. \A j, k \in 1..(L - 1) : t[j] = t[k] => j = k
  BY <1>1, <1>3 DEF Distinct
<1> QED BY <1>4, <1>5 DEF Elems, Distinct

\* A cancelled waiter is taken out.
LEMMA RemoveAtProperties ==
  ASSUME NEW s \in Seq(Caller), NEW i \in DOMAIN s,
         Distinct(s)
  PROVE  LET t == SubSeq(s, 1, i - 1) \o SubSeq(s, i + 1, Len(s)) IN
         /\ t \in Seq(Caller)
         /\ Elems(t) = Elems(s) \ {s[i]}
         /\ Distinct(t)
<1> DEFINE t == SubSeq(s, 1, i - 1) \o SubSeq(s, i + 1, Len(s))
<1>1. PICK L \in Nat : L = Len(s) /\ DOMAIN s = 1..L
  OBVIOUS
<1>2. i \in 1..L /\ \A j \in 1..L : s[j] \in Caller
  BY <1>1
<1>3. /\ t \in Seq(Caller) /\ DOMAIN t = 1..(L - 1)
      /\ \A j \in 1..(L - 1) : t[j] = IF j < i THEN s[j] ELSE s[j + 1]
  <2> DEFINE u == SubSeq(s, 1, i - 1)
             v == SubSeq(s, i + 1, L)
  <2>1. /\ u \in Seq(Caller) /\ Len(u) = i - 1
        /\ \A j \in 1..(i - 1) : u[j] = s[j]
    BY <1>1, <1>2
  <2>2. /\ v \in Seq(Caller) /\ Len(v) = L - i
        /\ \A j \in 1..(L - i) : v[j] = s[i + j]
    BY <1>1, <1>2
  <2>3. t = u \o v
    BY <1>1
  <2> HIDE DEF t, u, v
  <2>4. /\ t \in Seq(Caller) /\ Len(t) = L - 1
        /\ \A j \in 1..(L - 1) : t[j] = IF j <= i - 1 THEN u[j] ELSE v[j - (i - 1)]
    <3>1. t \in Seq(Caller) /\ Len(t) = Len(u) + Len(v)
      BY <2>1, <2>2, <2>3, ConcatProperties
    <3>2. \A j \in 1..(Len(u) + Len(v)) :
             t[j] = IF j <= Len(u) THEN u[j] ELSE v[j - Len(u)]
      BY <2>1, <2>2, <2>3, ConcatProperties
    <3>3. Len(u) + Len(v) = L - 1
      BY <1>2, <2>1, <2>2
    <3> QED BY <2>1, <3>1, <3>2, <3>3
  <2>5. ASSUME NEW j \in 1..(L - 1) PROVE t[j] = IF j < i THEN s[j] ELSE s[j + 1]
    <3>1. CASE j < i
      BY <1>2, <2>1, <2>4, <3>1
    <3>2. CASE ~(j < i)
      <4>1. j - (i - 1) \in 1..(L - i) /\ i + (j - (i - 1)) = j + 1
        BY <1>2, <3>2
      <4>2. t[j] = v[j - (i - 1)]
        BY <1>2, <2>4, <3>2
      <4>3. v[j - (i - 1)] = s[j + 1]
        BY <2>2, <4>1
      <4> QED BY <3>2, <4>2, <4>3
    <3> QED BY <3>1, <3>2
  <2> QED BY <2>4, <2>5
<1> HIDE DEF t
<1>4. /\ Elems(t) = Elems(s) \ {s[i]}
      /\ Distinct(t)
  <2>1. s \in Seq(Caller) /\ L \in Nat /\ DOMAIN s = 1..L
    BY <1>1
  <2> QED BY <1>2, <1>3, <2>1, RemovalProperties, Zenon
<1> QED BY <1>3, <1>4 DEF t

\* A request taken up by the semaphore's queue.
LEMMA JoinProperties ==
  ASSUME NEW s \in Seq(Caller), NEW r \in Caller, NEW t, t = Append(s, r)
  PROVE  /\ t \in Seq(Caller)
         /\ Elems(t) = Elems(s) \cup {r}
         /\ (r \notin Elems(s)
               /\ Distinct(s))
              => Distinct(t)
<1> DEFINE L == Len(s)
<1>1. L \in Nat /\ DOMAIN s = 1..L
  OBVIOUS
<1>2. /\ t \in Seq(Caller) /\ DOMAIN t = 1..(L + 1)
      /\ t[L + 1] = r
      /\ \A j \in 1..L : t[j] = s[j]
  BY <1>1
<1> HIDE DEF L
<1>3. Elems(t) = Elems(s) \cup {r}
  <2>1. \A j \in 1..(L + 1) : j \in 1..L \/ j = L + 1
    BY <1>1
  <2>2. L + 1 \in 1..(L + 1) /\ \A j \in 1..L : j \in 1..(L + 1)
    BY <1>1
  <2> QED BY <1>1, <1>2, <2>1, <2>2 DEF Elems
<1>4. ASSUME r \notin Elems(s), Distinct(s) PROVE Distinct(t)
  <2>1. \A x \in 1..(L + 1) : x \in 1..L \/ x = L + 1
    BY <1>1
  <2> QED BY <1>1, <1>2, <1>4, <2>1 DEF Elems, Distinct
<1>5. t \in Seq(Caller) /\ Elems(t) = Elems(s) \cup {r}
  BY <1>2, <1>3
<1> QED BY <1>4, <1>5

\* The first waiter is taken out.
LEMMA TailProperties ==
  ASSUME NEW s \in Seq(Caller), s # <<>>,
         Distinct(s)
  PROVE  LET t == Tail(s) IN
         /\ t \in Seq(Caller)
         /\ Head(s) \in Caller
         /\ Elems(t) = Elems(s) \ {Head(s)}
         /\ Distinct(t)
<1> DEFINE t == Tail(s)
<1>1. PICK L \in Nat : L = Len(s) /\ DOMAIN s = 1..L
  OBVIOUS
<1>2. 1 \in 1..L /\ Head(s) = s[1] /\ s[1] \in Caller
  BY <1>1
<1>3. /\ t \in Seq(Caller) /\ DOMAIN t = 1..(L - 1)
      /\ \A j \in 1..(L - 1) : t[j] = IF j < 1 THEN s[j] ELSE s[j + 1]
  BY <1>1, <1>2
<1> HIDE DEF t
<1>4. /\ Elems(t) = Elems(s) \ {s[1]}
      /\ Distinct(t)
  <2>1. s \in Seq(Caller) /\ L \in Nat /\ DOMAIN s = 1..L
    BY <1>1
  <2> QED BY <1>2, <1>3, <2>1, RemovalProperties, Zenon
<1> QED BY <1>2, <1>3, <1>4 DEF t
-----------------------------------------------------------------------------
Throttled == {r \in Caller : phase[r] = "throttled"}
Standing == {r \in Caller : phase[r] = "waiting"}
Moves(r, p) == phase' = [phase EXCEPT ![r] = p]

\* What a request's move does to the sets the invariant speaks of.
LEMMA MoveEffects ==
  ASSUME phase \in [Caller -> PLPhases], NEW r \in Caller, NEW p \in PLPhases, Moves(r, p)
  PROVE  /\ phase' \in [Caller -> PLPhases]
         /\ Holders' = IF p \in {"new", "waiting", "done"} THEN Holders \ {r}
                                                          ELSE Holders \cup {r}
         /\ Throttled' = IF p = "throttled" THEN Throttled \cup {r} ELSE Throttled \ {r}
         /\ Standing' = IF p = "waiting" THEN Standing \cup {r} ELSE Standing \ {r}
<1>1. phase' \in [Caller -> PLPhases] /\ \A q \in Caller : phase'[q] = IF q = r THEN p ELSE phase[q]
  BY DEF Moves
<1>2. Holders' = IF p \in {"new", "waiting", "done"} THEN Holders \ {r} ELSE Holders \cup {r}
  BY <1>1 DEF Holders, HoldsSlot
<1>3. Throttled' = IF p = "throttled" THEN Throttled \cup {r} ELSE Throttled \ {r}
  BY <1>1 DEF Throttled
<1>4. Standing' = IF p = "waiting" THEN Standing \cup {r} ELSE Standing \ {r}
  BY <1>1 DEF Standing
<1> QED BY <1>1, <1>2, <1>3, <1>4

\* Where a turn of the window leaves the request.
LEMMA AcquireEffects ==
  ASSUME PLInv, NEW r \in Caller, Acquire(r)
  PROVE  /\ sleepUntil' \in [Caller -> Nat]
         /\ \E p \in {"throttled", "calling"} :
              /\ Moves(r, p)
              /\ acquiring' = IF p = "throttled" THEN acquiring \cup {r} ELSE acquiring \ {r}
<1>1. acquiring' = acquiring \cup {r} \/ acquiring' = acquiring \ {r}
  BY DEF Acquire, Turn, TurnWith
<1>2. sleepUntil' \in [Caller -> Nat]
  BY DEF Acquire, PLInv, PLTypeOK
<1>3. Moves(r, IF r \in acquiring' THEN "throttled" ELSE "calling")
  BY DEF Acquire, Moves
<1>4. CASE r \in acquiring'
  BY <1>1, <1>2, <1>3, <1>4
<1>5. CASE r \notin acquiring'
  BY <1>1, <1>2, <1>3, <1>5
<1> QED BY <1>4, <1>5

LEMMA AttemptEffects ==
  ASSUME PLInv, NEW r \in Caller, phase[r] # "throttled", Attempt(r)
  PROVE  /\ sleepUntil' \in [Caller -> Nat]
         /\ \E p \in {"blocked", "throttled", "calling"} :
              /\ Moves(r, p)
              /\ acquiring' = IF p = "throttled" THEN acquiring \cup {r} ELSE acquiring \ {r}
<1>1. CASE Acquire(r)
  BY <1>1, AcquireEffects
<1>2. CASE /\ sleepUntil' = [sleepUntil EXCEPT ![r] = blockedUntil]
           /\ phase' = [phase EXCEPT ![r] = "blocked"]
           /\ UNCHANGED limiterVars
  <2>1. sleepUntil' \in [Caller -> Nat]
    BY <1>2 DEF PLInv, PLTypeOK
  <2>2. acquiring' = acquiring \ {r}
    BY <1>2 DEF limiterVars, PLInv, SlotsConserved, SleepersThrottled
  <2>3. Moves(r, "blocked")
    BY <1>2 DEF Moves
  <2> QED BY <2>1, <2>2, <2>3
<1> QED BY <1>1, <1>2 DEF Attempt

\* A request that keeps its slot and moves on.
LEMMA HolderMovesOn ==
  ASSUME PLInv, SWTypeOK', NEW r \in Caller, HoldsSlot(r),
         NEW p \in PLPhases \ {"new", "waiting", "done"}, Moves(r, p),
         acquiring' = IF p = "throttled" THEN acquiring \cup {r} ELSE acquiring \ {r},
         UNCHANGED <<free, waiters>>,
         blockedUntil' \in Nat, sleepUntil' \in [Caller -> Nat],
         attempt' \in [Caller -> 0..MaxRetries], rewritten' \subseteq Caller
  PROVE  PLInv'
<1>1. /\ phase \in [Caller -> PLPhases] /\ p \in PLPhases
      /\ r \in Holders /\ r \notin Standing
  BY DEF PLInv, PLTypeOK, Holders, HoldsSlot, Standing
<1>2. /\ phase' \in [Caller -> PLPhases]
      /\ Holders' = Holders /\ Standing' = Standing
      /\ Throttled' = IF p = "throttled" THEN Throttled \cup {r} ELSE Throttled \ {r}
  <2>1. /\ phase' \in [Caller -> PLPhases]
        /\ Holders' = IF p \in {"new", "waiting", "done"} THEN Holders \ {r} ELSE Holders \cup {r}
        /\ Throttled' = IF p = "throttled" THEN Throttled \cup {r} ELSE Throttled \ {r}
        /\ Standing' = IF p = "waiting" THEN Standing \cup {r} ELSE Standing \ {r}
    BY <1>1, MoveEffects
  <2> QED BY <1>1, <2>1
<1>3. acquiring = Throttled
  BY DEF PLInv, SlotsConserved, SleepersThrottled, Throttled
<1>4. PLTypeOK'
  BY <1>2 DEF PLInv, PLTypeOK
<1>5. SlotCount' /\ IsFiniteSet(Holders')
  BY <1>2 DEF PLInv, SlotsConserved, SlotCount
<1>6. SleepersThrottled'
  BY <1>2, <1>3 DEF SleepersThrottled, Throttled
<1>7. WaitersWait'
  BY <1>2 DEF PLInv, SlotsConserved, WaitersWait, Standing
<1> QED BY <1>4, <1>5, <1>6, <1>7 DEF PLInv, SlotsConserved

\* A slot is taken: by a request that did not hold one.
LEMMA SlotTaken ==
  ASSUME PLInv, NEW r \in Caller, r \notin Holders, free > 0, free' = free - 1,
         Holders' = Holders \cup {r}
  PROVE  SlotCount' /\ IsFiniteSet(Holders') /\ free' \in 0..MaxConcurrency
<1>1. /\ free \in 0..MaxConcurrency /\ IsFiniteSet(Holders)
      /\ free + Cardinality(Holders) = MaxConcurrency
  BY DEF PLInv, PLTypeOK, SlotsConserved, SlotCount
<1>2. /\ Cardinality(Holders) \in Nat
      /\ IsFiniteSet(Holders') /\ Cardinality(Holders') = Cardinality(Holders) + 1
  BY <1>1, FS_AddElement, FS_CardinalityType
<1>3. MaxConcurrency \in Nat
  BY ProviderLimiterAssumption DEF ProviderLimiterAssumption
<1> QED BY <1>1, <1>2, <1>3 DEF SlotCount

\* A slot is given back.
LEMMA SlotGiven ==
  ASSUME PLInv, NEW r \in Holders, free' = free + 1, Holders' = Holders \ {r}
  PROVE  SlotCount' /\ IsFiniteSet(Holders') /\ free' \in 0..MaxConcurrency
<1>1. /\ free \in 0..MaxConcurrency /\ IsFiniteSet(Holders)
      /\ free + Cardinality(Holders) = MaxConcurrency
  BY DEF PLInv, PLTypeOK, SlotsConserved, SlotCount
<1>2. /\ Cardinality(Holders) \in Nat
      /\ IsFiniteSet(Holders') /\ Cardinality(Holders') = Cardinality(Holders) - 1
      /\ Cardinality(Holders') \in Nat
  BY <1>1, FS_RemoveElement, FS_CardinalityType
<1>3. MaxConcurrency \in Nat
  BY ProviderLimiterAssumption DEF ProviderLimiterAssumption
<1> QED BY <1>1, <1>2, <1>3 DEF SlotCount
-----------------------------------------------------------------------------
\* One lemma per action that takes, queues for or gives back a slot.
LEMMA BeginKeepsInv ==
  ASSUME PLInv, SWTypeOK', NEW r \in Caller, Begin(r) PROVE PLInv'
<1>1. /\ phase \in [Caller -> PLPhases] /\ phase[r] = "new"
      /\ r \notin Holders /\ r \notin Standing /\ r \notin Throttled
      /\ acquiring = Throttled
      /\ Elems(waiters) = Standing /\ Distinct(waiters) /\ waiters \in Seq(Caller)
  BY DEF Begin, PLInv, PLTypeOK, Holders, HoldsSlot, Standing, Throttled, SlotsConserved,
         SleepersThrottled, WaitersWait, Elems, Distinct
<1>2. blockedUntil' \in Nat /\ attempt' \in [Caller -> 0..MaxRetries] /\ rewritten' \subseteq Caller
  BY DEF Begin, PLInv, PLTypeOK
<1>3. CASE free > 0 /\ free' = free - 1 /\ Attempt(r) /\ UNCHANGED waiters
  <2>1. PICK p \in {"blocked", "throttled", "calling"} :
          /\ Moves(r, p) /\ sleepUntil' \in [Caller -> Nat]
          /\ acquiring' = IF p = "throttled" THEN acquiring \cup {r} ELSE acquiring \ {r}
    BY <1>1, <1>3, AttemptEffects
  <2>2. /\ phase' \in [Caller -> PLPhases] /\ Holders' = Holders \cup {r}
        /\ Standing' = Standing
        /\ Throttled' = IF p = "throttled" THEN Throttled \cup {r} ELSE Throttled \ {r}
    <3>1. p \in PLPhases /\ p \notin {"new", "waiting", "done"} /\ p # "waiting"
      BY DEF PLPhases
    <3>2. Standing' = Standing \ {r}
      BY <1>1, <2>1, <3>1, MoveEffects
    <3> QED BY <1>1, <2>1, <3>1, <3>2, MoveEffects
  <2>3. SlotCount' /\ IsFiniteSet(Holders') /\ free' \in 0..MaxConcurrency
    BY <1>1, <1>3, <2>2, SlotTaken
  <2>4. PLTypeOK'
    BY <1>2, <1>3, <2>1, <2>2, <2>3 DEF PLInv, PLTypeOK
  <2>5. SleepersThrottled' /\ WaitersWait'
    BY <1>1, <1>3, <2>1, <2>2 DEF SleepersThrottled, WaitersWait, Throttled, Standing, Elems,
                                 Distinct
  <2> QED BY <2>3, <2>4, <2>5 DEF PLInv, SlotsConserved
<1>4. CASE /\ waiters' = Append(waiters, r)
           /\ Moves(r, "waiting")
           /\ UNCHANGED <<free, sleepUntil, limiterVars>>
  <2>1. /\ phase' \in [Caller -> PLPhases] /\ Holders' = Holders
        /\ Standing' = Standing \cup {r} /\ Throttled' = Throttled
    <3>1. "waiting" \in PLPhases
      BY DEF PLPhases
    <3>2. /\ phase' \in [Caller -> PLPhases] /\ Holders' = Holders \ {r}
          /\ Standing' = Standing \cup {r} /\ Throttled' = Throttled \ {r}
      BY <1>1, <1>4, <3>1, MoveEffects
    <3> QED BY <1>1, <3>2
  <2>2. waiters' \in Seq(Caller) /\ Elems(waiters') = Standing' /\ Distinct(waiters')
    BY <1>1, <1>4, <2>1, JoinProperties
  <2>3. PLTypeOK'
    BY <1>2, <1>4, <2>1, <2>2 DEF PLInv, PLTypeOK
  <2>4. SleepersThrottled' /\ WaitersWait'
    BY <1>1, <1>4, <2>1, <2>2 DEF limiterVars, SleepersThrottled, WaitersWait, Throttled,
                                 Standing, Elems, Distinct
  <2>5. SlotCount' /\ IsFiniteSet(Holders')
    BY <1>4, <2>1 DEF PLInv, SlotsConserved, SlotCount
  <2> QED BY <2>3, <2>4, <2>5 DEF PLInv, SlotsConserved
<1> QED BY <1>3, <1>4 DEF Begin, Moves

LEMMA GetSlotKeepsInv ==
  ASSUME PLInv, SWTypeOK', NEW r \in Caller, GetSlot(r) PROVE PLInv'
<1>1. /\ phase \in [Caller -> PLPhases]
      /\ acquiring = Throttled
      /\ Elems(waiters) = Standing /\ Distinct(waiters) /\ waiters \in Seq(Caller)
      /\ waiters # <<>> /\ Head(waiters) = r /\ waiters' = Tail(waiters)
      /\ free > 0 /\ free' = free - 1
  BY DEF GetSlot, PLInv, PLTypeOK, Standing, Throttled, SlotsConserved,
         SleepersThrottled, WaitersWait, Elems, Distinct
<1>2. /\ waiters' \in Seq(Caller) /\ Distinct(waiters')
      /\ Elems(waiters') = Standing \ {r}
  BY <1>1, TailProperties
<1>3. r \in Standing
  <2>1. 1 \in DOMAIN waiters /\ waiters[1] = r
    BY <1>1
  <2> QED BY <1>1, <2>1 DEF Elems
<1>4. phase[r] # "throttled" /\ r \notin Holders
  BY <1>3 DEF Standing, Holders, HoldsSlot
<1>5. PICK p \in {"blocked", "throttled", "calling"} :
          /\ Moves(r, p) /\ sleepUntil' \in [Caller -> Nat]
          /\ acquiring' = IF p = "throttled" THEN acquiring \cup {r} ELSE acquiring \ {r}
  BY <1>4, AttemptEffects DEF GetSlot
<1>6. /\ phase' \in [Caller -> PLPhases] /\ Holders' = Holders \cup {r}
      /\ Standing' = Standing \ {r}
      /\ Throttled' = IF p = "throttled" THEN Throttled \cup {r} ELSE Throttled \ {r}
  BY <1>1, <1>5, MoveEffects DEF PLPhases
<1>7. SlotCount' /\ IsFiniteSet(Holders') /\ free' \in 0..MaxConcurrency
  BY <1>1, <1>4, <1>6, SlotTaken
<1>8. PLTypeOK'
  BY <1>2, <1>5, <1>6, <1>7 DEF GetSlot, PLInv, PLTypeOK
<1>9. SleepersThrottled' /\ WaitersWait'
  BY <1>1, <1>2, <1>5, <1>6 DEF SleepersThrottled, WaitersWait, Throttled, Standing, Elems,
                               Distinct
<1> QED BY <1>7, <1>8, <1>9 DEF PLInv, SlotsConserved

LEMMA EndKeepsInv ==
  ASSUME PLInv, SWTypeOK', NEW r \in Caller, End(r) PROVE PLInv'
<1>1. /\ phase \in [Caller -> PLPhases]
      /\ acquiring = Throttled
      /\ Elems(waiters) = Standing /\ Distinct(waiters) /\ waiters \in Seq(Caller)
      /\ Moves(r, "done")
      /\ r \in Holders \/ r \in Standing
      /\ ~(r \in Holders /\ r \in Standing)
      /\ r \in Holders <=> HoldsSlot(r)
      /\ r \in Standing <=> phase[r] = "waiting"
  BY DEF End, Moves, PLInv, PLTypeOK, Standing, Holders, HoldsSlot, Throttled, SlotsConserved,
         SleepersThrottled, WaitersWait, Elems, Distinct
<1>2. /\ phase' \in [Caller -> PLPhases] /\ Holders' = Holders \ {r}
      /\ Standing' = Standing \ {r} /\ Throttled' = Throttled \ {r}
  BY <1>1, MoveEffects DEF PLPhases
<1>3. acquiring' = acquiring \ {r}
  BY DEF End, Cancel, limiterVars
<1>4. /\ sleepUntil' \in [Caller -> Nat] /\ attempt' \in [Caller -> 0..MaxRetries]
      /\ rewritten' \subseteq Caller /\ blockedUntil' \in Nat
  <2>1. 0 \in 0..MaxRetries
    BY ProviderLimiterAssumption DEF ProviderLimiterAssumption
  <2> QED BY <2>1 DEF End, PLInv, PLTypeOK
<1>5. /\ waiters' \in Seq(Caller) /\ Elems(waiters') = Standing' /\ Distinct(waiters')
  <2>1. CASE r \in Standing
    <3>1. PICK i \in DOMAIN waiters :
             /\ waiters[i] = r
             /\ waiters' = SubSeq(waiters, 1, i - 1) \o SubSeq(waiters, i + 1, Len(waiters))
      BY <1>1, <2>1 DEF End, StopWaiting
    <3>2. /\ waiters' \in Seq(Caller) /\ Elems(waiters') = Elems(waiters) \ {waiters[i]}
          /\ Distinct(waiters')
      BY <1>1, <3>1, RemoveAtProperties
    <3> QED BY <1>1, <1>2, <3>1, <3>2
  <2>2. CASE r \notin Standing
    BY <1>1, <1>2, <2>2 DEF End
  <2> QED BY <2>1, <2>2
<1>6. SlotCount' /\ IsFiniteSet(Holders') /\ free' \in 0..MaxConcurrency
  <2>1. CASE r \in Holders
    BY <1>1, <1>2, <2>1, SlotGiven DEF End
  <2>2. CASE r \notin Holders
    <3>1. Holders' = Holders /\ free' = free
      BY <1>1, <1>2, <2>2 DEF End
    <3> QED BY <3>1 DEF PLInv, PLTypeOK, SlotsConserved, SlotCount
  <2> QED BY <2>1, <2>2
<1>7. PLTypeOK'
  BY <1>2, <1>4, <1>5, <1>6 DEF PLTypeOK
<1>8. SleepersThrottled' /\ WaitersWait'
  BY <1>1, <1>2, <1>3, <1>5 DEF SleepersThrottled, WaitersWait, Throttled, Standing, Elems,
                               Distinct
<1> QED BY <1>6, <1>7, <1>8 DEF PLInv, SlotsConserved

\* A set of n elements has 2^n subsets.
LEMMA PowerIsNatural ==
  ASSUME NEW n \in Nat PROVE 2 ^ n \in Nat
<1>1. IsFiniteSet(1..n) /\ Cardinality(1..n) = n
  BY FS_Interval
<1>2. IsFiniteSet(SUBSET (1..n)) /\ Cardinality(SUBSET (1..n)) = 2 ^ n
  BY <1>1, FS_SUBSET
<1> QED BY <1>2, FS_CardinalityType

LEMMA PLNextKeepsInv ==
  ASSUME PLInv, SWTypeOK', [PLNext]_allVars PROVE PLInv'
<1>1. /\ phase \in [Caller -> PLPhases] /\ blockedUntil \in Nat /\ now \in Nat
      /\ sleepUntil \in [Caller -> Nat] /\ attempt \in [Caller -> 0..MaxRetries]
      /\ rewritten \subseteq Caller /\ acquiring = Throttled
  BY DEF PLInv, PLTypeOK, SWTypeOK, SlotsConserved, SleepersThrottled, Throttled
<1>2. CASE UNCHANGED allVars
  BY <1>2 DEF allVars, swVars, limiterVars, plVars, PLInv, PLTypeOK, SlotsConserved, SlotCount,
              SleepersThrottled, WaitersWait, Holders, HoldsSlot
<1>3. CASE Tick /\ UNCHANGED plVars
  BY <1>3 DEF Tick, limiterVars, plVars, PLInv, PLTypeOK, SlotsConserved, SlotCount,
              SleepersThrottled, WaitersWait, Holders, HoldsSlot
<1>4. ASSUME NEW r \in Caller,
             \/ Begin(r) \/ GetSlot(r) \/ Unblocked(r) \/ NextTurn(r) \/ BackoffOver(r)
             \/ Answered(r) \/ Backoff(r) \/ RateLimited(r) \/ Rewrite(r) \/ End(r)
      PROVE  PLInv'
  <2>1. CASE Begin(r)
    BY <2>1, BeginKeepsInv
  <2>2. CASE GetSlot(r)
    BY <2>2, GetSlotKeepsInv
  <2>3. CASE End(r)
    BY <2>3, EndKeepsInv
  <2>4. CASE Unblocked(r) \/ NextTurn(r)
    <3>1. HoldsSlot(r)
      BY <1>1, <2>4 DEF Unblocked, NextTurn, HoldsSlot, PLPhases
    <3>2. /\ Acquire(r) /\ UNCHANGED <<free, waiters, blockedUntil, attempt, rewritten>>
      BY <2>4 DEF Unblocked, NextTurn
    <3>3. PICK p \in {"throttled", "calling"} :
            /\ Moves(r, p) /\ sleepUntil' \in [Caller -> Nat]
            /\ acquiring' = IF p = "throttled" THEN acquiring \cup {r} ELSE acquiring \ {r}
      BY <3>2, AcquireEffects
    <3>4. p \in PLPhases \ {"new", "waiting", "done"}
      BY DEF PLPhases
    <3> QED BY <1>1, <3>1, <3>2, <3>3, <3>4, HolderMovesOn
  <2>5. CASE BackoffOver(r) \/ Rewrite(r)
    <3>1. HoldsSlot(r) /\ phase[r] # "throttled"
      BY <1>1, <2>5 DEF BackoffOver, Rewrite, HoldsSlot, PLPhases
    <3>2. 0 \in 0..MaxRetries
      BY ProviderLimiterAssumption DEF ProviderLimiterAssumption
    <3>3. /\ Attempt(r) /\ UNCHANGED <<free, waiters, blockedUntil>>
          /\ attempt' \in [Caller -> 0..MaxRetries] /\ rewritten' \subseteq Caller
      BY <1>1, <2>5, <3>2 DEF BackoffOver, Rewrite
    <3>4. PICK p \in {"blocked", "throttled", "calling"} :
            /\ Moves(r, p) /\ sleepUntil' \in [Caller -> Nat]
            /\ acquiring' = IF p = "throttled" THEN acquiring \cup {r} ELSE acquiring \ {r}
      BY <3>1, <3>3, AttemptEffects
    <3>5. p \in PLPhases \ {"new", "waiting", "done"}
      BY DEF PLPhases
    <3> QED BY <1>1, <3>1, <3>3, <3>4, <3>5, HolderMovesOn
  <2>6. CASE Answered(r) \/ RateLimited(r)
    <3>1. HoldsSlot(r) /\ phase[r] # "throttled" /\ Moves(r, "streaming")
      BY <1>1, <2>6 DEF Answered, RateLimited, HoldsSlot, PLPhases, Moves
    <3>2. /\ UNCHANGED <<free, waiters, sleepUntil, attempt, rewritten, acquiring>>
          /\ blockedUntil' \in Nat
      BY <1>1, <2>6, ProviderLimiterAssumption
         DEF Answered, RateLimited, swVars, limiterVars, ProviderLimiterAssumption
    <3>3. acquiring' = acquiring \ {r}
      BY <1>1, <3>1, <3>2 DEF Throttled
    <3>4. "streaming" \in PLPhases \ {"new", "waiting", "done"}
      BY DEF PLPhases
    <3> QED BY <1>1, <3>1, <3>2, <3>3, <3>4, HolderMovesOn
  <2>7. CASE Backoff(r)
    <3>1. HoldsSlot(r) /\ phase[r] # "throttled" /\ Moves(r, "backoff")
      BY <1>1, <2>7 DEF Backoff, HoldsSlot, PLPhases, Moves
    <3>2. /\ UNCHANGED <<free, waiters, rewritten, acquiring>>
      BY <2>7 DEF Backoff, swVars, limiterVars
    <3>3. attempt' \in [Caller -> 0..MaxRetries]
      BY <1>1, <2>7, ProviderLimiterAssumption DEF Backoff, ProviderLimiterAssumption
    <3>4. PICK j \in Jitter :
            LET delay == MinOf(BaseDelay * 2 ^ attempt[r], MaxDelay) + j IN
            /\ blockedUntil' = now + delay
            /\ sleepUntil' = [sleepUntil EXCEPT ![r] = now + delay]
      BY <2>7 DEF Backoff
    <3>5. MinOf(BaseDelay * 2 ^ attempt[r], MaxDelay) \in Nat
      <4>1. attempt[r] \in Nat
        BY <1>1, ProviderLimiterAssumption DEF ProviderLimiterAssumption
      <4>2. 2 ^ attempt[r] \in Nat
        BY <4>1, PowerIsNatural
      <4> QED BY <4>2, ProviderLimiterAssumption DEF MinOf, ProviderLimiterAssumption
    <3>6. j \in Nat
      BY ProviderLimiterAssumption DEF ProviderLimiterAssumption
    <3>7. blockedUntil' \in Nat /\ sleepUntil' \in [Caller -> Nat]
      BY <1>1, <3>4, <3>5, <3>6
    <3>8. acquiring' = acquiring \ {r}
      BY <1>1, <3>1, <3>2 DEF Throttled
    <3>9. "backoff" \in PLPhases \ {"new", "waiting", "done"}
      BY DEF PLPhases
    <3> QED BY <1>1, <3>1, <3>2, <3>3, <3>7, <3>8, <3>9, HolderMovesOn
  <2> QED BY <1>4, <2>1, <2>2, <2>3, <2>4, <2>5, <2>6, <2>7
<1> QED BY <1>2, <1>3, <1>4 DEF PLNext

\* The semaphore, the window and the requests agree in every reachable state.
THEOREM PLInductive == PLSpec => []PLInv
<1>1. PLInit => PLInv
  <2> SUFFICES ASSUME PLInit PROVE PLInv
    OBVIOUS
  <2>1. /\ phase = [r \in Caller |-> "new"] /\ free = MaxConcurrency /\ waiters = <<>>
        /\ blockedUntil = 0 /\ sleepUntil = [r \in Caller |-> 0]
        /\ attempt = [r \in Caller |-> 0] /\ rewritten = {}
        /\ now = 0 /\ times = <<>> /\ acquiring = {} /\ granted = <<>>
        /\ wakeAt = [c \in Caller |-> 0]
    BY DEF PLInit, SWInit
  <2>2. Holders = {}
    BY <2>1 DEF Holders, HoldsSlot
  <2>3. IsFiniteSet(Holders) /\ SlotCount
    BY <2>1, <2>2, FS_EmptySet, ProviderLimiterAssumption
       DEF SlotCount, ProviderLimiterAssumption
  <2>4. SWTypeOK
    BY <2>1 DEF SWTypeOK
  <2>5. PLTypeOK
    BY <2>1, <2>4, ProviderLimiterAssumption DEF PLTypeOK, PLPhases, ProviderLimiterAssumption
  <2>6. SleepersThrottled /\ WaitersWait
    BY <2>1 DEF SleepersThrottled, WaitersWait
  <2> QED BY <2>3, <2>5, <2>6 DEF PLInv, SlotsConserved
<1>2. PLSpec => []SWTypeOK
  <2>1. SWInv => SWTypeOK
    BY DEF SWInv
  <2> QED BY <2>1, CallsThrottled, SWInductive, PTL DEF CallsGoThroughWindow
<1>3. PLInv /\ SWTypeOK' /\ [PLNext]_allVars => PLInv'
  BY PLNextKeepsInv
<1> QED BY <1>1, <1>2, <1>3, PTL DEF PLSpec

\* Every variable of the limiter has its type.
THEOREM LimiterTypeCorrect == PLSpec => []PLTypeOK
<1>1. PLInv => PLTypeOK
  BY DEF PLInv
<1> QED BY <1>1, PLInductive, PTL

\* No concurrency slot is lost or made up, whatever request ends where.
THEOREM NoSlotLost == PLSpec => []SlotsConserved
<1>1. PLInv => SlotsConserved
  BY DEF PLInv
<1> QED BY <1>1, PLInductive, PTL
=============================================================================
