-------------------------- MODULE ProviderLimiter --------------------------
(***************************************************************************)
(* GlobalRateLimiter (providers/rate_limit.py) with the streams that use it *)
(* (openai_compat.py, anthropic_messages.py): a semaphore of open streams,  *)
(* the reactive block after a 429, the sliding window, and the retries.     *)
(*                                                                          *)
(* The callers of the sliding window are the requests.  A step runs from    *)
(* one real suspension to the next: taking a free slot, finding no block    *)
(* and acquiring in a window that is not full are one step.                 *)
(***************************************************************************)
EXTENDS SlidingWindow, FiniteSets

CONSTANTS
  MaxConcurrency,  \* max_concurrency
  MaxRetries,      \* max_retries
  BaseDelay,       \* base_delay
  MaxDelay,        \* max_delay
  Jitter,          \* the values random.uniform(0, jitter) may take
  BlockTime        \* the block map_error sets

ASSUME ProviderLimiterAssumption ==
  /\ MaxConcurrency \in Nat \ {0}
  /\ MaxRetries \in Nat
  /\ BaseDelay \in Nat /\ MaxDelay \in Nat /\ BlockTime \in Nat
  /\ Jitter \subseteq Nat

VARIABLES
  phase,        \* where the stream of a request stands
  free,         \* _concurrency_sem: the value, ...
  waiters,      \* ... and who waits for it
  blockedUntil, \* _blocked_until
  sleepUntil,   \* when the sleep of a blocked or backing off request ends; a
                \* request drops this and the next two when it is through
  attempt,      \* the attempt of execute_with_retry
  rewritten     \* requests retried with another body

plVars == <<phase, free, waiters, blockedUntil, sleepUntil, attempt, rewritten>>
allVars == <<swVars, plVars>>

(***************************************************************************)
(* new; waiting (for a slot); blocked (asleep in wait_if_blocked);          *)
(* throttled (asleep in the window); calling (the upstream request is out); *)
(* backoff (asleep after a 429); streaming (events are being yielded, an    *)
(* error among them); done.                                                 *)
(***************************************************************************)
PLPhases == {"new", "waiting", "blocked", "throttled", "calling", "backoff", "streaming",
             "done"}
HoldsSlot(r) == phase[r] \in PLPhases \ {"new", "waiting", "done"}
Holders == {r \in Caller : HoldsSlot(r)}

\* (mutant) the turn of the window is skipped.
AcquireNothing(r) ==
  /\ phase' = [phase EXCEPT ![r] = "calling"]
  /\ granted' = Append(granted, now)
  /\ UNCHANGED <<times, acquiring, wakeAt, sleepUntil>>

\* _acquire_proactive_slot, and the upstream call that follows it at once.
Acquire(r) ==
  /\ Turn(r)
  /\ phase' = [phase EXCEPT ![r] = IF r \in acquiring' THEN "throttled" ELSE "calling"]
  /\ sleepUntil' = [sleepUntil EXCEPT ![r] = 0]

\* wait_if_blocked: the block is looked at once, here.
Attempt(r) ==
  \/ /\ now < blockedUntil
     /\ sleepUntil' = [sleepUntil EXCEPT ![r] = blockedUntil]
     /\ phase' = [phase EXCEPT ![r] = "blocked"]
     /\ UNCHANGED limiterVars
  \/ /\ now >= blockedUntil
     /\ Acquire(r)

\* The stream asks for a slot; nobody overtakes those who wait.
Begin(r) ==
  /\ phase[r] = "new"
  /\ \/ /\ free > 0 /\ waiters = <<>>
        /\ free' = free - 1
        /\ Attempt(r)
        /\ UNCHANGED waiters
     \/ /\ ~(free > 0 /\ waiters = <<>>)
        /\ waiters' = Append(waiters, r)
        /\ phase' = [phase EXCEPT ![r] = "waiting"]
        /\ UNCHANGED <<free, sleepUntil, limiterVars>>
  /\ UNCHANGED <<now, blockedUntil, attempt, rewritten>>

GetSlot(r) ==
  /\ free > 0 /\ waiters # <<>> /\ Head(waiters) = r
  /\ waiters' = Tail(waiters)
  /\ free' = free - 1
  /\ Attempt(r)
  /\ UNCHANGED <<now, blockedUntil, attempt, rewritten>>

\* The sleep of wait_if_blocked is over, and on to the window: the block is
\* not looked at again.
Unblocked(r) ==
  /\ phase[r] = "blocked" /\ sleepUntil[r] <= now
  /\ Acquire(r)
  /\ UNCHANGED <<now, free, waiters, blockedUntil, attempt, rewritten>>

\* Nor after a sleep in the window.
NextTurn(r) ==
  /\ phase[r] = "throttled"
  /\ Acquire(r)
  /\ UNCHANGED <<now, free, waiters, blockedUntil, attempt, rewritten>>

BackoffOver(r) ==
  /\ phase[r] = "backoff" /\ sleepUntil[r] <= now
  /\ Attempt(r)
  /\ UNCHANGED <<now, free, waiters, blockedUntil, attempt, rewritten>>

\* The upstream answers, or fails with anything but a 429.
Answered(r) ==
  /\ phase[r] = "calling"
  /\ phase' = [phase EXCEPT ![r] = "streaming"]
  /\ UNCHANGED <<swVars, free, waiters, blockedUntil, sleepUntil, attempt, rewritten>>

MinOf(m, n) == IF m <= n THEN m ELSE n

\* (mutant) the last attempt is retried too.
BackoffOnceMore(r) ==
  /\ phase[r] = "calling" /\ attempt[r] <= MaxRetries
  /\ \E j \in Jitter :
       LET delay == MinOf(BaseDelay * 2 ^ attempt[r], MaxDelay) + j IN
       /\ blockedUntil' = now + delay
       /\ sleepUntil' = [sleepUntil EXCEPT ![r] = now + delay]
  /\ attempt' = [attempt EXCEPT ![r] = @ + 1]
  /\ phase' = [phase EXCEPT ![r] = "backoff"]
  /\ UNCHANGED <<swVars, free, waiters, rewritten>>

\* 429 and attempts left: the block is set, the request backs off.
Backoff(r) ==
  /\ phase[r] = "calling" /\ attempt[r] < MaxRetries
  /\ \E j \in Jitter :
       LET delay == MinOf(BaseDelay * 2 ^ attempt[r], MaxDelay) + j IN
       /\ blockedUntil' = now + delay
       /\ sleepUntil' = [sleepUntil EXCEPT ![r] = now + delay]
  /\ attempt' = [attempt EXCEPT ![r] = @ + 1]
  /\ phase' = [phase EXCEPT ![r] = "backoff"]
  /\ UNCHANGED <<swVars, free, waiters, rewritten>>

\* 429 on the last attempt, or in the middle of a stream: map_error sets the
\* block and the error goes to the client.
RateLimited(r) ==
  /\ \/ phase[r] = "calling" /\ attempt[r] = MaxRetries
     \/ phase[r] = "streaming"
  /\ blockedUntil' = now + BlockTime
  /\ phase' = [phase EXCEPT ![r] = "streaming"]
  /\ UNCHANGED <<swVars, free, waiters, sleepUntil, attempt, rewritten>>

\* _create_stream: rejected, and tried once more with another body.
Rewrite(r) ==
  /\ phase[r] = "calling" /\ r \notin rewritten
  /\ rewritten' = rewritten \cup {r}
  /\ attempt' = [attempt EXCEPT ![r] = 0]
  /\ Attempt(r)
  /\ UNCHANGED <<now, free, waiters, blockedUntil>>

\* A cancelled waiter leaves the semaphore's queue.
StopWaiting(r) ==
  \E i \in DOMAIN waiters :
    /\ waiters[i] = r
    /\ waiters' = SubSeq(waiters, 1, i - 1) \o SubSeq(waiters, i + 1, Len(waiters))

\* (mutant) the slot is released only by a stream that began.
EndKeepsSlot(r) ==
  /\ HoldsSlot(r) \/ phase[r] = "waiting"
  /\ phase' = [phase EXCEPT ![r] = "done"]
  /\ free' = IF phase[r] = "streaming" THEN free + 1 ELSE free
  /\ IF phase[r] = "waiting" THEN StopWaiting(r) ELSE UNCHANGED waiters
  /\ IF r \in acquiring THEN Cancel(r) ELSE UNCHANGED limiterVars
  /\ sleepUntil' = [sleepUntil EXCEPT ![r] = 0]
  /\ attempt' = [attempt EXCEPT ![r] = 0]
  /\ rewritten' = rewritten \ {r}
  /\ UNCHANGED <<now, blockedUntil>>

\* The stream is over, or the client is gone and the request is cancelled,
\* wherever it stands.
End(r) ==
  /\ HoldsSlot(r) \/ phase[r] = "waiting"
  /\ phase' = [phase EXCEPT ![r] = "done"]
  /\ free' = IF HoldsSlot(r) THEN free + 1 ELSE free
  /\ IF phase[r] = "waiting" THEN StopWaiting(r) ELSE UNCHANGED waiters
  /\ IF r \in acquiring THEN Cancel(r) ELSE UNCHANGED limiterVars
  /\ sleepUntil' = [sleepUntil EXCEPT ![r] = 0]
  /\ attempt' = [attempt EXCEPT ![r] = 0]
  /\ rewritten' = rewritten \ {r}
  /\ UNCHANGED <<now, blockedUntil>>

PLInit ==
  /\ SWInit
  /\ phase = [r \in Caller |-> "new"]
  /\ free = MaxConcurrency
  /\ waiters = <<>>
  /\ blockedUntil = 0
  /\ sleepUntil = [r \in Caller |-> 0]
  /\ attempt = [r \in Caller |-> 0]
  /\ rewritten = {}

PLNext ==
  \/ \E r \in Caller :
       \/ Begin(r)
       \/ GetSlot(r)
       \/ Unblocked(r)
       \/ NextTurn(r)
       \/ BackoffOver(r)
       \/ Answered(r)
       \/ Backoff(r)
       \/ RateLimited(r)
       \/ Rewrite(r)
       \/ End(r)
  \/ Tick /\ UNCHANGED plVars

PLSpec == PLInit /\ [][PLNext]_allVars
-----------------------------------------------------------------------------
\* Every variable has its type.
PLTypeOK ==
  /\ SWTypeOK
  /\ phase \in [Caller -> PLPhases]
  /\ free \in 0..MaxConcurrency
  /\ waiters \in Seq(Caller)
  /\ blockedUntil \in Nat
  /\ sleepUntil \in [Caller -> Nat]
  /\ attempt \in [Caller -> 0..MaxRetries]
  /\ rewritten \subseteq Caller

\* No slot is lost and none is made up, wherever a request ends: the slots
\* that are free and those that are held are MaxConcurrency, so at most
\* MaxConcurrency streams are open.
SlotCount == free + Cardinality(Holders) = MaxConcurrency

\* A cancelled request leaves nothing behind: who sleeps in the window is
\* throttled, ...
SleepersThrottled == acquiring = {r \in Caller : phase[r] = "throttled"}

\* ... and who stands in the semaphore's queue is waiting, and stands there once.
WaitersWait ==
  /\ {waiters[i] : i \in DOMAIN waiters} = {r \in Caller : phase[r] = "waiting"}
  /\ \A i, j \in DOMAIN waiters : waiters[i] = waiters[j] => i = j

\* The concurrency slots and what requests wait for are accounted for.
SlotsConserved == SlotCount /\ SleepersThrottled /\ WaitersWait

\* Every upstream call, first attempt or retry, is an acquisition of the
\* window: the limiter of the requests is a sliding window limiter.
CallsGoThroughWindow == SWSpec
=============================================================================
