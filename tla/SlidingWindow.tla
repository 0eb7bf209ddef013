--------------------------- MODULE SlidingWindow ---------------------------
(***************************************************************************)
(* StrictSlidingWindowLimiter (core/rate_limit.py).  The lock region of     *)
(* acquire() holds no await, so each turn of its loop is one step; between  *)
(* two turns the caller sleeps, and may be cancelled.                       *)
(***************************************************************************)
EXTENDS Naturals, Sequences

CONSTANTS Caller,      \* the coroutines that acquire
          RateLimit,   \* rate_limit
          Window,      \* rate_window, in ticks of the clock
          MaxTime      \* bound: the clock stops here

ASSUME SlidingWindowAssumption ==
  /\ RateLimit \in Nat \ {0}
  /\ Window \in Nat \ {0}
  /\ MaxTime \in Nat

VARIABLES
  now,       \* time.monotonic()
  times,     \* _times
  acquiring, \* the callers asleep inside acquire()
  wakeAt,    \* when the sleep of a caller ends
  granted    \* every acquisition so far (history, not in the code)

limiterVars == <<times, acquiring, wakeAt, granted>>
swVars == <<now, limiterVars>>

\* (mutant) entries are dropped one tick too early.
ExpiredEarly(t) == t + Window <= now + 1

\* An acquisition the window has left behind: time <= cutoff.
Expired(t) == t + Window <= now

\* The popleft loop: the n oldest entries go.
Pops(n) ==
  /\ \A i \in 1..n : Expired(times[i])
  /\ n < Len(times) => ~Expired(times[n + 1])

\* acquire() is called, or its sleep is over.
MayTurn(c) == c \in acquiring => wakeAt[c] <= now

\* The turn of c when it pops n entries; a refused caller sleeps until `wake`.
TurnWith(c, n, wake) ==
  LET kept == SubSeq(times, n + 1, Len(times)) IN
  \/ /\ Len(kept) < RateLimit
     /\ times' = Append(kept, now)
     /\ granted' = Append(granted, now)
     /\ acquiring' = acquiring \ {c}
     /\ UNCHANGED wakeAt
  \/ /\ Len(kept) >= RateLimit
     /\ times' = kept
     /\ wakeAt' = [wakeAt EXCEPT ![c] = wake]
     /\ acquiring' = acquiring \cup {c}
     /\ UNCHANGED granted

\* (mutant) a refused caller sleeps a whole window.
TurnOversleeps(c) ==
  /\ MayTurn(c)
  /\ \E n \in 0..Len(times) : Pops(n) /\ TurnWith(c, n, now + Window)

\* One turn of the loop; the first one belongs to the call.  What is left after
\* the pops is not expired, so the time to sleep is never zero.
Turn(c) ==
  /\ MayTurn(c)
  /\ \E n \in 0..Len(times) : Pops(n) /\ TurnWith(c, n, times[n + 1] + Window)

\* The caller's task is cancelled while it sleeps.
Cancel(c) ==
  /\ c \in acquiring
  /\ acquiring' = acquiring \ {c}
  /\ UNCHANGED <<times, wakeAt, granted>>

Tick ==
  /\ now < MaxTime
  /\ now' = now + 1
  /\ UNCHANGED limiterVars

SWInit ==
  /\ now = 0
  /\ times = <<>>
  /\ acquiring = {}
  /\ wakeAt = [c \in Caller |-> 0]
  /\ granted = <<>>

SWNext ==
  \/ \E c \in Caller : (Turn(c) \/ Cancel(c)) /\ UNCHANGED now
  \/ Tick

SWSpec == SWInit /\ [][SWNext]_swVars
-----------------------------------------------------------------------------
\* Every variable has its type.
SWTypeOK ==
  /\ now \in Nat
  /\ times \in Seq(Nat)
  /\ acquiring \subseteq Caller
  /\ wakeAt \in [Caller -> Nat]
  /\ granted \in Seq(Nat)

\* "At most rate_limit acquisitions in any interval of length rate_window":
\* of any RateLimit + 1 acquisitions in a row the last comes at least a whole
\* window after the first, whoever they are for and whatever was cancelled.
AtMostLimitPerWindow ==
  \A i \in DOMAIN granted :
    i + RateLimit <= Len(granted) => granted[i] + Window <= granted[i + RateLimit]

\* A caller sleeps only while the window is full: until it wakes, the last
\* RateLimit acquisitions are all younger than Window.  No slot lies idle while
\* somebody sleeps.
SleepsOnlyWhenFull ==
  \A c \in acquiring : now < wakeAt[c] =>
    /\ RateLimit <= Len(granted)
    /\ wakeAt[c] <= granted[Len(granted) - RateLimit + 1] + Window

(***************************************************************************)
(* What makes them inductive: _times is the end of the history, and what    *)
(* was dropped from it is out of the window for good.                       *)
(***************************************************************************)
Dropped == Len(granted) - Len(times)

TimesAreLatest ==
  /\ Len(times) <= Len(granted) /\ Len(times) <= RateLimit
  /\ \A i \in DOMAIN times : times[i] = granted[Dropped + i]
  /\ \A i \in 1..Dropped : Expired(granted[i])

GrantsInOrder ==
  /\ \A i \in DOMAIN granted : granted[i] <= now
  /\ \A i, j \in DOMAIN granted : i <= j => granted[i] <= granted[j]

SWInv ==
  /\ SWTypeOK
  /\ TimesAreLatest
  /\ GrantsInOrder
  /\ AtMostLimitPerWindow
  /\ SleepsOnlyWhenFull
=============================================================================
