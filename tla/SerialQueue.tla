---------------------------- MODULE SerialQueue ----------------------------
(***************************************************************************)
(* What a conversation tree promises while its user only replies and gives  *)
(* reply-scoped commands: one server that takes messages in the order they  *)
(* came, one at a time.  Waiting messages may be withdrawn.  The server may *)
(* also give up for good with a message in its hands, and then every later  *)
(* message waits: the code does that when it cancels a task that has not    *)
(* begun, and when it dequeues a message that was removed from the tree.    *)
(***************************************************************************)
EXTENDS Naturals, Sequences

CONSTANTS Message, First, Nobody

VARIABLES
  arrived,   \* the messages that came, accepted or not
  waiting,   \* those that wait, in order of arrival
  serving,   \* the message in the server's hands
  working    \* the server works on it

svars == <<arrived, waiting, serving, working>>

Arrive(m) ==
  /\ m \notin arrived
  /\ arrived' = arrived \cup {m}
  /\ \/ /\ serving = Nobody
        /\ serving' = m
        /\ working' = TRUE
        /\ UNCHANGED waiting
     \/ /\ serving # Nobody
        /\ waiting' = Append(waiting, m)
        /\ UNCHANGED <<serving, working>>

\* The message it replies to is gone.
Reject(m) ==
  /\ m \notin arrived
  /\ arrived' = arrived \cup {m}
  /\ UNCHANGED <<waiting, serving, working>>

\* Some messages leave the queue, the others keep their order.
Withdraw ==
  /\ \E k \in 0..Len(waiting) : \E at \in [1..k -> 1..Len(waiting)] :
       /\ \A i, j \in 1..k : i < j => at[i] < at[j]
       /\ waiting' = [i \in 1..k |-> waiting[at[i]]]
  /\ UNCHANGED <<arrived, serving, working>>

\* The server is through with its message and takes the next one, if any.
TakeNext ==
  /\ working
  /\ \/ /\ waiting = <<>>
        /\ serving' = Nobody
        /\ working' = FALSE
        /\ UNCHANGED waiting
     \/ /\ waiting # <<>>
        /\ serving' = Head(waiting)
        /\ waiting' = Tail(waiting)
        /\ working' \in BOOLEAN
  /\ UNCHANGED arrived

GiveUp ==
  /\ working
  /\ working' = FALSE
  /\ UNCHANGED <<arrived, waiting, serving>>

SInit ==
  /\ arrived = {First}
  /\ waiting = <<>>
  /\ serving = First
  /\ working = TRUE

SNext ==
  \/ \E m \in Message : Arrive(m) \/ Reject(m)
  \/ Withdraw
  \/ TakeNext
  \/ GiveUp

SSpec == SInit /\ [][SNext]_svars
=============================================================================
