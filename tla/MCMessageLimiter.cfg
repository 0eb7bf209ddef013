CONSTANTS
  k1 = k1
  k2 = k2
  N = 4
  Key = {k1, k2}
  KeyOf <- MCKeyOf
  Awaited = {3}
  MaxRetries = 2
  NoUpdate = 0
SPECIFICATION FairSpec
INVARIANTS LimiterTypeOK QueueMatches NoFutureLost SentOncePerAttempt
PROPERTIES StaleOnlyByRetry EveryUpdateAnswered
CHECK_DEADLOCK FALSE
