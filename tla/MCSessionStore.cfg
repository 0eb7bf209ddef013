CONSTANTS
  t = t
  n = n
  m1 = m1
  m2 = m2
  T1 = T1
  T2 = T2
  T3 = T3
  Tree = {t}
  Node = {n}
  Msg = {m1, m2}
  None = None
  Timer = {T1, T2, T3}
  Loop = Loop
  Cap = 1
  MaxChanges = 3
  MaxFailures = 1
  MaxCrashes = 1
SPECIFICATION FairSpec
INVARIANTS CleanIsTaken DirtyHasTimer LogIndexed FileIsNewest
 
CHECK_DEADLOCK FALSE
