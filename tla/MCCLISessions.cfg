SPECIFICATION FairSpec
CONSTANTS
  a = a
  b = b
  p = p
  s1 = s1
  None = None
  Task = {a, b}
  Past = {p}
  Replies <- MCReplies
  StopCmd = {s1}

  
  
  
PROPERTIES
  
  StopEnds
CHECK_DEADLOCK FALSE
