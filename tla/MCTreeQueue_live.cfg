CONSTANTS
  NodeId = {r, a, b}
  Root = r
  r = r
  a = a
  b = b
  None = None
  Commands = {"stop_tree"}
SPECIFICATION FairSpec
PROPERTY EveryMessageServed
CHECK_DEADLOCK FALSE
