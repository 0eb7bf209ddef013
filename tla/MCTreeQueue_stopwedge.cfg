CONSTANTS
  NodeId = {r, a, b}
  Root = r
  r = r
  a = a
  b = b
  None = None
  Commands = {"stop_node"}
SPECIFICATION Spec
INVARIANT SomebodyServes
CHECK_DEADLOCK FALSE
