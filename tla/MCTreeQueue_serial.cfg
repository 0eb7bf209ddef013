CONSTANTS
  NodeId = {r, a, b, c}
  Root = r
  r = r
  a = a
  b = b
  c = c
  None = None
  Commands = {"stop_node", "clear_branch"}
SPECIFICATION Spec
SYMMETRY Symmetry
INVARIANTS Serial ChildAfterParent
CHECK_DEADLOCK FALSE
PROPERTY ImplementsSerialQueue
