CONSTANTS
  NodeId = {r, a, b}
  Root = r
  r = r
  a = a
  b = b
  None = None
  Commands = {"stop_node", "stop_tree", "clear_branch", "clear_root", "clear_all"}
SPECIFICATION Spec
SYMMETRY Symmetry
INVARIANTS TypeOK WaitingImpliesBusy NoForgottenMessage ServedOnce
PROPERTY NoResurrection
CHECK_DEADLOCK FALSE
