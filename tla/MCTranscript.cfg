SPECIFICATION Spec
CONSTANTS
  Index = {0, 1}
  Word <- MCWord
  TaskId <- MCTaskId
  ToolId <- MCToolId
  Piece = {10, 1500}
  Overhead = 16
  Limit = 1900
  ThinkingTailMax = 1000
  TextTailMax = 2000
  MaxEvents = 3
INVARIANTS NothingStaysHidden EndIsShown
CHECK_DEADLOCK FALSE
