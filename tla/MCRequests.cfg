SPECIFICATION Spec
CONSTANTS
  AssistantBlock = {"text", "tool_use"}
  RareBlock = {"thinking"}
  MaxTurns = 3
  MaxBlocks = 2
  WebTools = TRUE
  Template = FALSE
INVARIANT BailianTextKept
CHECK_DEADLOCK FALSE
