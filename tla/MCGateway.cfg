SPECIFICATION Spec
CONSTANTS
  r1 = r1
  r2 = r2
  m1 = m1
  m2 = m2
  m3 = m3
  own = own
  None = None
  Unset = Unset
  HoldLimit = 2
  TextDelta <- MCText
  ToolDelta <- MCCalls
  MaxChunks = 4
  Upstream = {0, 1, 2}
  MaxEvents = 7
  Request = {r1, r2}
  Configured <- MCConfigured
  Asked <- MCAsked
  MaxRestarts = 1
  AssistantBlock = {"text", "signed", "tool_use"}
  RareBlock = {"thinking", "redacted", "server_tool"}
  MaxTurns = 5
  MaxBlocks = 3
  WebTools = TRUE
  Template = TRUE
INVARIANTS
  
  ParsedAsWhole
  ArgsDelivered
  ToolResultsFollow
  HistoryKept
PROPERTY NoModelTwice
CHECK_DEADLOCK FALSE
