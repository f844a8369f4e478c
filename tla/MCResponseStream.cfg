SPECIFICATION Spec
CONSTANTS
  Events <- MCEvents
  Chunks <- MCChunks
  Frames <- MCFrames
  Policies <- MCPolicies
  Tools = {0, 1}
  MaxToolCalls = 2
  MaxArguments = 3
  Blocks = {0, 1, 2, 3, 4}
  DropTypes = {"thinking"}
  AllowedTools = {"read"}
  MaxDevinCalls = 2
  MaxSent <- MCMaxSent
  MaxPrefix = 2
INVARIANTS
  EndsWithTerminal
  NoFalseCompletion
  WellFormed
  TruncationIsPenalised
  NoLeakedBody
PROPERTY EndsUnlessKeptAlive
