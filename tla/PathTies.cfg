SPECIFICATION Spec
CONSTANTS
  Names = {1, 2, 3, 4, 5}
  Kinds = {1, 2}
  Fields = {0, 1}
  Times = {0, 1, 2}
  Tags = {1}
  Domains = {0, 1}
  Graphs <- MCParallel
  Contexts <- MCContexts
  Calls <- MCCalls
  Scale = 240
INVARIANT StateAndContextDetermineThePath
CHECK_DEADLOCK FALSE
