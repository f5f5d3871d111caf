SPECIFICATION Spec
CONSTANTS
  Names = {1, 2, 3, 4, 5}
  Kinds = {1, 2}
  Fields = {0, 1}
  Times = {0, 1, 2}
  Tags = {1}
  Domains = {0, 1}
  Graphs <- MCGraphs
  Contexts <- MCContexts
  Calls <- MCCalls
  Scale = 240
INVARIANTS
  OnlyAllowedEdges ParentsDescend CheapestPath BeamKeepsTheBest
  SubgraphFromSeeds HeatmapExact SameAnswerAfterCompaction
CHECK_DEADLOCK FALSE
