SPECIFICATION FairSpec
CONSTANTS
  Node <- SmallNode
  Me = 2
  Graphs <- SmallGraphs
  Inf = 5
INVARIANTS
  LoopInv
  Result
  Routing
PROPERTIES
  Ends
CHECK_DEADLOCK FALSE
