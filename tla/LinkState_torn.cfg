SPECIFICATION FairSpec
CONSTANTS
  Node <- PairNode
  CostFile <- PairCost
  Wire <- PairWire
  NoLSA = NoLSA
  BootAsHeard = {TRUE}
  TornReads = TRUE
  FaultKinds = {"cut"}
  MaxFaults = 1
  MaxInFlight = 1
PROPERTY Converges
