CONSTANTS
  Keys <- mc_SomeKeys
  LeafCap = 2
  IndexCap = 3
  NodesInit = 4
  Chunk = 4
  MapFirst = 8
  MapNext = 4
  MaxNodes = 16
  Workload = "any"
SPECIFICATION Spec
INVARIANT SearchLocates
