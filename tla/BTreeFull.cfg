CONSTANTS
  Keys <- mc_SomeKeys
  LeafCap = 2
  IndexCap = 3
  NodesInit = 2
  Chunk = 4
  MapFirst = 8
  MapNext = 4
  MaxNodes = 14
  Workload = "floor"
SPECIFICATION Spec
INVARIANT SearchLocates
