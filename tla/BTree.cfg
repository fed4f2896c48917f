CONSTANTS
  Keys <- mc_SomeKeys
  LeafCap = 2
  IndexCap = 3
  NodesInit = 2
  Chunk = 4
  MapFirst = 6
  MapNext = 4
  MaxNodes = 11
  Workload = "floor"
SPECIFICATION Spec
INVARIANT TreeIsExact
PROPERTIES SpaceSuffices IsRecordSet
