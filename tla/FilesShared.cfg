CONSTANTS
  NmAlBlks = 5
  Names = {a, b}
  Geometries <- mc_JustClumps
  MaxCreates = 2
  Workload = "shared"
SPECIFICATION Spec
INVARIANT FreeCountRight
VIEW Seen
