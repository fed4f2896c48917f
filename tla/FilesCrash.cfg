CONSTANTS
  NmAlBlks = 5
  Names = {a, b}
  Geometries <- mc_JustCrashing
  MaxCreates = 2
  Workload = "crashing"
SPECIFICATION Spec
INVARIANT StaysSafe
VIEW Seen
