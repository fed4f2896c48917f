CONSTANTS
  MDB = 2
  VBM = 3
  EXT = 5
  CAT = 6
  Data <- mc_Data
SPECIFICATION Spec
INVARIANT UnmountedMeansWhole
