CONSTANTS
  Procs <- mc_Procs
  u1 = u1
  u2 = u2
  Paths <- mc_Paths
  MediumOf <- mc_MediumOf
  Names <- mc_Names
  Disks <- mc_Disks
  Commands <- mc_Commands
  MaxCommands = 3
  MaxSwaps = 1
SPECIFICATION Spec
INVARIANTS SuccessLeavesAWayBack
PROPERTIES ChangesOnlyItsVolume AloneKeepsTheList
SYMMETRY mc_Symmetry
CHECK_DEADLOCK FALSE
