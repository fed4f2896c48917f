CONSTANTS
  x = x
  y = y
  Names <- mc_Names
  VolName <- mc_VolName
  Scopes <- mc_Scopes
SPECIFICATION Spec
INVARIANTS NumbersUnique ThreadsMatch CountsRight PathsLead HandlesFindTheirs
PROPERTIES RefusalChangesNothing IsHierarchy
VIEW Seen
