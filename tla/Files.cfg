CONSTANTS
  NmAlBlks = 5
  Names = {a, b}
  Geometries <- mc_Geometries
  MaxCreates = 2
  Workload = "exclusive"
SPECIFICATION Spec
INVARIANTS FreeCountRight NothingLeaks FindsItsBlock CatalogIsComplete
PROPERTIES FailureReservesNothing IsFileSpace
VIEW Seen
SYMMETRY mc_Names
