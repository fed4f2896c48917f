CONSTANTS
  CacheSz = 4
  HashSz = 2
  BufSz = 4
  VLen = 5
  Values <- mc_Values
  Media <- mc_Media
  Writable = {1, 2}
  BadSets <- mc_BadSets
  MaxCount = 2
  MaxHot = 1
SPECIFICATION Spec
INVARIANTS Indexed CleanIsDurable ChainIsRing
PROPERTIES IsBlockStore
VIEW RingView
