CONSTANTS
  CacheSz = 4
  HashSz = 2
  BufSz = 4
  VLen = 5
  Values <- mc_Values
  Media <- mc_Media
  Writable = {1}
  BadSets <- mc_NoBad
  MaxCount = 2
  MaxHot = 4
SPECIFICATION Spec
PROPERTY ReadReturnsBlock
VIEW RingView
