SPECIFICATION FairSpec
CONSTANTS
  CommandLine <- AllLines
  UnitBits = 1
  MinCapacity = 4
  BlockSize = 2
  kTotalBlocks = 7
  CleanHeap = FALSE
  Junk <- ShortJunk
INVARIANTS
  MountpointIsFound
  CapacityIsAsGiven
PROPERTY
  ParsingEnds
CHECK_DEADLOCK FALSE
