SPECIFICATION Spec
CONSTANTS
  CommandLine <- FirstLines
  UnitBits = 1
  MinCapacity = 4
  BlockSize = 2
  kTotalBlocks = 7
  CleanHeap = TRUE
  Junk <- NoJunk
INVARIANT
  OptionsFollowO
CHECK_DEADLOCK FALSE
