SPECIFICATION Spec
CONSTANTS
  s1 = s1
  s2 = s2
  l1 = l1
  f1 = f1
  f2 = f2
  Pkl = {s1}
  Load = {l1}
  Path = {f1}
  PathOf <- OnePath
  FsState <- BothStates
  Fresh <- MCFresh
  None = None
  WritesFail = TRUE
  MemoryFails = TRUE
  MaxStops = 1
INVARIANTS
  LoadedWasSaved
  VerifiedIsWhole
