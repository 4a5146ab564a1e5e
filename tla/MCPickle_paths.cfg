SPECIFICATION Spec
CONSTANTS
  s1 = s1
  s2 = s2
  l1 = l1
  f1 = f1
  f2 = f2
  Pkl = {s1, s2}
  Load = {l1}
  Path = {f1, f2}
  PathOf <- TwoPaths
  FsState <- BothStates
  Fresh <- MCFresh
  None = None
  WritesFail = FALSE
  MemoryFails = FALSE
  MaxStops = 1
INVARIANT
  OwnPathIsWritten
