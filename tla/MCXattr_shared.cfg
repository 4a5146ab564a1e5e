SPECIFICATION Spec
CONSTANTS
  Attr = {x, y}
  Value <- MCValue
  Addr = {p1, p2, p3}
  Null = Null
  NoCopy = NoCopy
  MaxRestores = 0
SYMMETRY Symmetric
INVARIANTS
  CheckpointKeepsValues
