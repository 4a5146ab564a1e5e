SPECIFICATION Spec
CONSTANTS
  Attr = {x, y}
  Value <- Growing
  Addr = {p1, p2}
  Null = Null
  NoCopy = NoCopy
  MaxRestores = 1
SYMMETRY Symmetric
INVARIANTS
  ValuesAreThoseSet
  UnsetValuesAreKept
CHECK_DEADLOCK FALSE
