SPECIFICATION Spec
CONSTANTS
  a = a
  b = b
  c = c
  d1 = d1
  d2 = d2
  i1 = i1
  i2 = i2
  i3 = i3
  i4 = i4
  Client = {c1, c2}
  Dir = {d1, d2}
  Name = {a, b, c}
  NameLen <- OneLong
  Ino = {i1, i2, i3}
  Dot = Dot
  DotDot = DotDot
  Keys = 3
  Span = 16
  FirstChildren <- ABAndC
  MaxChanges = 0
  MaxListings = 3
  MaxAbandoned = 0
  WholeReplies = TRUE
CHECK_DEADLOCK FALSE
INVARIANT
  CookieHasKeyToContext
