SPECIFICATION Spec
CONSTANTS
  a = a
  b = b
  c = c
  d1 = d1
  d2 = d2
  i1 = i1
  i2 = i2
  i3 = i3
  i4 = i4
  Client = {c1}
  Dir = {d1, d2}
  Name = {a, b, c}
  NameLen <- TwoLong
  Ino = {i1, i2, i3}
  Dot = Dot
  DotDot = DotDot
  Keys = 3
  Span = 16
  FirstChildren <- ABAndNone
  MaxChanges = 0
  MaxListings = 3
  MaxAbandoned = 1
  WholeReplies = TRUE
CHECK_DEADLOCK FALSE
INVARIANT
  EndIsReached
