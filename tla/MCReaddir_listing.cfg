SPECIFICATION FairSpec
CONSTANTS
  a = a
  b = b
  c = c
  d1 = d1
  d2 = d2
  i1 = i1
  i2 = i2
  i3 = i3
  i4 = i4
  Client = {c1, c2}
  Dir = {d1, d2}
  Name = {a, b, c}
  NameLen <- OneLong
  Ino = {i1, i2}
  Dot = Dot
  DotDot = DotDot
  Keys = 3
  Span = 16
  FirstChildren <- ABAndNone
  MaxChanges = 1
  MaxListings = 2
  MaxAbandoned = 1
  WholeReplies = FALSE
\* With MaxListings listings done, nobody asks for more.
CHECK_DEADLOCK FALSE
INVARIANTS
  ContextsInRange
  ListingIsComplete
  OnlyLastIsResent
PROPERTIES
  OnlyGivenUpIsLeft
  ListingEnds
