SPECIFICATION FairSpec
CONSTANTS
  Proc = {p1, p2}
  Dir = {d1}
  Name = {a}
  Ino = {i1}
  Key = {k1}
  None = None
PROPERTY
  CallsReturn
CHECK_DEADLOCK FALSE
