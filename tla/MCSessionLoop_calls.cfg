SPECIFICATION FairSpec
CONSTANTS
  Proc = {p1, p2}
  Dir = {d1, d2}
  Name = {a}
  Ino = {i1, i2}
  Key = {k1}
  None = None
INVARIANT
  CachedEntriesAgree
PROPERTY
  CallsReturnOrRestoreWaits
CHECK_DEADLOCK FALSE
