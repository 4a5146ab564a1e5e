SPECIFICATION Spec
CONSTANTS
  Name = {"a", "z"}
  NameLen <- MCNameLen
  Files = 4
  Blocks = 64
  Modulus = 4096
  MknodKind = {}
  LinkLen = {}
  FileLen = {}
  MaxLookup = 1
  MaxLinks = 2
  MaxLeak = 4
INVARIANT DotDotIsParent
