SPECIFICATION Spec
CONSTANTS
  Name = {"a", "z"}
  NameLen <- MCNameLen
  Files = 5
  Blocks = 4
  Modulus = 4096
  MknodKind = {}
  LinkLen = {}
  FileLen = {513}
  MaxLookup = 1
  MaxLinks = 2
  MaxLeak = 6
INVARIANT MovedHasEntry
