SPECIFICATION Spec
CONSTANTS
  Name = {"a", "z"}
  NameLen <- MCNameLen
  Files = 4
  Blocks = 4
  Modulus = 4096
  MknodKind = {}
  LinkLen = {513}
  FileLen = {0, 513}
  MaxLookup = 2
  MaxLinks = 2
  MaxLeak = 6
VIEW StateView
INVARIANTS
  TableInv
  EntriesNameLinkedInodes
  LinksCoverEntries
PROPERTIES
  ErrorLeavesNoTrace
  BlocksConserved
