SPECIFICATION Spec
CONSTANTS
  Name = {"a", "z"}
  NameLen <- MCNameLen
  Files = 4
  Blocks = 64
  Modulus = 4096
  MknodKind = {"file", "special"}
  LinkLen = {1}
  FileLen = {0, 513}
  MaxLookup = 2
  MaxLinks = 3
  MaxLeak = 4
VIEW StateView
INVARIANTS
  QueueHoldsEmptySlots
  FreeInodesAccounted
  LookupsAgree
  UnlinkedIsHeld
  LinksAreExact
  SizesAccounted
PROPERTIES
  HandlersKeepPromise
  NumberKeepsInode
