SPECIFICATION CSpec
CONSTANTS
  Name = {"a"}
  NameLen <- MCNameLen
  Files = 4
  Blocks = 64
  Modulus = 4096
  MknodKind = {}
  LinkLen = {}
  FileLen = {}
  MaxLookup = 1
  MaxLinks = 2
  MaxLeak = 4
  Key = {1}
  MaxRestores = 2
VIEW StateView
INVARIANTS
  QueueHoldsEmptySlots
  FreeInodesAccounted
  EntriesNameLinkedInodes
