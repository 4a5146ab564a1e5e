SPECIFICATION Spec
CONSTANTS
  BlockSize = 2
  Blocks = 2
  Byte = {0, 1}
  Zero = 0
  NoCopy = NoCopy
  Data <- MCData
  Offset = {0, 2, 4}
  Size = {0, 1, 3, 5}
INVARIANTS
  ReadsAgree
  BuffersAreBlocks
  BlocksAccounted
PROPERTIES
  FileImplementsSpec
