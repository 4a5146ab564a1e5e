CONSTANTS
  Table <- MCTable
  MaxSlots = 2
  None = None
  Unknown = Unknown
SPECIFICATION Spec
INVARIANTS
  PickledFits
  LoadedAsPickled
CHECK_DEADLOCK FALSE
