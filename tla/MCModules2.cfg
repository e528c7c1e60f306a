SPECIFICATION MCSpec
CONSTANTS
  Parts = {"device", "files", "memory", "heap", "pages", "names", "console"}
  Cautious = TRUE
  None = None
  Setups <- MCSetups
  Value = {0, 1, 2}
  Request <- MCRequest
  Capacity = 2
  QueueSize = 8
  IdxBound = 8
  Pages = 25
  Pattern = Pattern
INVARIANTS
  DescriptorsKept
  BlocksAccounted
  NamesMatchInodes
  MemoryAccounted
  PagesMapped
  TreeMirrorsDisk
  PrintedAsAsked
PROPERTIES
  WaitingEnds
  ImplementsBlockDevice
  ImplementsFileStore
CHECK_DEADLOCK FALSE
