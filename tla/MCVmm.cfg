SPECIFICATION MCSpec
VIEW Shape
CONSTANTS
  Top = 5
  UserMin = 1
  UserMax = 3
  KernelMin = 3
  FastMin = 5
  BootPages = 3
  FrameCount = 6
  NodesPerPage = 2
  TablesMayFail = TRUE
  MaxSpaces = 2
  Flags = {"RW"}
  Types = {"DATA"}
  NoExec = {}
  Hints = {0}
  AllocSizes = {1, 2}
  ReserveSizes = {}
  FreeSizes = {1, 2}
  DeviceSizes = {2}
  ProtectSizes = {1}
  Growth = {1}
  UnknownRoots = {100}
  FreeFirst = TRUE
INVARIANTS
  BackedAndAccounted
  CoherentSpaces
  TreeExact
PROPERTIES
  ImplementsAddressSpace
  ImplementsSpaces
