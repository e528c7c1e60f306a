SPECIFICATION Spec
CONSTANTS
  Top = 5
  UserMin = 1
  UserMax = 5
  KernelMin = 5
  FastMin = 5
  BootPages = 5
  FrameCount = 6
  NodesPerPage = 4
  TablesMayFail = FALSE
  MaxSpaces = 2
  Flags = {"RW", "RO"}
  Types = {"DATA"}
  NoExec = {}
  Hints = {0}
  AllocSizes = {0, 3}
  ReserveSizes = {1, 2}
  FreeSizes = {0, 1, 3}
  DeviceSizes = {}
  ProtectSizes = {1, 3}
  Growth = {1}
  UnknownRoots = {}
  FreeFirst = TRUE
INVARIANTS
  MappedPagesTracked
