SPECIFICATION MCSpec
VIEW Shape
CONSTANTS
  Fan = 2
  FrameCount = 6
  MaxRoots = 2
  Virts = {0, 1, 8}
  Physes = {0}
  Counts = {1, 2}
  Flags = {"RW", "RO"}
  MapSizes = {1, 2}
  ProtectSizes = {1}
  Mixed = FALSE
INVARIANTS
  TablesAccounted
  MixedTablesExclusive
PROPERTIES
  NoTableEmptied
  ImplementsPageMap
