SPECIFICATION MCSpec
CONSTANTS
  None = None
  Types = {"A", "B", "C"}
  Names = {"x", "y", "long"}
  Long = {"long"}
  Files <- MCFiles
  MaxLines = 4
  TypeHome <- MCTypeHome
  NameHome <- MCNameHome
  TypeCapacity = 2
  InstanceCapacity = 2
  Pools = {3, 9}
  SubMap = 2
  MaxDepth = 2
INVARIANTS
  ModulesAgree
  ImagesInPlace
  SpaceLaidOut
  FilesTidy
  MapIsSound
PROPERTIES
  ImplementsStartup
  BootFinishes
CHECK_DEADLOCK FALSE
