SPECIFICATION Spec
CONSTANTS
  Unit = 16
  Word = 1024
  Header = 2
  MinBlock = 2
  Context = 3
  Total = 22
  MallocSizes = {0, 16, 50}
  ReallocSizes = {0, 20, 90}
  Alignments = {0, 24, 64}
  UsedBound = 8
INVARIANTS
  BlocksSound
  FreeSpaceTrusted
PROPERTIES
  ImplementsArena
