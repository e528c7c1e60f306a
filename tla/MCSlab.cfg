SPECIFICATION Spec
CONSTANTS
  PageSize = 64
  SlabHeader = 24
  LinkSize = 4
  Word = 1024
  PageCount = 4
  ObjSizes = {0, 10, 41}
  Alignments = {3, 4, 32}
  Skews = {0}
INVARIANTS
  SlabsSound
PROPERTIES
  PagesMoveLate
  ImplementsArena
