SPECIFICATION Spec
CONSTANTS
  Client = {heap, vmm}
  MaxOrder = 3
  Span <- MCSpan
  MemoryMap <- OneRegion
  MetaPages = 1
  TotalPages = 8
  Counts = {0, 1, 3}
  Alignments = {2, 3, 4}
  Limits = {4}
  Ranges <- MCRanges
SYMMETRY ClientSymmetry
INVARIANTS
  MetadataSound
  LentBlocksAreExclusive
  FramesConserved
  ReleaseRestoresInit
PROPERTIES
  NoFalseOutOfMemory
  ImplementsLedger
