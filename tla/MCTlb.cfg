SPECIFICATION Spec
SYMMETRY Symmetry
CONSTANTS
  None = None
  UserRoots = {u1, u2}
  KernelRoot = k
  Frames = {f1, f2}
  Lower = {0}
  Upper = {1, 2}
  Flags = {"RW", "RO"}
  Counts = {1, 2}
  SyncCounts = {1, 3}
  TLB_BATCH_THRESHOLD = 2
INVARIANTS
  CachedIsCurrent
  FreeFramesUnreached
