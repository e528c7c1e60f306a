SPECIFICATION Spec
CONSTANTS
  None = None
  Lower = {0, 1}
  Upper = {2}
  UserRoots = {u1, u2}
  KernelRoot = k
  Frames = {f1, f2}
  Flags = {"RW", "RO"}
  Counts = {1, 2}
  SyncCounts = {1, 3}
  TLB_BATCH_THRESHOLD = 2
INVARIANTS
  ActivationTakesEffect
