SPECIFICATION MCSpec
CONSTANTS
  Parts = {"memory"}
  Cautious = FALSE
  None = None
  Setups <- MCSetups
  Value = {0, 1, 2}
  Request <- MCRequest
  Capacity = 2
  QueueSize = 8
  IdxBound = 8
  Pages = 25
  Pattern = Pattern
INVARIANT BuddyNothingLost
CHECK_DEADLOCK FALSE
