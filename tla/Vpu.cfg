CONSTANTS
  Handles = {1, 2, 3, 4}
  MaxExecutions = 4
SPECIFICATION VpuSpec
INVARIANTS RunsOnItsStack LeaksAreFailures
CHECK_DEADLOCK FALSE
