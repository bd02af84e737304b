CONSTANTS
  H = 12
  MallocSizes = {0, 1, 2, 3, 4, 5, 6, 12}
  MaxMallocs = 4
SPECIFICATION HeapSpec
INVARIANTS HeapTypeOK BlocksNest WalkInHeap StuckAfterReuse
PROPERTIES MallocReturns
CHECK_DEADLOCK FALSE
