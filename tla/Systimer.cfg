CONSTANTS
  K = 4
  Waits = {0, 2, 5}
  MaxCount = 14
SPECIFICATION TimerSpec
INVARIANTS ReadingIsNear
PROPERTIES WaitsLongEnough WaitEnds
