CONSTANTS
  Cores = {0, 1}
  Boards = {3, 5}
  Capacity = 2
  TextLength = 2
  MaxExceptions = 2
  RATIO_WIDTH = 4
  LOG2_INV_SPEED = 1
  RingMin = 1
  RingMax = 1
  GLYPH_W = 2
  Modes <- MCModes
  Texts = 1
SPECIFICATION Spec
INVARIANTS TypeOK NothingLost PinsServed FrameIsRight
PROPERTIES PrintEnds
CHECK_DEADLOCK FALSE
