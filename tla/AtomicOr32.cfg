CONSTANTS
  N = 2
  Boards = {3}
  SilentBoards = {}
  FREE = FREE
  TAKEN = TAKEN
  LossWakes = TRUE
  MaxLosses = 1
SPECIFICATION Spec
INVARIANTS MutualExclusion NoLostUpdate
PROPERTIES SafelyImplements ImplementsCoreCheck
