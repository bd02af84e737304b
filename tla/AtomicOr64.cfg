CONSTANTS
  N = 3
  Boards = {3, 5}
  SilentBoards = {3}
  LossWakes = TRUE
  MaxLosses = 1
SPECIFICATION Spec
INVARIANTS NoLostUpdate ReportIsTrue TablesBeforeMmu
PROPERTIES SafelyImplements ImplementsCoreCheck
