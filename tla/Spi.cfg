CONSTANTS
  Capacity = 3
  Sizes = {1, 6, 7}
  Addresses = {reg1, reg2}
  Nop = nop
  MaxWords = 3
  None = none
  MaxCalls = 3
SPECIFICATION Spec
INVARIANTS TypeOK GetsItsAnswer ReadyIsThere
PROPERTIES TransferReturns
CHECK_DEADLOCK FALSE
