CONSTANTS
  Fan = 2
  Pool = 8
  PageBytes = 2
  Ranges <- MCRanges
  Attributes = {exclusive, device}
  Normal = normal
  NoAttribute = none
  MaxCalls = 3
SPECIFICATION Spec
INVARIANTS TypeOK FewTables
PROPERTIES ImplementsAddressMap
CHECK_DEADLOCK FALSE
