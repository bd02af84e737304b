CONSTANTS
  PageBytes = 2
  SectionPages = 4
  Granule = 2
  Sections = 4
  Boundary = 2
  Tables0 = 2
  Tables1 = 1
  Ranges <- MCRanges
  Attributes <- MCAttributes
  Normal <- normal
  MaxCalls = 3
SPECIFICATION Spec
INVARIANTS TypeOK FewTables
PROPERTIES ImplementsAddressMap
CHECK_DEADLOCK FALSE
