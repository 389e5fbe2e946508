\* Six pages of four bytes: page tables and objects of one and of two pages.
CONSTANTS
  PAGE_SIZE = 4
  HEADER = 1
  LastPage = 6
  Sizes = {1, 4, 7}
  RawPages = {1, 2}
SPECIFICATION Spec
INVARIANT
  ReservedPagesKeepTheirData
CHECK_DEADLOCK FALSE
