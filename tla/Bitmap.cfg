\* Every content of a two-byte bitmap with the byte that follows it.
CONSTANTS
  CHAR_BIT = 3
  MAX_PHYS_PAGE_BITMAP_INDEX = 2
  MaxLength = 4
  NULL = NULL
SPECIFICATION Spec
INVARIANTS
  WritesAreExact
  FindIsFirstFit
