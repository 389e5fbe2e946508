\* Ten pages of two bytes, large pages of two pages, and tables of three
\* entries: three GiB of six pages each can be mapped, and their tables and two
\* other callers compete for the pages.
CONSTANTS
  PAGE_SIZE = 2
  CHAR_BIT = 2
  MAX_PHYS_PAGE_BITMAP_INDEX = 5
  MemoryInfos <- SomeMaps
  Sizes <- SomeSizes
  Clients = {0, 1, 2, 3, 4, 5, 6}
  NULL = NULL
  PAGE_2M = 4
  ENTIRIES = 3
  ReservedInfos <- SomeReserved
SPECIFICATION SpecPaging
INVARIANTS
  OnlyReportedMemoryIsFree
  
  NoSharedPage
  BitmapExact
  NullOnlyWhenNoRunIsFree
  MapIsIdentity
  FailsOnlyForCause
PROPERTY
  ImplementsPageHeap
