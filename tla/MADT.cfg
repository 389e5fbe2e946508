\* Entries of up to four bytes in a table of up to five, and arrays of two and
\* one: both can be full, and an entry can reach past the end of the table.
CONSTANTS
  MADTEntryHeader = 1
  MADTHeader = 3
  MADT_IOAPIC = 1
  MADT_ISO = 2
  IOAPICs = 2
  ISOs = 1
  MaxEnd = 5
  MaxEntryLength = 4
SPECIFICATION FairParseSpec
INVARIANTS
  TheFirstAreKept
PROPERTY
  ParseEnds
