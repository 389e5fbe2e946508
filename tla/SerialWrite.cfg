\* Two CPUs, each with a thread and a handler, and three calls: two contexts can
\* wait while a third sends.  The FIFO is as small as FifoAssumption allows.
CONSTANTS
  CPUs = {c1, c2}
  M = 5
  Texts <- SomeTexts
  Chars = {"b"}
  FIFO = 3
  MaxWrites = 3
SPECIFICATION Spec
INVARIANTS
  StringsAreSentWhole
  StringsNeverMix
  InterruptsAsFound
PROPERTY
  WritesReturn
CHECK_DEADLOCK FALSE
