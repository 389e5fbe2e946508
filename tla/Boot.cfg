\* Periods of two and three ticks, stacks of three pages.  Memory for the whole
\* boot and two messages, or for less of it.
CONSTANTS
  A = A
  B = B
  Bootstrap = Bootstrap
  Idle = Idle
  NULL = NULL
  PeriodA = 2
  PeriodB = 3
  StackPages = 3
  MaxLate = 2
  FreePages = {0, 1, 2, 3, 4, 5, 6, 7, 8, 10, 11, 14, 18, 22}
  Samples = {0, 1, 14, 40}
  startCount = 40
  MS = 10
  US = 100
  SAMPLE_MS = 3
  TARGET_US = 10
  FALLBACK_INITIAL_COUNT = 6
  MaxCount = 9
  MaxShown = 2
SPECIFICATION FairSpec
INVARIANTS
  ReadyWhenInterruptible
  CalibratedPeriod
  ThreadsHavePerCPU
PROPERTIES
  NotMoreThanOncePerSecond
  BootEnds
  ShownWhileMemoryLasts
