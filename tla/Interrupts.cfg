\* The timer, the error vector of the local APIC (0xF1), the line of a device
\* below the timer, and up to three requests: two can be pending while one is
\* handled.
CONSTANTS
  VEC_TIMER = 96
  VEC_SPURIOUS = 255
  Devices = {80, 241}
  MaxRaised = 3
  GSIBase = 1
  RedirCount = 0
  GSIs = {0, 1, 2}
  Lines = {80}
  Polarities = {TRUE}
  Triggers = {FALSE, TRUE}
  Here = 0
  Elsewhere = 1
  M = 4
SPECIFICATION FairIOSpec
INVARIANTS
  InServiceIsHandled
  EveryTickIsCounted
  LinesGoAsRouted
PROPERTIES
  EndsOnlyItsOwn
  RequestsAreServed
