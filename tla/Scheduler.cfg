\* Any creation may fail and any worker may exit: the switch of a thread to
\* itself, the lost worker and the missing idle thread all happen.
CONSTANTS
  Workers = {A, B, C}
  Bootstrap = Bootstrap
  Idle = Idle
  NULL = NULL
  MayExit = {A, B, C}
  MayFail = {A, B, C, Bootstrap, Idle}
SPECIFICATION FairSpec
INVARIANTS
  QueueIsSound
  LostOnlyWhenAlone
  NullOnlyWhenAlone
PROPERTIES
  RoundRobin
  LiveWorkersKeepRunning
