\* Two threads and the bootstrap thread, which call one or two functions deep;
\* an interrupt overwrites three words.
CONSTANTS
  Threads = {t1, t2}
  Bootstrap = Bootstrap
  MaxDepth = 2
  Versions = 1
  FrameWords = 3
SPECIFICATION SwitchSpec
INVARIANT
  ContextsAreWhole
PROPERTY
  ResumesAsItLeft
