\* Three CPUs and counters that wrap after four values, which happens over
\* and over; 2^32 in the code.
CONSTANTS
  CPUs = {c1, c2, c3}
  M = 4
SPECIFICATION FairSpec
INVARIANTS
  MutualExclusion
  FirstComeFirstServed
PROPERTY
  NoStarvation
