\* That a write ends, with two bursts and no fault, which the loops do not keep.
SPECIFICATION FairSpec
CONSTANTS
  None = None
  Links = {l1, l2}
  Certs = {k1, k2}
  Cap = 3
  Burst = 4
  Misses = 3
  Silence = 3
  Patience = 3
  MaxDelay = 2
  MaxFaults = 0
  MaxBulk = 2
  MaxTroubles = 2
PROPERTY WritesEnd
