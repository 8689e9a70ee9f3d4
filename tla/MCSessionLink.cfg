\* Two connection slots of one client, so that a stale session can hold the name while the
\* client knocks again; two certificates; cuts, silence and restarts.
SPECIFICATION FairSpec
CONSTANTS
  None = None
  Links = {l1, l2}
  Certs = {k1, k2}
  Cap = 3
  Burst = 4
  Misses = 3
  Silence = 3
  Patience = 3
  MaxDelay = 2
  MaxFaults = 2
  MaxBulk = 2
  MaxTroubles = 2
INVARIANTS
  DeadIsNoticed
PROPERTIES
  HealthyIsKept
  NeverStuck
