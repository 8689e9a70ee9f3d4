\* That machines at rest hold the same clipboard, which crossing copies break.
SPECIFICATION Spec
CONSTANTS
  a = a
  b = b
  t1 = t1
  t2 = t2
  t3 = t3
  f1 = f1
  f2 = f2
  f3 = f3
  None = None
  Srv = Srv
  Clients = {a, b}
  Texts <- CopiedTexts
  Manifests = {}
  Large = {}
  MaxBytes = 2
  HardMax = 4
  ChunkSize = 2
  Slack = 5
  MaxCopies = 2
  MaxFaults = 0

CHECK_DEADLOCK FALSE
INVARIANT KeptEqual
