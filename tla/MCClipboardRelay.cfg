\* Two clients and the server, and two copies, of which one may be files.
SPECIFICATION Spec
CONSTANTS
  a = a
  b = b
  t1 = t1
  t2 = t2
  t3 = t3
  f1 = f1
  f2 = f2
  f3 = f3
  None = None
  Srv = Srv
  Clients = {a, b}
  Texts <- CopiedTexts
  Manifests <- CopiedFiles
  Large <- TooCostly
  MaxBytes = 2
  HardMax = 4
  ChunkSize = 2
  Slack = 5
  MaxCopies = 2
  MaxFaults = 1
INVARIANTS
  KeptEqualUnlessCrossed
  OwnerServes
PROPERTIES
  NoEcho
CHECK_DEADLOCK FALSE
