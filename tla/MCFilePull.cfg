\* Two machines and the server; pulls, cancels, lost connections and a restart.
SPECIFICATION Spec
CONSTANTS
  a = a
  b = b
  None = None
  Fs <- Disk
  AsText <- Text
  Folded <- Lowered
  UnsafeTexts <- Unsafe
  MaxDepth = 2
  MaxEntries = 5
  MaxReadLen = 2
  MaxCopy = 4
  Copyable <- CopiesOf
  Srv = Srv
  Clients = {a, b}
  Owners = {b, Srv}
  Pullers = {a, Srv}
  MaxSeq = 2
  MaxPulls = 2
  MaxCancels = 1
  MaxFaults = 1
INVARIANTS
  OwnBytesUnlessOwed
  NoReadLost
PROPERTIES
  CancelCounts
CHECK_DEADLOCK FALSE
