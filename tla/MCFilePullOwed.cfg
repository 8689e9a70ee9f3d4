\* That a pull gets its own bytes, which late answers to a pull before it break.
SPECIFICATION Spec
CONSTANTS
  a = a
  b = b
  None = None
  Fs <- Disk
  AsText <- Text
  Folded <- Lowered
  UnsafeTexts <- Unsafe
  MaxDepth = 2
  MaxEntries = 5
  MaxReadLen = 2
  MaxCopy = 4
  Copyable <- CopiesOf
  Srv = Srv
  Clients = {a, b}
  Owners = {b, Srv}
  Pullers = {a}
  MaxSeq = 2
  MaxPulls = 2
  MaxCancels = 0
  MaxFaults = 1

CHECK_DEADLOCK FALSE
INVARIANT OwnBytes
