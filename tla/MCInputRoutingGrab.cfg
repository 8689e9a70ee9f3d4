\* One screen, one slot, and a grab may fail: the news of a failed grab is read after a
\* later grab that did not fail.
SPECIFICATION Spec
CONSTANTS
  a = a
  b = b
  a1 = a1
  a2 = a2
  b1 = b1
  m1 = m1
  None = None
  Local = Local
  Names = {a}
  Sessions = {a1}
  NameOf <- OneOfA
  Arrangements = {m1}
  Switchable = {}
  MaxHubEvents = 2
  Fickle = {a1}
  GrabMayFail = TRUE
  CaptureMayStop = FALSE
  MaxInputs = 1
  MaxCmds = 2
  MaxQueue = 2
INVARIANTS
  LocalIsReleased
