\* One screen, one slot: the screen is turned off while the cursor is on it and a key is
\* held down there.
SPECIFICATION Spec
CONSTANTS
  a = a
  b = b
  a1 = a1
  a2 = a2
  b1 = b1
  m1 = m1
  None = None
  Local = Local
  Names = {a}
  Sessions = {a1}
  NameOf <- OneOfA
  Arrangements = {m1}
  Switchable = {a}
  MaxHubEvents = 2
  Fickle = {a1}
  GrabMayFail = FALSE
  CaptureMayStop = FALSE
  MaxInputs = 1
  MaxCmds = 1
  MaxQueue = 1
INVARIANTS
  ReleasedWhenLeft
CHECK_DEADLOCK FALSE
