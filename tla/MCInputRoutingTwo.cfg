\* Two screens, one connection slot each: crossing from client to client, in either
\* direction, while a grab may fail and one of the screens is turned off and on.
SPECIFICATION Spec
CONSTANTS
  a = a
  b = b
  a1 = a1
  a2 = a2
  b1 = b1
  m1 = m1
  None = None
  Local = Local
  Names = {a, b}
  Sessions = {a1, b1}
  NameOf <- OneEach
  Arrangements = {m1}
  Switchable = {b}
  MaxHubEvents = 2
  Fickle = {}
  GrabMayFail = TRUE
  CaptureMayStop = FALSE
  MaxInputs = 1
  MaxCmds = 1
  MaxQueue = 1
INVARIANTS
  ActiveIsKnown
  RemoteIsCaptured
  HeldUntilLeave
