\* One screen, two connection slots, and the devices can always be grabbed: a connection
\* and the one that follows it overlap, the capture thread or the server may stop. What
\* must eventually happen, and the promise of InputFocus.
SPECIFICATION FairSpec
CONSTANTS
  a = a
  b = b
  a1 = a1
  a2 = a2
  b1 = b1
  m1 = m1
  None = None
  Local = Local
  Names = {a}
  Sessions = {a1, a2}
  NameOf <- TwoOfA
  Arrangements = {m1}
  Switchable = {}
  MaxHubEvents = 2
  Fickle = {a1}
  GrabMayFail = FALSE
  CaptureMayStop = TRUE
  MaxInputs = 1
  MaxCmds = 2
  MaxQueue = 1
INVARIANTS
  CursorNotStranded
  InputOnlyInside
PROPERTIES
  StrandedComesHome
  DevicesGivenBack
  ImplementsFocus
CHECK_DEADLOCK FALSE
