\* What HookState.keys says of a release under a grab, which the code does not keep.  With
\* PROPERTY HotkeyWorks in place of the invariant: what on_key says of the hotkey.
SPECIFICATION Spec
CONSTANTS
  home = home
  lctrl = lctrl
  alt = alt
  altgr = altgr
  madeup = madeup
  shift = shift
  letter = letter
  fn = fn
  left = left
  Big = Big
  Small = Small
  Alt = Alt
  Ctrl = Ctrl
  Home = Home
  ShiftKey = ShiftKey
  None = None
  NoChar = NoChar
  Keys = {home, lctrl, alt, altgr, madeup, shift, letter, fn}
  Buttons = {left}
  Mods = {lctrl, alt, altgr, shift}
  Shift = {shift}
  Chord <- CtrlAndAlt
  HotKey = home
  MadeUp = madeup
  AltGr = altgr
  LCtrl = lctrl
  Unmapped = {fn}
  Types <- KeyTable
  Hands <- Persons
  MaxInputs = 2
  MaxCmds = 2
INVARIANT NothingStuck
CHECK_DEADLOCK FALSE
