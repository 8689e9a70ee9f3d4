\* Eight keys and a button, in the hands of the persons of MCWindowsCapture.
SPECIFICATION Spec
CONSTANTS
  home = home
  lctrl = lctrl
  alt = alt
  altgr = altgr
  madeup = madeup
  shift = shift
  letter = letter
  fn = fn
  left = left
  Big = Big
  Small = Small
  Alt = Alt
  Ctrl = Ctrl
  Home = Home
  ShiftKey = ShiftKey
  None = None
  NoChar = NoChar
  Keys = {home, lctrl, alt, altgr, madeup, shift, letter, fn}
  Buttons = {left}
  Mods = {lctrl, alt, altgr, shift}
  Shift = {shift}
  Chord <- CtrlAndAlt
  HotKey = home
  MadeUp = madeup
  AltGr = altgr
  LCtrl = lctrl
  Unmapped = {fn}
  Types <- KeyTable
  Hands <- Persons
  MaxInputs = 2
  MaxCmds = 2
CHECK_DEADLOCK FALSE
INVARIANTS
  NothingStuckHere
  NothingStuckThere
PROPERTIES
  HotkeyIsTheChord
