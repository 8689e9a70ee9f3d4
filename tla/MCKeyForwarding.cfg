\* One modifier key, a rule key, the hotkey: every order of presses, switches and a client
\* that goes and comes.
SPECIFICATION Spec
CONSTANTS
  ml = ml  mr = mr  x = x  h = h  mod = mod  act = act
  Keys = {ml, x, h}
  Mods = {mod}
  KeysOf <- OneSided
  HotKey = h
  Chord = {mod}
  Actions = {act}
  Rules <- OneRule
  NoAction = NoAction
  MaxInputs = 2
  MaxCmds = 2
  MaxWire = 1
INVARIANTS
  NothingLeftDown
  HeldIsAccounted
PROPERTIES
  FiresAlone
