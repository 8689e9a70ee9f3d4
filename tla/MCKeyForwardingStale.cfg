\* The key of a combination is let go of after the input came home: it stands for the
\* action still.
SPECIFICATION Spec
CONSTANTS
  ml = ml  mr = mr  x = x  h = h  mod = mod  act = act
  Keys = {ml, mr, x, h}
  Mods = {mod}
  KeysOf <- TwoSided
  HotKey = h
  Chord = {mod}
  Actions = {act}
  Rules <- OneRule
  NoAction = NoAction
  MaxInputs = 2
  MaxCmds = 2
  MaxWire = 1
INVARIANTS
  FiredUntilReleased
