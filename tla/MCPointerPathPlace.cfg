\* What validate says of the desk, which a stretched machine of several monitors breaks.
SPECIFICATION Spec
CONSTANTS
  here = here
  a = a
  b = b
  Clients = {a, b}
  Local = here
  None = None
  NoSize = NoSize
  DefaultSize <- Assumed
  Names <- NamesInOrder
  Configs <- Start
  Reports <- Told
  Screens <- Shown
  Edits <- Wishes
  Vectors <- Hand
  Jump = 1
  Corner = 0
  Fallback <- Big
  Budgets <- Sittings
  MaxX = 2
  MaxEvents = 2
INVARIANT OnePlaceToGo
CHECK_DEADLOCK FALSE
