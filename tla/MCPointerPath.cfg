\* Two clients and this machine, monitors of a few pixels; hands and editors as in MCPointerPath.
SPECIFICATION Spec
CONSTANTS
  here = here
  a = a
  b = b
  Clients = {a, b}
  Local = here
  None = None
  NoSize = NoSize
  DefaultSize <- Assumed
  Names <- NamesInOrder
  Configs <- Start
  Reports <- Told
  Screens <- Shown
  Edits <- Wishes
  Vectors <- Hand
  Jump = 1
  Corner = 0
  Fallback <- Big
  Budgets <- Sittings
  MaxX = 2
  MaxEvents = 2
CHECK_DEADLOCK FALSE
INVARIANTS
  EveryMoveCounts
  OnePlaceUnlessRounded
PROPERTIES
  StaysHome
  HandCarries
  SameDesk
