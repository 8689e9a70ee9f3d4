\* What session.rs says of a daemon, "at most one client or server", which a start may break.
SPECIFICATION Spec
CONSTANTS
  d1 = d1
  d2 = d2
  d3 = d3
  app = app
  cli = cli
  cli2 = cli2
  old = old
  s1 = s1
  s2 = s2
  None = None
  Daemons = {d1, d2, d3}
  Spare = {d3}
  Controllers = {app, cli, cli2, old}
  Apps = {app}
  Spawners = {app}
  Foreign = {old}
  Sessions = {s1, s2}
  Casts <- Scenes
  MaxCrashes = 1
INVARIANT AtMostOneSession
CHECK_DEADLOCK FALSE
