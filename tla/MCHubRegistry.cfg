\* One screen, two connection slots, two arrangements: every interleaving of two
\* registrations, the on/off switch and the router.
SPECIFICATION HubSpec
CONSTANTS
  a = a
  a1 = a1
  a2 = a2
  m1 = m1
  m2 = m2
  None = None
  Names = {a}
  Sessions = {a1, a2}
  NameOf <- TwoSlotsOf
  Arrangements = {m1, m2}
  Switchable = {a}
  MaxHubEvents = 4
INVARIANTS
  NoGhost
  FreshMonitors
