\* One screen, one slot, turned off while it registers.
SPECIFICATION HubSpec
CONSTANTS
  a = a
  a1 = a1
  a2 = a2
  m1 = m1
  m2 = m2
  None = None
  Names = {a}
  Sessions = {a1}
  NameOf <- OneSlotOf
  Arrangements = {m1}
  Switchable = {a}
  MaxHubEvents = 4
INVARIANTS
  DisabledUnknown
