\* One screen, two connections of it, two certificates, one controller; saves may fail.
SPECIFICATION TrustFairSpec
CONSTANTS
  a = a
  a1 = a1
  a2 = a2
  c1 = c1
  c2 = c2
  f1 = f1
  f2 = f2
  Absent = Absent
  Broken = Broken
  Names = {a}
  Sessions = {a1, a2}
  NameOf <- TwoSlotsOf
  ClientCerts = {f1, f2}
  Controllers = {c1}
  MaxPending = 1
  DiskFails = TRUE
INVARIANTS
  SavedIsTrusted
  ServedIsTrusted
PROPERTIES
  RevokedGoes
