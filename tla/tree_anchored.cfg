CONSTANTS
  Devices = {d1}
  Services = {s1, s2}
  Characteristics = {c1, c2}
  Descriptors = {e1, e2}
  Uuids = {u1, u2}
  NULL = NULL
  Anchored = TRUE
  RegisterMayFail = FALSE
SPECIFICATION Spec
SYMMETRY Symmetry
\* The simulator really stops: it exits or runs into undefined behaviour.
CHECK_DEADLOCK FALSE
INVARIANTS
  TreeInv
  TreeMatchesBus
  AnnouncedStaysServed
  OnlyUnregisteredDevicesHarm
PROPERTIES
  IsDatabase
