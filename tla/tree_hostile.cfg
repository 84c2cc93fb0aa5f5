CONSTANTS
  Devices = {d1}
  Services = {s1}
  Characteristics = {c1, c2}
  Descriptors = {e1}
  Uuids = {u1, u2}
  NULL = NULL
  Anchored = FALSE
  RegisterMayFail = TRUE
SPECIFICATION Spec
SYMMETRY Symmetry
\* The simulator really stops: it exits or runs into undefined behaviour.
CHECK_DEADLOCK FALSE
INVARIANTS
  TypeOK
  ListsAreComplete
  SiblingUuidsDistinct
  OnlyServedObjectsDangle
  OnlyFailedAddsMisplace
PROPERTIES
  BindingsPermanent
