CONSTANTS
  Devices = {d1, d2}
  Names = {n1, n2}
  NULL = NULL
  HostControllers = {0}
  FailPoints = {"vhci_open", "register_object", "register_application", "register_advert_object", "register_advert"}
  Anchored = FALSE
  MaxControllers = 4
SPECIFICATION Spec
SYMMETRY Symmetry
\* The script may have nothing left to do, and undefined behaviour ends the run.
CHECK_DEADLOCK FALSE
INVARIANTS
  OneDevicePerController
  StaleUsesAreServed
PROPERTIES
  FailureIsFinal
