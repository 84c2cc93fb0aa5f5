CONSTANTS
  Devices = {d1, d2, d3}
  Names = {n1, n2}
  NULL = NULL
  HostControllers = {}
  FailPoints = {"vhci_open"}
  Anchored = TRUE
  MaxControllers = 4
SPECIFICATION Spec
\* The script may have nothing left to do, and undefined behaviour ends the run.
CHECK_DEADLOCK FALSE
INVARIANTS
  TypeOK
  ListedNamesUnique
  ControllerIsOwn
  NoControllerLeaks
  RepliesFindTheirDevice
  RegisteredWhereItLives
PROPERTIES
  IsRegistry
