CONSTANTS
  Devices = {d1}
  Names = {n1}
  NULL = NULL
  HostControllers = {0}
  FailPoints = {}
  Anchored = TRUE
  MaxControllers = 3
SPECIFICATION Spec
SYMMETRY Symmetry
\* The script may have nothing left to do, and undefined behaviour ends the run.
CHECK_DEADLOCK FALSE
INVARIANTS
  ControllerIsOwn
