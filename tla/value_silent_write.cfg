CONSTANTS
  Clients = {c1}
  Values = {EMPTY, v1}
  EMPTY = EMPTY
  Operations = {"WriteValue", "StartNotify"}
  MallocMayFail = FALSE
  MaxQueue = 2
SPECIFICATION Spec
PROPERTIES
  SyncKeptWhileNotifying
