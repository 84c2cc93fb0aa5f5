CONSTANTS
  Clients = {c1, c2}
  Values = {EMPTY, v1, v2}
  EMPTY = EMPTY
  Operations = {"ReadValue", "WriteValue", "StartNotify", "StopNotify"}
  MallocMayFail = TRUE
  MaxQueue = 2
SPECIFICATION Spec
INVARIANTS
  TypeOK
PROPERTIES
  IsAtomic
  OnlyWritesAreSilent
  SignalsTellTheValue
  SettledValueIsSeen
