CONSTANTS
  NULL = NULL
  NoReply = NoReply
  Messages <- SomeMessages
  MaxMessages = 1
  Objects = {"service"}
  Settings = {"hci0_Powered", "hci1_Powered"}
  MaxInFlight = 2
  LuaSlots = 5
  MaxSignals = 1
SPECIFICATION Spec
INVARIANTS
  TypeOK
  SuccessIsCurrent
  ManagedObjectsCoverTheChunk
  
PROPERTIES
  StopIsHeeded
  IsCallReply
