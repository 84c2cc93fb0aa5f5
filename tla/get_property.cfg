CONSTANTS
  NULL = NULL
  Messages <- GetMessages
  MaxMessages = 1
SPECIFICATION DispatchSpec
INVARIANTS
  GetReturnsTheProperty
