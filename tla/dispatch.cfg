CONSTANTS
  NULL = NULL
  Messages <- AllMessages
  MaxMessages = 2
SPECIFICATION DispatchSpec
INVARIANTS
  AnswersInOrder
  UnansweredAreExpected
