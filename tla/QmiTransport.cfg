SPECIFICATION Spec
CONSTANTS
  MaxTid = 2
  MaxCalls = 3
INVARIANTS
  PendingIsLive
  AnsweredIsFreed
PROPERTIES
  OwnAnswer
  CallReturns
