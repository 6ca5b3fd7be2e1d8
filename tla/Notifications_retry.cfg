\* Deliveries fail, and nobody but the code fills the retry list.
SPECIFICATION FairSpec
CONSTANTS
  None = None
  Records <- MCRecords
  Kind <- MCKind
  Users = {"u1"}
  Calls <- MCCalls
  Ref <- MCRef
  Recipients <- MCRecipients
  MaxRetries = 2
  Failing = {"send"}
  Requeues = FALSE
  MaxFaults = 0
PROPERTY FailedRetried
CHECK_DEADLOCK FALSE
