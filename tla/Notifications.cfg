\* A comment and a group share; deliveries fail and raise, the databases raise,
\* schedule() is slow, the process crashes once, an operator requeues.
SPECIFICATION FairSpec
CONSTANTS
  None = None
  Records <- MCRecords
  Kind <- MCKind
  Users = {"u1"}
  Calls <- MCCalls
  Ref <- MCRef
  Recipients <- MCRecipients
  MaxRetries = 2
  Failing = {"send", "raise", "db", "slow"}
  Requeues = TRUE
  MaxFaults = 1
INVARIANTS
  TypeOK
  RevertedNotSent
  GivesUp
PROPERTY EventuallySettled
CHECK_DEADLOCK FALSE
