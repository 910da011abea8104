\* A clock of 8 ms; every delay is shorter than half of it, as on the target.
CONSTANTS
  ClockModulus = 8
  Timeout = 3
  RepeatInterval = 2
  RetryDelay = 1
  MaxAttempts = 2
  DisconnectWait = 1
  TestInterval = 1
  TestWait = 1
  MaxRepeat = 2
  MaxJobs = 2
  MaxStep = 1
SPECIFICATION FairSpec
INVARIANTS
  TypeOK
  SlotOwnership
  RequestsNotRepeated
  CleanupKept
PROPERTIES
  CancelIsRespected
  SlotAlwaysFreed
  ImplementsSlot
