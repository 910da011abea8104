\* One job of a kind that needs two frames is enough to meet the upper half of the
\* clock with a frame staged.
CONSTANTS
  ClockModulus = 8
  Timeout = 3
  RepeatInterval = 2
  RetryDelay = 1
  MaxAttempts = 2
  DisconnectWait = 1
  TestInterval = 1
  TestWait = 1
  MaxRepeat = 1
  MaxJobs = 1
  MaxStep = 1
SPECIFICATION Spec
INVARIANT StagedFrameIsDue
