CONSTANTS
    ClockSpan = 64
    SleepDelay = 2
    BootProbe = 1
    PowerOnGrace = 3
    CanQuiet = 1
    QuiesceTimeout = 1
    HandshakeTimeout = 2
    MaxTime = 8
CHECK_DEADLOCK FALSE
SPECIFICATION ParkedSpec
INVARIANT IgnitionKeepsAwake
