CONSTANTS
    StatsReader = {r1, r2}
    MaxSamples = 5
    Word = {w1, w2}
    ResultReader = {r1}
    MaxAttempts = 2
    MaxPublications = 3
    MaxDecodes = 4
    MaxDatabases = 2
    Key = {k1, k2}
    Identity = {"a", "b", "c"}
    Home <- MCHome
    CacheReader = {"ss_ui"}
    MaxEntries = 2
    RecentCapacity = 2
    MaxSamplesCached = 4
    Capacity = 2
    Span = 6
    MaxRecords = 4
    MaxDrain = 2
    MaxFrames = 7
    MaxCaptures = 2
    ReplaySpan = 6
    Delay = {0, 1, 3}
    MaxReplayFrames = 2
    MaxFramesPerTick = 2
    MaxReplayTime = 7
    MaxSent = 3
    ClockSpan = 64
    SleepDelay = 1
    BootProbe = 1
    PowerOnGrace = 2
    CanQuiet = 1
    QuiesceTimeout = 1
    HandshakeTimeout = 2
    MaxTime = 5
SYMMETRY KeySymmetry
CHECK_DEADLOCK FALSE
SPECIFICATION Spec
INVARIANTS CrossCoreTypeOK ReadsAreWhole DecodeMatchesDatabase ObservationIsStable
INVARIANTS TraceAccounted ReplayPaced ParkedSafe
