CONSTANTS
    MaxSessions = 4
    MaxLength = 3
    MaxCrashes = 2
    MaxFaults = 1
SPECIFICATION Spec
INVARIANTS TypeOK CommittedRecoverable SettledLog
PROPERTIES ImplementsStore
