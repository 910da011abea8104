CONSTANTS
    MaxSessions = 3
    MaxLength = 2
    MaxCrashes = 1
    MaxFaults = 1
SPECIFICATION Spec
PROPERTY PrimaryPreserved
