SPECIFICATION LiveSpec
CONSTANTS
    Keep = 2
    MaxFaults = 4
    MaxCrashes = 2
INVARIANTS
    CopiesBounded
PROPERTIES
    WholeCopyKept
    BackedUp
