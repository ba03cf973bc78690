SPECIFICATION LiveSpec
CONSTANTS
    small = small
    big = big
    Job = {small, big}
    Printer = {p1, p2}
    NoJob = NoJob
    NoPrinter = NoPrinter
    MaxActive = 1
    MaxStorage = 2
    ModelSize <- Sizes
    UnlinkRace = FALSE
    MaxCrashes = 1
INVARIANTS
    StorageInv
    QueueBounded
    ModelsWithinQuota
    NeededFilesKept
PROPERTIES
    LeftoversRemoved
