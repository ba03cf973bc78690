SPECIFICATION LiveSpec
CONSTANTS
    Job = {j1}
    Printer = {p1}
    NoJob = NoJob
    NoPrinter = NoPrinter
    MaxConcurrentJobs = 1
    StaleWrites = FALSE
    QueuedStarts = TRUE
    MaxCrashes = 2
    MaxDbFaults = 0
PROPERTIES
    HandoffEnds
    PrintEndIsNoticed
