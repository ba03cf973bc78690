SPECIFICATION Spec
CONSTANTS
    Job = {j1}
    Printer = {p1}
    NoJob = NoJob
    NoPrinter = NoPrinter
    MaxConcurrentJobs = 1
    StaleWrites = TRUE
    QueuedStarts = TRUE
    MaxCrashes = 1
    MaxDbFaults = 2
SYMMETRY JobSymmetry
INVARIANTS
    TypeOK
    StartInv
