SPECIFICATION Spec
CONSTANTS
    Job = {j1, j2}
    Printer = {p1}
    NoJob = NoJob
    NoPrinter = NoPrinter
    MaxConcurrentJobs = 1
    StaleWrites = FALSE
    QueuedStarts = TRUE
    MaxCrashes = 1
    MaxDbFaults = 0
SYMMETRY JobSymmetry
INVARIANTS
    EndedSlotIsReleasable
