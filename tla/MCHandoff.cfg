SPECIFICATION Spec
CONSTANTS
    Job = {j1, j2}
    Printer = {p1}
    NoJob = NoJob
    NoPrinter = NoPrinter
    MaxConcurrentJobs = 1
    StaleWrites = FALSE
    QueuedStarts = FALSE
    MaxCrashes = 1
    MaxDbFaults = 0
SYMMETRY JobSymmetry
INVARIANTS
    SlotOwned
    ContractInv
    PlateInv
    StartedAtMostOnce
    CancelledNeverStarted
    PrintingBegan
PROPERTIES
    StartOnFreePlate
    StartedHoldsSlot
    TerminalIsFinal
    PlateKept
    SlotsKept
