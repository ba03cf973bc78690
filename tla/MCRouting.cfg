SPECIFICATION LiveSpec
CONSTANTS
    complex = complex
    large = large
    Job = {complex}
    P1S = P1S
    A1Mini = A1Mini
    Printer <- Printers
    NoJob = NoJob
    NoPrinter = NoPrinter
    Rejection = Rejection
    Limit <- RouteLimits
    Threshold = 50
    Uploads <- Routes
    Deployment <- EveryDeployment
    MaxCrashes = 2
    MaxFaults = 0
INVARIANTS
    ArchiveMatches
PROPERTIES
    RoutedByRule
    NothingPrintableRejected
    EverySlicingEnds
    NobodyStranded
