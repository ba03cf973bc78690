SPECIFICATION Spec
CONSTANTS
    complex = complex
    large = large
    Job = {complex, large}
    P1S = P1S
    A1Mini = A1Mini
    Printer <- Printers
    NoJob = NoJob
    NoPrinter = NoPrinter
    Rejection = Rejection
    Limit <- Limits
    Threshold = 50
    Uploads <- Cubes
    Deployment <- Deployments
    MaxCrashes = 1
    MaxFaults = 1
INVARIANTS
    SchedulerInv
    ArchiveMatches
    OneWorkerPerJob
    FaultCostsOneJob
PROPERTIES
    DispatchedArchiveIsFixed
    FallbackFailsOnce
    NeverRevived
    SlotsKept
