SPECIFICATION Spec
CONSTANTS
    t1 = t1
    t2 = t2
    t3 = t3
    Task = {t1, t2, t3}
    NoTask = NoTask
    NrCpus = 2
    Duration = 6
    TickInterval = 3
    Ipi = 0
    Csw = 0
    Phases <- MixedPhases
    Start <- MixedStart
    InitialCpu <- FirstCpu
    Allowed <- Pinned
    Chosen <- Careless
    Hotplug <- NoEvents
    SelectDsq <- LocalOnly
    EnqueueDsq <- AnyQueue
    DispatchDsq <- LocalOnly
    Holds = TRUE
    Slices = {2, 3}
    Kicks <- NoKicks
    TickKicks = FALSE
INVARIANTS Served NotStranded NoneStrays
PROPERTIES ImplementsMachine
CHECK_DEADLOCK FALSE
