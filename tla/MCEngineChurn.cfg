SPECIFICATION Spec
CONSTANTS
    t1 = t1
    t2 = t2
    t3 = t3
    Task = {t1, t2}
    NoTask = NoTask
    NrCpus = 2
    Duration = 3
    TickInterval = 2
    Ipi = 1
    Csw = 1
    Phases <- PairPhases
    Start <- PairStart
    InitialCpu <- PairCpu
    Allowed <- PairAnywhere
    Chosen <- PairAnywhere
    Hotplug <- Churn
    SelectDsq <- LocalOnly
    EnqueueDsq <- LocalOnly
    DispatchDsq <- LocalOnly
    Holds = FALSE
    Slices = {2}
    Kicks <- PreemptCpu0
    TickKicks = TRUE
INVARIANTS TypeOK Conserved TicksAlive EndPending NoOverrun
PROPERTIES TimeForward
CHECK_DEADLOCK FALSE
