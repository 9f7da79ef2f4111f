SPECIFICATION Spec
CONSTANTS
    t1 = t1
    t2 = t2
    t3 = t3
    Task = {t1, t2, t3}
    NoTask = NoTask
    NrCpus = 2
    Duration = 3
    TickInterval = 2
    Ipi = 1
    Csw = 0
    Phases <- ChurnPhases
    Start <- Staggered
    InitialCpu <- FirstCpu
    Allowed <- Anywhere
    Chosen <- Anywhere
    Hotplug <- Churn
    SelectDsq <- LocalOnly
    EnqueueDsq <- LocalOrOn
    DispatchDsq <- LocalOnly
    Holds = FALSE
    Slices = {2}
    Kicks <- NoKicks
    TickKicks = TRUE
INVARIANT OfflineRunsNothing
CHECK_DEADLOCK FALSE
