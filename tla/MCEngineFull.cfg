SPECIFICATION FullSpec
CONSTANTS
    t1 = t1
    t2 = t2
    t3 = t3
    capped = capped
    free = free
    Task = {t1, t2}
    NoTask = NoTask
    NrCpus = 2
    Duration = 3
    TickInterval = 3
    Ipi = 0
    Csw = 0
    Phases <- Computing
    Start <- Apart
    InitialCpu <- Cpu0And1
    Allowed <- Both
    Chosen <- Both
    Hotplug <- TheEvents
    SelectDsq <- LocalOnly
    EnqueueDsq <- LocalOrGlobal
    DispatchDsq <- LocalOnly
    Holds = FALSE
    Slices = {2}
    Kicks <- NoKicks
    TickKicks = FALSE
    Group = {capped, free}
    NoGroup = NoGroup
    Home <- OneCapped
    MoveTo <- IntoCapped
    Billing <- CappedBills
    Budgets = {1}
    PutsAside = {t2}
    Period = 2
    Window = 2
    IrqTime = 1
    Timeout = 1
INVARIANTS StashConserved SleeperWoken EndsDespiteIrq
CHECK_DEADLOCK FALSE
