SPECIFICATION FullSpec
CONSTANTS
    t1 = t1
    t2 = t2
    t3 = t3
    capped = capped
    free = free
    Task = {t1, t2}
    NoTask = NoTask
    NrCpus = 2
    Duration = 3
    TickInterval = 3
    Ipi = 0
    Csw = 0
    Phases <- Computing
    Start <- Apart
    InitialCpu <- Cpu0And1
    Allowed <- Both
    Chosen <- Both
    Hotplug <- TimerOnly
    SelectDsq <- LocalOnly
    EnqueueDsq <- LocalOrGlobal
    DispatchDsq <- LocalOnly
    Holds = FALSE
    Slices = {2}
    Kicks <- NoKicks
    TickKicks = FALSE
    Group = {capped, free}
    NoGroup = NoGroup
    Home <- IntoCapped
    MoveTo <- IntoCapped
    Billing <- CappedBills
    Budgets = {1}
    PutsAside = {t2}
    Period = 2
    Window = 0
    IrqTime = 1
    Timeout = 1
INVARIANT TaskOnOneCpu
CHECK_DEADLOCK FALSE
