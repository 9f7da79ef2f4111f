SPECIFICATION UnitsSpec
CONSTANTS
    t1 = t1
    t2 = t2
    t3 = t3
    c1 = c1
    c2 = c2
    a = a
    b = b
    Task = {t1, t2, t3}
    Cpu = {c1, c2}
    None = None
    Allowed <- MCAllowed
    Half = 4
    Window = 3
    MaxVtime = 10
    MaxInserts = 5
    NrCpus = 8
    CpusPerLlc = 2
    CpusPerNode = 4
    Threads = 2
    Configs <- Tables
    Loads <- Usages
    MaxChanges = 2
    Name = {a, b}
    Member = {t1}
    MaxCgroups = 3
    LastId = 5
    Interleaves = FALSE
INVARIANTS NoPanic OwnCpus NoDangling
PROPERTIES ImplementsQueue NeverPanics LayersSettle
CHECK_DEADLOCK FALSE
