SPECIFICATION Spec
CONSTANTS
    NrProcs = 2
    Rounds = 2
    Deaths = 1
    Thread <- Threads
    Sem <- Semaphores
    Max <- OneEach
INVARIANTS RoundsDelivered WakeComes
PROPERTIES ContextEnds
CHECK_DEADLOCK FALSE
