CONSTANTS
    w1 = w1
    w2 = w2
    w3 = w3
    Workers <- MCWorkers
    Timed <- MCTimed
    MaxKfuncs <- MCKfuncs
    Engine = Engine
    None = None
SPECIFICATION Spec
INVARIANTS
    ParkedHoldsNoLock
    TokenHeld
    KfuncSeesOwnCpu
    InhibitUndone
    RollsFixed
PROPERTY RoundEnds
