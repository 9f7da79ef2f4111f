SPECIFICATION FairSpec
CONSTANTS
    w1 = w1
    w2 = w2
    Worker <- MCWorker
    CpuOf <- MCCpuOf
    Engine = engine
    MaxYields = 2
    MaxRounds = 2
    Advance = {1, 2}
INVARIANTS
    TokenExclusive
    DecisionMatchesYield
    NoLostWakeup
PROPERTIES
    ImplementsTokenPassing
    RoundsEnd
