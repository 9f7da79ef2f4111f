SPECIFICATION FairSpec
CONSTANTS
    Total = 2
    MaxRounds = 3
    CloseMidRound = FALSE
INVARIANTS
    OwnerWritesParked
PROPERTIES
    ImplementsRounds
    RoundsReturn
    ShutdownReturns
