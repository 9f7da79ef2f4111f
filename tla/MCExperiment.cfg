SPECIFICATION Spec
CONSTANTS
    lavd = lavd
    old = old
    new = new
    Modes <- AllModes
    Keys <- OneKey
    Builtin = {}
    Reps = 1
    Config = {A, B}
    Build = {old, new}
    Size <- Sizes
    Versions = 2
    Kills = 1
    Failures = 1
    Edits = 1
    Absent = Absent
    Torn = Torn
INVARIANTS SnapshotSeals
PROPERTIES DataSealed MatrixCompletes
CHECK_DEADLOCK FALSE
