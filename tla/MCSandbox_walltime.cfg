SPECIFICATION Spec
CONSTANTS
    Backends = {"posix"}
    AllowSpawn = FALSE
    PoliteKills = {TRUE}
    MaxSpawns = 4
CHECK_DEADLOCK FALSE
INVARIANT WallTimeEnforced
