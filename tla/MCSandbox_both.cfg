SPECIFICATION Spec
CONSTANTS
    Backends = {"windows", "posix"}
    AllowSpawn = TRUE
    PoliteKills = {TRUE, FALSE}
    MaxSpawns = 3
CHECK_DEADLOCK FALSE
INVARIANTS
    AliveIsHeld
    AwaitedIsGone
    KilledIsDead
    NoStrangerShot
