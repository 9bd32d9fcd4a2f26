SPECIFICATION FairSpec
CONSTANTS
    Workers = {w1, w2}
    Topics = {"feed", "pump", "unknown"}
    MaxCalls = 3
    MaxPumps = 1
INVARIANTS
    TypeOK
    ExactlyOnePlace
    EveryJobHasATaker
    WaiterWillHear
    ShutdownDrains
PROPERTIES
    ImplementsAsyncCalls
    CallsAnswered
    ResultsCollected
    ShutdownEnds
\* The scheduler need not submit anything more.
CHECK_DEADLOCK FALSE
