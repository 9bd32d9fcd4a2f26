SPECIFICATION FairSpec
CONSTANTS
    Workers = {w1, w2}
    Topics = {"dial", "listen", "probe", "exec", "start", "tls"}
    MaxAddrs = 2
    MaxCalls = 3
    MaxLaunching = 1
INVARIANTS
    NothingLeftBehind
    EntryIsWhole
    PipesAreOwn
PROPERTY ExecReturns
CHECK_DEADLOCK FALSE
