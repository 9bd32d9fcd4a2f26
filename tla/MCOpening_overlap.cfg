SPECIFICATION Spec
CONSTANTS
    Workers = {w1, w2}
    Topics = {"start"}
    MaxAddrs = 1
    MaxCalls = 2
    MaxLaunching = 2
INVARIANT StdinCloseIsEof
CHECK_DEADLOCK FALSE
