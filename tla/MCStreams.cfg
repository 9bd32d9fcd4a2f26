SPECIFICATION StreamsSpec
CONSTANTS
    Readers = {r1, r2}
    Sizes = {0, 1, 2}
    MaxWrites = 3
    KeepApart = TRUE
    Header = 1
    MaxMessage = 2
    DefaultMax = 2
    MaxPlaintextRead = 2
    Lengths = {0, 1, 3}
    MaxTraffic = 3
INVARIANT
    WrittenIsWhole
PROPERTIES
    ConnIsStreams
    CloseDeliversEof
    TlsIsStream
    TlsReadReturns
\* Both sides may stop: the callers owe no further call.
CHECK_DEADLOCK FALSE
