SPECIFICATION FairSpec
CONSTANTS
    ByteBase = 4
    Capacity = 3
    MaxMsg <- Limits
    Sendable <- Messages
    Receivable <- Receives
    MaxSends <- Sends
    MaxRecvs <- Recvs
INVARIANTS
    RecvMatchesSend
    RecvFailsForCause
PROPERTY DeadPeerReleases
CHECK_DEADLOCK FALSE
