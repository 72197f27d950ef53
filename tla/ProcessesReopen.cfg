SPECIFICATION FairSpec
CONSTANTS
    Lines = 3
    Capacity = 2
    MaxFd = 4
    None = None
    argc = 3
    BUF_SIZE = 2
    Sources <- MCSources
    OldFiles <- MCOldFiles
    OpenMax = 5
    Closed = Closed
    Other = Other
    Length = 5
    Room = 3
    BufSize = 2
    MaxAddrs = 2
    MaxCalls = 3
    MaxFds = 2
INVARIANTS
    ReopensStandard
\* All processes end.
CHECK_DEADLOCK FALSE
