SPECIFICATION FairSpec
CONSTANTS
    c1 = c1
    c2 = c2
    NoReq = NoReq
    Clients <- MCClients
    FileBytes <- MCFileBytes
    MSGMNB = 8192
    REQ_MSG_SIZE = 4100
    RESP_MSG_SIZE = 8192
    StackAddress = 140722
    MaxFaults = 2
INVARIANTS
    TypeOK
    ZombieIsNoticed
    LossIsBounded
    InOrder
PROPERTIES
    StopsOnlyWithoutQueue
    AllServed
    ChildGivesUp
\* A forgotten client waits for ever.
CHECK_DEADLOCK FALSE
