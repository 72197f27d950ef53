SPECIFICATION FairSpec
CONSTANTS
    c1 = c1
    c2 = c2
    c3 = c3
    NoReq = NoReq
    Clients <- MCClients
    SeqLen <- MCSeqLen
    MaxInt = 7
    MaxFds = 2
    MaxFaults = 2
INVARIANTS
    TypeOK
    
    WaitsOnlyForDead
PROPERTIES
    AnsweredUnlessExhausted
\* A client that found no descriptor left waits for ever, and the server
\* waits for ever for a client that was killed.
CHECK_DEADLOCK FALSE
