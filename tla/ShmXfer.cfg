SPECIFICATION FairSpec
CONSTANTS
    Input <- MCInput
    Sems <- MCSems
    BUF_SIZE = 2
    MaxFaults = 2
    MaxEintr = 1
INVARIANTS
    TypeOK
    OneTurn
    Integrity
    CleanExit
PROPERTIES
    BothExit
    ImplementsSlot
\* The peer of a process that died waits for ever.
CHECK_DEADLOCK FALSE
