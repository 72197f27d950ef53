SPECIFICATION Spec
CONSTANTS
    Input <- MCInput
    Sems <- MCSems
    BUF_SIZE = 2
    MaxFaults = 0
    MaxEintr = 0
INVARIANTS
    ReceivedBytes
