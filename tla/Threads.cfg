SPECIFICATION FairSpec
CONSTANTS
    N = 3
    Argcs <- MCArgcs
    MaxSpurious = 2
    Counts <- MCCounts
INVARIANTS
    TypeOK
    CountersAgree
    LostOnlyInWindow
    ExactTotal
    LostButBounded
PROPERTIES
    EndsUnlessRaced
    CleansUp
\* A process ends, main waits for a thread it locked out, or a wait goes on
\* whose signal or alarm was lost.
CHECK_DEADLOCK FALSE
