SPECIFICATION FairSpec
CONSTANTS
    N = 2
    Argcs <- MCArgcs
    MaxSpurious = 0
    Counts <- MCCounts
INVARIANTS
    JoinsTerminated
\* A process ends, main waits for a thread it locked out, or the thread
\* waits for a signal that was lost.
CHECK_DEADLOCK FALSE
