SPECIFICATION FairSpec
CONSTANTS
    w1 = w1
    w2 = w2
    Creators = {k1}
    Writers = {w1, w2}
    Readers = {r1}
    Text <- MCText
    Sizes = {0, 3}
    MaxSize = 3
    Page = 2
    Procs = {p1, p2, p3}
    Old = Old
    OldSize = 1
    BlockSize = 2
    Clients = {w1, w2}
    None = None
    Lengths <- MCLengths
    BUF_SIZE = 2
    MaxFaults = 2
    Senders = {s1, s2, s3}
    Receivers = {r1, r2}
    Creatings <- MCCreatings
    Sendings <- MCSendings
    Receivings <- MCReceivings
    MaxText = 2
    Capacity = 2
INVARIANTS
    TypeOK
    MixedOnlyIfRaced
    MessagesIntact
PROPERTIES
    AllAnswered
\* All programs end, or wait for ever for a message.
CHECK_DEADLOCK FALSE
