SPECIFICATION Spec
CONSTANTS
    c1 = c1
    c2 = c2
    d1 = d1
    d2 = d2
    s1 = s1
    s2 = s2
    Conns = {c1, c2}
    MaxFds = 2
    MaxThreads = 4
    MaxSends = 1
    TcpClients = {c1, c2}
    Datagrams = {d1, d2}
    Empty = {d2}
    MaxSend <- MCMaxSend
    SendBuffer = 1
    MaxOpen = 1
    Backlog = 2
    Clients = {c1, c2}
    Servers = {s1, s2}
    Blocks = {1}
    SocketRoom = 1
    MaxDeaths = 0
    None = None
    Stale = Stale
INVARIANTS
    OneThreadPerSocket
\* Clients stop sending; the servers wait for ever or have ended.
CHECK_DEADLOCK FALSE
