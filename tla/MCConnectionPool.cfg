SPECIFICATION FairSpec
CONSTANTS
    c1 = c1
    c2 = c2
    c3 = c3
    Conn <- MCConn
    InitFree <- MCInitFree
    Fd = {f1, f2}
    Client = {k1, k2, k3}
    NoConn = NoConn
    NoClient = NoClient
    NoFd = NoFd
    RecyWaiteTime = 1
    Start = 1
    LastEntry = 1
    MaxTime = 2
    KernelHasAccept4 = FALSE
    NonBlockingResults = {TRUE}
    EpollAddResults = {TRUE, FALSE}
INVARIANTS TypeOK OneHolder HeaderMatchesClient Quarantine
PROPERTIES RetiredIsReused ImplementsLeases
\* The model stops when all clients have left and the clock has run out.
CHECK_DEADLOCK FALSE
