SPECIFICATION Spec
CONSTANTS
    Conn = {c1, c2}
    Fd = {f1, f2}
    Client = {k1, k2, k3}
    NoConn = NoConn
    NoClient = NoClient
    NoFd = NoFd
    MaxRequest = 2
    MaxLowered = 1
    FdReuse = FALSE
INVARIANTS TypeOK ReplyToRequester EventsAreCurrent BuffersAlive
PROPERTY ImplementsConversation
SYMMETRY Interchangeable
\* The model stops when every client has left and every request is answered.
CHECK_DEADLOCK FALSE
