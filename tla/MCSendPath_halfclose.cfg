SPECIFICATION Spec
CONSTANTS
    Conn = {c1}
    NoConn = NoConn
    MaxReply = 2
    ReplyLength = 2
    Capacity = 2
    Backlog = {1}
    MaxUnread = 2
    Departures = {"fin"}
INVARIANT WireIntegrity
\* The model stops when every reply is sent and nobody leaves.
CHECK_DEADLOCK FALSE
