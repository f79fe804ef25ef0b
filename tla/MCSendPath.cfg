SPECIFICATION FairSpec
CONSTANTS
    Conn = {c1, c2}
    NoConn = NoConn
    MaxReply = 2
    ReplyLength = 2
    Capacity = 2
    Backlog = {1}
    MaxUnread = 0
    Departures = {"gone"}
INVARIANTS TypeOK WireIntegrity FreedWhenDone OneSender
PROPERTY TakenOverIsCompleted
\* The model stops when every reply is sent and nobody leaves.
CHECK_DEADLOCK FALSE
