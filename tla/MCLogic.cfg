SPECIFICATION FairSpec
CONSTANTS
    Thread = {t1, t2}
    NoThread = NoThread
    Connection = {c1}
    Package <- MCPackage
    RegisterLength = 2
    MaxRequest = 2
    MaxClients = 2
INVARIANTS TypeOK ReplyReachesRequester OnlyIntactAnswered
PROPERTY Answered
\* The clients stop when the bounds are reached.
CHECK_DEADLOCK FALSE
