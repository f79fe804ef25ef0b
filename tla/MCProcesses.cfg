SPECIFICATION FairSpec
CONSTANTS
    WorkerProcesses = 2
    Signal = {"SIGHUP", "SIGINT"}
    DaemonResults = {"not_asked", "child", "failed"}
    MaskResults = {TRUE, FALSE}
    ForkResults = {TRUE, FALSE}
INVARIANTS TypeOK SpawnUninterrupted ZombieIsSignalled
 
\* The server may end.
CHECK_DEADLOCK FALSE
