SPECIFICATION FairSpec
CONSTANTS
    Thread = {t1, t2, t3}
    MaxMsg = 3
    NoOne = NoOne
    StopAllowed = TRUE
INVARIANTS TypeOK NoLostWakeUp PackageInOnePlace
PROPERTIES ImplementsMessagePool PushedIsFreed
\* The event loop may have no more packages to push, or the pool has stopped.
CHECK_DEADLOCK FALSE
