SPECIFICATION Spec
CONSTANTS
    Base = 3
    HeaderLength = 2
    MaxLength = 5
    MaxBytes = 7
    MaxClients = 2
INVARIANT EveryPackageQueued
\* The model stops when the last client has left.
CHECK_DEADLOCK FALSE
