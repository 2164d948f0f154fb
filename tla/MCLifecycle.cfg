SPECIFICATION FairSpec
CONSTANTS
    Requests = {r1, r2, r3}
    QueueDepth = 1
INVARIANTS
    TypeOK
    ExportedInOrder
    GracefulFlush
PROPERTIES
    ShutdownEnds
    SpansLeave
\* The process exits.
CHECK_DEADLOCK FALSE
