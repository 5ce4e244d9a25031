\* Two workers, each allowed one restart, one of them able to use it up.
SPECIFICATION FairSpec
CONSTANTS
    e3 = e3
    Events = {e1, e2, e3}
    Workers = {w1, w2}
    Sinks = {s1}
    BatchSize = 2
    MaxRetries = 2
    MaxRestarts = 2
    HttpHandlers = {h1}
    GrpcHandlers = {g1}
    BufferSize = 1
\* The process ends after shutdown, and clients may stop sending before.
CHECK_DEADLOCK FALSE
INVARIANTS TypeOK DrainedOnExit ClosedWhenQuiet FailedIsDeadLettered
PROPERTIES ShutdownEnds NoStarvation
