\* Two workers, two sinks, a buffer that overflows, a failing disk, a crash.
SPECIFICATION Spec
CONSTANTS
    Msgs = {m1, m2}
    Ids = {m1, m2}
    IdOf <- OwnIds
    Handlers = {h1}
    Workers = {w1, w2}
    Sinks = {s1, s2}
    BufferSize = 1
    BatchSize = 2
    Tenancy = FALSE
    MaxSends = 3
    MaxDrains = 0
    MaxCrashes = 1
    MaxErrors = 1
\* The clients stop sending after MaxSends requests.
CHECK_DEADLOCK FALSE
SYMMETRY PipelineSymmetry
INVARIANTS TypeOK AtLeastOnce
PROPERTIES NoPrematureAck
