\* Both replays over a buffer that overflows, with quotas and a crash.
SPECIFICATION OrderedSpec
CONSTANTS
    Msgs = {m1, m2}
    Ids = {m1, m2}
    IdOf <- OwnIds
    Handlers = {h1}
    Workers = {w1}
    Sinks = {s1}
    BufferSize = 1
    BatchSize = 2
    Tenancy = TRUE
    MaxSends = 2
    MaxDrains = 1
    MaxCrashes = 1
    MaxErrors = 0
\* The clients stop sending after MaxSends requests.
CHECK_DEADLOCK FALSE
INVARIANTS DeadLettersKept
PROPERTIES AcceptedIsHandled
