\* One request, no failure but a crash, and room for every event.
SPECIFICATION Spec
CONSTANTS
    Msgs = {m1, m2}
    Ids = {m1, m2}
    IdOf <- OwnIds
    Handlers = {h1}
    Workers = {w1}
    Sinks = {s1}
    BufferSize = 4
    BatchSize = 2
    Tenancy = FALSE
    MaxSends = 1
    MaxDrains = 0
    MaxCrashes = 1
    MaxErrors = 0
\* The clients stop sending after MaxSends requests.
CHECK_DEADLOCK FALSE
INVARIANTS DeliveredIsReleased
