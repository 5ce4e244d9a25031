\* One HTTP and one gRPC caller, a known tenant and an unknown one, a clock
\* of two ticks to the second.  A rejected configuration stops the process, and
\* so do the bounds.
SPECIFICATION Spec
CONSTANTS
    Configs <- MCConfigs
    Backlog <- MCBacklog
    HttpCallers = {h1}
    GrpcCallers = {g1}
    TenantIds = {"", "a", "u"}
    Scale = 2
    MaxCalls = 3
    MaxTime = 3
CHECK_DEADLOCK FALSE
INVARIANTS TypeOK LoadedIsFit RateBound CountersBalance
PROPERTY OnlyOverQuota
