\* Three entries, one of them too long to read back, over two days and two
\* restarts.  Nothing is left to do once all entries are pushed and the bounds
\* are used up.
SPECIFICATION Spec
CONSTANTS
    Entries = {x1, x2, x3}
    Long = {x3}
    LastDay = 2
    MaxCrashes = 2
CHECK_DEADLOCK FALSE
INVARIANTS TypeOK DrainLosesNothing HandedOutOnce KeptUntilReplaced
