\* Two pushers, four events and a channel of one slot, with one crash and
\* restart.  Every Dequeue compacts (one that does not is like one whose
\* compaction fails), so that a copy can overlap the frames it copies.  The
\* system may stop for good: the pump ends after Close.
SPECIFICATION OrderedSpec
CONSTANTS
    e1 = e1
    e2 = e2
    e3 = e3
    e4 = e4
    Events = {e1, e2, e3, e4}
    CompactAt = 0
    Pushers = {p1, p2}
    MemSize = 1
    MaxCrashes = 1
CHECK_DEADLOCK FALSE
INVARIANTS TypeOK NoLossWhileUp  CountAgrees
PROPERTIES SpillDrains
