\* Two replicas; any two of a crash, a graceful stop and a network fault.
SPECIFICATION FairSpec
CONSTANTS
    Events = {e1, e2}
    Replicas = {r1, r2}
    ChanSize = 1
    MaxTrouble = 2
INVARIANTS TypeOK LoggedOrDelivered LossBounded
PROPERTIES NoSendAfterClose NoEventWaits
