\* Three workers, with the thresholds of the code; the Interval passes once
\* between two successes.
SPECIFICATION FairSpec
CONSTANTS
    Workers = {w1, w2, w3}
    Threshold = 5
    MaxRetries = 3
    MaxIntervals = 1
INVARIANTS TypeOK OneTrial SinkSpared
PROPERTIES Recovers
