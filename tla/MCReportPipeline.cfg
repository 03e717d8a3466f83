\* Four messages through a queue with room for three reports: the queue fills, the drainer
\* takes up to two reports at a time, and the probes fall on any two of the messages.
SPECIFICATION FairSpec
CONSTANTS
    MessageCount = 4
    MaxReports = 2
    QUEUE_CAPACITY = 3
    DRAIN_BATCH = 2
    AUDIT_POINTS = 2
    PublishStrides = {1, 3}
INVARIANTS Lossless StreamIsWhole ProbesAligned
PROPERTIES WorkIsOnTheClock Stream RunEnds
