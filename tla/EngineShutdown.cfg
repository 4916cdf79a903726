\* Two workers, channels of one slot, batches of two, four targets: every
\* channel operation can find its channel full.
SPECIFICATION Spec
CONSTANTS
    Targets = {t1, t2, t3, t4}
    Workers = {w1, w2}
    Capacity = 1
    BatchSize = 2
    None = None
INVARIANTS
    NoSendOnClosed
    CompleteDrainLeavesNothing
PROPERTIES
    ShutdownEnds
    ImplementsContract
