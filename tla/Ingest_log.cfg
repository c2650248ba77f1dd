SPECIFICATION Spec
CONSTANTS
    k1 = k1
    k2 = k2
    w1 = w1
    w2 = w2
    None = None
    Keys = {k1, k2}
    Contents <- SomeContents
    Workers = {w1, w2}
    Batches <- SomeBatches
    MaxBatches = 3
    MaxCrashes = 1
INVARIANTS TypeOK HistoryIsLinear HeadIsArranged
PROPERTY SourceIsHonoured
CHECK_DEADLOCK FALSE
