SPECIFICATION FairSpec
CONSTANTS
    e1 = e1
    e2 = e2
    t1 = t1
    None = None
    Events = {e1, e2}
    Threads = {t1}
    ThreadOf <- OneThread
    Workers = {w1, w2}
    MaxVersion <- OneRepoint
    MaxFaults = 1
INVARIANTS TypeOK SucceededIsProjected CheckpointIsBacked
PROPERTIES CheckpointMovesForward EveryEventIsProjected
CHECK_DEADLOCK FALSE
