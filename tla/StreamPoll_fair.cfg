SPECIFICATION FairSpec
CONSTANTS
    None = None
    Gone = Gone
    Cursor <- AllCursors
    Pollers = {p1, p2}
    Jobs = {"live", "history"}
    MaxPages = 2
    FirstTip = 3
    MaxTip = 4
    Policy = "backfill"
    Idles = FALSE
    Faults = {}
INVARIANTS BackfillIsOwed
PROPERTIES EveryMessageIsStored
CHECK_DEADLOCK FALSE
