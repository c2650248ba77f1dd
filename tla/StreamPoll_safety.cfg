SPECIFICATION Spec
CONSTANTS
    None = None
    Gone = Gone
    Cursor <- AllCursors
    Pollers = {p1, p2}
    Jobs = {"history", "focus", "scroll", "follow"}
    MaxPages = 2
    FirstTip = 1
    MaxTip = 2
    Policy = "backfill"
    Idles = FALSE
    Faults = {"throttle", "throw", "store", "crash", "reset", "disable"}
SYMMETRY SymmetryPollers
INVARIANTS TypeOK CursorsAreCovered
PROPERTIES LeaseIsGivenBack
CHECK_DEADLOCK FALSE
