SPECIFICATION PollSpec
CONSTANTS
    None = None
    Gone = Gone
    Cursor <- AllCursors
    Pollers = {p1, p2, p3}
    Jobs = {"live", "interactive", "follow"}
    MaxPages = 2
    FirstTip = 1
    MaxTip = 1
    Policy = "incremental"
    Idles = TRUE
    Faults = {"throw"}
INVARIANTS OnePollAtATime
PROPERTIES QueueIsServed
CHECK_DEADLOCK FALSE
