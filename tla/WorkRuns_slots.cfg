SPECIFICATION Spec
CONSTANTS
    Items = {i1, i2}
    Runs = {r1, r2}
    Refreshers = {"tick"}
    MaxConcurrent = 1
    MaxFailures = 2
    Scenarios <- AllScenarios
    None = None
SYMMETRY SymmetryData
INVARIANTS TypeOK OneAgentPerItem AgentIsOnTheLedger
PROPERTY StartsWithinCap
CHECK_DEADLOCK FALSE
