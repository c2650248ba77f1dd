SPECIFICATION Spec
CONSTANTS
    Items = {i1}
    Runs = {r1, r2}
    Refreshers = {"tick","wake"}
    MaxConcurrent = 1
    MaxFailures = 2
    Scenarios <- Prompt
    None = None
INVARIANTS OccupiedItemHasARun
CHECK_DEADLOCK FALSE
SYMMETRY SymmetryData
