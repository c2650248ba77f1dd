SPECIFICATION Spec
CONSTANTS
  None = None
  r1 = r1 r2 = r2 e1 = e1 e2 = e2 e3 = e3 daemon = daemon
  Daemon = daemon
  Execs <- ThreeExecs
  Owners <- OwnersOfThree
  Works <- TwoRuns
  Runs <- TwoRuns
  Commands <- AllCommands
  MayDelete = TRUE
  MayCrash = TRUE
SYMMETRY SymmetryRuns
INVARIANT TypeOK RunAgreesWithRow CancelledRunIsQuiet ClaimIsNotLeaked
PROPERTY FinishedRunIsFrozen
CHECK_DEADLOCK FALSE
