SPECIFICATION FairSpec
CONSTANTS
  None = None
  r1 = r1 r2 = r2 e1 = e1 e2 = e2 e3 = e3 daemon = daemon
  Daemon = daemon
  Execs <- ThreeExecs
  Owners <- OwnersOfThree
  Works <- TwoRuns
  Runs <- TwoRuns
  Commands <- NoResume
  MayDelete = TRUE
  MayCrash = FALSE
PROPERTY StartedRunEnds
CHECK_DEADLOCK FALSE
