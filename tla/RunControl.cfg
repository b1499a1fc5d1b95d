CONSTANT MaxOps = 5
SPECIFICATION FairSpec
INVARIANTS PauseLatency PauseHolds
PROPERTIES StopEndsLoop BreakServed ResumeStartsRun
