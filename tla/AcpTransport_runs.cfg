\* Two sessions over one agent, started with the context of the run.
SPECIFICATION FairSpec
CONSTANTS
  r1 = r1  r2 = r2
  Owner = Owner  Reader = Reader  NoOne = NoOne  Nothing = Nothing  Failed = Failed
  Runs      <- TwoRuns
  InCap     = 1
  OutCap    = 2
  MaxSays   = 1
  StartCtx  = "run"
  Deadline  = TRUE
INVARIANTS NoStrandedCall TextIsWhole
PROPERTIES EveryRunReturns
CHECK_DEADLOCK FALSE
