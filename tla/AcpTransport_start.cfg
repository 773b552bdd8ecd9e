\* The context of Start is cancelled once it returns.
SPECIFICATION Spec
CONSTANTS
  r1 = r1  r2 = r2
  Owner = Owner  Reader = Reader  NoOne = NoOne  Nothing = Nothing  Failed = Failed
  Runs      <- OneRun
  InCap     = 1
  OutCap    = 2
  MaxSays   = 1
  StartCtx  = "start"
  Deadline  = TRUE
PROPERTIES StartedAgentServes
CHECK_DEADLOCK FALSE
