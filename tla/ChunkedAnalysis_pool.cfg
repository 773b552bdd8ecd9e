\* Both modes, three chunks, two sessions.
CONSTANTS
  NChunks <- MCNChunks
  MaxConcurrency <- MCMaxConcurrency
SPECIFICATION FairSpec
INVARIANTS PoolAccounting NoStrandedWaiter NoSessionLeaks ResultIsHonest
PROPERTIES EveryRunReturns
CHECK_DEADLOCK FALSE
