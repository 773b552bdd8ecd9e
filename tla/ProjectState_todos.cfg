\* Runs of the daemon beside a dreamer analyze.
SPECIFICATION Spec
CONSTANTS
  f1 = f1  f2 = f2  f3 = f3  h1 = h1  h2 = h2  daemon = daemon  analyze = analyze
  Findings <- Three
  Strategy <- NoApply
  Recorded <- None
  Handlers <- None
  Runs     <- BothRuns
  Foreign  <- AnalyzeRun
  Calls    <- AnyCall
  MaxHashes = 1
  MaxFile = 0
  SaveCanFail = TRUE
INVARIANTS NoFindingLost
