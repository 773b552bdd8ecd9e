\* Every call of a client beside the daemon's runs, with failing saves and crashes.
SPECIFICATION Spec
CONSTANTS
  f1 = f1  f2 = f2  f3 = f3  h1 = h1  h2 = h2  daemon = daemon  analyze = analyze
  Findings <- Two
  Strategy <- Replace2
  Recorded <- Second
  Handlers <- OneHandler
  Runs     <- DaemonRun
  Foreign  <- None
  Calls    <- AnyCall
  MaxHashes = 1
  MaxFile = 1
  SaveCanFail = TRUE
INVARIANTS CanBeApplied
PROPERTIES ImplementsFindingLifecycle RunsLeaveLifecycle ReversalIsKept
