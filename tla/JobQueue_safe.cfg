\* Saves and loads succeed: the queue and its abstract specification.
SPECIFICATION Spec
CONSTANTS
  p1 = p1  p2 = p2  w1 = w1  w2 = w2  h1 = h1
  Projects <- MCProjects
  Workers  <- MCWorkers
  Handlers <- MCHandlers
  MaxConcurrent = 2
  MaxJobs = 3
  SaveCanFail = FALSE
  LoadCanFail = FALSE
SYMMETRY Symmetric
INVARIANTS RunningMeansHeld DiskIsCurrent DrainedIsQuiet NoLostWakeup
PROPERTIES ImplementsLifecycle
