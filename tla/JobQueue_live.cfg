\* Liveness of a daemon whose saves and loads may fail; a pipeline may hang.
SPECIFICATION FairSpec
CONSTANTS
  p1 = p1  p2 = p2  w1 = w1  w2 = w2  h1 = h1
  Projects <- MCProjects
  Workers  <- OneWorker
  Handlers <- NoHandlers
  MaxConcurrent = 1
  MaxJobs = 2
  SaveCanFail = TRUE
  LoadCanFail = TRUE
INVARIANTS OneActivePerProject
PROPERTIES OutcomeIsFinal PendingIsServed RunningIsRecorded StopCompletes
