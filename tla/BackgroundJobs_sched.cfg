\* The web server, the interactive list and a command change one job.
SPECIFICATION Spec
CONSTANTS
  j1 = j1  j2 = j2  s1 = s1  s2 = s2  w1 = w1  c1 = c1  t1 = t1  o1 = o1
  Jobs  <- OneJob
  Specs <- TwoSpecs
  Procs <- SchedProcs
  ProcessOf <- SchedProcess
  Front <- SchedFront
  Uses  <- SchedUses
  Keep = 1
  MaxRuns = 0
  AtomicLocks = TRUE
  NoSpec = NoSpec  Absent = Absent  NoTimer = NoTimer
INVARIANTS OrphansAreRemoved TimersFollowJobs
PROPERTIES EditsAreKept
CHECK_DEADLOCK FALSE
