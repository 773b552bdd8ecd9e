\* A command and the scheduler run a job that is paused meanwhile.
SPECIFICATION Spec
CONSTANTS
  j1 = j1  j2 = j2  s1 = s1  s2 = s2  w1 = w1  c1 = c1  t1 = t1  o1 = o1
  Jobs  <- OneJob
  Specs <- OneSpec
  Procs <- RunProcs
  ProcessOf <- RunProcess
  Front <- RunFront
  Uses  <- RunUses
  Keep = 1
  MaxRuns = 3
  AtomicLocks = TRUE
  NoSpec = NoSpec  Absent = Absent  NoTimer = NoTimer
INVARIANTS OnlyEnabledJobsRun HealthIsOfLastRun NewestRunsKept
CHECK_DEADLOCK FALSE
