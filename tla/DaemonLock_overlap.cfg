\* Starts, stop commands, signals and deaths in any order.
SPECIFICATION Spec
CONSTANTS
  d1 = d1  d2 = d2  d3 = d3  o1 = o1  s1 = s1  s2 = s2
  Daemons   <- TwoDaemons
  Others    <- OneOther
  Stops     <- TwoStops
  PidOf     <- Reused2
  ExecKnown = TRUE
INVARIANTS EstablishedIsAlone
  
SYMMETRY Symmetric
CHECK_DEADLOCK FALSE
