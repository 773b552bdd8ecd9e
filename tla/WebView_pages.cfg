\* Two writers that share a file, and two loads that overlap.
SPECIFICATION Spec
CONSTANTS
  h1 = h1  r1 = r1  d1 = d1  f1 = f1  p1 = p1  q1 = q1  q2 = q2
  NoOne = NoOne  Nothing = Nothing
  Handlers    <- OneHandler
  Runs        <- OneRun
  Deletions   <- OneDeletion
  Foreign     <- OneForeign
  Casts       <- Couples
  Pages       <- OnePage
  Requests    <- TwoRequests
  Counts      = TRUE
  Reloads     = 1
  Buffer      = 1
  CacheHits   = TRUE
  LateReturns = TRUE
  LoadsFail   = TRUE
SYMMETRY Symmetry
VIEW View
INVARIANTS HeardIsAnswered NoSendOnClosed
PROPERTIES AnswersNeverGoBack
CHECK_DEADLOCK FALSE
