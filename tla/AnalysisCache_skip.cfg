\* A chat outgrows the budget, chunks are dropped, runs fail or die.
SPECIFICATION Spec
CONSTANTS
  c1 = c1  c2 = c2  sub = sub  h1 = h1  h2 = h2
  Chats <- MCChats
  Subagents <- MCSubagents
  Heads <- MCHeads
  MaxVersion <- Grow
  Budget = 2
  HashesMayFail = FALSE
  ReadsMayFail = FALSE
SYMMETRY Symmetric
INVARIANTS NothingSkippedSilently NoOpRerun ReplayIsCurrent
