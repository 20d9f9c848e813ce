CONSTANTS
  Budgets <- SomeBudgets
  Instants <- SomeInstants
  Delays <- SomeDelays
  MaxRuns = 3
  Clients = {c1, c2}
  Limit = 2
  Window = 1
  Timeout = 2
  Waits <- SomeWaits
  MaxBack = 2
  SearchBoundary = 5
  HistoryBoundary = 3
  PageLimit = 4
  Samples <- SomeSamples
  Reads <- SomeReads
  MaxTotal = 6
SPECIFICATION RequestsSpec
INVARIANTS UnsafeOnce HttpInv RateInv ReadsInv
PROPERTIES CancelWins AnswersGuarded EveryCallEnds
\* A request with its replays, and a command, end.
CHECK_DEADLOCK FALSE
