SPECIFICATION WholeSpec
CONSTANTS
  f1 = f1
  Keys <- OneKey
  Calls <- ThreeCalls
  Flushers <- OneFlusher
  MaxBatchSize = 2
  MaxBufferSize = 2
  Coalesce = TRUE
  HandlerMayFail = FALSE
  ClearWhen = "any"
  None = None  Seed = Seed  Background = Background
PROPERTY CallsAnswered
\* The callers are finite: when they are done, nothing is left to do.
CHECK_DEADLOCK FALSE
