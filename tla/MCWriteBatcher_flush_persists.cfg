SPECIFICATION WholeSpec
CONSTANTS
  f1 = f1
  Keys <- TwoKeys
  Calls <- ThreeCalls
  Flushers <- OneFlusher
  MaxBatchSize = 2
  MaxBufferSize = 2
  Coalesce = TRUE
  HandlerMayFail = TRUE
  ClearWhen = "never"
  None = None  Seed = Seed  Background = Background
INVARIANT FlushPersists
\* The callers are finite: when they are done, nothing is left to do.
CHECK_DEADLOCK FALSE
