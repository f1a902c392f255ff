SPECIFICATION WholeSpec
CONSTANTS
  f1 = f1
  Keys <- OneKey
  Calls <- FourCalls
  Flushers <- OneFlusher
  MaxBatchSize = 1
  MaxBufferSize = 1
  Coalesce = FALSE
  HandlerMayFail = FALSE
  ClearWhen = "never"
  None = None  Seed = Seed  Background = Background
PROPERTY FifoAdmission
\* The callers are finite: when they are done, nothing is left to do.
CHECK_DEADLOCK FALSE
