\* Closing while the worker pops, works, acknowledges and beats, buffered
\* writes are on their way and connecting may fail.  The program calls again
\* when close() has returned.
SPECIFICATION LifeFairSpec
CONSTANTS
  Jobs = {j1, j2}
  Concurrency = 1
  Loops = {l1}
  Runs = {r1}
  Closers = {k1}
  Connections = {n1, n2}
  ClientWrites = {w1, w3}
  JobWrites = {w2}
  Overlap = FALSE
  StartWhileClosing = FALSE
  TtlCleanup = FALSE
  MayNotConnect = TRUE
  BeatOverlaps = FALSE
  LateCalls = FALSE
  Restarts = FALSE
  None = None
  j1 = j1  j2 = j2  l1 = l1  l2 = l2  r1 = r1  r2 = r2
  n1 = n1  n2 = n2  k1 = k1  k2 = k2  w1 = w1  w2 = w2  w3 = w3
INVARIANTS
  ClosedIsQuiet
  NothingCutOff
PROPERTIES
  CloseReturns
