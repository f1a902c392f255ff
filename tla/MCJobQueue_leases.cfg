SPECIFICATION Spec
CONSTANTS
  Jobs <- TwoJobs
  Consumers = {c1, c2}
  Maintainers = {m1}
  Tokens = {t1, t2, t3, t4, t5, t6}
  Nobody = Nobody
  NoRow = NoRow
  Priority <- OneBeforeTwo
  Removed <- OnlyTwo
  MaxAttempts = 2
  Lease = 3
  Backoff = 1
  Exponential = TRUE
  MaxDelay = 1
  MaxFaults = 2
  MaxRuns = 6
  AtomicRow = TRUE
  LeaseKept = TRUE
  BeatOverlaps = FALSE
  j1 = j1  j2 = j2
SYMMETRY Alike
INVARIANTS
  Exclusive
  AckedIsFinal
  AttemptsCounted
PROPERTIES
  NeverDropped
\* Settled jobs and idle workers leave nothing to do, and the clock stops.
CHECK_DEADLOCK FALSE
