SPECIFICATION JobsSpec
CONSTANTS
  Jobs = {j1, j2, j3}
  Concurrency = 2
  Loops = {l1}
  Runs = {r1, r2, r3}
  Closers = {k1, k2}
  Overlap = FALSE
  StartWhileClosing = FALSE
  None = None
  j1 = j1  j2 = j2  j3 = j3  l1 = l1  l2 = l2  r1 = r1  r2 = r2  r3 = r3  k1 = k1  k2 = k2
  c1 = c1  c2 = c2  m1 = m1
  t1 = t1  t2 = t2  t3 = t3  t4 = t4  t5 = t5  t6 = t6
PROPERTIES
  ClosedIsStopped
  JobsTaken
  JobsSettle
\* Settled jobs and idle workers leave nothing to do: the queue then rests.
CHECK_DEADLOCK FALSE
