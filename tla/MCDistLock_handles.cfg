SPECIFICATION FairSpec
CONSTANTS
  c1 = c1  c2 = c2  c3 = c3
  Callers <- TwoCallers
  Drivers = {"locked", "optimistic", "racy"}
  Ttl = 2
  WaitTimeout = 2
  LateRelease = FALSE
  MaxFaults = 2
  NoRow = NoRow
INVARIANTS HandleTruthful
PROPERTIES AcquireReturns LockComesBack
