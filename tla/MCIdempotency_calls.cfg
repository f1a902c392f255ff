SPECIFICATION FairSpec
CONSTANTS
  Callers <- TwoCallers
  Providers = {"sqlite", "postgres", "mysql", "redis", "mongodb"}
  Timeout = 1
  Ttls = {0, 3}
  RejectedTtl = 1
  MaxFaults = 1
  NoRow = NoRow
INVARIANTS OneAtATime
PROPERTIES ResultStays WaitersReturn
