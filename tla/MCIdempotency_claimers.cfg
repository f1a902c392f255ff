SPECIFICATION Spec
CONSTANTS
  Callers <- TwoCallers
  Providers = {"redis"}
  Timeout = 2
  Ttls = {0}
  RejectedTtl = 1
  MaxFaults = 0
  NoRow = NoRow
INVARIANT OnceOnly
