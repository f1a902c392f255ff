SPECIFICATION Spec
CONSTANTS
  a1 = a1  a2 = a2  a3 = a3  a4 = a4
  Callers <- FourCallers
  Drivers = {"sqlite", "postgres", "mysql", "mongodb", "redis"}
  Operations = {"get", "set", "delete", "update"}
  Expires = TRUE
  MaxAttempts = 2
  Absent = Absent
  Nobody = Nobody
PROPERTY KeepsPromise
\* Every caller calls once.
CHECK_DEADLOCK FALSE
