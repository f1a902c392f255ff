SPECIFICATION Spec
CONSTANTS
  Calls <- FourCalls
  Tables <- AllTables
  Absent = Absent
  Nothing = Nothing
INVARIANT NoLostWrite
INVARIANT NoStaleRead
INVARIANT UpdatesKept
\* The calls are finite: when they are answered, nothing is left to do.
CHECK_DEADLOCK FALSE
