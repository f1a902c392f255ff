SPECIFICATION FairSpec
CONSTANTS
  Calls <- FourCalls
  Tables <- UpdatedTables
  Absent = Absent
  Nothing = Nothing
INVARIANT UpdatesKept
PROPERTY CallsReturn
\* The calls are finite: when they are answered, nothing is left to do.
CHECK_DEADLOCK FALSE
