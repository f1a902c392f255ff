SPECIFICATION TablesSpec
CONSTANTS
  c1 = c1  c2 = c2  c3 = c3
  Calls <- ThreeCalls
  Keys = {1, 2}
  Marks = {"m"}
  MaxAttempts = 2
  Tables <- Kept
  NoRow = NoRow
  Processes = {"p1", "p2"}
  Changes = {"c1", "c2"}
  Names = {"u", "a", "b"}
  None = None
  Settings <- Evolving
SYMMETRY Symmetric
INVARIANTS
  WritesKept
  RefusedLeavesNothing
  HandlesServed
  NothingForgotten
\* Every call is made once.
CHECK_DEADLOCK FALSE
