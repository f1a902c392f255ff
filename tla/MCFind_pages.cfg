\* Every query of every table on every backend, read to the end.
SPECIFICATION ReaderSpec
CONSTANTS
  Tables <- MCTables
  Queries <- MCQueries
  Answers <- AnswerOf
  SortsBefore <- PrecedesIn
INVARIANTS
  BackendsAgree
  EachRowOnce
  FindAgrees
\* A reader that is done asks nothing more.
CHECK_DEADLOCK FALSE
