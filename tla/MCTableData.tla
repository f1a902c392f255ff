----------------------------- MODULE MCTableData -----------------------------
(* Calls and tables for checking TableData.                                *)
EXTENDS TableData

FourCalls == 1..4
FiveCalls == 1..5

(* A buffered table without caches, and what is asked of it.               *)
Buffered(operations, atOnce, failing) ==
  [autoBatch |-> TRUE, cache |-> FALSE, queryCache |-> FALSE, mayHold |-> FALSE,
   operations |-> operations, atOnce |-> atOnce, failing |-> failing]

Holding(t) == [t EXCEPT !.mayHold = TRUE]
Cached(t)  == [t EXCEPT !.cache = TRUE]
Queried(t) == [t EXCEPT !.cache = TRUE, !.queryCache = TRUE]
Direct(t)  == [t EXCEPT !.autoBatch = FALSE]

AllButClear == (Writes \cup Bulk \cup Reads) \ {"clear"}
OneByOne    == Queried(Buffered(AllButClear, 1, {"call"}))

ReadTables    == {Holding(Buffered({"set", "delete", "clear", "get", "find"}, 4, {"call", "batch"})),
                  OneByOne, Direct(OneByOne)}
UpdatedTables == {Buffered({"set", "delete", "update", "setMany", "updateRecord"}, 3,
                           {"call", "batch"})}

AllTables     == ReadTables \cup UpdatedTables

(* The tables on which a property fails.                                   *)
CacheFill    == {Cached(Buffered({"set", "get"}, 4, {}))}
ClearedCache == {Cached(Buffered({"set", "clear", "get"}, 1, {}))}
FailedDelete == {Queried(Buffered({"set", "delete", "deleteMany", "find"}, 1, {"call", "batch"}))}
HeldUpdate   == {Holding(Buffered({"set", "update"}, 4, {}))}
InFlightRead == {Buffered({"set", "update", "get"}, 4, {})}
QueryFill    == {Direct(Queried(Buffered({"set", "find"}, 4, {})))}

=============================================================================
