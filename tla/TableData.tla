------------------------------ MODULE TableData ------------------------------
(***************************************************************************)
(* The data path of one key of a table (src/core/table.ts): point reads    *)
(* and writes, updates, bulk operations and queries, over the storage, the *)
(* point cache, the query cache and, with autoBatch, the write buffer.     *)
(*                                                                         *)
(* A call is a sequence of awaits; the code between two of them is an      *)
(* action.  The buffer is WriteBatcher's, coalescing, seen from one key:   *)
(* what the other keys of a batch do is a delay or a failure.              *)
(*                                                                         *)
(* Calls are numbered in the order in which they begin.  A value is the    *)
(* set of the calls whose write is still visible in it: a set by c writes  *)
(* {c}, an update by c adds c to what it has read.  That makes a lost      *)
(* update and a stale read visible in what a call returns.  TTLs, hooks,   *)
(* metrics and watch events are left out.                                  *)
(***************************************************************************)
EXTENDS Naturals, FiniteSets

CONSTANTS
  Calls,     (* numbers of the calls of the table                          *)
  Tables,    (* the tables to look at, each with its options               *)
  Absent,    (* no record                                                  *)
  Nothing    (* no buffered operation, no cached value                     *)

Writes  == {"set", "delete", "update"}
Bulk    == {"setMany", "deleteMany", "updateRecord", "clear"}
Reads   == {"get", "exists", "getMany", "find"}

(* autoBatch, cache and queryCache are options; what is asked of a table   *)
(* is the operations called on it, how many at a time, whether something   *)
(* is awaited before a write is buffered (a beforeWrite hook, or a full    *)
(* buffer), and what the storage may reject: the write of a "call", a      *)
(* "batch".                                                                *)
Options == [autoBatch: BOOLEAN, cache: BOOLEAN, queryCache: BOOLEAN, mayHold: BOOLEAN,
            operations: SUBSET (Writes \cup Bulk \cup Reads), atOnce: Nat \ {0},
            failing: SUBSET {"call", "batch"}]

ASSUME TableAssumption ==
  /\ Calls \subseteq Nat
  /\ Tables \subseteq Options /\ \A t \in Tables : t.queryCache => t.cache

VARIABLES
  table,     (* the options of the table                                   *)
  db,        (* the stored value                                           *)
  cache,     (* the value in the point cache                               *)
  qcache,    (* the record in the cached result of a query                 *)
  pending,   (* the operation on the key in the buffer                     *)
  inFlight,  (* the operation on the key in the batch being written        *)
  stage,     (* the step the flush handler takes next, or "none"           *)
  call       (* the state of every call                                    *)

vars == <<table, db, cache, qcache, pending, inFlight, stage, call>>

-----------------------------------------------------------------------------
Content == SUBSET Calls
Value   == Content \cup {Absent}
Slot    == [type: {"set", "delete"}, val: Value, callers: SUBSET Calls]
Steps   == {"idle", "held", "queued", "flush", "db", "uncache", "encache", "drop",
            "invalidate", "cache", "read", "fill", "qcache", "query", "qfill", "done", "failed"}
Call    == [op: Writes \cup Bulk \cup Reads \cup {"none"}, pc: Steps, val: Value,
            before: SUBSET Calls, awaits: SUBSET Calls]

(* What stands for nothing is not something.                               *)
ASSUME SentinelAssumption ==
  (\A v \in Content : v # Absent) /\ (\A s \in Value \cup Slot : s # Nothing)

Done       == {c \in Calls : call[c].pc = "done"}
Queued     == {c \in Calls : call[c].pc = "queued"}
InProgress == {c \in Calls : call[c].pc \notin {"idle", "done", "failed"}}

Init ==
  /\ table \in Tables
  /\ db = Absent /\ cache = Nothing /\ qcache = Nothing
  /\ pending = Nothing /\ inFlight = Nothing /\ stage = "none"
  /\ call = [c \in Calls |-> [op |-> "none", pc |-> "idle", val |-> Absent,
                              before |-> {}, awaits |-> {}]]

(* Call c of op begins and goes on at pc; before are the calls that had    *)
(* been answered or buffered, awaits the buffered writes its flush()       *)
(* covers.                                                                 *)
Begin(c, op, pc, val) ==
  /\ op \in table.operations /\ call[c].pc = "idle" /\ \A d \in Calls : d < c => call[d].pc # "idle"
  /\ Cardinality(InProgress) < table.atOnce
  /\ call' = [call EXCEPT ![c] = [op |-> op, pc |-> pc, val |-> val, before |-> Done \cup Queued,
                                  awaits |-> IF pc = "flush" THEN Queued ELSE {}]]

Goto(c, pc)    == call' = [call EXCEPT ![c].pc = pc]
Keep(c, pc, v) == call' = [call EXCEPT ![c].pc = pc, ![c].val = v]

(* An update adds itself to what it has read; a missing record is created  *)
(* or not, as its options say.                                             *)
Patched(c, v) == IF v = Absent THEN {c} ELSE v \cup {c}

-----------------------------------------------------------------------------
(* set(), delete() and update() with the buffer.                           *)

BufferedOp(c, op, v) ==
  [type |-> IF op = "delete" THEN "delete" ELSE "set", val |-> v,
   callers |-> {c} \cup (IF pending = Nothing THEN {} ELSE pending.callers)]

(* The write is buffered at once, unless something is awaited first.       *)
Buffer(c, op, v) ==
  \/ /\ Begin(c, op, "queued", v)
     /\ pending' = BufferedOp(c, op, v)
     /\ UNCHANGED <<table, db, cache, qcache, inFlight, stage>>
  \/ /\ table.mayHold
     /\ Begin(c, op, "held", v)
     /\ UNCHANGED <<table, db, cache, qcache, pending, inFlight, stage>>

BufferHeld(c) ==
  /\ call[c].pc = "held"
  /\ Goto(c, "queued")
  /\ pending' = BufferedOp(c, call[c].op, call[c].val)
  /\ UNCHANGED <<table, db, cache, qcache, inFlight, stage>>

SetOrDelete(c, op) ==
  IF table.autoBatch THEN Buffer(c, op, IF op = "set" THEN {c} ELSE Absent)
  ELSE /\ Begin(c, op, IF op = "delete" /\ table.cache THEN "uncache" ELSE "db",
                IF op = "set" THEN {c} ELSE Absent)
       /\ UNCHANGED <<table, db, cache, qcache, pending, inFlight, stage>>

(* Mutant: a key in flight is not waited for.                              *)
UpdateIgnoresInFlight(c) ==
  \/ /\ table.autoBatch /\ pending # Nothing
     /\ Buffer(c, "update", Patched(c, pending.val))
  \/ /\ ~(table.autoBatch /\ pending # Nothing)
     /\ Begin(c, "update", "db", Absent)
     /\ UNCHANGED <<table, db, cache, qcache, pending, inFlight, stage>>

(* update() computes from the buffered value; an update of a key in flight *)
(* awaits that batch; else the storage computes.                           *)
Update(c) ==
  \/ /\ table.autoBatch /\ pending # Nothing
     /\ \/ Buffer(c, "update", Patched(c, pending.val))
        \/ /\ pending.val = Absent
           /\ Begin(c, "update", "failed", Absent)
           /\ UNCHANGED <<table, db, cache, qcache, pending, inFlight, stage>>
  \/ /\ ~(table.autoBatch /\ pending # Nothing)
     /\ Begin(c, "update", IF inFlight # Nothing THEN "flush" ELSE "db", Absent)
     /\ UNCHANGED <<table, db, cache, qcache, pending, inFlight, stage>>

(* The operations that flush the buffer first, if there is anything in it. *)
FirstStep(op) ==
  CASE op = "getMany" -> "read"
    [] op = "find"    -> IF table.queryCache THEN "qcache" ELSE "query"
    [] OTHER          -> "db"

FlushFirst(c, op) ==
  /\ Begin(c, op, IF pending # Nothing \/ stage # "none" THEN "flush" ELSE FirstStep(op),
           IF op = "setMany" THEN {c} ELSE Absent)
  /\ UNCHANGED <<table, db, cache, qcache, pending, inFlight, stage>>

(* flush() returns when the writes buffered before it are settled.         *)
FlushReturns(c) ==
  /\ call[c].pc = "flush" /\ call[c].awaits \cap Queued = {}
  /\ Goto(c, FirstStep(call[c].op))
  /\ UNCHANGED <<table, db, cache, qcache, pending, inFlight, stage>>

(* Mutant: the snapshot in flight is not consulted.                        *)
PointReadIgnoresInFlight(c, op) ==
  /\ IF pending # Nothing THEN Begin(c, op, "done", pending.val)
     ELSE Begin(c, op, IF op = "get" /\ table.cache THEN "cache" ELSE "read", Absent)
  /\ UNCHANGED <<table, db, cache, qcache, pending, inFlight, stage>>

(* get() and exists() look into the buffer, then into the batch in flight, *)
(* and only then ask the cache and the storage.                            *)
PointRead(c, op) ==
  /\ IF pending # Nothing THEN Begin(c, op, "done", pending.val)
     ELSE IF inFlight # Nothing THEN Begin(c, op, "done", inFlight.val)
     ELSE Begin(c, op, IF op = "get" /\ table.cache THEN "cache" ELSE "read", Absent)
  /\ UNCHANGED <<table, db, cache, qcache, pending, inFlight, stage>>

-----------------------------------------------------------------------------
(* The steps of a call at the storage and the caches.                      *)

AfterCache == IF table.queryCache THEN "invalidate" ELSE "done"

(* A write reaches the storage.                                            *)
AtStorage(c) ==
  /\ call[c].pc = "db"
  /\ UNCHANGED <<table, cache, qcache, pending, inFlight, stage>>
  /\ \/ /\ call[c].op \in {"set", "setMany"}
        /\ db' = call[c].val
        /\ Goto(c, IF table.cache THEN "encache" ELSE "done")
     \/ /\ call[c].op \in {"update", "updateRecord"}
        /\ db' = Patched(c, db)
        /\ Keep(c, IF table.cache THEN "encache" ELSE "done", Patched(c, db))
     \/ /\ call[c].op = "update" /\ db = Absent
        /\ Goto(c, "failed") /\ UNCHANGED db
     \/ /\ call[c].op = "delete"
        /\ db' = Absent
        /\ Goto(c, IF db # Absent THEN AfterCache ELSE "done")
     \/ /\ call[c].op = "deleteMany"
        /\ db' = Absent
        /\ Keep(c, IF table.cache THEN "drop" ELSE "done", db)
     \/ /\ call[c].op = "clear"
        /\ db' = Absent
        /\ Goto(c, AfterCache)

StorageFails(c) ==
  /\ "call" \in table.failing /\ call[c].pc = "db"
  /\ Goto(c, "failed")
  /\ UNCHANGED <<table, db, cache, qcache, pending, inFlight, stage>>

(* Mutant: a delete() leaves the point cache as it is.                     *)
AtCacheDeleteForgotten(c) ==
  /\ UNCHANGED <<table, db, qcache, pending, inFlight, stage>>
  /\ \/ /\ call[c].pc = "encache" /\ cache' = call[c].val /\ Goto(c, AfterCache)
     \/ /\ call[c].pc = "uncache" /\ cache' = cache /\ Goto(c, "db")
     \/ /\ call[c].pc = "drop" /\ cache' = Nothing
        /\ Keep(c, IF call[c].val # Absent THEN AfterCache ELSE "done", Absent)

(* Writes write the cache through; delete() without a buffer drops the     *)
(* cached value before it deletes, deleteMany() after.                     *)
AtCache(c) ==
  /\ UNCHANGED <<table, db, qcache, pending, inFlight, stage>>
  /\ \/ /\ call[c].pc = "encache" /\ cache' = call[c].val /\ Goto(c, AfterCache)
     \/ /\ call[c].pc = "uncache" /\ cache' = Nothing /\ Goto(c, "db")
     \/ /\ call[c].pc = "drop" /\ cache' = Nothing
        /\ Keep(c, IF call[c].val # Absent THEN AfterCache ELSE "done", Absent)

InvalidateQueryCache(c) ==
  /\ call[c].pc = "invalidate"
  /\ qcache' = Nothing
  /\ Goto(c, "done")
  /\ UNCHANGED <<table, db, cache, pending, inFlight, stage>>

(* A point read asks the cache and the storage, and fills the cache.       *)
ReadSteps(c) ==
  /\ UNCHANGED <<table, db, qcache, pending, inFlight, stage>>
  /\ \/ /\ call[c].pc = "cache"
        /\ IF cache # Nothing THEN Keep(c, "done", cache) ELSE Goto(c, "read")
        /\ UNCHANGED cache
     \/ /\ call[c].pc = "read"
        /\ Keep(c, IF call[c].op = "get" /\ table.cache /\ db # Absent THEN "fill" ELSE "done", db)
        /\ UNCHANGED cache
     \/ /\ call[c].pc = "fill"
        /\ cache' = call[c].val
        /\ Goto(c, "done")

(* find(), count() and findRecords(): so does a query with the query cache.*)
QuerySteps(c) ==
  /\ UNCHANGED <<table, db, cache, pending, inFlight, stage>>
  /\ \/ /\ call[c].pc = "qcache"
        /\ IF qcache # Nothing THEN Keep(c, "done", qcache) ELSE Goto(c, "query")
        /\ UNCHANGED qcache
     \/ /\ call[c].pc = "query"
        /\ Keep(c, IF table.queryCache THEN "qfill" ELSE "done", db)
        /\ UNCHANGED qcache
     \/ /\ call[c].pc = "qfill"
        /\ qcache' = call[c].val
        /\ Goto(c, "done")

-----------------------------------------------------------------------------
(* The flush handler.                                                      *)

StartBatch ==
  /\ pending # Nothing /\ stage = "none"
  /\ inFlight' = pending /\ pending' = Nothing /\ stage' = "db"
  /\ UNCHANGED <<table, db, cache, qcache, call>>

HandlerStores ==
  /\ stage = "db"
  /\ db' = inFlight.val
  /\ stage' = IF table.cache THEN "cache" ELSE "end"
  /\ UNCHANGED <<table, cache, qcache, pending, inFlight, call>>

(* A newer buffered operation will see to the cache itself.                *)
HandlerCaches ==
  /\ stage = "cache"
  /\ cache' = IF inFlight.type = "delete" THEN Nothing
              ELSE IF pending # Nothing THEN cache ELSE inFlight.val
  /\ stage' = IF table.queryCache THEN "invalidate" ELSE "end"
  /\ UNCHANGED <<table, db, qcache, pending, inFlight, call>>

HandlerInvalidates ==
  /\ stage = "invalidate"
  /\ qcache' = Nothing
  /\ stage' = "end"
  /\ UNCHANGED <<table, db, cache, pending, inFlight, call>>

(* The batch is over: its callers are answered.                            *)
HandlerEnds ==
  /\ stage = "end"
  /\ call' = [c \in Calls |-> IF c \in inFlight.callers THEN [call[c] EXCEPT !.pc = "done"]
                              ELSE call[c]]
  /\ inFlight' = Nothing /\ stage' = "none"
  /\ UNCHANGED <<table, db, cache, qcache, pending>>

(* Another operation of the batch fails, before or after this one, or the  *)
(* query cache does: all callers are rejected, and everybody who awaits    *)
(* the batch.                                                              *)
HandlerFails ==
  /\ "batch" \in table.failing
  /\ stage \in {"db", "cache", "invalidate", "end"} /\ (stage = "end" => ~table.queryCache)
  /\ call' = [c \in Calls |-> IF c \in inFlight.callers \/ call[c].pc = "flush"
                              THEN [call[c] EXCEPT !.pc = "failed"] ELSE call[c]]
  /\ inFlight' = Nothing /\ stage' = "none"
  /\ UNCHANGED <<table, db, cache, qcache, pending>>

Next ==
  \/ \E c \in Calls :
       \/ \E op \in {"set", "delete"} : SetOrDelete(c, op)
       \/ Update(c)
       \/ \E op \in Bulk \cup {"getMany", "find"} : FlushFirst(c, op)
       \/ \E op \in {"get", "exists"} : PointRead(c, op)
       \/ BufferHeld(c) \/ FlushReturns(c)
       \/ AtStorage(c) \/ StorageFails(c) \/ AtCache(c) \/ InvalidateQueryCache(c)
       \/ ReadSteps(c) \/ QuerySteps(c)
  \/ StartBatch \/ HandlerStores \/ HandlerCaches \/ HandlerInvalidates
  \/ HandlerEnds \/ HandlerFails

Spec == Init /\ [][Next]_vars

(* Every await is answered and the timer of the buffer fires.              *)
FairSpec ==
  /\ Spec
  /\ \A c \in Calls : WF_vars(\/ BufferHeld(c) \/ FlushReturns(c) \/ AtStorage(c) \/ AtCache(c)
                              \/ InvalidateQueryCache(c) \/ ReadSteps(c) \/ QuerySteps(c))
  /\ WF_vars(\/ StartBatch \/ HandlerStores \/ HandlerCaches \/ HandlerInvalidates
             \/ HandlerEnds)

-----------------------------------------------------------------------------
(* The variables hold values of their types.                               *)
TypeOK ==
  /\ table \in Tables
  /\ db \in Value /\ cache \in Content \cup {Nothing} /\ qcache \in Value \cup {Nothing}
  /\ pending \in Slot \cup {Nothing} /\ inFlight \in Slot \cup {Nothing}
  /\ stage \in {"none", "db", "cache", "invalidate", "end"}
  /\ (stage = "none") = (inFlight = Nothing)
  /\ call \in [Calls -> Call]

Overwrites(c) == call[c].op \in {"set", "setMany", "delete", "deleteMany", "clear"}
Contributes(c) == call[c].op \in {"set", "setMany", "update", "updateRecord"}
Members(v) == IF v = Absent THEN {} ELSE v

(* A value v, read when the calls in "before" had been answered or         *)
(* buffered, may be without the write of c only if c failed or some call   *)
(* overwrote it: one that was neither answered nor buffered when c began,  *)
(* and that c was not computed from.                                       *)
Excused(c) ==
  \/ call[c].pc = "failed"
  \/ \E o \in Calls \ {c} : /\ Overwrites(o) /\ call[o].pc # "idle"
                            /\ o \notin call[c].before /\ o \notin Members(call[c].val)

KeepsWrites(v, before) ==
  \A c \in before : Contributes(c) => c \in Members(v) \/ Excused(c)

(* Read your writes: a read returns every write that was answered or       *)
(* buffered before the read began, or a later one.                         *)
NoLostWrite ==
  \A r \in Done : call[r].op \in Reads => KeepsWrites(call[r].val, call[r].before)

(* A read never returns a value that had been overwritten or deleted, by a *)
(* call that was answered or buffered, before the read began.              *)
NoStaleRead ==
  \A r \in Done : call[r].op \in Reads =>
    \A w \in call[r].before :
      Overwrites(w) /\ call[w].pc # "failed" => Members(call[r].val) \cap call[w].before = {}

(* What has been answered is stored, once the buffer is empty: concurrent  *)
(* updates of a key serialise, whether they are computed from the buffer,  *)
(* after a flush or by the storage.                                        *)
UpdatesKept ==
  pending = Nothing /\ inFlight = Nothing => KeepsWrites(db, Done)

(* Every call is answered.                                                 *)
CallsReturn ==
  \A c \in Calls : (call[c].pc # "idle") ~> (call[c].pc \in {"done", "failed"})

=============================================================================
