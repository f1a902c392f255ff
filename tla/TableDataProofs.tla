--------------------------- MODULE TableDataProofs ---------------------------
(***************************************************************************)
(* Theorems about TableData, for any number of calls and whatever tables   *)
(* there are to look at.                                                   *)
(***************************************************************************)
EXTENDS TableData, FiniteSetTheorems, TLAPS

Overwriting  == {"set", "setMany", "delete", "deleteMany", "clear"}
Contributing == {"set", "setMany", "update", "updateRecord"}

CallersOf(s) == IF s = Nothing THEN {} ELSE s.callers

Settled == {c \in Calls : call[c].pc \in {"done", "failed"}}

(* The calls whose write is in the storage.                                *)
Stored  == IF stage \in {"none", "db"} THEN {} ELSE CallersOf(inFlight)
Written == Done \cup Stored \cup {c \in Calls : call[c].pc \in {"encache", "drop", "invalidate"}}

(* The calls that wait for a batch are those of the two slots.             *)
Accounted ==
  /\ Queued = CallersOf(pending) \cup CallersOf(inFlight)
  /\ CallersOf(pending) \cap CallersOf(inFlight) = {}
  /\ table.autoBatch \/ (pending = Nothing /\ inFlight = Nothing)
  /\ \A s \in {pending, inFlight} \ {Nothing} : s.callers # {} /\ (s.type = "set" => s.val # Absent)

(* What a call may be about to do.                                         *)
Doing(c) ==
  /\ call[c].pc = "idle" => call[c].op = "none" /\ call[c].before = {}
  /\ call[c].pc # "idle" => call[c].op # "none"
  /\ call[c].op # "none" => call[c].op \in table.operations
  /\ call[c].op \in {"set", "setMany"} => call[c].val = {c}
  /\ call[c].op = "delete" => call[c].val = Absent
  /\ call[c].pc = "held" => /\ table.mayHold /\ table.autoBatch /\ call[c].op \in Writes
                            /\ call[c].op # "delete" => call[c].val # Absent
  /\ call[c].pc = "queued" => call[c].op \in Writes
  /\ call[c].pc = "db" => call[c].op \in Writes \cup Bulk
  /\ call[c].pc = "flush" => call[c].op \in Bulk \cup {"update", "getMany", "find"}
  /\ call[c].pc = "uncache" => call[c].op = "delete" /\ table.cache
  /\ call[c].pc = "encache" => call[c].op \in Contributing /\ call[c].val # Absent /\ table.cache
  /\ call[c].pc = "drop" => call[c].op = "deleteMany" /\ table.cache
  /\ call[c].pc = "invalidate" => call[c].op \in Writes \cup Bulk /\ table.queryCache
  /\ call[c].pc \in {"cache", "read", "fill", "qcache", "query", "qfill"} => call[c].op \in Reads
  /\ call[c].pc \in {"cache", "fill"} => table.cache
  /\ call[c].pc = "fill" => call[c].val # Absent
  /\ call[c].pc \in {"qcache", "qfill"} => table.queryCache

Ground == TypeOK /\ Accounted

(* What a step does to the calls: those that have begun keep what they     *)
(* are, a failed one stays so.                                             *)
Later(cl, cl2) ==
  \A c \in Calls : cl[c].pc # "idle" =>
    /\ cl2[c].pc # "idle" /\ cl2[c].op = cl[c].op /\ cl2[c].before = cl[c].before
    /\ cl2[c].awaits = cl[c].awaits
    /\ cl[c].pc \in {"done", "failed"} => cl2[c] = cl[c]

-----------------------------------------------------------------------------
LEMMA Sentinels == Absent \notin Content /\ Nothing \notin Value \cup Slot
BY SentinelAssumption

LEMMA TypeInit == Init => Ground
<1> SUFFICES ASSUME Init PROVE Ground
  OBVIOUS
<1>1. TypeOK
  BY DEF Init, TypeOK, Value, Content, Call, Steps
<1>2. Queued = {}
  BY DEF Init, Queued
<1>3. QED BY <1>1, <1>2 DEF Init, Ground, Accounted, CallersOf

(* A call that begins.                                                     *)
LEMMA BeginTypes ==
  ASSUME Ground, NEW c \in Calls, NEW op, NEW pc \in Steps \ {"idle"}, NEW v \in Value,
         Begin(c, op, pc, v)
  PROVE  /\ call[c].pc = "idle" /\ op \in table.operations /\ op \in Writes \cup Bulk \cup Reads
         /\ call' \in [Calls -> Call]
         /\ call'[c] = [op |-> op, pc |-> pc, val |-> v, before |-> Done \cup Queued,
                        awaits |-> IF pc = "flush" THEN Queued ELSE {}]
         /\ \A d \in Calls \ {c} : call'[d] = call[d]
         /\ Later(call, call')
<1>1. Done \subseteq Calls /\ Queued \subseteq Calls
  BY DEF Done, Queued
<1>2. table.operations \subseteq Writes \cup Bulk \cup Reads
  BY TableAssumption DEF Ground, TypeOK, Options
<1>3. op \in Writes \cup Bulk \cup Reads \cup {"none"}
  BY <1>2 DEF Begin
<1>4. [op |-> op, pc |-> pc, val |-> v, before |-> Done \cup Queued,
       awaits |-> IF pc = "flush" THEN Queued ELSE {}] \in Call
  BY <1>1, <1>3 DEF Call
<1>5. QED BY <1>2, <1>4 DEF Begin, Ground, TypeOK, Later

(* One that goes on.                                                       *)
LEMMA GotoTypes ==
  ASSUME Ground, NEW c \in Calls, NEW pc \in Steps \ {"idle"}, NEW v \in Value,
         Keep(c, pc, v) \/ (Goto(c, pc) /\ v = call[c].val),
         call[c].pc \notin {"idle", "done", "failed"}
  PROVE  /\ call' \in [Calls -> Call]
         /\ call'[c].pc = pc /\ call'[c].val = v /\ call'[c].op = call[c].op
         /\ \A d \in Calls \ {c} : call'[d] = call[d]
         /\ Later(call, call')
<1>1. call[c] \in Call /\ call \in [Calls -> Call]
  BY DEF Ground, TypeOK
<1>2. [call[c] EXCEPT !.pc = pc, !.val = v] \in Call
  BY <1>1 DEF Call
<1>3. call' = [call EXCEPT ![c] = [call[c] EXCEPT !.pc = pc, !.val = v]]
  <2>1. CASE Keep(c, pc, v)
    BY <2>1, <1>1 DEF Keep, Call
  <2>2. CASE Goto(c, pc) /\ v = call[c].val
    <3>1. [call[c] EXCEPT !.pc = pc, !.val = v] = [call[c] EXCEPT !.pc = pc]
      BY <1>1, <2>2 DEF Call
    <3>2. QED BY <1>1, <2>2, <3>1 DEF Goto
  <2>3. QED BY <2>1, <2>2
<1>4. QED BY <1>1, <1>2, <1>3 DEF Later, Call

(* A step of a call that neither enters nor leaves the buffer.             *)
LEMMA AloneGround ==
  ASSUME Ground, NEW c \in Calls, call' \in [Calls -> Call], \A d \in Calls \ {c} : call'[d] = call[d],
         call[c].pc # "queued", call'[c].pc \notin {"queued", "idle"},
         UNCHANGED <<table, pending, inFlight, stage>>,
         db' \in Value, cache' \in Content \cup {Nothing}, qcache' \in Value \cup {Nothing}
  PROVE  Ground' /\ Queued' = Queued
<1>1. Queued' = Queued
  BY DEF Queued
<1>2. TypeOK'
  BY DEF Ground, TypeOK
<1>3. Accounted'
  BY <1>1 DEF Ground, Accounted, CallersOf
<1>4. QED BY <1>1, <1>2, <1>3 DEF Ground

(* Call c enters the buffer.                                               *)
LEMMA BufferedGround ==
  ASSUME Ground, NEW c \in Calls, NEW op \in Writes, NEW v \in Value, table.autoBatch,
         op # "delete" => v # Absent,
         call' \in [Calls -> Call], \A d \in Calls \ {c} : call'[d] = call[d],
         call[c].pc # "queued", call'[c].pc = "queued",
         pending' = BufferedOp(c, op, v), UNCHANGED <<table, db, cache, qcache, inFlight, stage>>
  PROVE  /\ Ground' /\ Queued' = Queued \cup {c} /\ c \notin Queued
         /\ pending' # Nothing /\ pending'.callers = CallersOf(pending) \cup {c}
         /\ pending'.val = v /\ CallersOf(pending') = CallersOf(pending) \cup {c}
<1>1. Queued' = Queued \cup {c} /\ c \notin Queued
  BY DEF Queued
<1>2. BufferedOp(c, op, v) \in Slot
  BY DEF BufferedOp, Slot, Ground, TypeOK
<1>3. pending' # Nothing
  BY <1>2, Sentinels
<1>4. pending'.callers = CallersOf(pending) \cup {c} /\ pending'.val = v
      /\ (pending'.type = "set" => pending'.val # Absent)
  BY DEF BufferedOp, CallersOf
<1>5. CallersOf(pending') = CallersOf(pending) \cup {c}
  BY <1>3, <1>4 DEF CallersOf
<1>6. TypeOK'
  BY <1>2 DEF Ground, TypeOK
<1>7. Accounted'
  <2>1. CallersOf(inFlight') = CallersOf(inFlight)
    BY DEF CallersOf
  <2>2. c \notin CallersOf(inFlight)
    BY <1>1 DEF Ground, Accounted
  <2>3. QED BY <1>1, <1>3, <1>4, <1>5, <2>1, <2>2 DEF Ground, Accounted
<1>8. QED BY <1>1, <1>3, <1>4, <1>5, <1>6, <1>7 DEF Ground

(* The batch is over, well or not.                                         *)
LEMMA BatchGround ==
  ASSUME Ground, inFlight # Nothing, NEW pc \in {"done", "failed"}, NEW more \in SUBSET Calls,
         more \cap Queued = {}, \A c \in more : call[c].pc = "flush",
         call' = [c \in Calls |-> IF c \in inFlight.callers \cup more
                                  THEN [call[c] EXCEPT !.pc = pc] ELSE call[c]],
         inFlight' = Nothing, stage' = "none", UNCHANGED <<table, db, cache, qcache, pending>>
  PROVE  /\ Ground' /\ Later(call, call')
         /\ Queued' = CallersOf(pending)
         /\ \A c \in Calls : call'[c].val = call[c].val
         /\ \A c \in Calls : c \in inFlight.callers \cup more => call'[c].pc = pc
         /\ \A c \in Calls : c \notin inFlight.callers \cup more => call'[c] = call[c]
<1>1. call \in [Calls -> Call] /\ inFlight.callers \subseteq Calls
  BY DEF Ground, TypeOK, Slot
<1>2. \A c \in inFlight.callers : call[c].pc = "queued"
  BY <1>1 DEF Ground, Accounted, CallersOf, Queued
<1>3. \A c \in Calls : /\ call'[c] \in Call /\ call'[c].val = call[c].val /\ call'[c].op = call[c].op
                       /\ call'[c].before = call[c].before /\ call'[c].awaits = call[c].awaits
                       /\ c \in inFlight.callers \cup more => call'[c].pc = pc
                       /\ c \notin inFlight.callers \cup more => call'[c] = call[c]
  <2> SUFFICES ASSUME NEW c \in Calls
               PROVE  /\ call'[c] \in Call /\ call'[c].val = call[c].val /\ call'[c].op = call[c].op
                      /\ call'[c].before = call[c].before /\ call'[c].awaits = call[c].awaits
                      /\ c \in inFlight.callers \cup more => call'[c].pc = pc
                      /\ c \notin inFlight.callers \cup more => call'[c] = call[c]
    OBVIOUS
  <2>1. call[c] \in Call
    BY <1>1
  <2>2. CASE c \in inFlight.callers \cup more
    <3>1. call'[c] = [call[c] EXCEPT !.pc = pc]
      BY <2>2
    <3>2. QED BY <2>1, <2>2, <3>1 DEF Call, Steps
  <2>3. CASE c \notin inFlight.callers \cup more
    BY <2>1, <2>3
  <2>4. QED BY <2>2, <2>3
<1>4. call' \in [Calls -> Call]
  BY <1>3
<1>5. Later(call, call')
  BY <1>2, <1>3 DEF Later
<1>6. Queued' = CallersOf(pending)
  <2>1. Queued' = Queued \ inFlight.callers
    BY <1>3 DEF Queued
  <2>2. QED BY <2>1 DEF Ground, Accounted, CallersOf
<1>7. TypeOK'
  BY <1>4 DEF Ground, TypeOK
<1>8. Accounted'
  <2>1. CallersOf(inFlight') = {} /\ CallersOf(pending') = CallersOf(pending)
    BY DEF CallersOf
  <2>2. QED BY <1>6, <2>1 DEF Ground, Accounted
<1>9. QED BY <1>3, <1>5, <1>6, <1>7, <1>8 DEF Ground

-----------------------------------------------------------------------------
(* The kinds of steps.  A call begins, and is not buffered;                *)
Starts(c, op, pc, v) ==
  /\ Begin(c, op, pc, v)
  /\ UNCHANGED <<table, db, cache, qcache, pending, inFlight, stage>>
  /\ op \in Writes \cup Bulk \cup Reads /\ op \in table.operations /\ v \in Value
  /\ pc \in {"held", "db", "uncache", "flush", "failed", "read", "cache", "qcache", "query", "done"}
  /\ op \in {"set", "setMany"} => v = {c}
  /\ op = "delete" => v = Absent
  /\ pc = "held" => /\ table.mayHold /\ table.autoBatch /\ op \in Writes
                    /\ op # "delete" => v # Absent
  /\ pc = "db" => op \in Writes \cup Bulk /\ (op = "delete" => ~table.cache)
  /\ pc = "uncache" => op = "delete" /\ table.cache
  /\ pc = "flush" => op \in Bulk \cup {"update", "getMany", "find"}
  /\ pc = "failed" => op = "update"
  /\ pc \in {"read", "cache", "qcache", "query", "done"} => op \in Reads
  /\ pc = "cache" => table.cache
  /\ pc = "qcache" => table.queryCache
  /\ pc \in {"db", "uncache", "read", "cache", "qcache", "query"} => Queued = {}
  /\ pc = "done" => /\ op \in {"get", "exists"}
                    /\ \/ pending # Nothing /\ v = pending.val
                       \/ pending = Nothing /\ inFlight # Nothing /\ v = inFlight.val

(* it enters the buffer, at once or after it was held;                     *)
Enters(c, op, v) ==
  /\ op \in Writes /\ op \in table.operations /\ v \in Value /\ table.autoBatch
  /\ op # "delete" => v # Absent
  /\ pending' = BufferedOp(c, op, v)
  /\ UNCHANGED <<table, db, cache, qcache, inFlight, stage>>
  /\ \/ /\ Begin(c, op, "queued", v)
        /\ op = "set" => v = {c}
        /\ op = "delete" => v = Absent
        /\ op = "update" => pending # Nothing /\ v = Patched(c, pending.val)
     \/ /\ call[c].pc = "held" /\ Goto(c, "queued") /\ op = call[c].op /\ v = call[c].val

(* or it goes on.                                                          *)
Proceeds(c) ==
  \/ FlushReturns(c) \/ AtStorage(c) \/ StorageFails(c) \/ AtCache(c) \/ InvalidateQueryCache(c)
  \/ ReadSteps(c) \/ QuerySteps(c)

Handler == \/ StartBatch \/ HandlerStores \/ HandlerCaches \/ HandlerInvalidates
           \/ HandlerEnds \/ HandlerFails

LEMMA StepKinds ==
  ASSUME Ground, \A c \in Calls : Doing(c), Next
  PROVE  \/ \E c \in Calls, op \in Writes \cup Bulk \cup Reads, pc \in Steps, v \in Value :
              Starts(c, op, pc, v)
         \/ \E c \in Calls, op \in Writes, v \in Value : Enters(c, op, v)
         \/ \E c \in Calls : Proceeds(c)
         \/ Handler
<1>0. /\ \A c \in Calls : {c} \in Value
      /\ Absent \in Value
      /\ pending # Nothing => pending \in Slot /\ pending.val \in Value
      /\ inFlight # Nothing => inFlight \in Slot /\ inFlight.val \in Value
      /\ stage = "none" <=> inFlight = Nothing
      /\ pending = Nothing /\ inFlight = Nothing => Queued = {}
      /\ Absent \notin Content
      /\ table.autoBatch \/ (pending = Nothing /\ inFlight = Nothing)
  <2>1. \A c \in Calls : {c} \in Value
    BY DEF Value, Content
  <2>2. Absent \in Value
    BY DEF Value
  <2>3. /\ pending # Nothing => pending \in Slot /\ pending.val \in Value
        /\ inFlight # Nothing => inFlight \in Slot /\ inFlight.val \in Value
    BY DEF Ground, TypeOK, Slot
  <2>4. stage = "none" <=> inFlight = Nothing
    BY DEF Ground, TypeOK
  <2>5. pending = Nothing /\ inFlight = Nothing => Queued = {}
    BY DEF Ground, Accounted, CallersOf
  <2>6. table.autoBatch \/ (pending = Nothing /\ inFlight = Nothing)
    BY DEF Ground, Accounted
  <2>7. QED BY <2>1, <2>2, <2>3, <2>4, <2>5, <2>6, Sentinels
<1>a. \A c \in Calls : \A op, pc, v : Begin(c, op, pc, v) => op \in table.operations
  BY DEF Begin
<1>b. \A c \in Calls : call[c].pc = "held" => call[c].op \in table.operations
  BY DEF Doing, Writes
<1>1. CASE Handler
  BY <1>1
<1>2. ASSUME NEW c \in Calls, Proceeds(c)
      PROVE  \E d \in Calls : Proceeds(d)
  BY <1>2
<1>3. ASSUME NEW c \in Calls, NEW op \in {"set", "delete"}, SetOrDelete(c, op)
      PROVE  \/ \E pc \in Steps, v \in Value : Starts(c, op, pc, v)
             \/ \E v \in Value : Enters(c, op, v)
  <2>1. op \in Writes /\ op \in Writes \cup Bulk \cup Reads
    BY DEF Writes
  <2>2. CASE table.autoBatch
    <3> DEFINE v == IF op = "set" THEN {c} ELSE Absent
    <3>1. v \in Value /\ (op # "delete" => v # Absent)
      <4>1. {c} # Absent
        BY Sentinels DEF Content
      <4>2. QED BY <1>0, <4>1
    <3>2. Buffer(c, op, v)
      BY <1>3, <2>2 DEF SetOrDelete
    <3>3. CASE Begin(c, op, "queued", v) /\ pending' = BufferedOp(c, op, v)
               /\ UNCHANGED <<table, db, cache, qcache, inFlight, stage>>
      <4>1. Enters(c, op, v)
        BY <2>1, <2>2, <3>1, <3>3, <1>a DEF Enters
      <4>2. QED BY <3>1, <4>1
    <3>4. CASE table.mayHold /\ Begin(c, op, "held", v)
               /\ UNCHANGED <<table, db, cache, qcache, pending, inFlight, stage>>
      <4>1. Starts(c, op, "held", v)
        BY <2>1, <2>2, <3>1, <3>4, <1>a DEF Starts
      <4>2. QED BY <3>1, <4>1 DEF Steps
    <3>5. QED BY <3>2, <3>3, <3>4 DEF Buffer
  <2>3. CASE ~table.autoBatch
    <3> DEFINE v == IF op = "set" THEN {c} ELSE Absent
               pc == IF op = "delete" /\ table.cache THEN "uncache" ELSE "db"
    <3>1. v \in Value /\ pc \in Steps
      BY <1>0 DEF Steps
    <3>2. Begin(c, op, pc, v) /\ UNCHANGED <<table, db, cache, qcache, pending, inFlight, stage>>
      BY <1>3, <2>3 DEF SetOrDelete
    <3>3. Starts(c, op, pc, v)
      BY <1>0, <2>1, <2>3, <3>1, <3>2, <1>a DEF Starts
    <3>4. QED BY <3>1, <3>3
  <2>4. QED BY <2>2, <2>3
<1>4. ASSUME NEW c \in Calls, Update(c)
      PROVE  \/ \E pc \in Steps, v \in Value : Starts(c, "update", pc, v)
             \/ \E v \in Value : Enters(c, "update", v)
  <2>1. "update" \in Writes
    BY DEF Writes
  <2>2. CASE table.autoBatch /\ pending # Nothing /\ Buffer(c, "update", Patched(c, pending.val))
    <3>1. Patched(c, pending.val) \in Value /\ Patched(c, pending.val) # Absent
      BY <1>0, <2>2, Sentinels DEF Patched, Value, Content
    <3>2. CASE Begin(c, "update", "queued", Patched(c, pending.val))
               /\ pending' = BufferedOp(c, "update", Patched(c, pending.val))
               /\ UNCHANGED <<table, db, cache, qcache, inFlight, stage>>
      <4>1. Enters(c, "update", Patched(c, pending.val))
        BY <2>1, <2>2, <3>1, <3>2, <1>a DEF Enters
      <4>2. QED BY <3>1, <4>1
    <3>3. CASE table.mayHold /\ Begin(c, "update", "held", Patched(c, pending.val))
               /\ UNCHANGED <<table, db, cache, qcache, pending, inFlight, stage>>
      <4>1. Starts(c, "update", "held", Patched(c, pending.val))
        BY <2>1, <2>2, <3>1, <3>3, <1>a DEF Starts
      <4>2. QED BY <3>1, <4>1 DEF Steps
    <3>4. QED BY <2>2, <3>2, <3>3 DEF Buffer
  <2>3. CASE /\ Begin(c, "update", "failed", Absent)
             /\ UNCHANGED <<table, db, cache, qcache, pending, inFlight, stage>>
    <3>1. Starts(c, "update", "failed", Absent)
      BY <1>0, <2>1, <2>3, <1>a DEF Starts
    <3>2. QED BY <1>0, <3>1 DEF Steps
  <2>4. CASE /\ ~(table.autoBatch /\ pending # Nothing)
             /\ Begin(c, "update", IF inFlight # Nothing THEN "flush" ELSE "db", Absent)
             /\ UNCHANGED <<table, db, cache, qcache, pending, inFlight, stage>>
    <3> DEFINE pc == IF inFlight # Nothing THEN "flush" ELSE "db"
    <3>1. Starts(c, "update", pc, Absent)
      BY <1>0, <2>1, <2>4, <1>a DEF Starts
    <3>2. QED BY <1>0, <3>1 DEF Steps
  <2>5. QED BY <1>4, <2>2, <2>3, <2>4 DEF Update
<1>5. ASSUME NEW c \in Calls, NEW op \in Bulk \cup {"getMany", "find"}, FlushFirst(c, op)
      PROVE  \E pc \in Steps, v \in Value : Starts(c, op, pc, v)
  <2> DEFINE v == IF op = "setMany" THEN {c} ELSE Absent
             pc == IF pending # Nothing \/ stage # "none" THEN "flush" ELSE FirstStep(op)
  <2>1. v \in Value
    BY <1>0
  <2>2. /\ FirstStep(op) \in {"read", "qcache", "query", "db"}
        /\ FirstStep(op) \in {"read", "qcache", "query"} => op \in Reads
        /\ FirstStep(op) = "qcache" => table.queryCache
        /\ FirstStep(op) = "db" => op \in Bulk
    BY DEF FirstStep, Reads, Bulk
  <2>3. op \in Writes \cup Bulk \cup Reads /\ op \notin {"set", "delete"}
    BY DEF Writes, Bulk, Reads
  <2>4. Begin(c, op, pc, v) /\ UNCHANGED <<table, db, cache, qcache, pending, inFlight, stage>>
    BY <1>5 DEF FlushFirst
  <2>5. pc # "flush" => Queued = {}
    BY <1>0
  <2>6. pc \in {"flush", "read", "qcache", "query", "db"} /\ (pc # "flush" => pc = FirstStep(op))
    BY <2>2
  <2> HIDE DEF pc
  <2>7. Starts(c, op, pc, v)
    BY <2>1, <2>2, <2>3, <2>4, <2>5, <2>6, <1>a DEF Starts
  <2>8. QED BY <2>1, <2>6, <2>7 DEF Steps
<1>6. ASSUME NEW c \in Calls, NEW op \in {"get", "exists"}, PointRead(c, op)
      PROVE  \E pc \in Steps, v \in Value : Starts(c, op, pc, v)
  <2>1. op \in Writes \cup Bulk \cup Reads /\ op \in Reads
    BY DEF Reads
  <2>2. CASE pending # Nothing
    <3>1. Begin(c, op, "done", pending.val)
            /\ UNCHANGED <<table, db, cache, qcache, pending, inFlight, stage>>
      BY <1>6, <2>2 DEF PointRead
    <3>2. Starts(c, op, "done", pending.val)
      BY <1>0, <2>1, <2>2, <3>1, <1>a DEF Starts
    <3>3. QED BY <1>0, <2>2, <3>2 DEF Steps
  <2>3. CASE pending = Nothing /\ inFlight # Nothing
    <3>1. Begin(c, op, "done", inFlight.val)
            /\ UNCHANGED <<table, db, cache, qcache, pending, inFlight, stage>>
      BY <1>6, <2>3 DEF PointRead
    <3>2. Starts(c, op, "done", inFlight.val)
      BY <1>0, <2>1, <2>3, <3>1, <1>a DEF Starts
    <3>3. QED BY <1>0, <2>3, <3>2 DEF Steps
  <2>4. CASE pending = Nothing /\ inFlight = Nothing
    <3> DEFINE pc == IF op = "get" /\ table.cache THEN "cache" ELSE "read"
    <3>1. Begin(c, op, pc, Absent) /\ UNCHANGED <<table, db, cache, qcache, pending, inFlight, stage>>
      BY <1>6, <2>4 DEF PointRead
    <3>2. Starts(c, op, pc, Absent)
      BY <1>0, <2>1, <2>4, <3>1, <1>a DEF Starts
    <3>3. QED BY <1>0, <3>2 DEF Steps
  <2>5. QED BY <2>2, <2>3, <2>4
<1>7. ASSUME NEW c \in Calls, BufferHeld(c)
      PROVE  \E op \in Writes, v \in Value : Enters(c, op, v)
  <2>1. /\ call[c].op \in Writes /\ table.autoBatch /\ call[c].val \in Value
        /\ call[c].op # "delete" => call[c].val # Absent
    BY <1>7 DEF BufferHeld, Doing, Ground, TypeOK, Call
  <2>2. Enters(c, call[c].op, call[c].val)
    BY <1>7, <1>b, <2>1 DEF BufferHeld, Enters
  <2>3. QED BY <2>1, <2>2
<1>8. "update" \in Writes /\ {"set", "delete"} \subseteq Writes
      /\ (Bulk \cup {"getMany", "find"}) \subseteq Writes \cup Bulk \cup Reads
      /\ {"get", "exists"} \subseteq Writes \cup Bulk \cup Reads
  BY DEF Writes, Bulk, Reads
<1>9. QED BY <1>1, <1>2, <1>3, <1>4, <1>5, <1>6, <1>7, <1>8 DEF Next, Proceeds, Handler

-----------------------------------------------------------------------------
(* What the steps have in common.                                          *)
LEMMA StartsFacts ==
  ASSUME Ground, \A d \in Calls : Doing(d), NEW c \in Calls, NEW op \in Writes \cup Bulk \cup Reads,
         NEW pc \in Steps, NEW v \in Value, Starts(c, op, pc, v)
  PROVE  /\ Ground' /\ Later(call, call') /\ Queued' = Queued
         /\ \A d \in Calls : Doing(d)'
         /\ call[c].pc = "idle" /\ \A d \in Calls \ {c} : call'[d] = call[d]
         /\ call'[c] = [op |-> op, pc |-> pc, val |-> v, before |-> Done \cup Queued,
                        awaits |-> IF pc = "flush" THEN Queued ELSE {}]
<1>1. pc \in Steps \ {"idle"} /\ pc # "queued" /\ Begin(c, op, pc, v)
  BY DEF Starts
<1>2. /\ call[c].pc = "idle" /\ call' \in [Calls -> Call]
      /\ call'[c] = [op |-> op, pc |-> pc, val |-> v, before |-> Done \cup Queued,
                     awaits |-> IF pc = "flush" THEN Queued ELSE {}]
      /\ \A d \in Calls \ {c} : call'[d] = call[d]
      /\ Later(call, call')
  BY <1>1, BeginTypes
<1>3. Ground' /\ Queued' = Queued
  BY <1>1, <1>2, AloneGround DEF Starts, Ground, TypeOK
<1>4. ASSUME NEW d \in Calls PROVE Doing(d)'
  <2>1. CASE d # c
    BY <1>2, <2>1 DEF Doing, Starts
  <2>2. CASE d = c
    <3>1. op # "none"
      BY DEF Writes, Bulk, Reads
    <3>2. call'[d].op = op /\ call'[d].pc = pc /\ call'[d].val = v
      BY <1>2, <2>2
    <3>3. QED BY <1>1, <2>2, <3>1, <3>2 DEF Doing, Starts
  <2>3. QED BY <2>1, <2>2
<1>5. QED BY <1>2, <1>3, <1>4

LEMMA EntersFacts ==
  ASSUME Ground, \A d \in Calls : Doing(d), NEW c \in Calls, NEW op \in Writes, NEW v \in Value,
         Enters(c, op, v)
  PROVE  /\ Ground' /\ Later(call, call') /\ Queued' = Queued \cup {c} /\ c \notin Queued
         /\ \A d \in Calls : Doing(d)'
         /\ call[c].pc \in {"idle", "held"} /\ \A d \in Calls \ {c} : call'[d] = call[d]
         /\ call'[c].op = op /\ call'[c].pc = "queued" /\ call'[c].val = v
         /\ call'[c].before = IF call[c].pc = "idle" THEN Done \cup Queued ELSE call[c].before
         /\ pending' # Nothing /\ pending'.callers = CallersOf(pending) \cup {c}
         /\ pending'.val = v /\ CallersOf(pending') = CallersOf(pending) \cup {c}
<1>1. call \in [Calls -> Call] /\ call[c] \in Call
  BY DEF Ground, TypeOK
<1>2. /\ Later(call, call') /\ call' \in [Calls -> Call]
      /\ call[c].pc \in {"idle", "held"} /\ \A d \in Calls \ {c} : call'[d] = call[d]
      /\ call'[c].op = op /\ call'[c].pc = "queued" /\ call'[c].val = v
      /\ call'[c].before = IF call[c].pc = "idle" THEN Done \cup Queued ELSE call[c].before
  <2>1. CASE Begin(c, op, "queued", v)
    <3>1. PICK pc \in Steps \ {"idle"} : pc = "queued"
      BY DEF Steps
    <3>2. Begin(c, op, pc, v)
      BY <2>1, <3>1
    <3>3. /\ call[c].pc = "idle" /\ call' \in [Calls -> Call]
          /\ call'[c] = [op |-> op, pc |-> pc, val |-> v, before |-> Done \cup Queued,
                         awaits |-> IF pc = "flush" THEN Queued ELSE {}]
          /\ \A d \in Calls \ {c} : call'[d] = call[d]
          /\ Later(call, call')
      BY <3>1, <3>2, BeginTypes
    <3>4. QED BY <3>1, <3>3
  <2>2. CASE call[c].pc = "held" /\ Goto(c, "queued") /\ op = call[c].op /\ v = call[c].val
    <3>1. call' = [call EXCEPT ![c].pc = "queued"]
      BY <2>2 DEF Goto
    <3>2. [call[c] EXCEPT !.pc = "queued"] \in Call
      BY <1>1 DEF Call, Steps
    <3>3. call'[c] = [call[c] EXCEPT !.pc = "queued"] /\ \A d \in Calls \ {c} : call'[d] = call[d]
      BY <1>1, <3>1
    <3>4. /\ call'[c].op = op /\ call'[c].pc = "queued" /\ call'[c].val = v
          /\ call'[c].before = call[c].before /\ call'[c].awaits = call[c].awaits
      BY <1>1, <2>2, <3>3 DEF Call
    <3>5. call' \in [Calls -> Call]
      BY <1>1, <3>1, <3>2
    <3>6. QED BY <2>2, <3>3, <3>4, <3>5 DEF Later
  <2>3. QED BY <2>1, <2>2 DEF Enters
<1>3. /\ Ground' /\ Queued' = Queued \cup {c} /\ c \notin Queued
      /\ pending' # Nothing /\ pending'.callers = CallersOf(pending) \cup {c}
      /\ pending'.val = v /\ CallersOf(pending') = CallersOf(pending) \cup {c}
  BY <1>2, BufferedGround DEF Enters
<1>4. ASSUME NEW d \in Calls PROVE Doing(d)'
  <2>1. CASE d # c
    BY <1>2, <2>1 DEF Doing, Enters
  <2>2. CASE d = c
    <3>1. op \notin {"none", "setMany"}
      BY DEF Writes
    <3>2. QED BY <1>2, <2>2, <3>1 DEF Doing, Enters
  <2>3. QED BY <2>1, <2>2
<1>5. QED BY <1>2, <1>3, <1>4

(* A call that goes on to pc, with the value v.                            *)
Fitting(c, pc, v) ==
  /\ call[c].pc \notin {"idle", "queued", "held", "done", "failed"}
  /\ db' \in Value /\ cache' \in Content \cup {Nothing} /\ qcache' \in Value \cup {Nothing}
  /\ call[c].op \in {"set", "setMany"} => v = {c}
  /\ call[c].op = "delete" => v = Absent
  /\ pc = "db" => call[c].op \in Writes \cup Bulk
  /\ pc = "encache" => call[c].op \in Contributing /\ v # Absent /\ table.cache
  /\ pc = "drop" => call[c].op = "deleteMany" /\ table.cache
  /\ pc = "invalidate" => call[c].op \in Writes \cup Bulk /\ table.queryCache
  /\ pc \in {"read", "fill", "query", "qfill"} => call[c].op \in Reads
  /\ pc = "fill" => v # Absent /\ table.cache
  /\ pc \in {"qcache", "qfill"} => table.queryCache /\ call[c].op \in Reads

LEMMA TurnFacts ==
  ASSUME Ground, \A d \in Calls : Doing(d), NEW c \in Calls,
         NEW pc \in Steps \ {"idle", "queued", "held", "uncache", "flush", "cache"}, NEW v \in Value,
         Keep(c, pc, v) \/ (Goto(c, pc) /\ v = call[c].val),
         UNCHANGED <<table, pending, inFlight, stage>>, Fitting(c, pc, v)
  PROVE  /\ Ground' /\ Later(call, call') /\ Queued' = Queued
         /\ \A d \in Calls : Doing(d)'
         /\ \A d \in Calls \ {c} : call'[d] = call[d]
         /\ call'[c].pc = pc /\ call'[c].val = v /\ call'[c].op = call[c].op
<1>1. call \in [Calls -> Call] /\ call[c] \in Call
  BY DEF Ground, TypeOK
<1>2. /\ call' \in [Calls -> Call]
      /\ call'[c].pc = pc /\ call'[c].val = v /\ call'[c].op = call[c].op
      /\ \A d \in Calls \ {c} : call'[d] = call[d]
      /\ Later(call, call')
  BY GotoTypes DEF Fitting
<1>3. call'[c].pc = pc /\ call'[c].val = v /\ call'[c].op = call[c].op
  BY <1>2
<1>4. Ground' /\ Queued' = Queued
  BY <1>2, <1>3, AloneGround DEF Fitting
<1>5. ASSUME NEW d \in Calls PROVE Doing(d)'
  <2>1. CASE d # c
    BY <1>2, <2>1 DEF Doing
  <2>2. CASE d = c
    BY <1>3, <2>2 DEF Doing, Fitting
  <2>3. QED BY <2>1, <2>2
<1>6. QED BY <1>2, <1>4, <1>5

(* The ways of a call that goes on to pc, with the value v: after a        *)
(* flush, at the storage, at the point cache, at the query cache.          *)
FromFlush(c, pc, v) ==
  /\ call[c].pc = "flush" /\ call[c].awaits \cap Queued = {}
  /\ pc \in {"db", "read", "qcache", "query"} /\ v = call[c].val
  /\ pc = "db" => call[c].op \in Bulk \cup {"update"}
  /\ pc # "db" => call[c].op \in Reads
  /\ pc = "qcache" => table.queryCache
  /\ UNCHANGED <<db, cache, qcache>>

FromStorage(c, pc, v) ==
  /\ call[c].pc = "db" /\ UNCHANGED <<cache, qcache>>
  /\ \/ call[c].op \in {"set", "setMany"} /\ v = call[c].val /\ db' = v
          /\ pc = (IF table.cache THEN "encache" ELSE "done")
     \/ call[c].op \in {"update", "updateRecord"} /\ v = Patched(c, db) /\ db' = v
          /\ pc = (IF table.cache THEN "encache" ELSE "done")
     \/ call[c].op = "delete" /\ v = call[c].val /\ db' = Absent
          /\ pc = (IF db # Absent THEN AfterCache ELSE "done")
     \/ call[c].op = "deleteMany" /\ v = db /\ db' = Absent
          /\ pc = (IF table.cache THEN "drop" ELSE "done")
     \/ call[c].op = "clear" /\ v = call[c].val /\ db' = Absent /\ pc = AfterCache
     \/ pc = "failed" /\ v = call[c].val /\ UNCHANGED db

FromCache(c, pc, v) ==
  /\ UNCHANGED <<db, qcache>>
  /\ \/ call[c].pc = "encache" /\ cache' = call[c].val /\ v = call[c].val /\ pc = AfterCache
     \/ call[c].pc = "uncache" /\ cache' = Nothing /\ v = call[c].val /\ pc = "db"
     \/ call[c].pc = "drop" /\ cache' = Nothing /\ v = Absent
          /\ pc = (IF call[c].val # Absent THEN AfterCache ELSE "done")
     \/ call[c].pc = "cache" /\ cache # Nothing /\ v = cache /\ pc = "done" /\ UNCHANGED cache
     \/ call[c].pc = "cache" /\ cache = Nothing /\ v = call[c].val /\ pc = "read" /\ UNCHANGED cache
     \/ call[c].pc = "read" /\ v = db
          /\ pc = (IF call[c].op = "get" /\ table.cache /\ db # Absent THEN "fill" ELSE "done")
               /\ UNCHANGED cache
     \/ call[c].pc = "fill" /\ cache' = call[c].val /\ v = call[c].val /\ pc = "done"

FromQuery(c, pc, v) ==
  /\ UNCHANGED <<db, cache>>
  /\ \/ call[c].pc = "invalidate" /\ qcache' = Nothing /\ v = call[c].val /\ pc = "done"
     \/ call[c].pc = "qcache" /\ qcache # Nothing /\ v = qcache /\ pc = "done" /\ UNCHANGED qcache
     \/ call[c].pc = "qcache" /\ qcache = Nothing /\ v = call[c].val /\ pc = "query" /\ UNCHANGED qcache
     \/ call[c].pc = "query" /\ v = db /\ pc = (IF table.queryCache THEN "qfill" ELSE "done")
          /\ UNCHANGED qcache
     \/ call[c].pc = "qfill" /\ qcache' = call[c].val /\ v = call[c].val /\ pc = "done"

Route(c, pc, v) ==
  FromFlush(c, pc, v) \/ FromStorage(c, pc, v) \/ FromCache(c, pc, v) \/ FromQuery(c, pc, v)

Onward == {"db", "encache", "drop", "invalidate", "read", "fill", "qcache", "query", "qfill",
           "done", "failed"}

LEMMA RouteTaken ==
  ASSUME Ground, \A d \in Calls : Doing(d), NEW c \in Calls, Proceeds(c)
  PROVE  \E pc \in Steps \ {"idle", "queued", "held", "uncache", "flush", "cache"}, v \in Value :
           /\ Keep(c, pc, v) \/ (Goto(c, pc) /\ v = call[c].val)
           /\ Route(c, pc, v)
           /\ UNCHANGED <<table, pending, inFlight, stage>>
<1> DEFINE Goal(pc, v) == /\ Keep(c, pc, v) \/ (Goto(c, pc) /\ v = call[c].val)
                          /\ Route(c, pc, v)
                          /\ UNCHANGED <<table, pending, inFlight, stage>>
<1>1. call[c] \in Call /\ db \in Value /\ Absent \in Value /\ call[c].val \in Value
      /\ cache \in Content \cup {Nothing} /\ qcache \in Value \cup {Nothing}
  BY DEF Ground, TypeOK, Value, Call
<1>2. Patched(c, db) \in Value /\ (cache # Nothing => cache \in Value)
        /\ (qcache # Nothing => qcache \in Value)
  BY <1>1 DEF Patched, Value, Content
<1>3. AfterCache \in {"invalidate", "done"}
  BY DEF AfterCache
<1>4. SUFFICES \E pc \in Onward, v \in Value : Goal(pc, v)
  BY DEF Steps, Onward
<1>5. CASE FlushReturns(c)
  <2> DEFINE pc == FirstStep(call[c].op)
  <2>1. Goal(pc, call[c].val)
    BY <1>5 DEF FlushReturns, FirstStep, FromFlush, Doing, Reads, Bulk, Route
  <2>2. pc \in Onward
    BY <1>3 DEF FirstStep, Onward
  <2>3. QED BY <1>1, <1>2, <1>5, <2>1, <2>2
<1>6. CASE AtStorage(c) /\ call[c].op \in {"set", "setMany"} /\ db' = call[c].val
             /\ Goto(c, IF table.cache THEN "encache" ELSE "done")
  <2> DEFINE pc == IF table.cache THEN "encache" ELSE "done"
  <2>1. Goal(pc, call[c].val)
    BY <1>6 DEF AtStorage, FromStorage, Route
  <2>2. pc \in Onward
    BY <1>3 DEF Onward
  <2>3. QED BY <1>1, <1>2, <1>6, <2>1, <2>2
<1>7. CASE AtStorage(c) /\ call[c].op \in {"update", "updateRecord"} /\ db' = Patched(c, db)
             /\ Keep(c, IF table.cache THEN "encache" ELSE "done", Patched(c, db))
  <2> DEFINE pc == IF table.cache THEN "encache" ELSE "done"
  <2>1. Goal(pc, Patched(c, db))
    BY <1>7 DEF AtStorage, FromStorage, Route
  <2>2. pc \in Onward
    BY <1>3 DEF Onward
  <2>3. QED BY <1>1, <1>2, <1>7, <2>1, <2>2
<1>8. CASE AtStorage(c) /\ Goto(c, "failed") /\ UNCHANGED db
  <2> DEFINE pc == "failed"
  <2>1. Goal(pc, call[c].val)
    BY <1>8 DEF AtStorage, FromStorage, Route
  <2>2. pc \in Onward
    BY <1>3 DEF Onward
  <2>3. QED BY <1>1, <1>2, <1>8, <2>1, <2>2
<1>9. CASE AtStorage(c) /\ call[c].op = "delete" /\ db' = Absent
             /\ Goto(c, IF db # Absent THEN AfterCache ELSE "done")
  <2> DEFINE pc == IF db # Absent THEN AfterCache ELSE "done"
  <2>1. Goal(pc, call[c].val)
    BY <1>9 DEF AtStorage, FromStorage, Route
  <2>2. pc \in Onward
    BY <1>3 DEF Onward
  <2>3. QED BY <1>1, <1>2, <1>9, <2>1, <2>2
<1>10. CASE AtStorage(c) /\ call[c].op = "deleteMany" /\ db' = Absent
              /\ Keep(c, IF table.cache THEN "drop" ELSE "done", db)
  <2> DEFINE pc == IF table.cache THEN "drop" ELSE "done"
  <2>1. Goal(pc, db)
    BY <1>10 DEF AtStorage, FromStorage, Route
  <2>2. pc \in Onward
    BY <1>3 DEF Onward
  <2>3. QED BY <1>1, <1>2, <1>10, <2>1, <2>2
<1>11. CASE AtStorage(c) /\ call[c].op = "clear" /\ db' = Absent /\ Goto(c, AfterCache)
  <2> DEFINE pc == AfterCache
  <2>1. Goal(pc, call[c].val)
    BY <1>11 DEF AtStorage, FromStorage, Route
  <2>2. pc \in Onward
    BY <1>3 DEF Onward
  <2>3. QED BY <1>1, <1>2, <1>11, <2>1, <2>2
<1>12. CASE StorageFails(c)
  <2> DEFINE pc == "failed"
  <2>1. Goal(pc, call[c].val)
    BY <1>12 DEF StorageFails, FromStorage, Route
  <2>2. pc \in Onward
    BY <1>3 DEF Onward
  <2>3. QED BY <1>1, <1>2, <1>12, <2>1, <2>2
<1>13. CASE AtCache(c) /\ call[c].pc = "encache" /\ cache' = call[c].val /\ Goto(c, AfterCache)
  <2> DEFINE pc == AfterCache
  <2>1. Goal(pc, call[c].val)
    BY <1>13 DEF AtCache, FromCache, Route
  <2>2. pc \in Onward
    BY <1>3 DEF Onward
  <2>3. QED BY <1>1, <1>2, <1>13, <2>1, <2>2
<1>14. CASE AtCache(c) /\ call[c].pc = "uncache" /\ cache' = Nothing /\ Goto(c, "db")
  <2> DEFINE pc == "db"
  <2>1. Goal(pc, call[c].val)
    BY <1>14 DEF AtCache, FromCache, Route
  <2>2. pc \in Onward
    BY <1>3 DEF Onward
  <2>3. QED BY <1>1, <1>2, <1>14, <2>1, <2>2
<1>15. CASE AtCache(c) /\ call[c].pc = "drop" /\ cache' = Nothing
              /\ Keep(c, IF call[c].val # Absent THEN AfterCache ELSE "done", Absent)
  <2> DEFINE pc == IF call[c].val # Absent THEN AfterCache ELSE "done"
  <2>1. Goal(pc, Absent)
    BY <1>15 DEF AtCache, FromCache, Route
  <2>2. pc \in Onward
    BY <1>3 DEF Onward
  <2>3. QED BY <1>1, <1>2, <1>15, <2>1, <2>2
<1>16. CASE InvalidateQueryCache(c)
  <2> DEFINE pc == "done"
  <2>1. Goal(pc, call[c].val)
    BY <1>16 DEF InvalidateQueryCache, FromQuery, Route
  <2>2. pc \in Onward
    BY <1>3 DEF Onward
  <2>3. QED BY <1>1, <1>2, <1>16, <2>1, <2>2
<1>17. CASE ReadSteps(c) /\ call[c].pc = "cache" /\ cache # Nothing
  <2> DEFINE pc == "done"
  <2>1. Goal(pc, cache)
    BY <1>17 DEF ReadSteps, FromCache, Route
  <2>2. pc \in Onward
    BY <1>3 DEF Onward
  <2>3. QED BY <1>1, <1>2, <1>17, <2>1, <2>2
<1>18. CASE ReadSteps(c) /\ call[c].pc = "cache" /\ cache = Nothing
  <2> DEFINE pc == "read"
  <2>1. Goal(pc, call[c].val)
    BY <1>18 DEF ReadSteps, FromCache, Route
  <2>2. pc \in Onward
    BY <1>3 DEF Onward
  <2>3. QED BY <1>1, <1>2, <1>18, <2>1, <2>2
<1>19. CASE ReadSteps(c) /\ call[c].pc = "read"
  <2> DEFINE pc == IF call[c].op = "get" /\ table.cache /\ db # Absent THEN "fill" ELSE "done"
  <2>1. Goal(pc, db)
    BY <1>19 DEF ReadSteps, FromCache, Route
  <2>2. pc \in Onward
    BY <1>3 DEF Onward
  <2>3. QED BY <1>1, <1>2, <1>19, <2>1, <2>2
<1>20. CASE ReadSteps(c) /\ call[c].pc = "fill"
  <2> DEFINE pc == "done"
  <2>1. Goal(pc, call[c].val)
    BY <1>20 DEF ReadSteps, FromCache, Route
  <2>2. pc \in Onward
    BY <1>3 DEF Onward
  <2>3. QED BY <1>1, <1>2, <1>20, <2>1, <2>2
<1>21. CASE QuerySteps(c) /\ call[c].pc = "qcache" /\ qcache # Nothing
  <2> DEFINE pc == "done"
  <2>1. Goal(pc, qcache)
    BY <1>21 DEF QuerySteps, FromQuery, Route
  <2>2. pc \in Onward
    BY <1>3 DEF Onward
  <2>3. QED BY <1>1, <1>2, <1>21, <2>1, <2>2
<1>22. CASE QuerySteps(c) /\ call[c].pc = "qcache" /\ qcache = Nothing
  <2> DEFINE pc == "query"
  <2>1. Goal(pc, call[c].val)
    BY <1>22 DEF QuerySteps, FromQuery, Route
  <2>2. pc \in Onward
    BY <1>3 DEF Onward
  <2>3. QED BY <1>1, <1>2, <1>22, <2>1, <2>2
<1>23. CASE QuerySteps(c) /\ call[c].pc = "query"
  <2> DEFINE pc == IF table.queryCache THEN "qfill" ELSE "done"
  <2>1. Goal(pc, db)
    BY <1>23 DEF QuerySteps, FromQuery, Route
  <2>2. pc \in Onward
    BY <1>3 DEF Onward
  <2>3. QED BY <1>1, <1>2, <1>23, <2>1, <2>2
<1>24. CASE QuerySteps(c) /\ call[c].pc = "qfill"
  <2> DEFINE pc == "done"
  <2>1. Goal(pc, call[c].val)
    BY <1>24 DEF QuerySteps, FromQuery, Route
  <2>2. pc \in Onward
    BY <1>3 DEF Onward
  <2>3. QED BY <1>1, <1>2, <1>24, <2>1, <2>2
<1>25. CASE AtStorage(c)
  BY <1>25, <1>6, <1>7, <1>8, <1>9, <1>10, <1>11 DEF AtStorage
<1>26. CASE AtCache(c)
  BY <1>26, <1>13, <1>14, <1>15 DEF AtCache
<1>27. CASE ReadSteps(c)
  BY <1>27, <1>17, <1>18, <1>19, <1>20 DEF ReadSteps
<1>28. CASE QuerySteps(c)
  BY <1>28, <1>21, <1>22, <1>23, <1>24 DEF QuerySteps
<1>29. QED BY <1>25, <1>26, <1>27, <1>28, <1>5, <1>12, <1>16 DEF Proceeds

LEMMA ProceedsFacts ==
  ASSUME Ground, \A d \in Calls : Doing(d), NEW c \in Calls, Proceeds(c)
  PROVE  \E pc \in Steps \ {"idle", "queued", "held", "uncache", "flush", "cache"}, v \in Value :
           /\ Route(c, pc, v)
           /\ UNCHANGED <<table, pending, inFlight, stage>>
           /\ Ground' /\ Later(call, call') /\ Queued' = Queued
           /\ \A d \in Calls : Doing(d)'
           /\ \A d \in Calls \ {c} : call'[d] = call[d]
           /\ call'[c].pc = pc /\ call'[c].val = v /\ call'[c].op = call[c].op
<1>1. PICK pc \in Steps \ {"idle", "queued", "held", "uncache", "flush", "cache"}, v \in Value :
        /\ Keep(c, pc, v) \/ (Goto(c, pc) /\ v = call[c].val)
        /\ Route(c, pc, v)
        /\ UNCHANGED <<table, pending, inFlight, stage>>
  BY RouteTaken
<1>2. call[c] \in Call /\ db \in Value /\ Absent \in Value /\ call[c].val \in Value /\ table \in Options
      /\ cache \in Content \cup {Nothing} /\ qcache \in Value \cup {Nothing} /\ Content \subseteq Value
  BY TableAssumption DEF Ground, TypeOK, Value, Call
<1>3. Doing(c)
  OBVIOUS
<1>4. Patched(c, db) # Absent /\ Patched(c, db) \in Value
  BY <1>2, Sentinels DEF Patched, Value, Content
<1>5. \A d \in Calls : {d} # Absent
  BY Sentinels DEF Content
<1>6. table.queryCache => table.cache
  BY TableAssumption DEF Ground, TypeOK
<1>7. Fitting(c, pc, v)
  <2>0. /\ Contributing \subseteq Writes \cup Bulk /\ (Writes \cup Bulk) \cap Reads = {}
        /\ {"delete", "deleteMany", "clear", "update"} \subseteq Writes \cup Bulk
        /\ {"set", "setMany", "delete"} \cap Reads = {} /\ Bulk \subseteq Writes \cup Bulk
    BY DEF Contributing, Writes, Bulk, Reads
  <2>1. CASE FromFlush(c, pc, v)
    BY <1>1, <1>2, <1>3, <2>0, <2>1 DEF FromFlush, Doing, Fitting
  <2>2. CASE FromStorage(c, pc, v)
    <3>1. CASE call[c].op \in {"set", "setMany", "update", "updateRecord"} /\ pc # "failed"
      BY <1>1, <1>2, <1>3, <1>4, <1>5, <2>0, <2>2, <3>1 DEF FromStorage, Doing, Contributing, Fitting
    <3>2. CASE call[c].op \in {"delete", "clear", "deleteMany"} /\ pc # "failed"
      BY <1>1, <1>2, <1>3, <2>0, <2>2, <3>2 DEF FromStorage, Doing, AfterCache, Fitting
    <3>3. CASE pc = "failed"
      <4>1. v = call[c].val /\ UNCHANGED <<db, cache, qcache>> /\ call[c].pc = "db"
        BY <2>2, <3>3, <1>3 DEF FromStorage, AfterCache
      <4>2. QED BY <1>2, <1>3, <3>3, <4>1 DEF Doing, Fitting
    <3>4. QED BY <2>2, <3>1, <3>2, <3>3 DEF FromStorage
  <2>3. CASE FromCache(c, pc, v)
    BY <1>1, <1>2, <1>3, <1>4, <1>5, <2>0, <2>3 DEF FromCache, Doing, AfterCache, Value,
       Contributing, Fitting
  <2>4. CASE FromQuery(c, pc, v)
    BY <1>1, <1>2, <1>3, <2>0, <2>4 DEF FromQuery, Doing, Contributing, Fitting
  <2>5. QED BY <1>1, <2>1, <2>2, <2>3, <2>4 DEF Route
<1>8. /\ Ground' /\ Later(call, call') /\ Queued' = Queued
      /\ \A d \in Calls : Doing(d)'
      /\ \A d \in Calls \ {c} : call'[d] = call[d]
      /\ call'[c].pc = pc /\ call'[c].val = v /\ call'[c].op = call[c].op
  <2>1. UNCHANGED <<table, pending, inFlight, stage>>
    BY <1>1
  <2>2. Keep(c, pc, v) \/ (Goto(c, pc) /\ v = call[c].val)
    BY <1>1
  <2>3. pc \in Steps \ {"idle", "queued", "held", "uncache", "flush", "cache"} /\ v \in Value
    BY <1>1
  <2>4. Ground' /\ Later(call, call') /\ Queued' = Queued
    BY <1>7, <2>1, <2>2, <2>3, TurnFacts
  <2>5. \A d \in Calls : Doing(d)'
    BY <1>7, <2>1, <2>2, <2>3, TurnFacts
  <2>6. \A d \in Calls \ {c} : call'[d] = call[d]
    BY <1>7, <2>1, <2>2, <2>3, TurnFacts
  <2>7. call'[c].pc = pc /\ call'[c].val = v /\ call'[c].op = call[c].op
    BY <1>7, <2>1, <2>2, <2>3, TurnFacts
  <2>8. QED BY <2>4, <2>5, <2>6, <2>7
<1>9. QED BY <1>1, <1>8

(* The flush handler.                                                      *)
LEMMA StartFacts ==
  ASSUME Ground, \A d \in Calls : Doing(d), StartBatch
  PROVE  /\ Ground' /\ \A d \in Calls : Doing(d)'
         /\ call' = call /\ Queued' = Queued /\ pending # Nothing /\ inFlight = Nothing
         /\ CallersOf(inFlight') = CallersOf(pending) /\ CallersOf(pending') = {}
<1>1. pending # Nothing /\ inFlight = Nothing /\ inFlight' = pending /\ pending' = Nothing
      /\ call' = call /\ stage' = "db" /\ UNCHANGED <<table, db, cache, qcache>>
  BY DEF StartBatch, Ground, TypeOK
<1>2. TypeOK'
  BY <1>1 DEF Ground, TypeOK
<1>3. Queued' = Queued /\ CallersOf(inFlight') = CallersOf(pending) /\ CallersOf(pending') = {}
  BY <1>1 DEF Queued, CallersOf
<1>4. Accounted'
  BY <1>1, <1>3 DEF Ground, Accounted, CallersOf
<1>5. \A d \in Calls : Doing(d)'
  BY <1>1 DEF Doing
<1>6. QED BY <1>1, <1>2, <1>3, <1>4, <1>5 DEF Ground

LEMMA HandlesFacts ==
  ASSUME Ground, \A d \in Calls : Doing(d), HandlerStores \/ HandlerCaches \/ HandlerInvalidates
  PROVE  /\ Ground' /\ \A d \in Calls : Doing(d)'
         /\ call' = call /\ Queued' = Queued /\ inFlight # Nothing /\ inFlight \in Slot
         /\ UNCHANGED <<table, pending, inFlight>>
<1>1. inFlight # Nothing /\ inFlight \in Slot /\ UNCHANGED <<table, pending, inFlight, call>>
  BY DEF HandlerStores, HandlerCaches, HandlerInvalidates, Ground, TypeOK
<1>2. stage' \in {"cache", "invalidate", "end"}
  BY DEF HandlerStores, HandlerCaches, HandlerInvalidates
<1>3. cache' \in Content \cup {Nothing}
  <2>1. CASE HandlerCaches
    <3>1. inFlight.type # "delete" /\ pending = Nothing => inFlight.val \in Content
      <4>1. inFlight \in {pending, inFlight} \ {Nothing} /\ inFlight.type \in {"set", "delete"}
              /\ inFlight.val \in Value
        BY <1>1 DEF Slot
      <4>2. inFlight.type = "set" => inFlight.val # Absent
        BY <4>1 DEF Ground, Accounted
      <4>3. QED BY <4>1, <4>2 DEF Value
    <3>2. QED BY <2>1, <3>1 DEF HandlerCaches, Ground, TypeOK
  <2>2. CASE ~HandlerCaches
    BY <2>2 DEF HandlerStores, HandlerInvalidates, Ground, TypeOK
  <2>3. QED BY <2>1, <2>2
<1>4. db' \in Value /\ qcache' \in Value \cup {Nothing}
  BY <1>1 DEF HandlerStores, HandlerCaches, HandlerInvalidates, Ground, TypeOK, Slot
<1>5. TypeOK'
  BY <1>1, <1>2, <1>3, <1>4 DEF Ground, TypeOK
<1>6. Queued' = Queued
  BY <1>1 DEF Queued
<1>7. Accounted'
  BY <1>1, <1>6 DEF Ground, Accounted, CallersOf
<1>8. \A d \in Calls : Doing(d)'
  BY <1>1 DEF Doing
<1>9. QED BY <1>1, <1>5, <1>6, <1>7, <1>8 DEF Ground

(* The end of a batch, and how it answers.                                 *)
LEMMA EndFacts ==
  ASSUME Ground, \A d \in Calls : Doing(d), HandlerEnds \/ HandlerFails
  PROVE  /\ Ground' /\ \A d \in Calls : Doing(d)'
         /\ Later(call, call') /\ Queued' = CallersOf(pending) /\ inFlight # Nothing
         /\ \A c \in Calls : call'[c].val = call[c].val
         /\ HandlerEnds => \A c \in Calls : /\ c \in inFlight.callers => call'[c].pc = "done"
                                            /\ c \notin inFlight.callers => call'[c] = call[c]
         /\ ~HandlerEnds => \A c \in Calls : \/ call'[c].pc = "failed"
                                             \/ c \notin inFlight.callers /\ call'[c] = call[c]
         /\ UNCHANGED <<table, db, cache, qcache, pending>>
         /\ inFlight' = Nothing /\ stage' = "none"
<1>0. inFlight # Nothing
  BY DEF HandlerEnds, HandlerFails, Ground, TypeOK
<1>1. CASE HandlerEnds
  <2>1. call' = [c \in Calls |-> IF c \in inFlight.callers \cup {}
                                  THEN [call[c] EXCEPT !.pc = "done"] ELSE call[c]]
    BY <1>1 DEF HandlerEnds
  <2>2. inFlight' = Nothing /\ stage' = "none" /\ UNCHANGED <<table, db, cache, qcache, pending>>
    BY <1>1 DEF HandlerEnds
  <2>3. PICK pc \in {"done", "failed"} : pc = "done"
    OBVIOUS
  <2>4. PICK more \in SUBSET Calls : more = {}
    OBVIOUS
  <2>5. /\ more \cap Queued = {} /\ \A c \in more : call[c].pc = "flush"
        /\ call' = [c \in Calls |-> IF c \in inFlight.callers \cup more
                                     THEN [call[c] EXCEPT !.pc = pc] ELSE call[c]]
    BY <2>1, <2>3, <2>4
  <2>6. /\ Ground' /\ Later(call, call') /\ Queued' = CallersOf(pending)
        /\ \A c \in Calls : call'[c].val = call[c].val
        /\ \A c \in Calls : c \in inFlight.callers \cup more => call'[c].pc = pc
        /\ \A c \in Calls : c \notin inFlight.callers \cup more => call'[c] = call[c]
    BY <1>0, <2>2, <2>5, BatchGround
  <2>7. ASSUME NEW d \in Calls PROVE Doing(d)'
    <3>1. CASE d \in inFlight.callers
      <4>1. call[d].pc = "queued"
        BY <1>0, <3>1 DEF Ground, Accounted, CallersOf, Queued
      <4>2. call'[d].pc = "done" /\ call'[d].op = call[d].op /\ call'[d].val = call[d].val
        BY <2>3, <2>6, <3>1, <4>1 DEF Later
      <4>3. QED BY <2>2, <4>1, <4>2 DEF Doing
    <3>2. CASE d \notin inFlight.callers
      BY <2>2, <2>4, <2>6, <3>2 DEF Doing
    <3>3. QED BY <3>1, <3>2
  <2>8. QED BY <1>0, <1>1, <2>2, <2>3, <2>4, <2>6, <2>7
<1>2. CASE HandlerFails /\ ~HandlerEnds
  <2>1. PICK more \in SUBSET Calls : more = {c \in Calls : call[c].pc = "flush"}
    OBVIOUS
  <2>2. inFlight' = Nothing /\ stage' = "none" /\ UNCHANGED <<table, db, cache, qcache, pending>>
    BY <1>2 DEF HandlerFails
  <2>3. PICK pc \in {"done", "failed"} : pc = "failed"
    OBVIOUS
  <2>4. \A c \in Calls : c \in inFlight.callers \/ call[c].pc = "flush"
                          <=> c \in inFlight.callers \cup more
    BY <2>1
  <2>5. call' = [c \in Calls |-> IF c \in inFlight.callers \cup more
                                  THEN [call[c] EXCEPT !.pc = pc] ELSE call[c]]
    BY <1>2, <2>3, <2>4 DEF HandlerFails
  <2>6. more \cap Queued = {} /\ \A c \in more : call[c].pc = "flush"
    BY <2>1 DEF Queued
  <2>7. /\ Ground' /\ Later(call, call') /\ Queued' = CallersOf(pending)
        /\ \A c \in Calls : call'[c].val = call[c].val
        /\ \A c \in Calls : c \in inFlight.callers \cup more => call'[c].pc = pc
        /\ \A c \in Calls : c \notin inFlight.callers \cup more => call'[c] = call[c]
    BY <1>0, <2>2, <2>5, <2>6, BatchGround
  <2>8. ASSUME NEW d \in Calls PROVE Doing(d)'
    <3>1. CASE d \in inFlight.callers \cup more
      <4>1. call[d].pc \in {"queued", "flush"}
        BY <1>0, <2>1, <3>1 DEF Ground, Accounted, CallersOf, Queued
      <4>2. call'[d].pc = "failed" /\ call'[d].op = call[d].op /\ call'[d].val = call[d].val
        BY <2>3, <2>7, <3>1, <4>1 DEF Later
      <4>3. QED BY <2>2, <4>1, <4>2 DEF Doing
    <3>2. CASE d \notin inFlight.callers \cup more
      BY <2>2, <2>7, <3>2 DEF Doing
    <3>3. QED BY <3>1, <3>2
  <2>9. QED BY <1>0, <1>2, <2>2, <2>3, <2>7, <2>8
<1>3. QED BY <1>1, <1>2

-----------------------------------------------------------------------------
(* What a call knows when it begins: the calls that were answered or       *)
(* buffered.  Those that wait still, after it is past a flush, came later. *)
Passed(c) ==
  \/ call[c].pc \in {"db", "uncache", "encache", "drop", "invalidate", "cache", "read", "fill",
                     "qcache", "query", "qfill"}
  \/ call[c].pc = "done" /\ call[c].op \notin {"get", "exists"}

Known ==
  /\ \A c \in Calls : call[c].before \subseteq Settled \cup Queued
  /\ \A c \in Calls : Passed(c) => call[c].before \cap Queued = {}
  /\ \A c \in Calls : call[c].pc = "flush" => call[c].before \cap Queued \subseteq call[c].awaits
  /\ \A c \in CallersOf(inFlight) : call[c].before \cap CallersOf(pending) = {}

Base == Ground /\ (\A c \in Calls : Doing(c)) /\ Known

LEMMA SlotCallers ==
  ASSUME Ground
  PROVE  /\ CallersOf(pending) \subseteq Calls /\ CallersOf(inFlight) \subseteq Calls
         /\ Queued = CallersOf(pending) \cup CallersOf(inFlight)
         /\ CallersOf(pending) \cap CallersOf(inFlight) = {}
         /\ \A c \in Queued : call[c].pc = "queued"
         /\ Queued \cap Settled = {}
         /\ pending # Nothing => pending \in Slot /\ pending.callers = CallersOf(pending)
         /\ inFlight # Nothing => inFlight \in Slot /\ inFlight.callers = CallersOf(inFlight)
<1>1. \A s \in Slot : s.callers \subseteq Calls
  BY DEF Slot
<1>2. QED BY <1>1 DEF Ground, TypeOK, Accounted, CallersOf, Queued, Settled

LEMMA StartsKnown ==
  ASSUME Base, NEW c \in Calls, NEW op \in Writes \cup Bulk \cup Reads,
         NEW pc \in Steps, NEW v \in Value, Starts(c, op, pc, v)
  PROVE  Known'
<1>1. /\ Ground' /\ Later(call, call') /\ Queued' = Queued
      /\ call[c].pc = "idle" /\ \A d \in Calls \ {c} : call'[d] = call[d]
      /\ call'[c] = [op |-> op, pc |-> pc, val |-> v, before |-> Done \cup Queued,
                        awaits |-> IF pc = "flush" THEN Queued ELSE {}]
  BY StartsFacts DEF Base
<1>2. UNCHANGED <<pending, inFlight>> /\ pc # "queued"
      /\ (pc = "done" => op \in {"get", "exists"})
      /\ (pc \in {"db", "uncache", "read", "cache", "qcache", "query"} => Queued = {})
      /\ pc \in {"held", "db", "uncache", "flush", "failed", "read", "cache", "qcache", "query", "done"}
  BY DEF Starts
<1>3. call'[c].op = op /\ call'[c].pc = pc /\ call'[c].before = Done \cup Queued
      /\ (pc = "flush" => call'[c].awaits = Queued)
  BY <1>1
<1>4. Settled \subseteq Settled' /\ Done \subseteq Settled
  BY <1>1 DEF Settled, Done
<1>5. \A d \in Calls : call'[d].before \subseteq Settled' \cup Queued'
  BY <1>1, <1>3, <1>4 DEF Base, Known
<1>6. \A d \in Calls : Passed(d)' => call'[d].before \cap Queued' = {}
  BY <1>1, <1>2, <1>3 DEF Base, Known, Passed
<1>7. \A d \in Calls : call'[d].pc = "flush" => call'[d].before \cap Queued' \subseteq call'[d].awaits
  BY <1>1, <1>3 DEF Base, Known
<1>8. \A d \in CallersOf(inFlight)' : call'[d].before \cap CallersOf(pending)' = {}
  <2>1. CallersOf(inFlight)' = CallersOf(inFlight) /\ CallersOf(pending)' = CallersOf(pending)
    BY <1>2 DEF CallersOf
  <2>2. c \notin CallersOf(inFlight)
    BY <1>1, SlotCallers DEF Base
  <2>3. QED BY <1>1, <2>1, <2>2, SlotCallers DEF Base, Known
<1>9. QED BY <1>5, <1>6, <1>7, <1>8 DEF Known

LEMMA EntersKnown ==
  ASSUME Base, NEW c \in Calls, NEW op \in Writes, NEW v \in Value, Enters(c, op, v)
  PROVE  Known'
<1>1. /\ Ground' /\ Later(call, call') /\ Queued' = Queued \cup {c} /\ c \notin Queued
      /\ call[c].pc \in {"idle", "held"} /\ \A d \in Calls \ {c} : call'[d] = call[d]
      /\ call'[c].op = op /\ call'[c].pc = "queued" /\ call'[c].val = v
      /\ call'[c].before = IF call[c].pc = "idle" THEN Done \cup Queued ELSE call[c].before
      /\ CallersOf(pending') = CallersOf(pending) \cup {c}
  BY EntersFacts DEF Base
<1>2. Settled \subseteq Settled' /\ Done \subseteq Settled /\ c \notin Settled
  BY <1>1 DEF Settled, Done
<1>3. \A d \in Calls : c \notin call[d].before
  BY <1>1, <1>2 DEF Base, Known
<1>4. \A d \in Calls : call'[d].before \subseteq Settled' \cup Queued'
  BY <1>1, <1>2 DEF Base, Known
<1>5. \A d \in Calls : Passed(d)' => call'[d].before \cap Queued' = {}
  BY <1>1, <1>3 DEF Base, Known, Passed
<1>6. \A d \in Calls : call'[d].pc = "flush" => call'[d].before \cap Queued' \subseteq call'[d].awaits
  BY <1>1, <1>3 DEF Base, Known
<1>7. \A d \in CallersOf(inFlight)' : call'[d].before \cap CallersOf(pending)' = {}
  <2>1. CallersOf(inFlight)' = CallersOf(inFlight) /\ CallersOf(pending)' = CallersOf(pending) \cup {c}
    BY <1>1 DEF CallersOf, Enters
  <2>2. c \notin CallersOf(inFlight)
    BY <1>1, SlotCallers DEF Base
  <2>3. QED BY <1>1, <1>3, <2>1, <2>2, SlotCallers DEF Base, Known
<1>8. QED BY <1>4, <1>5, <1>6, <1>7 DEF Known

LEMMA ProceedsKnown ==
  ASSUME Base, NEW c \in Calls, Proceeds(c)
  PROVE  Known'
<1>1. PICK pc \in Steps \ {"idle", "queued", "held", "uncache", "flush", "cache"}, v \in Value :
           /\ Route(c, pc, v)
           /\ UNCHANGED <<table, pending, inFlight, stage>>
           /\ Ground' /\ Later(call, call') /\ Queued' = Queued
           /\ \A d \in Calls \ {c} : call'[d] = call[d]
           /\ call'[c].pc = pc /\ call'[c].val = v /\ call'[c].op = call[c].op
  BY ProceedsFacts DEF Base
<1>2. call[c].pc \notin {"idle", "queued", "held", "done", "failed"}
  BY <1>1 DEF Route, FromFlush, FromStorage, FromCache, FromQuery
<1>3. Settled \subseteq Settled' /\ call'[c].before = call[c].before /\ call'[c].awaits = call[c].awaits
  BY <1>1, <1>2 DEF Settled, Later
<1>4. \A d \in Calls : call'[d].before \subseteq Settled' \cup Queued'
  BY <1>1, <1>3 DEF Base, Known
<1>5. ASSUME NEW d \in Calls, Passed(d)' PROVE call'[d].before \cap Queued' = {}
  <2>1. CASE d # c
    BY <1>1, <1>5, <2>1 DEF Base, Known, Passed
  <2>2. CASE d = c /\ call[c].pc # "flush"
    <3>1. Passed(c)
      BY <1>1, <2>2 DEF Route, FromFlush, FromStorage, FromCache, FromQuery, Passed
    <3>2. QED BY <1>1, <1>3, <2>2, <3>1 DEF Base, Known
  <2>3. CASE d = c /\ call[c].pc = "flush"
    <3>1. call[c].awaits \cap Queued = {}
      BY <1>1, <2>3 DEF Route, FromFlush, FromStorage, FromCache, FromQuery
    <3>2. QED BY <1>1, <1>3, <2>3, <3>1 DEF Base, Known
  <2>4. QED BY <2>1, <2>2, <2>3
<1>6. \A d \in Calls : call'[d].pc = "flush" => call'[d].before \cap Queued' \subseteq call'[d].awaits
  BY <1>1 DEF Base, Known
<1>7. \A d \in CallersOf(inFlight)' : call'[d].before \cap CallersOf(pending)' = {}
  <2>1. CallersOf(inFlight)' = CallersOf(inFlight) /\ CallersOf(pending)' = CallersOf(pending)
    BY <1>1 DEF CallersOf
  <2>2. QED BY <1>1, <1>3, <2>1, SlotCallers DEF Base, Known
<1>8. QED BY <1>4, <1>5, <1>6, <1>7 DEF Known

LEMMA HandlerKnown ==
  ASSUME Base, Handler
  PROVE  Known'
<1>1. CASE StartBatch
  <2>1. /\ call' = call /\ Queued' = Queued
        /\ CallersOf(inFlight') = CallersOf(pending) /\ CallersOf(pending') = {}
    BY <1>1, StartFacts DEF Base
  <2>2. CallersOf(pending)' = {} /\ Settled' = Settled
    BY <2>1 DEF CallersOf, Settled
  <2>3. QED BY <2>1, <2>2 DEF Base, Known, Passed
<1>2. CASE HandlerStores \/ HandlerCaches \/ HandlerInvalidates
  <2>1. call' = call /\ Queued' = Queued /\ UNCHANGED <<pending, inFlight>>
    BY <1>2, HandlesFacts DEF Base
  <2>2. Settled' = Settled /\ CallersOf(inFlight)' = CallersOf(inFlight)
          /\ CallersOf(pending)' = CallersOf(pending)
    BY <2>1 DEF CallersOf, Settled
  <2>3. QED BY <2>1, <2>2 DEF Base, Known, Passed
<1>3. CASE HandlerEnds \/ HandlerFails
  <2>1. /\ Later(call, call') /\ Queued' = CallersOf(pending) /\ inFlight # Nothing
        /\ HandlerEnds => \A c \in Calls : /\ c \in inFlight.callers => call'[c].pc = "done"
                                           /\ c \notin inFlight.callers => call'[c] = call[c]
        /\ ~HandlerEnds => \A c \in Calls : \/ call'[c].pc = "failed"
                                            \/ c \notin inFlight.callers /\ call'[c] = call[c]
        /\ inFlight' = Nothing
    BY <1>3, EndFacts DEF Base
  <2>2. Queued = CallersOf(pending) \cup inFlight.callers /\ CallersOf(inFlight) = inFlight.callers
        /\ CallersOf(inFlight)' = {} /\ inFlight.callers \subseteq Calls
    BY <2>1, SlotCallers DEF Base, CallersOf
  <2>3. Settled \cup Queued \subseteq Settled' \cup Queued' /\ Queued' \subseteq Queued
    <3>1. inFlight.callers \subseteq Settled'
      BY <2>1, <2>2 DEF Settled
    <3>2. Settled \subseteq Settled'
      BY <2>1 DEF Settled, Later
    <3>3. QED BY <2>1, <2>2, <3>1, <3>2
  <2>4. \A c \in Calls : call'[c].before = call[c].before
    <3>1. \A c \in Calls : call[c].pc = "idle" => call[c].before = {} /\ c \notin inFlight.callers
      BY <2>1, <2>2, SlotCallers DEF Base, Doing
    <3>2. \A c \in Calls : call[c].pc = "idle" => call'[c] = call[c]
      BY <1>3, <2>1, <2>2, <3>1 DEF HandlerFails
    <3>3. QED BY <2>1, <3>2 DEF Later
  <2>5. ASSUME NEW c \in Calls, Passed(c)' PROVE call'[c].before \cap Queued' = {}
    <3>1. CASE c \in inFlight.callers
      BY <2>1, <2>2, <2>4, <3>1 DEF Base, Known
    <3>2. CASE c \notin inFlight.callers
      <4>1. call'[c] = call[c]
        BY <2>1, <2>5, <3>2 DEF Passed
      <4>2. QED BY <2>3, <2>5, <4>1 DEF Base, Known, Passed
    <3>3. QED BY <3>1, <3>2
  <2>6. \A c \in Calls : call'[c].pc = "flush" => call'[c].before \cap Queued' \subseteq call'[c].awaits
    BY <2>1, <2>3 DEF Base, Known
  <2>7. QED BY <2>2, <2>3, <2>4, <2>5, <2>6 DEF Base, Known
<1>4. QED BY <1>1, <1>2, <1>3 DEF Handler

LEMMA BaseInit == Init => Base
<1> SUFFICES ASSUME Init PROVE Base
  OBVIOUS
<1>1. Ground
  BY TypeInit
<1>2. \A c \in Calls : call[c].pc = "idle" /\ call[c].before = {} /\ call[c].op = "none"
  BY DEF Init
<1>3. \A c \in Calls : Doing(c)
  BY <1>2 DEF Doing
<1>4. Known
  BY <1>2 DEF Init, Known, Passed, CallersOf
<1>5. QED BY <1>1, <1>3, <1>4 DEF Base

(* A step keeps Base, and what the calls that wait or are answered are.    *)
Lasting ==
  /\ Later(call, call') /\ table' = table
  /\ \A c \in Settled \cup Queued : call[c].pc # "idle" /\ call'[c].val = call[c].val

LEMMA BaseStep ==
  ASSUME Base, [Next]_vars
  PROVE  Base' /\ Lasting
<1>1. CASE UNCHANGED vars
  <2>1. UNCHANGED <<table, db, cache, qcache, pending, inFlight, stage, call>>
    BY <1>1 DEF vars
  <2>2. Ground' /\ Known' /\ \A c \in Calls : Doing(c)'
    BY <2>1 DEF Base, Ground, TypeOK, Accounted, Known, Passed, Doing, CallersOf, Queued, Settled
  <2>3. Lasting
    BY <2>1 DEF Lasting, Later, Settled, Queued
  <2>4. QED BY <2>2, <2>3 DEF Base
<1>2. ASSUME NEW c \in Calls, NEW op \in Writes \cup Bulk \cup Reads, NEW pc \in Steps, NEW v \in Value,
             Starts(c, op, pc, v)
      PROVE  Base' /\ Lasting
  <2>1. Ground' /\ Later(call, call') /\ \A d \in Calls : Doing(d)'
    BY <1>2, StartsFacts DEF Base
  <2>2. call[c].pc = "idle" /\ \A d \in Calls \ {c} : call'[d] = call[d]
    BY <1>2, StartsFacts DEF Base
  <2>3. Known' /\ table' = table
    BY <1>2, StartsKnown DEF Starts
  <2>4. QED BY <2>1, <2>2, <2>3 DEF Base, Lasting, Settled, Queued
<1>3. ASSUME NEW c \in Calls, NEW op \in Writes, NEW v \in Value, Enters(c, op, v)
      PROVE  Base' /\ Lasting
  <2>1. Ground' /\ Later(call, call') /\ \A d \in Calls : Doing(d)'
    BY <1>3, EntersFacts DEF Base
  <2>2. call[c].pc \in {"idle", "held"} /\ \A d \in Calls \ {c} : call'[d] = call[d]
    BY <1>3, EntersFacts DEF Base
  <2>3. Known' /\ table' = table
    BY <1>3, EntersKnown DEF Enters
  <2>4. QED BY <2>1, <2>2, <2>3 DEF Base, Lasting, Settled, Queued
<1>4. ASSUME NEW c \in Calls, Proceeds(c)
      PROVE  Base' /\ Lasting
  <2>1. PICK pc \in Steps \ {"idle", "queued", "held", "uncache", "flush", "cache"}, v \in Value :
          /\ Route(c, pc, v)
          /\ UNCHANGED <<table, pending, inFlight, stage>>
          /\ Ground' /\ Later(call, call') /\ Queued' = Queued
          /\ \A d \in Calls : Doing(d)'
          /\ \A d \in Calls \ {c} : call'[d] = call[d]
    BY <1>4, ProceedsFacts DEF Base
  <2>2. call[c].pc \notin {"idle", "queued", "held", "done", "failed"}
    BY <2>1 DEF Route, FromFlush, FromStorage, FromCache, FromQuery
  <2>3. Known'
    BY <1>4, ProceedsKnown
  <2>4. QED BY <2>1, <2>2, <2>3 DEF Base, Lasting, Settled, Queued
<1>5. CASE Handler
  <2>1. Known'
    BY <1>5, HandlerKnown
  <2>2. /\ Ground' /\ Later(call, call') /\ table' = table
        /\ \A d \in Calls : Doing(d)' /\ call'[d].val = call[d].val
    <3>1. CASE StartBatch
      BY <3>1, StartFacts DEF Base, StartBatch, Later
    <3>2. CASE HandlerStores \/ HandlerCaches \/ HandlerInvalidates
      BY <3>2, HandlesFacts DEF Base, Later
    <3>3. CASE HandlerEnds \/ HandlerFails
      BY <3>3, EndFacts DEF Base
    <3>4. QED BY <1>5, <3>1, <3>2, <3>3 DEF Handler
  <2>3. QED BY <2>1, <2>2 DEF Base, Lasting, Settled, Queued
<1>6. QED BY <1>1, <1>2, <1>3, <1>4, <1>5, StepKinds DEF Base

-----------------------------------------------------------------------------
(* An update is computed from the value in the buffer, and it enters the   *)
(* buffer at once: nothing comes between the two.                          *)
Unheld == "update" \in table.operations => ~table.mayHold \/ ~table.autoBatch

(* What c wrote was overwritten by o, which it does not know of.           *)
Over(cl, c, o) ==
  /\ o # c /\ cl[o].op \in Overwriting
  /\ o \notin cl[c].before /\ o \notin Members(cl[c].val)

(* The value of a slot has an author, who overwrote what came before; it   *)
(* has the writes of all of its callers, or those from the author on.      *)
Authored(s, cl) ==
  s # Nothing =>
    /\ \E a \in s.callers :
         /\ cl[a].op \in Overwriting
         /\ \A c \in s.callers : cl[c].op \in Contributing => c \in Members(s.val) \/ Over(cl, c, a)
    /\ Members(s.val) \subseteq s.callers
    /\ \A c \in s.callers : Members(cl[c].val) \subseteq s.callers
    /\ \A w \in s.callers : cl[w].op \in Overwriting => Members(s.val) \cap cl[w].before = {}

Slots == Authored(pending, call) /\ Authored(inFlight, call)

(* Only operations, values and what its callers know matter.               *)
LEMMA SameAuthored ==
  ASSUME NEW s, NEW cl, NEW cl2, Authored(s, cl),
         \A c \in CallersOf(s) : cl2[c].op = cl[c].op /\ cl2[c].val = cl[c].val
           /\ cl2[c].before = cl[c].before
  PROVE  Authored(s, cl2)
  BY DEF Authored, Over, CallersOf

LEMMA EntersAuthored ==
  ASSUME Base, Unheld, Authored(pending, call),
         NEW c \in Calls, NEW op \in Writes, NEW v \in Value, Enters(c, op, v)
  PROVE  Authored(pending', call')
<1>1. /\ Ground' /\ Later(call, call') /\ Queued' = Queued \cup {c} /\ c \notin Queued
      /\ call[c].pc \in {"idle", "held"} /\ \A d \in Calls \ {c} : call'[d] = call[d]
      /\ call'[c].op = op /\ call'[c].val = v
      /\ call'[c].before = IF call[c].pc = "idle" THEN Done \cup Queued ELSE call[c].before
      /\ pending' # Nothing /\ pending'.callers = CallersOf(pending) \cup {c} /\ pending'.val = v
  BY EntersFacts DEF Base
<1>2. CallersOf(pending) \subseteq Queued /\ CallersOf(pending) \subseteq Calls
  BY SlotCallers DEF Base
<1>3. \A d \in Calls : c \notin call[d].before
  BY <1>1 DEF Base, Known, Settled
<1>4. c \notin call'[c].before
  BY <1>1, <1>3 DEF Done
<1>5. c \notin CallersOf(pending) /\ \A d \in CallersOf(pending) : call'[d] = call[d]
        /\ Members(call[d].val) \subseteq CallersOf(pending)
  BY <1>1, <1>2 DEF Authored, CallersOf
<1>6. CASE op # "update"
  <2>1. Members(v) \subseteq {c} /\ (op = "set" => c \in Members(v)) /\ op \in {"set", "delete"}
    <3>1. op \in {"set", "delete"}
      BY <1>6 DEF Writes
    <3>2. (op = "set" => v = {c}) /\ (op = "delete" => v = Absent)
      <4>1. CASE call[c].pc = "held" /\ op = call[c].op /\ v = call[c].val
        BY <4>1 DEF Base, Doing
      <4>2. CASE ~(call[c].pc = "held" /\ op = call[c].op /\ v = call[c].val)
        BY <4>2 DEF Enters
      <4>3. QED BY <4>1, <4>2
    <3>3. {c} # Absent
      BY Sentinels DEF Content
    <3>4. QED BY <3>1, <3>2, <3>3 DEF Members
  <2>2. op \in Overwriting /\ (op \in Contributing => op = "set")
    BY <2>1 DEF Overwriting, Contributing
  <2>3. \A d \in pending'.callers : call'[d].op \in Contributing =>
          d \in Members(pending'.val) \/ Over(call', d, c)
    BY <1>1, <1>2, <1>3, <1>5, <2>1, <2>2 DEF Over
  <2>4. \A w \in pending'.callers : Members(pending'.val) \cap call'[w].before = {}
    BY <1>1, <1>2, <1>3, <1>4, <1>5, <2>1
  <2>5. \A d \in pending'.callers : Members(call'[d].val) \subseteq pending'.callers
    BY <1>1, <1>5, <2>1
  <2>6. QED BY <1>1, <2>1, <2>2, <2>3, <2>4, <2>5 DEF Authored
<1>7. CASE op = "update"
  <2>1. pending # Nothing /\ v = Patched(c, pending.val)
    <3>1. call[c].pc # "held"
      BY <1>1, <1>7 DEF Unheld, Enters, Base, Doing
    <3>2. QED BY <1>7, <3>1 DEF Enters
  <2>2. Members(v) = Members(pending.val) \cup {c}
    <3>1. v # Absent
      BY <1>7 DEF Enters
    <3>2. QED BY <2>1, <3>1 DEF Patched, Members
  <2>3. op \notin Overwriting
    BY <1>7 DEF Overwriting
  <2>4. pending.callers = CallersOf(pending)
    BY <2>1 DEF CallersOf
  <2>5. PICK a \in pending.callers :
          /\ call[a].op \in Overwriting
          /\ \A d \in pending.callers : call[d].op \in Contributing =>
               d \in Members(pending.val) \/ Over(call, d, a)
    BY <2>1 DEF Authored
  <2>6. a \in pending'.callers /\ call'[a].op \in Overwriting
        /\ \A d \in pending'.callers : call'[d].op \in Contributing =>
             d \in Members(pending'.val) \/ Over(call', d, a)
    BY <1>1, <1>5, <2>2, <2>4, <2>5 DEF Over
  <2>7. Members(pending.val) \subseteq pending.callers
        /\ \A w \in pending.callers : call[w].op \in Overwriting =>
             Members(pending.val) \cap call[w].before = {}
    BY <2>1 DEF Authored
  <2>8. Members(pending'.val) \subseteq pending'.callers
        /\ \A d \in pending'.callers : Members(call'[d].val) \subseteq pending'.callers
    BY <1>1, <1>5, <2>2, <2>4, <2>7
  <2>9. \A w \in pending'.callers : call'[w].op \in Overwriting =>
          Members(pending'.val) \cap call'[w].before = {}
    BY <1>1, <1>2, <1>3, <1>5, <2>2, <2>3, <2>4, <2>7
  <2>10. QED BY <2>6, <2>8, <2>9 DEF Authored
<1>8. QED BY <1>6, <1>7

LEMMA SlotsStep ==
  ASSUME Base, Unheld, Slots, [Next]_vars
  PROVE  Slots'
<1>0. Lasting /\ \A c \in CallersOf(pending) \cup CallersOf(inFlight) : c \in Calls /\ c \in Queued
  BY BaseStep, SlotCallers DEF Base
<1>1. \A c \in CallersOf(pending) \cup CallersOf(inFlight) :
        call'[c].op = call[c].op /\ call'[c].val = call[c].val /\ call'[c].before = call[c].before
  BY <1>0 DEF Lasting, Later
<1>2. Authored(pending, call') /\ Authored(inFlight, call')
  <2>1. Authored(pending, call')
    BY <1>1, SameAuthored DEF Slots
  <2>2. Authored(inFlight, call')
    BY <1>1, SameAuthored DEF Slots
  <2>3. QED BY <2>1, <2>2
<1>3. Authored(Nothing, call')
  BY DEF Authored
<1>4. ASSUME NEW c \in Calls, NEW op \in Writes, NEW v \in Value, Enters(c, op, v)
      PROVE  Slots'
  <2>1. Authored(pending', call')
    BY <1>4, EntersAuthored DEF Slots
  <2>2. inFlight' = inFlight
    BY <1>4 DEF Enters
  <2>3. QED BY <1>2, <2>1, <2>2 DEF Slots
<1>5. CASE StartBatch
  BY <1>2, <1>3, <1>5 DEF StartBatch, Slots
<1>6. CASE pending' = pending /\ inFlight' \in {inFlight, Nothing}
  BY <1>2, <1>3, <1>6 DEF Slots
<1>7. ASSUME NEW c \in Calls, NEW op \in Writes \cup Bulk \cup Reads, NEW pc \in Steps, NEW v \in Value,
             Starts(c, op, pc, v)
      PROVE  Slots'
  BY <1>6, <1>7 DEF Starts
<1>8. ASSUME NEW c \in Calls, Proceeds(c)
      PROVE  Slots'
  BY <1>6, <1>8 DEF Proceeds, FlushReturns, AtStorage, StorageFails, AtCache, InvalidateQueryCache,
     ReadSteps, QuerySteps
<1>9. CASE Handler
  BY <1>5, <1>6, <1>9 DEF Handler, HandlerStores, HandlerCaches, HandlerInvalidates, HandlerEnds,
     HandlerFails
<1>10. CASE UNCHANGED vars
  BY <1>6, <1>10 DEF vars
<1>11. QED BY <1>4, <1>7, <1>8, <1>9, <1>10, StepKinds DEF Base

-----------------------------------------------------------------------------
(* A value has the writes of the calls of S, or later ones; it has none    *)
(* that was there before an overwriting call of S began.                   *)
Kept(cl, v, S) ==
  \A c \in S : cl[c].op \in Contributing =>
    \/ c \in Members(v) \/ cl[c].pc = "failed"
    \/ \E o \in Calls : cl[o].pc # "idle" /\ Over(cl, c, o)

Clean(cl, v, S) ==
  \A w \in S : cl[w].op \in Overwriting /\ cl[w].pc # "failed" => Members(v) \cap cl[w].before = {}

Landed == Written \cup Settled

Storage ==
  /\ Kept(call, db, Written) /\ Clean(call, db, Written)
  /\ Members(db) \subseteq Landed
  /\ \A c \in Written : call[c].op \in Contributing => Members(call[c].val) \subseteq Landed

LEMMA KeptLater ==
  ASSUME NEW cl, NEW cl2, NEW v, NEW S \in SUBSET Calls, Later(cl, cl2), Kept(cl, v, S),
         \A c \in S : cl[c].pc # "idle" /\ (cl[c].op \in Contributing => cl2[c].val = cl[c].val)
  PROVE  Kept(cl2, v, S)
<1> SUFFICES ASSUME NEW c \in S, cl2[c].op \in Contributing
             PROVE  \/ c \in Members(v) \/ cl2[c].pc = "failed"
                    \/ \E o \in Calls : cl2[o].pc # "idle" /\ Over(cl2, c, o)
  BY DEF Kept
<1>1. cl2[c].op = cl[c].op /\ cl2[c].before = cl[c].before
        /\ (cl[c].pc = "failed" => cl2[c].pc = "failed")
  BY DEF Later
<1>2. cl2[c].val = cl[c].val
  BY <1>1
<1>3. CASE c \in Members(v) \/ cl[c].pc = "failed"
  BY <1>1, <1>3
<1>4. ASSUME NEW o \in Calls, cl[o].pc # "idle", Over(cl, c, o)
      PROVE  cl2[o].pc # "idle" /\ Over(cl2, c, o)
  BY <1>1, <1>2, <1>4 DEF Later, Over
<1>5. QED BY <1>1, <1>3, <1>4 DEF Kept

LEMMA CleanLater ==
  ASSUME NEW cl, NEW cl2, NEW v, NEW S \in SUBSET Calls, Later(cl, cl2), Clean(cl, v, S),
         \A c \in S : cl[c].pc # "idle"
  PROVE  Clean(cl2, v, S)
<1> SUFFICES ASSUME NEW w \in S, cl2[w].op \in Overwriting, cl2[w].pc # "failed"
             PROVE  Members(v) \cap cl2[w].before = {}
  BY DEF Clean
<1>1. cl2[w].op = cl[w].op /\ cl2[w].before = cl[w].before /\ cl[w].pc # "failed"
  BY DEF Later
<1>2. QED BY <1>1 DEF Clean

LEMMA WrittenCalls ==
  ASSUME Ground
  PROVE  /\ Written \subseteq Calls /\ Stored \subseteq Queued /\ Landed \cap (Queued \ Stored) = {}
         /\ \A c \in Written : call[c].pc \in {"done", "queued", "encache", "drop", "invalidate"}
<1>1. Stored \subseteq Queued /\ Queued \subseteq Calls
  BY SlotCallers DEF Stored, Queued
<1>2. QED BY <1>1 DEF Written, Landed, Settled, Done, Queued

(* A step that leaves the storage as it is.                                *)
LEMMA SameStorage ==
  ASSUME Base, Storage, Later(call, call'), db' = db,
         \A c \in Written' : call'[c].op \in Contributing \cup Overwriting => c \in Written,
         \A c \in Written : call[c].op \in Contributing => call'[c].val = call[c].val,
         Landed \subseteq Landed', Written' \subseteq Calls
  PROVE  Storage'
<1>1. Written \subseteq Calls /\ \A c \in Written : call[c].pc # "idle"
  BY WrittenCalls DEF Base
<1>2. Kept(call', db, Written) /\ Clean(call', db, Written)
  BY <1>1, KeptLater, CleanLater DEF Storage
<1>3. Kept(call', db', Written') /\ Clean(call', db', Written')
  BY <1>2 DEF Kept, Clean
<1>4. Members(db') \subseteq Landed'
  BY DEF Storage
<1>5. \A c \in Written' : call'[c].op \in Contributing => Members(call'[c].val) \subseteq Landed'
  BY <1>1 DEF Storage, Later
<1>6. QED BY <1>3, <1>4, <1>5 DEF Storage

(* Call c writes: it adds itself, or it overwrites what is there.          *)
LEMMA WriteStorage ==
  ASSUME Base, Storage, NEW c \in Calls, NEW pc \in Steps, NEW v \in Value,
         FromStorage(c, pc, v), pc # "failed", UNCHANGED <<table, pending, inFlight, stage>>,
         Later(call, call'), Queued' = Queued, \A d \in Calls \ {c} : call'[d] = call[d],
         call'[c].pc = pc, call'[c].val = v, call'[c].op = call[c].op
  PROVE  Storage'
<1>1. call[c].pc = "db" /\ pc \in {"encache", "drop", "invalidate", "done"}
  BY DEF FromStorage, AfterCache
<1>2. Stored' = Stored /\ c \notin Queued /\ c \notin Settled /\ c \notin Landed
  <2>1. Stored' = Stored
    BY DEF Stored, CallersOf
  <2>2. c \notin Queued /\ c \notin Settled
    BY <1>1 DEF Queued, Settled
  <2>3. QED BY <1>1, <2>1, <2>2, WrittenCalls DEF Base, Landed
<1>3. Written' = Written \cup {c}
  <2>1. \A d \in Calls \ {c} : d \in Written' <=> d \in Written
    BY <1>2 DEF Written, Done
  <2>2. c \in Written'
    BY <1>1 DEF Written, Done
  <2>3. Written' \subseteq Calls
    BY <1>2, WrittenCalls DEF Base, Written, Done
  <2>4. QED BY <2>1, <2>2, <2>3, WrittenCalls DEF Base
<1>4. Landed \cup {c} \subseteq Landed'
  BY <1>1, <1>3 DEF Landed, Settled, Later
<1>5. Written \subseteq Calls /\ c \notin Written /\ \A d \in Written : call[d].pc # "idle"
        /\ call'[d] = call[d]
  BY <1>2, WrittenCalls DEF Base, Landed
<1>6. Kept(call', db, Written) /\ Clean(call', db, Written)
  BY <1>5, KeptLater, CleanLater DEF Storage
<1>7. (\A d \in Calls : c \notin call[d].before) /\ c \notin call'[c].before
  BY <1>1, <1>2 DEF Base, Known, Later
<1>8. \A d \in Written : call[d].op \in Contributing => c \notin Members(call[d].val)
  BY <1>2 DEF Storage
<1>9. CASE call[c].op \in {"update", "updateRecord"}
  <2>1. v = Patched(c, db) /\ db' = v /\ call[c].op \notin Overwriting
    BY <1>9 DEF FromStorage, Overwriting
  <2>2. Members(v) = Members(db) \cup {c}
    <3>1. v # Absent
      BY <2>1, Sentinels DEF Patched, Base, Ground, TypeOK, Value, Content
    <3>2. QED BY <2>1, <3>1 DEF Patched, Members
  <2>3. Kept(call', db', Written')
    BY <1>3, <1>6, <2>1, <2>2 DEF Kept
  <2>4. Clean(call', db', Written')
    BY <1>3, <1>5, <1>6, <1>7, <2>1, <2>2 DEF Clean
  <2>5. Members(db') \subseteq Landed' /\ Members(call'[c].val) \subseteq Landed'
    BY <1>4, <2>1, <2>2 DEF Storage
  <2>6. \A d \in Written' : call'[d].op \in Contributing => Members(call'[d].val) \subseteq Landed'
    BY <1>3, <1>4, <1>5, <2>5 DEF Storage
  <2>7. QED BY <2>3, <2>4, <2>5, <2>6 DEF Storage
<1>10. CASE call[c].op \in Overwriting
  <2>1. Members(db') \subseteq {c}
          /\ (call[c].op \in Contributing => c \in Members(db') /\ Members(call'[c].val) \subseteq {c})
    <3>1. Members(Absent) = {}
      BY DEF Members
    <3>2. Members({c}) = {c}
      BY Sentinels DEF Members, Content
    <3>3. CASE call[c].op \in {"set", "setMany"}
      BY <3>2, <3>3 DEF FromStorage, Base, Doing
    <3>4. CASE call[c].op \in {"delete", "deleteMany", "clear"}
      BY <3>1, <3>4 DEF FromStorage, Contributing
    <3>5. QED BY <1>10, <3>3, <3>4 DEF Overwriting
  <2>2. \A d \in Written : call[d].op \in Contributing => Over(call', d, c)
    BY <1>5, <1>7, <1>8, <1>10 DEF Over
  <2>3. Kept(call', db', Written')
    BY <1>1, <1>3, <1>5, <2>1, <2>2 DEF Kept
  <2>4. Clean(call', db', Written')
    BY <1>3, <1>5, <1>7, <2>1 DEF Clean
  <2>5. Members(db') \subseteq Landed' /\ \A d \in Written' : call'[d].op \in Contributing =>
          Members(call'[d].val) \subseteq Landed'
    BY <1>3, <1>4, <1>5, <2>1 DEF Storage
  <2>6. QED BY <2>3, <2>4, <2>5 DEF Storage
<1>11. QED BY <1>9, <1>10 DEF FromStorage, Overwriting

(* The handler stores what the batch has for the key.                      *)
LEMMA HandlerStorage ==
  ASSUME Base, Slots, Storage, HandlerStores
  PROVE  Storage'
<1>1. /\ stage = "db" /\ db' = inFlight.val /\ stage' \in {"cache", "end"}
      /\ UNCHANGED <<pending, inFlight, call>>
      /\ inFlight # Nothing /\ inFlight.callers = CallersOf(inFlight)
           /\ inFlight.callers \subseteq Queued
      /\ Queued \subseteq Calls
  BY SlotCallers DEF HandlerStores, Base, Ground, TypeOK, Queued
<1>2. Stored = {} /\ Stored' = inFlight.callers
  BY <1>1 DEF Stored, CallersOf
<1>3. Written' = Written \cup inFlight.callers /\ Landed' = Landed \cup inFlight.callers
  BY <1>1, <1>2 DEF Written, Landed, Done, Settled
<1>4. Landed \cap Queued = {}
  BY <1>2, WrittenCalls DEF Base
<1>5. PICK a \in inFlight.callers :
        /\ call[a].op \in Overwriting
        /\ \A c \in inFlight.callers : call[c].op \in Contributing =>
             c \in Members(inFlight.val) \/ Over(call, c, a)
  BY <1>1 DEF Slots, Authored
<1>6. /\ Members(inFlight.val) \subseteq inFlight.callers
      /\ \A c \in inFlight.callers : Members(call[c].val) \subseteq inFlight.callers
      /\ \A w \in inFlight.callers : call[w].op \in Overwriting =>
           Members(inFlight.val) \cap call[w].before = {}
  BY <1>1 DEF Slots, Authored
<1>7. ASSUME NEW c \in Written, call[c].op \in Contributing \cup Overwriting
      PROVE  call[c].before \cap Queued = {}
  <2>1. call[c].pc \in {"done", "encache", "drop", "invalidate"} /\ c \in Calls
    BY <1>2, WrittenCalls DEF Base, Written, Done
  <2>2. call[c].op \notin {"get", "exists"}
    BY <1>7 DEF Contributing, Overwriting
  <2>3. QED BY <2>1, <2>2 DEF Base, Known, Passed
<1>8. ASSUME NEW c \in Written, call[c].op \in Contributing
      PROVE  Over(call, c, a)
  <2>1. a \in Queued /\ a \notin Landed /\ c \in Landed
    BY <1>1, <1>4 DEF Landed
  <2>2. QED BY <1>5, <1>7, <1>8, <2>1 DEF Over, Storage
<1>9. a \in Calls /\ call[a].pc # "idle"
  BY <1>1 DEF Queued
<1>10. Kept(call, inFlight.val, Written')
  BY <1>3, <1>5, <1>8, <1>9 DEF Kept
<1>11. Clean(call, inFlight.val, Written')
  BY <1>1, <1>3, <1>6, <1>7 DEF Clean
<1>12. Members(inFlight.val) \subseteq Landed'
       /\ \A c \in Written' : call[c].op \in Contributing => Members(call[c].val) \subseteq Landed'
  BY <1>3, <1>6 DEF Storage
<1>13. QED BY <1>1, <1>10, <1>11, <1>12 DEF Storage

LEMMA StorageStep ==
  ASSUME Base, Unheld, Slots, Storage, [Next]_vars
  PROVE  Storage'
<1>0. Base' /\ Lasting
  BY BaseStep
<1>1. Later(call, call') /\ Written' \subseteq Calls
  BY <1>0, WrittenCalls DEF Lasting, Written, Done, Stored, Base, CallersOf, Ground, TypeOK, Slot
<1>2. CASE UNCHANGED vars
  BY <1>2 DEF vars, Storage, Kept, Clean, Over, Written, Landed, Done, Stored, Settled, CallersOf
<1>3. ASSUME NEW c \in Calls, NEW op \in Writes \cup Bulk \cup Reads, NEW pc \in Steps, NEW v \in Value,
             Starts(c, op, pc, v)
      PROVE  Storage'
  <2>1. /\ call[c].pc = "idle" /\ \A d \in Calls \ {c} : call'[d] = call[d]
        /\ call'[c] = [op |-> op, pc |-> pc, val |-> v, before |-> Done \cup Queued,
                        awaits |-> IF pc = "flush" THEN Queued ELSE {}]
    BY <1>3, StartsFacts DEF Base
  <2>2. Stored' = Stored /\ db' = db /\ c \notin Stored /\ c \notin Written /\ c \notin Landed
    <3>1. Stored' = Stored /\ db' = db
      BY <1>3 DEF Starts, Stored, CallersOf
    <3>2. c \notin Written /\ c \notin Landed
      BY <2>1, WrittenCalls DEF Base, Landed, Settled
    <3>3. QED BY <3>1, <3>2 DEF Written
  <2>3. call'[c].pc = pc /\ call'[c].op = op /\ (pc = "done" => op \in Reads)
        /\ pc \notin {"encache", "drop", "invalidate"}
    BY <1>3, <2>1 DEF Starts
  <2>4. Reads \cap (Contributing \cup Overwriting) = {}
    BY DEF Reads, Contributing, Overwriting
  <2>5. \A d \in Written' : call'[d].op \in Contributing \cup Overwriting => d \in Written
    BY <1>1, <2>1, <2>2, <2>3, <2>4 DEF Written, Done
  <2>6. Written \subseteq Written' /\ Settled \subseteq Settled'
    BY <2>1, <2>2 DEF Written, Done, Settled
  <2>7. \A d \in Written : call'[d].val = call[d].val
    BY <2>1, <2>2, WrittenCalls DEF Base
  <2>8. QED BY <1>1, <2>2, <2>5, <2>6, <2>7, SameStorage DEF Landed
<1>4. ASSUME NEW c \in Calls, NEW op \in Writes, NEW v \in Value, Enters(c, op, v)
      PROVE  Storage'
  <2>1. /\ call[c].pc \in {"idle", "held"} /\ \A d \in Calls \ {c} : call'[d] = call[d]
        /\ call'[c].pc = "queued"
    BY <1>4, EntersFacts DEF Base
  <2>2. Stored' = Stored /\ db' = db /\ c \notin Written /\ c \notin Landed
    <3>1. Stored' = Stored /\ db' = db
      BY <1>4 DEF Enters, Stored, CallersOf
    <3>2. c \notin Written /\ c \notin Landed
      BY <2>1, WrittenCalls DEF Base, Landed, Settled
    <3>3. QED BY <3>1, <3>2
  <2>3. Written' = Written /\ Settled \subseteq Settled'
    BY <2>1, <2>2, WrittenCalls DEF Base, Written, Done, Settled
  <2>4. \A d \in Written : call'[d].val = call[d].val
    BY <2>1, <2>2, WrittenCalls DEF Base
  <2>5. QED BY <1>1, <2>2, <2>3, <2>4, SameStorage DEF Landed
<1>5. ASSUME NEW c \in Calls, Proceeds(c)
      PROVE  Storage'
  <2>1. PICK pc \in Steps \ {"idle", "queued", "held", "uncache", "flush", "cache"}, v \in Value :
          /\ Route(c, pc, v)
          /\ UNCHANGED <<table, pending, inFlight, stage>>
          /\ Queued' = Queued
          /\ \A d \in Calls \ {c} : call'[d] = call[d]
          /\ call'[c].pc = pc /\ call'[c].val = v /\ call'[c].op = call[c].op
    BY <1>5, ProceedsFacts DEF Base
  <2>2. CASE FromStorage(c, pc, v) /\ pc # "failed"
    BY <1>1, <2>1, <2>2, WriteStorage
  <2>3. CASE ~(FromStorage(c, pc, v) /\ pc # "failed")
    <3>1. db' = db
      BY <2>1, <2>3 DEF Route, FromFlush, FromStorage, FromCache, FromQuery, AfterCache
    <3>2. Stored' = Stored /\ c \notin Stored /\ Written \subseteq Calls
      <4>1. Stored' = Stored
        BY <2>1 DEF Stored, CallersOf
      <4>2. call[c].pc # "queued"
        BY <2>1 DEF Route, FromFlush, FromStorage, FromCache, FromQuery
      <4>3. QED BY <4>1, <4>2, WrittenCalls DEF Base, Queued
    <3>3. c \in Written' /\ call[c].op \in Contributing \cup Overwriting => c \in Written
      <4>1. call[c].op \in Contributing \cup Overwriting => call[c].op \notin Reads
        BY DEF Contributing, Overwriting, Reads
      <4>2. call[c].pc \in {"cache", "read", "fill", "qcache", "query", "qfill"} => call[c].op \in Reads
        BY DEF Base, Doing
      <4>3. c \in Written' => call[c].pc \in {"encache", "drop", "invalidate", "cache", "read",
                                              "fill", "qcache", "query", "qfill"}
        BY <2>1, <2>3, <3>2 DEF Written, Done, Route, FromFlush, FromStorage, FromCache, FromQuery,
           AfterCache
      <4>4. QED BY <4>1, <4>2, <4>3 DEF Written
    <3>4. \A d \in Written' : call'[d].op \in Contributing \cup Overwriting => d \in Written
      <4>1. \A d \in Calls \ {c} : d \in Written' <=> d \in Written
        BY <2>1, <3>2 DEF Written, Done
      <4>2. QED BY <1>1, <2>1, <3>3, <4>1
    <3>5. \A d \in Written : call[d].op \in Contributing => call'[d].val = call[d].val
      <4>1. c \in Written /\ call[c].op \in Contributing => v = call[c].val
        <5>1. c \in Written => call[c].pc \in {"done", "encache", "drop", "invalidate"}
          BY <3>2 DEF Written, Done
        <5>2. call[c].op \in Contributing => call[c].pc # "drop"
          BY DEF Base, Doing, Contributing
        <5>3. QED BY <2>1, <5>1, <5>2 DEF Route, FromFlush, FromStorage, FromCache, FromQuery
      <4>2. QED BY <2>1, <3>2, <4>1
    <3>6. Landed \subseteq Landed'
      <4>1. c \in Landed => c \in Landed'
        <5>1. c \in Landed => call[c].pc \in {"done", "failed", "encache", "drop", "invalidate"}
          BY <3>2 DEF Landed, Written, Done, Settled
        <5>2. call[c].pc \in {"done", "failed", "encache", "drop", "invalidate"} =>
                pc \in {"done", "invalidate"}
          BY <2>1 DEF Route, FromFlush, FromStorage, FromCache, FromQuery, AfterCache
        <5>3. QED BY <2>1, <5>1, <5>2 DEF Landed, Written, Done
      <4>2. \A d \in Calls \ {c} : d \in Landed => d \in Landed'
        BY <2>1, <3>2 DEF Landed, Written, Done, Settled
      <4>3. Landed \subseteq Calls
        BY <3>2 DEF Landed, Settled
      <4>4. QED BY <4>1, <4>2, <4>3
    <3>7. QED BY <1>1, <3>1, <3>4, <3>5, <3>6, SameStorage
  <2>4. QED BY <2>2, <2>3
<1>6. CASE HandlerStores
  BY <1>6, HandlerStorage
<1>7. CASE StartBatch \/ HandlerCaches \/ HandlerInvalidates
  <2>1. call' = call /\ db' = db /\ Stored' = Stored
    BY <1>7 DEF StartBatch, HandlerCaches, HandlerInvalidates, Stored, CallersOf
  <2>2. Written' = Written /\ Landed' = Landed
    BY <2>1 DEF Written, Landed, Done, Settled
  <2>3. QED BY <2>1, <2>2 DEF Storage
<1>8. CASE HandlerEnds \/ HandlerFails
  <2>1. /\ inFlight # Nothing /\ db' = db /\ stage' = "none"
        /\ \A c \in Calls : call'[c].val = call[c].val
        /\ HandlerEnds => \A c \in Calls : /\ c \in inFlight.callers => call'[c].pc = "done"
                                           /\ c \notin inFlight.callers => call'[c] = call[c]
        /\ ~HandlerEnds => \A c \in Calls : \/ call'[c].pc = "failed"
                                            \/ c \notin inFlight.callers /\ call'[c] = call[c]
    BY <1>8, EndFacts DEF Base
  <2>2. CallersOf(inFlight) = inFlight.callers /\ inFlight.callers \subseteq Calls
        /\ \A c \in inFlight.callers : call[c].pc = "queued"
    BY <2>1, SlotCallers DEF Base, CallersOf
  <2>3. Stored' = {} /\ (HandlerEnds => Stored = inFlight.callers)
    BY <2>1, <2>2 DEF Stored, HandlerEnds
  <2>4. \A c \in Written' : c \in Written
    BY <1>1, <2>1, <2>2, <2>3 DEF Written, Done
  <2>5. Landed \subseteq Landed'
    <3>1. Stored \subseteq inFlight.callers
      BY <2>2 DEF Stored
    <3>2. \A c \in inFlight.callers : c \in Landed'
      BY <2>1, <2>2 DEF Landed, Settled
    <3>3. \A c \in Calls \ inFlight.callers : c \in Landed => c \in Landed'
      BY <2>1, <2>3, <3>1 DEF Landed, Settled, Written, Done
    <3>4. Landed \subseteq Calls
      BY WrittenCalls DEF Base, Landed, Settled
    <3>5. QED BY <3>2, <3>3, <3>4
  <2>6. QED BY <1>1, <2>1, <2>4, <2>5, WrittenCalls, SameStorage DEF Base
<1>9. QED BY <1>2, <1>3, <1>4, <1>5, <1>6, <1>7, <1>8, StepKinds DEF Base, Handler

(* What the properties say of a value, in these terms.                     *)
LEMMA KeptIsKeepsWrites ==
  ASSUME NEW v, NEW S \in SUBSET Calls
  PROVE  /\ Kept(call, v, S) <=> KeepsWrites(v, S)
         /\ Clean(call, v, S) <=> \A w \in S : Overwrites(w) /\ call[w].pc # "failed" =>
                                      Members(v) \cap call[w].before = {}
<1>1. \A c \in S : /\ Contributes(c) <=> call[c].op \in Contributing
                   /\ Overwrites(c) <=> call[c].op \in Overwriting
  BY DEF Contributes, Contributing, Overwrites, Overwriting
<1>2. \A c \in S : Excused(c) <=> \/ call[c].pc = "failed"
                                  \/ \E o \in Calls : call[o].pc # "idle" /\ Over(call, c, o)
  BY DEF Excused, Over, Overwrites, Overwriting
<1>3. QED BY <1>1, <1>2 DEF Kept, Clean, KeepsWrites

-----------------------------------------------------------------------------
(* A caller that awaits each call before the next has one in progress.     *)
Solo == table.atOnce = 1 => \A c, d \in InProgress : c = d

LEMMA NoneElse ==
  ASSUME Solo, table.atOnce = 1, NEW c, NEW op, NEW pc, NEW v, Begin(c, op, pc, v)
  PROVE  InProgress = {}
<1> SUFFICES ASSUME NEW x \in InProgress PROVE FALSE
  OBVIOUS
<1>1. InProgress = {x}
  BY DEF Solo
<1>2. Cardinality(InProgress) = 1
  BY <1>1, FS_Singleton
<1>3. QED BY <1>2 DEF Begin

LEMMA Lonely ==
  ASSUME Base, Solo, table.atOnce = 1, NEW c \in InProgress, call[c].pc # "queued"
  PROVE  /\ stage = "none"
         /\ \A d \in Calls \ {c} : call[d].pc \in {"idle", "done", "failed"}
<1>1. \A d \in Calls \ {c} : d \notin InProgress
  BY DEF Solo
<1>2. Queued = {}
  BY <1>1 DEF Queued, InProgress
<1>3. inFlight = Nothing
  BY <1>2 DEF Base, Ground, Accounted, CallersOf
<1>4. QED BY <1>1, <1>3 DEF InProgress, Base, Ground, TypeOK

LEMMA BatchAlone ==
  ASSUME Base, Solo, table.atOnce = 1, inFlight # Nothing
  PROVE  /\ pending = Nothing
         /\ \A d \in Calls : call[d].pc \in {"idle", "queued", "done", "failed"}
<1>1. PICK x \in CallersOf(inFlight) : TRUE
  BY DEF Base, Ground, Accounted, CallersOf
<1>2. x \in Queued /\ x \in InProgress /\ Queued \subseteq InProgress /\ call[x].pc = "queued"
  BY SlotCallers DEF Base, Queued, InProgress
<1>3. CallersOf(pending) = {}
  BY <1>1, <1>2, SlotCallers DEF Base, Solo
<1>4. pending = Nothing
  BY <1>3 DEF Base, Ground, Accounted, CallersOf
<1>5. \A d \in InProgress : call[d].pc = "queued"
  BY <1>2 DEF Solo
<1>6. QED BY <1>4, <1>5 DEF InProgress

LEMMA SoloStep ==
  ASSUME Base, Solo, [Next]_vars
  PROVE  Solo'
<1>1. table' = table
  BY BaseStep DEF Lasting
<1> SUFFICES ASSUME table.atOnce = 1 PROVE \A c, d \in InProgress' : c = d
  BY <1>1 DEF Solo
<1>2. ASSUME NEW c, NEW op, NEW pc, NEW v, Begin(c, op, pc, v)
      PROVE  \A d, e \in InProgress' : d = e
  <2>1. InProgress = {} /\ \A d \in Calls \ {c} : call'[d] = call[d]
    BY <1>2, NoneElse DEF Begin, Base, Ground, TypeOK
  <2>2. InProgress' \subseteq {c}
    BY <2>1 DEF InProgress
  <2>3. QED BY <2>2
<1>3. CASE InProgress' \subseteq InProgress
  BY <1>3 DEF Solo
<1>4. CASE UNCHANGED vars
  BY <1>3, <1>4 DEF vars, InProgress
<1>5. ASSUME NEW c \in Calls, NEW op \in Writes, NEW v \in Value, Enters(c, op, v)
      PROVE  \A d, e \in InProgress' : d = e
  <2>1. CASE Begin(c, op, "queued", v)
    BY <1>2, <2>1
  <2>2. CASE call[c].pc = "held"
    <3>1. \A d \in Calls \ {c} : call'[d] = call[d]
      BY <1>5, EntersFacts DEF Base
    <3>2. InProgress' \subseteq InProgress
      BY <2>2, <3>1 DEF InProgress
    <3>3. QED BY <1>3, <3>2
  <2>3. QED BY <1>5, <2>1, <2>2 DEF Enters
<1>6. ASSUME NEW c \in Calls, Proceeds(c)
      PROVE  InProgress' \subseteq InProgress
  <2>1. PICK pc \in Steps, v \in Value : Route(c, pc, v) /\ \A d \in Calls \ {c} : call'[d] = call[d]
    BY <1>6, ProceedsFacts DEF Base
  <2>2. call[c].pc \notin {"idle", "done", "failed"}
    BY <2>1 DEF Route, FromFlush, FromStorage, FromCache, FromQuery
  <2>3. QED BY <2>1, <2>2 DEF InProgress
<1>7. CASE HandlerEnds \/ HandlerFails
  <2>1. \A c \in Calls : call'[c].pc \in {"done", "failed"} \/ call'[c] = call[c]
    BY <1>7, EndFacts DEF Base
  <2>2. InProgress' \subseteq InProgress
    BY <2>1 DEF InProgress
  <2>3. QED BY <1>3, <2>2
<1>8. CASE StartBatch \/ HandlerStores \/ HandlerCaches \/ HandlerInvalidates
  BY <1>3, <1>8 DEF StartBatch, HandlerStores, HandlerCaches, HandlerInvalidates, InProgress
<1>9. ASSUME NEW c \in Calls, NEW op \in Writes \cup Bulk \cup Reads, NEW pc \in Steps, NEW v \in Value,
             Starts(c, op, pc, v)
      PROVE  \A d, e \in InProgress' : d = e
  BY <1>2, <1>9 DEF Starts
<1>10. QED BY <1>3, <1>4, <1>5, <1>6, <1>7, <1>8, <1>9, StepKinds DEF Base, Handler

-----------------------------------------------------------------------------
(* Where a caller awaits each call, no batch fails and the table is never  *)
(* cleared, what the caches hold is what is stored: but for the steps of a *)
(* write between the storage and the cache.                                *)
Serial == table.atOnce = 1 /\ "batch" \notin table.failing /\ "clear" \notin table.operations

CallCurrent(c) ==
  /\ call[c].pc \in {"encache", "fill", "qfill"} => call[c].val = db
  /\ call[c].pc = "drop" => /\ db = Absent
                            /\ table.queryCache /\ call[c].val = Absent => qcache \in {Nothing, db}
  /\ call[c].pc = "db" /\ call[c].op = "delete" => cache = Nothing

BatchCurrent == stage \in {"cache", "invalidate", "end"} => inFlight.val = db

CacheCurrent ==
  stage # "cache" /\ (\A c \in Calls : call[c].pc \notin {"encache", "drop"}) => cache \in {Nothing, db}

QueryCurrent ==
  /\ table.queryCache /\ stage \in {"none", "db", "end"}
  /\ \A c \in Calls : call[c].pc \notin {"encache", "drop", "invalidate"}
  => qcache \in {Nothing, db}

CachesCurrent == (\A c \in Calls : CallCurrent(c)) /\ BatchCurrent /\ CacheCurrent /\ QueryCurrent
Current       == Serial /\ table.cache => CachesCurrent

(* A call that begins or is buffered.                                      *)
LEMMA NewCurrent ==
  ASSUME CachesCurrent, UNCHANGED <<table, db, cache, qcache, inFlight, stage>>,
         NEW c \in Calls, \A d \in Calls \ {c} : call'[d] = call[d],
         call[c].pc \notin {"encache", "drop", "invalidate"},
         call'[c].pc \notin {"encache", "drop", "invalidate", "fill", "qfill"},
         ~(call'[c].pc = "db" /\ call'[c].op = "delete")
  PROVE  CachesCurrent'
<1>1. \A d \in Calls : CallCurrent(d)'
  BY DEF CachesCurrent, CallCurrent
<1>2. BatchCurrent'
  BY DEF CachesCurrent, BatchCurrent
<1>3. CacheCurrent'
  BY DEF CachesCurrent, CacheCurrent
<1>4. QueryCurrent'
  BY DEF CachesCurrent, QueryCurrent
<1>5. QED BY <1>1, <1>2, <1>3, <1>4 DEF CachesCurrent

(* A call that goes on, alone.                                             *)
LEMMA RouteCurrent ==
  ASSUME Base, Solo, Serial, table.cache, CachesCurrent,
         NEW c \in Calls, NEW pc \in Steps, NEW v \in Value, Route(c, pc, v),
         UNCHANGED <<table, pending, inFlight, stage>>,
         \A d \in Calls \ {c} : call'[d] = call[d],
         call'[c].pc = pc, call'[c].val = v, call'[c].op = call[c].op
  PROVE  /\ CachesCurrent'
         /\ pc = "done" /\ call[c].op \in Reads => v = db /\ db' = db
<1>1. call[c].pc \notin {"idle", "queued", "held", "done", "failed"}
  BY DEF Route, FromFlush, FromStorage, FromCache, FromQuery
<1>2. stage = "none" /\ stage' = "none"
        /\ \A d \in Calls \ {c} : call[d].pc \in {"idle", "done", "failed"}
  BY <1>1, Lonely DEF InProgress, Serial
<1>3. /\ call[c].pc \notin {"encache", "drop"} => cache \in {Nothing, db}
      /\ table.queryCache /\ call[c].pc \notin {"encache", "drop", "invalidate"} =>
           qcache \in {Nothing, db}
      /\ CallCurrent(c)
  BY <1>2 DEF CachesCurrent, CacheCurrent, QueryCurrent
<1>4. BatchCurrent'
  BY <1>2 DEF BatchCurrent
<1>5. /\ Doing(c)
      /\ Reads \cap (Writes \cup Bulk) = {} /\ {"set", "delete", "update"} \subseteq Writes
      /\ {"setMany", "deleteMany", "updateRecord", "clear"} \subseteq Bulk
      /\ call[c].op # "clear" /\ "none" \notin Writes \cup Bulk \cup Reads
  BY DEF Base, Reads, Writes, Bulk, Serial, Doing
<1> DEFINE CallOk  == CallCurrent(c)'
           CacheOk == pc \notin {"encache", "drop"} => cache' \in {Nothing, db'}
           QueryOk == table.queryCache /\ pc \notin {"encache", "drop", "invalidate"} =>
             qcache' \in {Nothing, db'}
           ReadOk  == pc = "done" /\ call[c].op \in Reads => v = db /\ db' = db
<1>6. SUFFICES CallOk /\ CacheOk /\ QueryOk /\ ReadOk
  <2>1. ASSUME CallOk PROVE \A d \in Calls : CallCurrent(d)'
    BY <1>2, <2>1 DEF CallCurrent
  <2>2. ASSUME CacheOk PROVE CacheCurrent'
    BY <1>2, <2>2 DEF CacheCurrent
  <2>3. ASSUME QueryOk PROVE QueryCurrent'
    BY <1>2, <2>3 DEF QueryCurrent
  <2>4. QED BY <1>4, <2>1, <2>2, <2>3 DEF CachesCurrent
<1>7. CASE FromFlush(c, pc, v)
  <2>1. UNCHANGED <<db, cache, qcache>> /\ call[c].pc = "flush" /\ call[c].op # "delete"
        /\ pc \in {"db", "read", "qcache", "query"}
    BY <1>5, <1>7 DEF FromFlush, Doing, Bulk
  <2>2. QED BY <1>3, <2>1 DEF CallCurrent
<1>8. CASE FromStorage(c, pc, v)
  <2>1. call[c].pc = "db" /\ cache' = cache /\ qcache' = qcache
        /\ call[c].op \in Writes \cup Bulk /\ cache \in {Nothing, db}
        /\ (table.queryCache => qcache \in {Nothing, db})
        /\ (call[c].op = "delete" => cache = Nothing)
    BY <1>3, <1>5, <1>8 DEF FromStorage, Doing, CallCurrent
  <2>2. CASE pc = "encache" /\ v = db'
    BY <1>5, <2>1, <2>2 DEF CallCurrent
  <2>3. CASE call[c].op = "delete" /\ db' = Absent /\ pc = (IF db # Absent THEN AfterCache ELSE "done")
    BY <1>5, <2>1, <2>3 DEF CallCurrent, AfterCache
  <2>4. CASE pc = "drop" /\ v = db /\ db' = Absent
    BY <1>5, <2>1, <2>4 DEF CallCurrent
  <2>5. CASE pc = "failed" /\ db' = db
    BY <1>5, <2>1, <2>5 DEF CallCurrent
  <2>6. QED BY <1>5, <1>8, <2>2, <2>3, <2>4, <2>5 DEF FromStorage
<1>9. CASE FromCache(c, pc, v)
  <2>1. db' = db /\ qcache' = qcache
    BY <1>9 DEF FromCache
  <2>2. CASE call[c].pc = "encache"
    BY <1>3, <1>5, <1>9, <2>1, <2>2 DEF FromCache, CallCurrent, AfterCache, Doing, Contributing
  <2>3. CASE call[c].pc = "uncache"
    BY <1>3, <1>5, <1>9, <2>1, <2>3 DEF FromCache, CallCurrent
  <2>4. CASE call[c].pc = "drop"
    BY <1>3, <1>5, <1>9, <2>1, <2>4 DEF FromCache, CallCurrent, AfterCache, Doing
  <2>5. CASE call[c].pc \in {"cache", "read", "fill"}
    BY <1>3, <1>5, <1>9, <2>1, <2>5 DEF FromCache, CallCurrent
  <2>6. QED BY <1>9, <2>2, <2>3, <2>4, <2>5 DEF FromCache
<1>10. CASE FromQuery(c, pc, v)
  <2>1. db' = db /\ cache' = cache
    BY <1>10 DEF FromQuery
  <2>2. CASE call[c].pc = "invalidate"
    BY <1>3, <1>5, <1>10, <2>1, <2>2 DEF FromQuery, CallCurrent, Doing
  <2>3. CASE call[c].pc \in {"qcache", "query", "qfill"}
    BY <1>3, <1>5, <1>10, <2>1, <2>3 DEF FromQuery, CallCurrent, Doing
  <2>4. QED BY <1>10, <2>2, <2>3 DEF FromQuery
<1>11. QED BY <1>7, <1>8, <1>9, <1>10 DEF Route

(* The flush handler: the only call in progress waits for it.              *)
LEMMA HandlerCurrent ==
  ASSUME Base, Solo, Serial, table.cache, CachesCurrent, Handler
  PROVE  CachesCurrent'
<1>1. CASE StartBatch
  <2>1. stage = "none" /\ stage' = "db" /\ UNCHANGED <<table, db, cache, qcache, call>>
    BY <1>1 DEF StartBatch
  <2>2. QED BY <2>1 DEF CachesCurrent, CallCurrent, BatchCurrent, CacheCurrent, QueryCurrent
<1>2. CASE ~StartBatch
  <2>1. inFlight # Nothing /\ stage # "none"
    BY <1>2 DEF Handler, HandlerStores, HandlerCaches, HandlerInvalidates, HandlerEnds, HandlerFails,
                Base, Ground, TypeOK
  <2>2. pending = Nothing /\ \A d \in Calls : call[d].pc \in {"idle", "queued", "done", "failed"}
    BY <2>1, BatchAlone DEF Serial
  <2>3. ~HandlerFails
    BY DEF Serial, HandlerFails
  <2>4. /\ stage # "cache" => cache \in {Nothing, db}
        /\ table.queryCache /\ stage \in {"db", "end"} => qcache \in {Nothing, db}
        /\ stage \in {"cache", "invalidate", "end"} => inFlight.val = db
    BY <2>2 DEF CachesCurrent, BatchCurrent, CacheCurrent, QueryCurrent
  <2>5. \A d \in Calls : call'[d].pc \in {"idle", "queued", "done", "failed"}
    <3>1. CASE HandlerEnds
      <4>1. \A d \in Calls : call'[d].pc = "done" \/ call'[d] = call[d]
        BY <3>1, EndFacts DEF Base
      <4>2. QED BY <2>2, <4>1
    <3>2. CASE ~HandlerEnds
      BY <1>2, <2>2, <2>3, <3>2 DEF Handler, HandlerStores, HandlerCaches, HandlerInvalidates
    <3>3. QED BY <3>1, <3>2
  <2>6. \A d \in Calls : CallCurrent(d)'
    BY <2>5 DEF CallCurrent
  <2> SUFFICES /\ stage' # "cache" => cache' \in {Nothing, db'}
               /\ table'.queryCache /\ stage' \in {"none", "db", "end"} => qcache' \in {Nothing, db'}
               /\ stage' \in {"cache", "invalidate", "end"} => inFlight'.val = db'
    BY <2>6 DEF CachesCurrent, BatchCurrent, CacheCurrent, QueryCurrent
  <2>7. CASE HandlerStores
    BY <2>7 DEF HandlerStores
  <2>8. CASE HandlerCaches
    BY <2>2, <2>4, <2>8 DEF HandlerCaches
  <2>9. CASE HandlerInvalidates
    BY <2>4, <2>9 DEF HandlerInvalidates
  <2>10. CASE HandlerEnds
    BY <2>4, <2>10 DEF HandlerEnds
  <2>11. QED BY <1>2, <2>3, <2>7, <2>8, <2>9, <2>10 DEF Handler
<1>3. QED BY <1>1, <1>2

LEMMA CurrentStep ==
  ASSUME Base, Solo, Current, [Next]_vars
  PROVE  Current'
<1>1. table' = table
  BY BaseStep DEF Lasting
<1> SUFFICES ASSUME Serial, table.cache PROVE CachesCurrent'
  BY <1>1 DEF Current, Serial
<1>2. CachesCurrent
  BY DEF Current
<1>3. CASE UNCHANGED vars
  BY <1>2, <1>3 DEF vars, CachesCurrent, CallCurrent, BatchCurrent, CacheCurrent, QueryCurrent
<1>4. ASSUME NEW c \in Calls, NEW op \in Writes \cup Bulk \cup Reads, NEW pc \in Steps, NEW v \in Value,
             Starts(c, op, pc, v)
      PROVE  CachesCurrent'
  <2>1. /\ call[c].pc = "idle" /\ \A d \in Calls \ {c} : call'[d] = call[d]
        /\ call'[c].pc = pc /\ call'[c].op = op
    <3>1. call'[c] = [op |-> op, pc |-> pc, val |-> v, before |-> Done \cup Queued,
                      awaits |-> IF pc = "flush" THEN Queued ELSE {}]
      BY <1>4, StartsFacts DEF Base
    <3>2. QED BY <1>4, <3>1, StartsFacts DEF Base
  <2>2. UNCHANGED <<table, db, cache, qcache, inFlight, stage>> /\ (pc = "db" => op # "delete")
        /\ pc \notin {"encache", "drop", "invalidate", "fill", "qfill"}
    BY <1>4 DEF Starts
  <2>3. QED BY <1>2, <2>1, <2>2, NewCurrent
<1>5. ASSUME NEW c \in Calls, NEW op \in Writes, NEW v \in Value, Enters(c, op, v)
      PROVE  CachesCurrent'
  <2>1. /\ call[c].pc \in {"idle", "held"} /\ \A d \in Calls \ {c} : call'[d] = call[d]
        /\ call'[c].pc = "queued"
    BY <1>5, EntersFacts DEF Base
  <2>2. UNCHANGED <<table, db, cache, qcache, inFlight, stage>>
    BY <1>5 DEF Enters
  <2>3. QED BY <1>2, <2>1, <2>2, NewCurrent
<1>6. ASSUME NEW c \in Calls, Proceeds(c)
      PROVE  CachesCurrent'
  <2>1. PICK pc \in Steps, v \in Value :
          /\ Route(c, pc, v)
          /\ UNCHANGED <<table, pending, inFlight, stage>>
          /\ \A d \in Calls \ {c} : call'[d] = call[d]
          /\ call'[c].pc = pc /\ call'[c].val = v /\ call'[c].op = call[c].op
    BY <1>6, ProceedsFacts DEF Base
  <2>2. QED BY <1>2, <2>1, RouteCurrent
<1>7. CASE Handler
  BY <1>2, <1>7, HandlerCurrent
<1>8. QED BY <1>3, <1>4, <1>5, <1>6, <1>7, StepKinds DEF Base

-----------------------------------------------------------------------------
(* A table whose reads go by the storage: without caches, or with caches   *)
(* that are as it is.  One whose reads never meet an update made while the *)
(* batch they look into is being written.                                  *)
Faithful == ~table.cache \/ Serial
Apart    == table.autoBatch => \/ table.operations \cap {"update", "updateRecord"} = {}
                               \/ table.operations \cap {"get", "exists"} = {}

(* What a read returned has what it should have.                           *)
ReadWell(r) ==
  /\ Faithful => Clean(call, call[r].val, call[r].before)
  /\ Faithful /\ (Apart \/ table.atOnce = 1) => Kept(call, call[r].val, call[r].before)

ReadsWell == \A r \in Calls : call[r].op \in Reads /\ call[r].pc = "done" => ReadWell(r)

(* What is known to a read, or to a write that is in the storage.          *)
LEMMA PassedBy ==
  ASSUME Base, NEW c \in Done, call[c].op \in Contributing \cup Overwriting
  PROVE  call[c].before \cap Queued = {}
<1>1. call[c].op \notin {"get", "exists"} /\ c \in Calls /\ call[c].pc = "done"
  BY DEF Contributing, Overwriting, Done
<1>2. QED BY <1>1 DEF Base, Known, Passed

(* A read of the buffer.                                                   *)
LEMMA PendingRead ==
  ASSUME Base, Slots, Storage, pending # Nothing
  PROVE  Kept(call, pending.val, Done \cup Queued) /\ Clean(call, pending.val, Done \cup Queued)
<1>1. /\ pending.callers = CallersOf(pending) /\ pending.callers \subseteq Queued
      /\ Queued = CallersOf(pending) \cup CallersOf(inFlight)
      /\ CallersOf(pending) \cap CallersOf(inFlight) = {}
      /\ Landed \cap (Queued \ Stored) = {} /\ Stored \subseteq CallersOf(inFlight)
      /\ Queued \cap Settled = {}
  BY SlotCallers, WrittenCalls DEF Base, Stored
<1>2. PICK a \in pending.callers :
        /\ call[a].op \in Overwriting
        /\ \A c \in pending.callers : call[c].op \in Contributing =>
             c \in Members(pending.val) \/ Over(call, c, a)
  BY DEF Slots, Authored
<1>3. /\ Members(pending.val) \subseteq pending.callers
      /\ \A w \in pending.callers : call[w].op \in Overwriting =>
           Members(pending.val) \cap call[w].before = {}
  BY DEF Slots, Authored
<1>4. a \in Calls /\ call[a].pc # "idle"
  BY <1>1 DEF Queued
<1>5. ASSUME NEW c \in Done, call[c].op \in Contributing PROVE Over(call, c, a)
  <2>1. c \in Written /\ c \in Settled
    BY DEF Written, Done, Settled
  <2>2. QED BY <1>1, <1>2, <1>5, <2>1, PassedBy DEF Over, Storage
<1>6. ASSUME NEW c \in CallersOf(inFlight), call[c].op \in Contributing PROVE Over(call, c, a)
  <2>1. Members(call[c].val) \subseteq CallersOf(inFlight)
    BY <1>6 DEF Slots, Authored, CallersOf
  <2>2. QED BY <1>1, <1>2, <2>1 DEF Over, Base, Known
<1>7. Kept(call, pending.val, Done \cup Queued)
  BY <1>1, <1>2, <1>4, <1>5, <1>6 DEF Kept
<1>8. \A w \in CallersOf(inFlight) : Members(pending.val) \cap call[w].before = {}
  BY <1>1, <1>3 DEF Base, Known
<1>9. \A w \in Done : call[w].op \in Overwriting => Members(pending.val) \cap call[w].before = {}
  BY <1>1, <1>3, PassedBy
<1>10. Clean(call, pending.val, Done \cup Queued)
  BY <1>1, <1>3, <1>8, <1>9 DEF Clean
<1>11. QED BY <1>7, <1>10

(* A read of the batch that is being written.                              *)
LEMMA InFlightReads ==
  ASSUME Base, Slots, Storage, pending = Nothing, inFlight # Nothing
  PROVE  /\ Clean(call, inFlight.val, Done \cup Queued)
         /\ table.operations \cap {"update", "updateRecord"} = {} =>
              Kept(call, inFlight.val, Done \cup Queued)
<1>1. /\ inFlight.callers = CallersOf(inFlight) /\ Queued = inFlight.callers
      /\ Queued \cap Settled = {}
  BY SlotCallers DEF Base, CallersOf
<1>2. PICK a \in inFlight.callers :
        /\ call[a].op \in Overwriting
        /\ \A c \in inFlight.callers : call[c].op \in Contributing =>
             c \in Members(inFlight.val) \/ Over(call, c, a)
  BY DEF Slots, Authored
<1>3. /\ Members(inFlight.val) \subseteq inFlight.callers
      /\ \A w \in inFlight.callers : call[w].op \in Overwriting =>
           Members(inFlight.val) \cap call[w].before = {}
  BY DEF Slots, Authored
<1>4. Clean(call, inFlight.val, Done \cup Queued)
  BY <1>1, <1>3, PassedBy DEF Clean
<1>5. ASSUME table.operations \cap {"update", "updateRecord"} = {},
             NEW c \in Done, call[c].op \in Contributing
      PROVE  Over(call, c, a)
  <2>1. c \in Calls /\ c \in Settled /\ c \in Done
    BY DEF Done, Settled
  <2>2. call[c].op \in {"set", "setMany"} /\ call[c].val = {c}
    BY <1>5, <2>1 DEF Contributing, Base, Doing
  <2>3. Members(call[c].val) = {c}
    BY <2>1, <2>2, Sentinels DEF Members, Content
  <2>4. QED BY <1>1, <1>2, <1>5, <2>1, <2>3, PassedBy DEF Over
<1>6. a \in Calls /\ call[a].pc # "idle"
  BY <1>1 DEF Queued
<1>7. ASSUME table.operations \cap {"update", "updateRecord"} = {}
      PROVE  Kept(call, inFlight.val, Done \cup Queued)
  BY <1>1, <1>2, <1>5, <1>6, <1>7 DEF Kept
<1>8. QED BY <1>4, <1>7

(* A read of the storage: what it knows of waits for nothing.              *)
LEMMA StorageRead ==
  ASSUME Base, Storage, NEW r \in Calls, Passed(r)
  PROVE  Kept(call, db, call[r].before) /\ Clean(call, db, call[r].before)
<1>1. call[r].before \subseteq Settled
  BY DEF Base, Known
<1>2. \A c \in call[r].before : c \in Written \/ call[c].pc = "failed"
  BY <1>1 DEF Settled, Written, Done
<1>3. QED BY <1>2 DEF Storage, Kept, Clean

LEMMA ReadRoute ==
  ASSUME Base, NEW c \in Calls, NEW pc \in Steps, NEW v \in Value, Route(c, pc, v),
         pc = "done", call[c].op \in Reads
  PROVE  Passed(c) /\ (~table.cache => v = db /\ db' = db)
<1>1. /\ Doing(c) /\ (table.queryCache => table.cache)
      /\ Reads \cap (Writes \cup Bulk) = {} /\ Reads \cap Contributing = {}
      /\ "delete" \in Writes /\ "deleteMany" \in Bulk
  BY TableAssumption DEF Base, Ground, TypeOK, Reads, Writes, Bulk, Contributing
<1>2. call[c].pc \in {"cache", "read", "fill", "qcache", "query", "qfill"}
  BY <1>1 DEF Route, FromFlush, FromStorage, FromCache, FromQuery, Doing
<1>3. Passed(c)
  BY <1>2 DEF Passed
<1>4. ASSUME ~table.cache PROVE v = db /\ db' = db
  <2>1. call[c].pc \in {"read", "query"}
    BY <1>1, <1>2, <1>4 DEF Doing
  <2>2. QED BY <2>1 DEF Route, FromFlush, FromStorage, FromCache, FromQuery
<1>5. QED BY <1>3, <1>4

LEMMA ReadsStep ==
  ASSUME Base, Solo, Current, Unheld, Slots, Storage, ReadsWell, [Next]_vars
  PROVE  ReadsWell'
<1>1. /\ Lasting /\ table' = table /\ Later(call, call')
      /\ \A c \in Settled \cup Queued : c \in Calls /\ call[c].pc # "idle" /\ call'[c].val = call[c].val
      /\ Done \subseteq Settled
  BY BaseStep DEF Lasting, Settled, Queued, Done
<1>2. Faithful' = Faithful /\ Apart' = Apart
  BY <1>1 DEF Faithful, Apart, Serial
<1>3. ASSUME NEW S \in SUBSET (Settled \cup Queued), NEW v
      PROVE  /\ Kept(call, v, S) => Kept(call', v, S)
             /\ Clean(call, v, S) => Clean(call', v, S)
  <2>1. S \in SUBSET Calls
    BY <1>1
  <2>2. QED BY <1>1, <2>1, KeptLater, CleanLater
(* One that was answered before;                                           *)
<1>4. ASSUME NEW r \in Done, call[r].op \in Reads
      PROVE  ReadWell(r)'
  <2>1. r \in Calls /\ call[r].pc = "done" /\ call'[r] = call[r]
    BY <1>1 DEF Done, Later
  <2>2. call[r].before \in SUBSET (Settled \cup Queued) /\ ReadWell(r)
    BY <1>4, <2>1 DEF Base, Known, ReadsWell
  <2>3. QED BY <1>1, <1>2, <1>3, <2>1, <2>2 DEF ReadWell
(* one that is answered from the buffer, at once;                          *)
<1>5. ASSUME NEW c \in Calls, NEW op \in Writes \cup Bulk \cup Reads, NEW pc \in Steps, NEW v \in Value,
             Starts(c, op, pc, v), pc = "done"
      PROVE  ReadWell(c)'
  <2>1. call'[c].val = v /\ call'[c].before = Done \cup Queued
    <3>1. call'[c] = [op |-> op, pc |-> pc, val |-> v, before |-> Done \cup Queued,
                      awaits |-> IF pc = "flush" THEN Queued ELSE {}]
      BY <1>5, StartsFacts DEF Base
    <3>2. QED BY <3>1
  <2>2. Done \cup Queued \in SUBSET (Settled \cup Queued)
    BY <1>1
  <2>3. /\ op \in {"get", "exists"} /\ op \in table.operations /\ Begin(c, op, pc, v)
        /\ \/ pending # Nothing /\ v = pending.val
           \/ pending = Nothing /\ inFlight # Nothing /\ v = inFlight.val
    BY <1>5 DEF Starts
  <2>4. table.autoBatch /\ table.atOnce # 1
    <3>1. table.autoBatch /\ Queued # {}
      BY <2>3 DEF Base, Ground, Accounted, CallersOf
    <3>2. Queued \subseteq InProgress
      BY DEF Queued, InProgress
    <3>3. QED BY <2>3, <3>1, <3>2, NoneElse
  <2>5. CASE pending # Nothing
    BY <1>1, <1>3, <2>1, <2>2, <2>3, <2>5, PendingRead DEF ReadWell
  <2>6. CASE pending = Nothing
    <3>1. Clean(call', v, Done \cup Queued)
      BY <1>3, <2>2, <2>3, <2>6, InFlightReads
    <3>2. ASSUME Apart PROVE Kept(call', v, Done \cup Queued)
      <4>1. table.operations \cap {"update", "updateRecord"} = {}
        BY <2>3, <2>4, <3>2 DEF Apart
      <4>2. QED BY <1>3, <2>2, <2>3, <2>6, <4>1, InFlightReads
    <3>3. QED BY <1>1, <1>2, <2>1, <2>4, <3>1, <3>2 DEF ReadWell
  <2>7. QED BY <2>5, <2>6
(* one that is answered by the storage, or by a cache that is as it is.    *)
<1>6. ASSUME NEW c \in Calls, NEW pc \in Steps, NEW v \in Value, Route(c, pc, v),
             UNCHANGED <<table, pending, inFlight, stage>>,
             \A d \in Calls \ {c} : call'[d] = call[d],
             call'[c].pc = pc, call'[c].val = v, call'[c].op = call[c].op,
             pc = "done", call[c].op \in Reads
      PROVE  ReadWell(c)'
  <2>1. Passed(c) /\ (~table.cache => v = db)
    BY <1>6, ReadRoute
  <2>2. ASSUME Faithful PROVE v = db
    <3>1. CASE table.cache
      <4>1. Serial /\ CachesCurrent
        BY <2>2, <3>1 DEF Faithful, Current
      <4>2. QED BY <1>6, <3>1, <4>1, RouteCurrent
    <3>2. QED BY <2>1, <3>1
  <2>3. call[c].pc # "idle" /\ call'[c].before = call[c].before
    BY <1>1, <2>1 DEF Passed, Later
  <2>4. Kept(call, db, call[c].before) /\ Clean(call, db, call[c].before)
    BY <2>1, StorageRead
  <2>5. call[c].before \in SUBSET (Settled \cup Queued)
    BY DEF Base, Known
  <2>6. Kept(call', db, call[c].before) /\ Clean(call', db, call[c].before)
    BY <1>3, <2>4, <2>5
  <2>7. QED BY <1>2, <1>6, <2>2, <2>3, <2>6 DEF ReadWell
<1> SUFFICES ASSUME NEW r \in Calls, call'[r].op \in Reads, call'[r].pc = "done"
             PROVE  ReadWell(r)'
  BY DEF ReadsWell
<1>7. CASE call'[r] = call[r]
  BY <1>4, <1>7 DEF Done
<1>8. ASSUME NEW c \in Calls, NEW op \in Writes \cup Bulk \cup Reads, NEW pc \in Steps, NEW v \in Value,
             Starts(c, op, pc, v)
      PROVE  ReadWell(r)'
  <2>1. \A d \in Calls \ {c} : call'[d] = call[d]
    BY <1>8, StartsFacts DEF Base
  <2>2. call'[c].pc = pc
    <3>1. call'[c] = [op |-> op, pc |-> pc, val |-> v, before |-> Done \cup Queued,
                      awaits |-> IF pc = "flush" THEN Queued ELSE {}]
      BY <1>8, StartsFacts DEF Base
    <3>2. QED BY <3>1
  <2>3. QED BY <1>5, <1>7, <1>8, <2>1, <2>2
<1>9. ASSUME NEW c \in Calls, NEW op \in Writes, NEW v \in Value, Enters(c, op, v)
      PROVE  ReadWell(r)'
  <2>1. (\A d \in Calls \ {c} : call'[d] = call[d]) /\ call'[c].pc = "queued"
    BY <1>9, EntersFacts DEF Base
  <2>2. QED BY <1>7, <2>1
<1>10. ASSUME NEW c \in Calls, Proceeds(c)
       PROVE  ReadWell(r)'
  <2>1. PICK pc \in Steps, v \in Value :
          /\ Route(c, pc, v)
          /\ UNCHANGED <<table, pending, inFlight, stage>>
          /\ \A d \in Calls \ {c} : call'[d] = call[d]
          /\ call'[c].pc = pc /\ call'[c].val = v /\ call'[c].op = call[c].op
    BY <1>10, ProceedsFacts DEF Base
  <2>2. CASE r = c
    BY <1>6, <2>1, <2>2
  <2>3. QED BY <1>7, <2>1, <2>2
<1>11. CASE Handler
  <2>1. CASE StartBatch \/ HandlerStores \/ HandlerCaches \/ HandlerInvalidates
    BY <1>7, <2>1 DEF StartBatch, HandlerStores, HandlerCaches, HandlerInvalidates
  <2>2. CASE HandlerEnds \/ HandlerFails
    <3>1. CASE r \in inFlight.callers
      <4>1. call[r].pc = "queued" /\ call[r].op \in Writes
        <5>1. inFlight # Nothing
          BY <2>2, EndFacts DEF Base
        <5>2. r \in Queued
          BY <3>1, <5>1, SlotCallers DEF Base
        <5>3. QED BY <5>2 DEF Queued, Base, Doing
      <4>2. call'[r].op = call[r].op
        BY <1>1, <4>1 DEF Later
      <4>3. QED BY <4>1, <4>2 DEF Writes, Reads
    <3>2. CASE r \notin inFlight.callers
      <4>1. call'[r] = call[r]
        BY <2>2, <3>2, EndFacts DEF Base
      <4>2. QED BY <1>7, <4>1
    <3>3. QED BY <3>1, <3>2
  <2>3. QED BY <1>11, <2>1, <2>2 DEF Handler
<1>12. CASE UNCHANGED vars
  BY <1>7, <1>12 DEF vars
<1>13. QED BY <1>8, <1>9, <1>10, <1>11, <1>12, StepKinds DEF Base

-----------------------------------------------------------------------------
Sound == Base /\ Solo /\ Current /\ (Unheld => Slots /\ Storage /\ ReadsWell)

LEMMA SoundInit == Init => Sound
<1> SUFFICES ASSUME Init PROVE Sound
  OBVIOUS
<1>1. Base
  BY BaseInit
<1>2. Slots
  BY DEF Init, Slots, Authored
<1>3. Storage
  <2>1. Written = {} /\ Members(db) = {}
    BY DEF Init, Written, Done, Stored, Members
  <2>2. QED BY <2>1 DEF Storage, Kept, Clean
<1>4. Solo
  BY DEF Init, Solo, InProgress
<1>5. Current
  BY DEF Init, Current, CachesCurrent, CallCurrent, BatchCurrent, CacheCurrent, QueryCurrent
<1>6. ReadsWell
  BY DEF Init, ReadsWell
<1>7. QED BY <1>1, <1>2, <1>3, <1>4, <1>5, <1>6 DEF Sound

LEMMA SoundStep == Sound /\ [Next]_vars => Sound'
<1> SUFFICES ASSUME Sound, [Next]_vars PROVE Sound'
  OBVIOUS
<1>1. Base' /\ Lasting
  BY BaseStep DEF Sound
<1>2. Unheld' => Unheld
  BY <1>1 DEF Lasting, Unheld
<1>3. ASSUME Unheld PROVE Slots' /\ Storage' /\ ReadsWell'
  BY <1>3, SlotsStep, StorageStep, ReadsStep DEF Sound
<1>4. Solo' /\ Current'
  BY SoloStep, CurrentStep DEF Sound
<1>5. QED BY <1>1, <1>2, <1>3, <1>4 DEF Sound

(* The invariant of every table: what waits is accounted for, the caches   *)
(* of a table that is used serially are as the storage is and, where no    *)
(* update is held back before the buffer, the slots, the storage and what  *)
(* the reads returned have the writes they should have.                    *)
THEOREM TableSound == Spec => []Sound
BY SoundInit, SoundStep, PTL DEF Spec

(* The variables hold values of their types.                               *)
THEOREM TableTypes == Spec => []TypeOK
<1>1. Sound => TypeOK
  BY DEF Sound, Base, Ground
<1>2. QED BY <1>1, TableSound, PTL

(* Concurrent updates of a key serialise, whether they are computed from   *)
(* the buffer, after a flush or by the storage: on every table where no    *)
(* update waits for a hook or for room between what it read and the        *)
(* buffer, what has been answered is stored once the buffer is empty.      *)
THEOREM AnsweredIsStored == Spec => [](Unheld => UpdatesKept)
<1>1. ASSUME Sound, Unheld PROVE UpdatesKept
  <2>1. Kept(call, db, Written) /\ Done \subseteq Written /\ Done \subseteq Calls
    BY <1>1 DEF Sound, Storage, Written, Done
  <2>2. Kept(call, db, Done)
    BY <2>1 DEF Kept
  <2>3. QED BY <2>1, <2>2, KeptIsKeepsWrites DEF UpdatesKept
<1>2. QED BY <1>1, TableSound, PTL

(* What a read that was answered knew of.                                  *)
LEMMA ReadBefore ==
  ASSUME Sound, NEW r \in Done, call[r].op \in Reads
  PROVE  r \in Calls /\ call[r].pc = "done" /\ call[r].before \in SUBSET Calls
BY DEF Sound, Base, Known, Done, Settled, Queued

(* A read never returns a value that had been overwritten or deleted       *)
(* before it began: on every such table that has no cache, however many    *)
(* calls are in progress, or that is used serially, with both caches.      *)
THEOREM ReadsAreFresh == Spec => [](Unheld /\ Faithful => NoStaleRead)
<1>1. ASSUME Sound, Unheld, Faithful PROVE NoStaleRead
  <2> SUFFICES ASSUME NEW r \in Done, call[r].op \in Reads
               PROVE  \A w \in call[r].before : Overwrites(w) /\ call[w].pc # "failed" =>
                        Members(call[r].val) \cap call[w].before = {}
    BY DEF NoStaleRead
  <2>1. Clean(call, call[r].val, call[r].before)
    BY <1>1, ReadBefore DEF Sound, ReadsWell, ReadWell
  <2>2. QED BY <1>1, <2>1, ReadBefore, KeptIsKeepsWrites
<1>2. QED BY <1>1, TableSound, PTL

(* Read your writes: a read returns every write that was answered or       *)
(* buffered before it began, or a later one.  Beside what the last theorem *)
(* asks of the table, no point read may look into a batch while an update  *)
(* goes past it to the storage.                                            *)
THEOREM ReadsHaveWrites ==
  Spec => [](Unheld /\ Faithful /\ (Apart \/ table.atOnce = 1) => NoLostWrite)
<1>1. ASSUME Sound, Unheld, Faithful, Apart \/ table.atOnce = 1 PROVE NoLostWrite
  <2> SUFFICES ASSUME NEW r \in Done, call[r].op \in Reads
               PROVE  KeepsWrites(call[r].val, call[r].before)
    BY DEF NoLostWrite
  <2>1. Kept(call, call[r].val, call[r].before)
    BY <1>1, ReadBefore DEF Sound, ReadsWell, ReadWell
  <2>2. QED BY <1>1, <2>1, ReadBefore, KeptIsKeepsWrites
<1>2. QED BY <1>1, TableSound, PTL

===============================================================================
