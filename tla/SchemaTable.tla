----------------------------- MODULE SchemaTable -----------------------------
(***************************************************************************)
(* The rows of a schema table as the drivers of sqlite, postgres, mysql    *)
(* and mongodb write them (the classes SqliteSchemaTable,                  *)
(* PostgresSchemaTable, MysqlSchemaTable and MongoSchemaTable of           *)
(* src/drivers/): a row has a primary key, a value and one secondary       *)
(* column, the mark, which may have a unique index.  A step is what a      *)
(* statement or a transaction does; calls of several processes, or of one  *)
(* that does not wait, interleave between them.                            *)
(*                                                                         *)
(* A value is the set of the calls that are still visible in it: a write   *)
(* replaces it, an update adds to it.                                      *)
(***************************************************************************)
EXTENDS Integers, Sequences
LOCAL INSTANCE SequencesExt

CONSTANTS
  Calls,
  Keys,         (* the primary keys, which are numbers                     *)
  Marks,        (* what the column may hold, "null" apart                  *)
  MaxAttempts,  (* of an update on mongodb                                 *)
  Tables,       (* the driver, whether marks are unique, records expire,   *)
                (* several processes share the database, rows are there at *)
                (* first, and the operations                               *)
  NoRow

Rows == [val : SUBSET Calls, mark : Marks \cup {"null"}, life : {"ever", "ttl", "over"}]

ASSUME SchemaTableAssumption ==
  /\ NoRow \notin Rows /\ MaxAttempts \in Nat /\ "same" \notin Marks
  /\ Tables \subseteq [driver : {"sqlite", "postgres", "mysql", "mongodb"},
                       unique : BOOLEAN, expires : BOOLEAN, shared : BOOLEAN, seeded : BOOLEAN,
                       operations : SUBSET {"set", "setRecords", "delete", "deleteRecords",
                                            "get", "getByKey", "update"}]

VARIABLES
  table, rows, call,
  over          (* ghost: a call and a key, if what the call wrote there   *)
                (* was written over, deleted, or has expired               *)

vars == <<table, rows, call, over>>

-----------------------------------------------------------------------------
driver == table.driver

Lives == IF table.expires THEN {"ever", "ttl"} ELSE {"ever"}
Items == [key : Keys, mark : Marks \cup {"null"}, life : Lives]

(* Items to update with: "same" leaves the columns as they are.            *)
Patches == [key : Keys, mark : Marks \cup {"same"}, life : Lives]

KeysOf(items) == {items[i].key : i \in DOMAIN items}
Alive(r)      == r # NoRow /\ r.life # "over"
Expired(r)    == r # NoRow /\ r.life = "over"

Made(op, items, pc) == [op |-> op, items |-> items, pc |-> pc, read |-> NoRow, step |-> 0]

Init ==
  /\ table \in Tables
  /\ rows = [k \in Keys |->
              IF table.seeded
              THEN [val |-> {}, mark |-> "null", life |-> IF table.expires THEN "ttl" ELSE "ever"]
              ELSE NoRow]
  /\ call = [c \in Calls |-> Made("none", <<>>, "idle")]
  /\ over = {}

Asks(c, op)            == call[c].pc = "idle" /\ op \in table.operations
Goes(c, op, items, pc) == call' = [call EXCEPT ![c] = Made(op, items, pc)]
Ends(c, pc)            == call' = [call EXCEPT ![c].pc = pc]

-----------------------------------------------------------------------------
(* Locks: a transaction of postgres or mysql that has read a row for       *)
(* update holds it; if there is none, mysql holds the gap, into which      *)
(* nobody else inserts.                                                    *)

(* Mutant: SELECT without FOR UPDATE.                                      *)
HoldsNothing(d, k) == FALSE

Holds(d, k) ==
  /\ driver \in {"postgres", "mysql"} /\ call[d].op = "update" /\ call[d].pc = "write"
  /\ k \in KeysOf(call[d].items) /\ call[d].read # NoRow

HoldsGap(d, k) ==
  /\ driver = "mysql" /\ call[d].op = "update" /\ call[d].pc = "write"
  /\ k \in KeysOf(call[d].items) /\ call[d].read = NoRow

Unlocked(c, keys) == \A d \in Calls \ {c}, k \in keys : ~Holds(d, k)
Free(c, keys)     == Unlocked(c, keys) /\ \A d \in Calls \ {c}, k \in keys : ~HoldsGap(d, k)

-----------------------------------------------------------------------------
(* Writing a record.                                                       *)

(* The rows of other keys with the mark, if it is unique.  To a unique     *)
(* index of mongodb null is a value like others.                           *)
Holders(rs, item) ==
  IF table.unique /\ (item.mark # "null" \/ driver = "mongodb")
  THEN {k \in Keys \ {item.key} : rs[k] # NoRow /\ rs[k].mark = item.mark}
  ELSE {}

(* ON CONFLICT names the primary key: another collision is an error.  ON   *)
(* DUPLICATE KEY takes any, and updates the row it meets.                  *)
Accepts(rs, item) ==
  Holders(rs, item) = {} \/ (driver = "mysql" /\ rs[item.key] = NoRow)

Target(rs, item) ==
  IF Holders(rs, item) = {} THEN item.key ELSE CHOOSE k \in Holders(rs, item) : TRUE

(* The rows after the write; none if it is refused.                        *)
Upsert(rs, item, val) ==
  IF Accepts(rs, item)
  THEN {[rs EXCEPT ![Target(rs, item)] = [val |-> val, mark |-> item.mark, life |-> item.life]]}
  ELSE {}

(* A transaction: all of the records, here one or two, or none.            *)
Stored(c, items) ==
  LET first == Upsert(rows, items[1], {c}) IN
  IF Len(items) = 1 THEN first ELSE UNION {Upsert(rs, items[2], {c}) : rs \in first}

Replaced(c, keys) == (over \cup ((Calls \ {c}) \X keys)) \ ({c} \X keys)

(* Mutant: the first record stays when another one is refused.             *)
SetOneByOne(c, op, items) ==
  /\ IF Stored(c, items) = {}
     THEN rows' \in Upsert(rows, items[1], {c}) \cup {rows} /\ Goes(c, op, items, "failed")
     ELSE rows' \in Stored(c, items) /\ Goes(c, op, items, "ok")
  /\ over' = Replaced(c, KeysOf(items))
  /\ UNCHANGED table

Set(c, op, items) ==
  /\ Free(c, KeysOf(items) \cup UNION {Holders(rows, items[i]) : i \in DOMAIN items})
  /\ IF Stored(c, items) = {} THEN Goes(c, op, items, "failed") /\ UNCHANGED <<rows, over>>
     ELSE /\ rows' \in Stored(c, items) /\ over' = Replaced(c, KeysOf(items))
          /\ Goes(c, op, items, "ok")
  /\ UNCHANGED table

SetRecord(c) == Asks(c, "set") /\ \E item \in Items : Set(c, "set", <<item>>)

(* postgres and mysql sort the records by their keys.                      *)
Batches ==
  {b \in Items \X Items : IF driver \in {"postgres", "mysql"} THEN b[1].key < b[2].key
                           ELSE b[1].key # b[2].key}

SetRecords(c) ==
  /\ Asks(c, "setRecords") /\ driver # "mongodb"
  /\ \E items \in Batches : Set(c, "setRecords", items)

-----------------------------------------------------------------------------
(* Deleting.                                                               *)

AllKeys == {[key |-> k] : k \in Keys}
EachKey == SetToSeq(AllKeys)

Without(keys) == [k \in Keys |-> IF k \in keys THEN NoRow ELSE rows[k]]

Erase(c, op, items) ==
  /\ Free(c, KeysOf(items))
  /\ rows' = Without(KeysOf(items)) /\ over' = Replaced(c, KeysOf(items))
  /\ Goes(c, op, items, "ok")
  /\ UNCHANGED table

Delete(c) == Asks(c, "delete") /\ \E item \in AllKeys : Erase(c, "delete", <<item>>)

DeleteRecords(c) ==
  /\ Asks(c, "deleteRecords") /\ driver # "mongodb"
  /\ Erase(c, "deleteRecords", EachKey)

(* mongodb takes the records of a call one after the other, and stops at   *)
(* one that is refused.                                                    *)
BulkWrite(c) ==
  /\ driver = "mongodb"
  /\ \/ Asks(c, "setRecords") /\ \E items \in Batches : Goes(c, "setRecords", items, "bulk")
     \/ Asks(c, "deleteRecords") /\ Goes(c, "deleteRecords", EachKey, "bulk")
  /\ UNCHANGED <<table, rows, over>>

BulkNext(c) ==
  LET n      == call[c].step + 1
      item   == call[c].items[n]
      result == IF call[c].op = "setRecords" THEN Upsert(rows, item, {c}) ELSE {Without({item.key})}
  IN  /\ call[c].pc = "bulk"
      /\ IF result = {} THEN Ends(c, "failed") /\ UNCHANGED <<rows, over>>
         ELSE /\ rows' \in result /\ over' = Replaced(c, {item.key})
              /\ call' = [call EXCEPT ![c].step = n,
                                      ![c].pc = IF n = Len(call[c].items) THEN "ok" ELSE @]
      /\ UNCHANGED table

-----------------------------------------------------------------------------
(* Reading.  An expired row is deleted by its key, in a statement of its   *)
(* own; mysql leaves it.                                                   *)

Meets(c, op, k) ==
  /\ IF ~Expired(rows[k]) \/ driver = "mysql" THEN Goes(c, op, <<[key |-> k]>>, "ok") /\ UNCHANGED rows
     ELSE IF driver = "sqlite" /\ ~table.shared
     THEN Goes(c, op, <<[key |-> k]>>, "ok") /\ rows' = Without({k})
     ELSE Goes(c, op, <<[key |-> k]>>, "drop") /\ UNCHANGED rows
  /\ UNCHANGED <<table, over>>

GetRecord(c) == Asks(c, "get") /\ \E k \in Keys : Meets(c, "get", k)

(* Of several rows with the mark any is taken; to SQL nothing is equal to  *)
(* NULL.                                                                   *)
GetRecordByKey(c) ==
  /\ Asks(c, "getByKey")
  /\ \E k \in Keys :
       /\ rows[k] # NoRow /\ (rows[k].mark # "null" \/ driver = "mongodb")
       /\ Meets(c, "getByKey", k)

Drop(c) ==
  /\ call[c].pc = "drop" /\ Free(c, KeysOf(call[c].items))
  /\ rows' = Without(KeysOf(call[c].items))
  /\ Ends(c, "ok")
  /\ UNCHANGED <<table, over>>

-----------------------------------------------------------------------------
(* updateRecord().                                                         *)

Patched(c, r, item) ==
  [val  |-> {c} \cup (IF Alive(r) THEN r.val ELSE {}),
   item |-> [item EXCEPT !.mark = IF @ # "same" THEN @ ELSE IF Alive(r) THEN r.mark ELSE "null"]]

(* The rows after the update of what was read.                             *)
Updated(c, r, item) == LET p == Patched(c, r, item) IN Upsert(rows, p.item, p.val)

Put(c, items, r) ==
  LET item == items[1]
      p    == Patched(c, r, item)
  IN  /\ Free(c, {item.key} \cup Holders(rows, p.item))
      /\ IF Updated(c, r, item) = {}
         THEN Goes(c, "update", items, "failed") /\ UNCHANGED <<rows, over>>
         ELSE /\ rows' \in Updated(c, r, item) /\ over' = over \ {<<c, item.key>>}
              /\ Goes(c, "update", items, "ok")
      /\ UNCHANGED table

SqliteUpdate(c) ==
  /\ driver = "sqlite" /\ Asks(c, "update")
  /\ \E item \in Patches : Put(c, <<item>>, rows[item.key])

Select(c, item) ==
  /\ Unlocked(c, {item.key})
  /\ call' = [call EXCEPT ![c] = [op |-> "update", items |-> <<item>>, pc |-> "write",
                                  read |-> rows[item.key], step |-> @.step + 1]]
  /\ UNCHANGED <<table, rows, over>>

PostgresSelect(c) ==
  driver = "postgres" /\ Asks(c, "update") /\ \E item \in Patches : Select(c, item)

PostgresUpsert(c) ==
  driver = "postgres" /\ call[c].pc = "write" /\ Put(c, call[c].items, call[c].read)

MysqlSelect(c) == driver = "mysql" /\ Asks(c, "update") /\ \E item \in Patches : Select(c, item)

MysqlUpsert(c) == driver = "mysql" /\ call[c].pc = "write" /\ Put(c, call[c].items, call[c].read)

(* Two that wait for each other's gap: the server ends one of them.        *)
MysqlDeadlock(c) ==
  /\ \E k \in KeysOf(call[c].items) : HoldsGap(c, k) /\ \E d \in Calls \ {c} : HoldsGap(d, k)
  /\ Ends(c, "failed")
  /\ UNCHANGED <<table, rows, over>>

MongoRead(c) ==
  /\ driver = "mongodb"
  /\ \/ Asks(c, "update") /\ \E item \in Patches : Select(c, item)
     \/ call[c].pc = "again" /\ Select(c, call[c].items[1])

(* A row that was read is written if it has the value still.               *)
MongoWrite(c) ==
  LET r == call[c].read
      k == call[c].items[1].key
  IN  /\ driver = "mongodb" /\ call[c].pc = "write"
      /\ IF ~Alive(r) \/ (rows[k] # NoRow /\ rows[k].val = r.val) THEN Put(c, call[c].items, r)
         ELSE /\ Ends(c, IF call[c].step < MaxAttempts THEN "again" ELSE "failed")
              /\ UNCHANGED <<table, rows, over>>

-----------------------------------------------------------------------------
(* The clock, and the sweep, which leaves the schema tables of mysql out.  *)

Expire(k) ==
  /\ rows[k] # NoRow /\ rows[k].life = "ttl"
  /\ rows' = [rows EXCEPT ![k].life = "over"]
  /\ over' = over \cup (Calls \X {k})
  /\ UNCHANGED <<table, call>>

PurgeExpired ==
  LET gone == {k \in Keys : Expired(rows[k])}
  IN  /\ driver # "mysql" /\ gone # {} /\ \A c \in Calls : Free(c, gone)
      /\ rows' = Without(gone)
      /\ UNCHANGED <<table, call, over>>

Next ==
  \/ \E c \in Calls :
       \/ SetRecord(c) \/ SetRecords(c) \/ Delete(c) \/ DeleteRecords(c)
       \/ BulkWrite(c) \/ BulkNext(c)
       \/ GetRecord(c) \/ GetRecordByKey(c) \/ Drop(c)
       \/ SqliteUpdate(c) \/ PostgresSelect(c) \/ PostgresUpsert(c)
       \/ MysqlSelect(c) \/ MysqlUpsert(c) \/ MysqlDeadlock(c)
       \/ MongoRead(c) \/ MongoWrite(c)
  \/ \E k \in Keys : Expire(k)
  \/ PurgeExpired

Spec == Init /\ [][Next]_vars

-----------------------------------------------------------------------------
(* What was written and answered is there, under its key, until a later    *)
(* write, a deletion, or the end of its time: no update is lost, no read   *)
(* and no write of another key takes it away.                              *)
WritesKept ==
  \A c \in Calls : \A k \in KeysOf(call[c].items) :
    /\ call[c].pc = "ok" /\ call[c].op \in {"set", "setRecords", "update"}
    /\ <<c, k>> \notin over
    => Alive(rows[k]) /\ c \in rows[k].val

(* A call that was refused has left nothing: of setRecords() all records   *)
(* are stored or none ("atomic batch record insertion",                    *)
(* src/drivers/types.ts).                                                  *)
RefusedLeavesNothing ==
  \A c \in Calls, k \in Keys :
    call[c].pc = "failed" /\ rows[k] # NoRow => c \notin rows[k].val

(* Not of every table: a record is refused only if another one that lives  *)
(* has its mark.                                                           *)
RefusedForReason ==
  [][\A c \in Calls :
       call'[c].op = "set" /\ call'[c].pc = "failed" /\ call[c].pc = "idle"
       => \E k \in Keys \ KeysOf(call'[c].items) :
            Alive(rows[k]) /\ rows[k].mark = call'[c].items[1].mark /\ rows[k].mark # "null"]_vars

=============================================================================
