----------------------------- MODULE DriverUpdate -----------------------------
(***************************************************************************)
(* How the five drivers (src/drivers) read, write and update one row:      *)
(*                                                                         *)
(*   sqlite    one synchronous BEGIN IMMEDIATE transaction;                *)
(*   postgres  SELECT FOR UPDATE, then an upsert, in a READ COMMITTED      *)
(*             transaction: a row that is there is locked, a missing one   *)
(*             is not;                                                     *)
(*   mysql     the same under REPEATABLE READ: a missing row is locked by  *)
(*             the gap it would fill, by several transactions at a time;   *)
(*   mongodb   a read, and a write that compares the value that was read;  *)
(*             a row that was not there is upserted blindly;               *)
(*   redis     a read, and a script that compares, also with nothing.      *)
(*                                                                         *)
(* What the servers do with locks is theirs, not the library's.  Values    *)
(* are those of RowUpdate.                                                 *)
(***************************************************************************)
EXTENDS Naturals, FiniteSets

CONSTANTS
  Callers,        (* the callers, each of one operation                    *)
  Drivers,        (* the drivers to look at                                *)
  Operations,     (* what the callers may call                             *)
  Expires,        (* the row may expire                                    *)
  MaxAttempts,    (* MAX_UPDATE_ATTEMPTS                                   *)
  Absent,         (* no row                                                *)
  Nobody          (* no transaction                                        *)

Providers == {"sqlite", "postgres", "mysql", "mongodb", "redis"}

ASSUME DriverAssumption ==
  /\ Drivers \subseteq Providers /\ MaxAttempts \in Nat \ {0} /\ Expires \in BOOLEAN
  /\ Operations \subseteq {"get", "set", "delete", "update"}
  /\ (\A S \in SUBSET Callers : S # Absent) /\ Nobody \notin Callers

VARIABLES
  provider,    (* the driver                                               *)
  row,         (* the stored value, or Absent                              *)
  expired,     (* the row is past its expires_at                           *)
  locker,      (* the transaction that has locked the row                  *)
  gap,         (* the transactions that have locked the gap (mysql)        *)
  op           (* what every caller is doing                               *)

vars == <<provider, row, expired, locker, gap, op>>

-----------------------------------------------------------------------------
Value == (SUBSET Callers) \cup {Absent}
Op    == [pc: {"idle", "write", "drop", "done", "failed"}, read: Value, tries: Nat]

Live == IF expired THEN Absent ELSE row

Patched(a, v) == IF v = Absent THEN {a} ELSE v \cup {a}

Init ==
  /\ provider \in Drivers
  /\ row = Absent /\ expired = FALSE /\ locker = Nobody /\ gap = {}
  /\ op = [a \in Callers |-> [pc |-> "idle", read |-> Absent, tries |-> 0]]

Begins(a, what) == what \in Operations /\ op[a].pc = "idle"

Ends(a, result) == op' = [op EXCEPT ![a] = [pc |-> result, read |-> Absent, tries |-> 0]]

(* The row was read as v; the mutator is run on it and the write follows.  *)
HasRead(a, v) == op' = [op EXCEPT ![a] = [pc |-> "write", read |-> v, tries |-> 0]]

Stores(v) == row' = v /\ expired' = FALSE

-----------------------------------------------------------------------------
(* sqlite                                                                  *)

SqliteUpdate(a) ==
  /\ provider = "sqlite" /\ Begins(a, "update")
  /\ Stores(Patched(a, Live)) /\ Ends(a, "done")
  /\ UNCHANGED <<provider, locker, gap>>

-----------------------------------------------------------------------------
(* postgres                                                                *)

(* Mutant: the row is read without FOR UPDATE.                             *)
PostgresSelectUnlocked(a) ==
  /\ provider = "postgres" /\ Begins(a, "update")
  /\ HasRead(a, Live)
  /\ UNCHANGED <<provider, row, expired, locker, gap>>

(* Who waited for a row that is being deleted and replaced does not find   *)
(* the replacement.                                                        *)
PostgresSelect(a) ==
  /\ provider = "postgres" /\ Begins(a, "update")
  /\ \/ /\ locker = Nobody /\ row # Absent
        /\ locker' = a /\ HasRead(a, Live)
     \/ /\ locker = Nobody /\ row = Absent
        /\ HasRead(a, Absent) /\ UNCHANGED locker
     \/ /\ locker # Nobody /\ op[locker].read = Absent
        /\ HasRead(a, Absent) /\ UNCHANGED locker
  /\ UNCHANGED <<provider, row, expired, gap>>

PostgresUpsert(a) ==
  /\ provider = "postgres" /\ op[a].pc = "write" /\ locker \in {a, Nobody}
  /\ Stores(Patched(a, op[a].read)) /\ Ends(a, "done") /\ locker' = Nobody
  /\ UNCHANGED <<provider, gap>>

-----------------------------------------------------------------------------
(* mysql                                                                   *)

MysqlSelect(a) ==
  /\ provider = "mysql" /\ Begins(a, "update")
  /\ \/ /\ row # Absent /\ locker = Nobody
        /\ locker' = a /\ UNCHANGED gap
     \/ /\ row = Absent
        /\ gap' = gap \cup {a} /\ UNCHANGED locker
  /\ HasRead(a, Live)
  /\ UNCHANGED <<provider, row, expired>>

(* An insert waits for the other transactions that have locked the gap.    *)
MysqlInsert(a) ==
  /\ provider = "mysql" /\ op[a].pc = "write"
  /\ locker \in {a, Nobody} /\ gap \subseteq {a}
  /\ Stores(Patched(a, op[a].read)) /\ Ends(a, "done")
  /\ locker' = Nobody /\ gap' = {}
  /\ UNCHANGED provider

(* Two of them wait for each other: one is rolled back.                    *)
MysqlDeadlock(a) ==
  /\ provider = "mysql" /\ op[a].pc = "write" /\ a \in gap /\ gap # {a}
  /\ gap' = gap \ {a} /\ Ends(a, "failed")
  /\ UNCHANGED <<provider, row, expired, locker>>

-----------------------------------------------------------------------------
(* mongodb                                                                 *)

MongoRead(a) ==
  /\ provider = "mongodb" /\ Begins(a, "update")
  /\ HasRead(a, Live)
  /\ UNCHANGED <<provider, row, expired, locker, gap>>

(* The comparison failed: the loop reads again, or gives up.               *)
TriesAgain(a, v) ==
  /\ IF op[a].tries + 1 < MaxAttempts
     THEN op' = [op EXCEPT ![a] = [pc |-> "write", read |-> v, tries |-> @.tries + 1]]
     ELSE Ends(a, "failed")
  /\ UNCHANGED <<provider, row, expired, locker, gap>>

MongoWrite(a) ==
  /\ provider = "mongodb" /\ op[a].pc = "write"
  /\ \/ /\ op[a].read \in {Absent, row}
        /\ Stores(Patched(a, op[a].read)) /\ Ends(a, "done")
        /\ UNCHANGED <<provider, locker, gap>>
     \/ /\ op[a].read \notin {Absent, row}
        /\ TriesAgain(a, Live)

-----------------------------------------------------------------------------
(* redis                                                                   *)

RedisGet(a) ==
  /\ provider = "redis" /\ Begins(a, "update")
  /\ HasRead(a, row)
  /\ UNCHANGED <<provider, row, expired, locker, gap>>

(* CAS_UPDATE_LUA: it answers with what it has found.                      *)
RedisEval(a) ==
  /\ provider = "redis" /\ op[a].pc = "write"
  /\ \/ /\ op[a].read = row
        /\ Stores(Patched(a, row)) /\ Ends(a, "done")
        /\ UNCHANGED <<provider, locker, gap>>
     \/ /\ op[a].read # row
        /\ TriesAgain(a, row)

-----------------------------------------------------------------------------
(* The operations of one statement, and what happens to a row by itself.   *)

Set(a) ==
  /\ Begins(a, "set") /\ locker = Nobody /\ gap = {}
  /\ Stores({a}) /\ Ends(a, "done")
  /\ UNCHANGED <<provider, locker, gap>>

Delete(a) ==
  /\ Begins(a, "delete") /\ locker = Nobody
  /\ Stores(Absent) /\ Ends(a, "done")
  /\ UNCHANGED <<provider, locker, gap>>

(* get() removes an expired row in a statement of its own, except on       *)
(* mysql, and on redis, where the server does.                             *)
Lazy == provider \in {"sqlite", "postgres", "mongodb"}

Get(a) ==
  /\ Begins(a, "get")
  /\ IF Lazy /\ expired THEN Ends(a, "drop") ELSE Ends(a, "done")
  /\ UNCHANGED <<provider, row, expired, locker, gap>>

Drop(a) ==
  /\ op[a].pc = "drop" /\ locker = Nobody
  /\ Stores(Absent) /\ Ends(a, "done")
  /\ UNCHANGED <<provider, locker, gap>>

(* The connection is lost: the transaction is rolled back.                 *)
Fail(a) ==
  /\ op[a].pc \in {"write", "drop"}
  /\ Ends(a, "failed")
  /\ locker' = IF locker = a THEN Nobody ELSE locker
  /\ gap' = gap \ {a}
  /\ UNCHANGED <<provider, row, expired>>

(* The clock passes expires_at; redis removes the row at once.             *)
Expire ==
  /\ Expires /\ row # Absent /\ ~expired
  /\ IF provider = "redis" THEN Stores(Absent) ELSE expired' = TRUE /\ UNCHANGED row
  /\ UNCHANGED <<provider, locker, gap, op>>

PurgeExpired ==
  /\ expired /\ locker = Nobody
  /\ Stores(Absent)
  /\ UNCHANGED <<provider, locker, gap, op>>

Next ==
  \/ \E a \in Callers :
       \/ SqliteUpdate(a) \/ PostgresSelect(a) \/ PostgresUpsert(a)
       \/ MysqlSelect(a) \/ MysqlInsert(a) \/ MysqlDeadlock(a)
       \/ MongoRead(a) \/ MongoWrite(a) \/ RedisGet(a) \/ RedisEval(a)
       \/ Set(a) \/ Delete(a) \/ Get(a) \/ Drop(a) \/ Fail(a)
  \/ Expire \/ PurgeExpired

Spec == Init /\ [][Next]_vars

-----------------------------------------------------------------------------
(* The types of the variables.                                             *)
TypeOK ==
  /\ provider \in Drivers /\ row \in Value /\ expired \in BOOLEAN
  /\ (expired => row # Absent) /\ (provider = "redis" => ~expired)
  /\ locker \in Callers \cup {Nobody} /\ gap \subseteq Callers
  /\ op \in [Callers -> Op]

(* Postgres and mongodb do not hold on to a row that is not there.         *)
Racy == provider \in {"postgres", "mongodb"}

Anomalies == (IF Racy THEN {"racy"} ELSE {}) \cup (IF Lazy THEN {"lazy"} ELSE {})

(* What RowUpdate sees of a caller.                                        *)
Seen(a) ==
  CASE op[a].pc = "drop" -> "dropping"
    [] op[a].pc = "write" -> IF Racy /\ op[a].read = Absent THEN "fresh" ELSE "idle"
    [] OTHER -> op[a].pc

Promised == INSTANCE RowUpdate WITH
  driver <- Anomalies, call <- [a \in Callers |-> Seen(a)]

(* Every driver keeps the promise of RowUpdate: updates of a row that is   *)
(* there serialise with each other and with every other write, whatever    *)
(* expires, fails or is tried again, and what a driver may do beyond that  *)
(* is what RowUpdate names.                                                *)
KeepsPromise == Promised!Spec

-----------------------------------------------------------------------------
(* drivers/types.ts:126, "concurrent updates to the same key serialize     *)
(* instead of clobbering each other": when only updates are called, all    *)
(* that have returned are visible in the row.  It holds unless the row has *)
(* expired or two callers of a racy driver find no row at the same time.   *)
UpdatesSerialize ==
  Operations = {"update"} /\ ~Expires =>
    \A a \in Callers : op[a].pc = "done" => row # Absent /\ a \in row

=============================================================================
