---------------------------- MODULE DriverProofs ----------------------------
(***************************************************************************)
(* What the drivers do in several statements: the updates of a row         *)
(* (DriverUpdate), the schema of a table (SchemaEvolution), and the pages  *)
(* of a query (Find), for any number of processes, calls, names, attempts  *)
(* and rows.                                                               *)
(***************************************************************************)
EXTENDS DriverUpdate, SchemaEvolution, Find, FiniteSetTheorems, SequenceTheorems,
        WellFoundedInduction, TLAPS

-----------------------------------------------------------------------------
(* Every driver keeps the promise of RowUpdate.                            *)

(* What a postgres transaction has read is there until it commits; who has *)
(* found an expired row replaces that very row.                            *)
PostgresHolds ==
  provider = "postgres" =>
    /\ \A a \in Callers :
         op[a].pc = "write" /\ op[a].read # Absent => locker = a /\ op[a].read = row
    /\ locker # Nobody => /\ op[locker].pc = "write"
                          /\ op[locker].read = Absent => expired

(* A mysql transaction that will write holds the row it has read, or the   *)
(* gap it has found.                                                       *)
MysqlHolds ==
  provider = "mysql" =>
    /\ gap # {} => row = Absent
    /\ \A a \in Callers : op[a].pc = "write" =>
         \/ locker = a /\ row # Absent /\ (op[a].read = row \/ (expired /\ op[a].read = Absent))
         \/ a \in gap /\ op[a].read = Absent

(* The inductive invariant.                                                *)
Inv == TypeOK /\ PostgresHolds /\ MysqlHolds

Steps(a) ==
  \/ SqliteUpdate(a) \/ PostgresSelect(a) \/ PostgresUpsert(a)
  \/ MysqlSelect(a) \/ MysqlInsert(a) \/ MysqlDeadlock(a)
  \/ MongoRead(a) \/ MongoWrite(a) \/ RedisGet(a) \/ RedisEval(a)
  \/ Set(a) \/ Delete(a) \/ Get(a) \/ Drop(a) \/ Fail(a)

-----------------------------------------------------------------------------
(* The types survive every step.                                           *)
LEMMA TypeStep == TypeOK /\ [Next]_vars => TypeOK'
<1> SUFFICES ASSUME TypeOK, [Next]_vars PROVE TypeOK'
  OBVIOUS
<1> USE DriverAssumption DEF TypeOK, Value, Op
<1>1. CASE UNCHANGED vars
  BY <1>1 DEF vars
<1>2. ASSUME NEW a \in Callers, Steps(a) PROVE TypeOK'
  <2>1. Live \in Value /\ \A v \in Value : Patched(a, v) \in Value /\ Patched(a, v) # Absent
    BY DEF Live, Patched
  <2>2. CASE SqliteUpdate(a)
    BY <2>1, <2>2 DEF SqliteUpdate, Begins, Ends, Stores
  <2>3. CASE PostgresSelect(a)
    BY <2>1, <2>3 DEF PostgresSelect, Begins, HasRead
  <2>4. CASE PostgresUpsert(a)
    BY <2>1, <2>4 DEF PostgresUpsert, Ends, Stores
  <2>5. CASE MysqlSelect(a)
    BY <2>1, <2>5 DEF MysqlSelect, Begins, HasRead
  <2>6. CASE MysqlInsert(a)
    BY <2>1, <2>6 DEF MysqlInsert, Ends, Stores
  <2>7. CASE MysqlDeadlock(a)
    BY <2>7 DEF MysqlDeadlock, Ends
  <2>8. CASE MongoRead(a)
    BY <2>1, <2>8 DEF MongoRead, Begins, HasRead
  <2>0. ASSUME NEW v \in Value, TriesAgain(a, v) PROVE TypeOK'
    <3>1. op[a].tries + 1 \in Nat
      OBVIOUS
    <3> QED
      BY <2>0, <3>1 DEF TriesAgain, Ends
  <2>9. CASE MongoWrite(a)
    <3>1. op[a].read \in Value
      OBVIOUS
    <3>2. CASE TriesAgain(a, Live)
      BY <2>0, <2>1, <3>2
    <3>3. CASE Stores(Patched(a, op[a].read)) /\ Ends(a, "done") /\ UNCHANGED <<provider, locker, gap>>
      BY <2>1, <3>1, <3>3 DEF Ends, Stores
    <3> QED
      BY <2>9, <3>2, <3>3 DEF MongoWrite
  <2>10. CASE RedisGet(a)
    BY <2>10 DEF RedisGet, Begins, HasRead
  <2>11. CASE RedisEval(a)
    <3>1. CASE TriesAgain(a, row)
      BY <2>0, <3>1
    <3>2. CASE Stores(Patched(a, row)) /\ Ends(a, "done") /\ UNCHANGED <<provider, locker, gap>>
      BY <2>1, <3>2 DEF Ends, Stores
    <3> QED
      BY <2>11, <3>1, <3>2 DEF RedisEval
  <2>12. CASE Set(a)
    BY <2>12 DEF Set, Begins, Ends, Stores
  <2>13. CASE Delete(a)
    BY <2>13 DEF Delete, Begins, Ends, Stores
  <2>14. CASE Get(a)
    BY <2>14 DEF Get, Begins, Ends
  <2>15. CASE Drop(a)
    BY <2>15 DEF Drop, Ends, Stores
  <2>16. CASE Fail(a)
    BY <2>16 DEF Fail, Ends
  <2> QED
    BY <1>2, <2>2, <2>3, <2>4, <2>5, <2>6, <2>7, <2>8, <2>9, <2>10, <2>11,
       <2>12, <2>13, <2>14, <2>15, <2>16 DEF Steps
<1>3. CASE Expire
  BY <1>3 DEF Expire, Stores
<1>4. CASE PurgeExpired
  BY <1>4 DEF PurgeExpired, Stores
<1> QED
  BY <1>1, <1>2, <1>3, <1>4 DEF Next, Steps

(* What the transactions hold survives every step.                         *)
LEMMA HeldStep == Inv /\ [Next]_vars => PostgresHolds' /\ MysqlHolds'
<1> SUFFICES ASSUME Inv, [Next]_vars PROVE PostgresHolds' /\ MysqlHolds'
  OBVIOUS
<1>0. TypeOK /\ PostgresHolds /\ MysqlHolds
  BY DEF Inv
<1> USE DriverAssumption DEF TypeOK, Value, Op
<1>1. CASE UNCHANGED vars
  BY <1>0, <1>1 DEF vars, PostgresHolds, MysqlHolds
<1>2. ASSUME NEW a \in Callers, Steps(a) PROVE PostgresHolds' /\ MysqlHolds'
  <2> USE <1>0 DEF PostgresHolds, MysqlHolds
  <2>1. ASSUME NEW v, TriesAgain(a, v), provider \in {"mongodb", "redis"}
        PROVE PostgresHolds' /\ MysqlHolds'
    BY <2>1 DEF TriesAgain
  <2>2. CASE SqliteUpdate(a)
    BY <2>2 DEF SqliteUpdate
  <2>3. CASE PostgresSelect(a)
    BY <2>3 DEF PostgresSelect, Begins, HasRead, Live
  <2>4. CASE PostgresUpsert(a)
    BY <2>4 DEF PostgresUpsert, Ends, Stores
  <2>5. CASE MysqlSelect(a)
    <3>1. CASE row # Absent /\ locker = Nobody /\ locker' = a /\ UNCHANGED gap
      <4>1. provider = "mysql" /\ gap = {}
        BY <2>5, <3>1 DEF MysqlSelect
      <4>2. \A b \in Callers : op[b].pc # "write"
        BY <3>1, <4>1
      <4>3. /\ op'[a].read = row \/ (expired /\ op'[a].read = Absent)
            /\ \A b \in Callers \ {a} : op'[b] = op[b]
            /\ UNCHANGED <<provider, row, expired>>
        BY <2>5 DEF MysqlSelect, HasRead, Live
      <4> QED
        BY <3>1, <4>1, <4>2, <4>3
    <3>2. CASE row = Absent /\ gap' = gap \cup {a} /\ UNCHANGED locker
      BY <2>5, <3>2 DEF MysqlSelect, Begins, HasRead, Live
    <3> QED
      BY <2>5, <3>1, <3>2 DEF MysqlSelect
  <2>6. CASE MysqlInsert(a)
    BY <2>6 DEF MysqlInsert, Ends, Stores
  <2>7. CASE MysqlDeadlock(a)
    BY <2>7 DEF MysqlDeadlock, Ends
  <2>8. CASE MongoRead(a)
    BY <2>8 DEF MongoRead
  <2>9. CASE MongoWrite(a)
    BY <2>1, <2>9 DEF MongoWrite
  <2>10. CASE RedisGet(a)
    BY <2>10 DEF RedisGet
  <2>11. CASE RedisEval(a)
    BY <2>1, <2>11 DEF RedisEval
  <2>12. CASE Set(a)
    BY <2>12 DEF Set, Begins, Ends, Stores
  <2>13. CASE Delete(a)
    BY <2>13 DEF Delete, Begins, Ends, Stores
  <2>14. CASE Get(a)
    BY <2>14 DEF Get, Begins, Ends
  <2>15. CASE Drop(a)
    BY <2>15 DEF Drop, Ends, Stores
  <2>16. CASE Fail(a)
    BY <2>16 DEF Fail, Ends
  <2> QED
    BY <1>2, <2>2, <2>3, <2>4, <2>5, <2>6, <2>7, <2>8, <2>9, <2>10, <2>11,
       <2>12, <2>13, <2>14, <2>15, <2>16 DEF Steps
<1>3. CASE Expire
  BY <1>0, <1>3 DEF Expire, Stores, PostgresHolds, MysqlHolds
<1>4. CASE PurgeExpired
  BY <1>0, <1>4 DEF PurgeExpired, Stores, PostgresHolds, MysqlHolds
<1> QED
  BY <1>1, <1>2, <1>3, <1>4 DEF Next, Steps

(* The invariant holds in every reachable state.                           *)
THEOREM DriverInvariance == Spec => []Inv
<1>1. ASSUME Init PROVE Inv
  <2>1. TypeOK
    BY <1>1, DriverAssumption DEF Init, TypeOK, Value, Op
  <2>2. \A a \in Callers : op[a].pc = "idle"
    BY <1>1 DEF Init
  <2> QED
    BY <1>1, <2>1, <2>2 DEF Init, Inv, PostgresHolds, MysqlHolds
<1>2. Inv /\ [Next]_vars => Inv'
  BY TypeStep, HeldStep DEF Inv
<1> QED
  BY <1>1, <1>2, PTL DEF Spec

(* The variables keep their types.                                         *)
THEOREM DriverTypes == Spec => []TypeOK
BY DriverInvariance, PTL DEF Inv

-----------------------------------------------------------------------------
(* A caller's step changes what RowUpdate sees of that caller, alone.      *)
LEMMA OneCaller ==
  ASSUME TypeOK, NEW a \in Callers, NEW r, op' = [op EXCEPT ![a] = r], UNCHANGED provider
  PROVE  /\ [b \in Callers |-> Seen(b)]' = [[b \in Callers |-> Seen(b)] EXCEPT ![a] = Seen(a)']
         /\ Anomalies' = Anomalies
<1>1. Racy' = Racy /\ Lazy' = Lazy
  BY DEF Racy, Lazy
<1>2. \A b \in Callers \ {a} : op'[b] = op[b]
  BY DEF TypeOK
<1>3. \A b \in Callers \ {a} : Seen(b)' = Seen(b)
  BY <1>1, <1>2 DEF Seen
<1> QED
  BY <1>1, <1>3 DEF Anomalies

(* A step of a caller is a step of RowUpdate, or none.                     *)
LEMMA CallerStep ==
  ASSUME Inv, NEW a \in Callers, Steps(a)
  PROVE  [Promised!Next]_(Promised!vars)
<1> DEFINE effect == [b \in Callers |-> Seen(b)]
<1> USE DEF Inv
<1>0. ASSUME NEW r, op' = [op EXCEPT ![a] = r], UNCHANGED provider
      PROVE  /\ effect' = [effect EXCEPT ![a] = Seen(a)'] /\ Anomalies' = Anomalies
             /\ op'[a] = r /\ effect[a] = Seen(a)
             /\ Seen(a)' = Seen(a) => UNCHANGED effect
  <2>1. effect' = [effect EXCEPT ![a] = Seen(a)'] /\ Anomalies' = Anomalies
    BY <1>0, OneCaller
  <2>2. op'[a] = r
    BY <1>0 DEF TypeOK
  <2> QED
    BY <2>1, <2>2
<1>1. ASSUME NEW result \in {"done", "failed", "drop"}, Ends(a, result), UNCHANGED provider
      PROVE  Promised!Returns(a, IF result = "drop" THEN "dropping" ELSE result)
  <2>1. /\ effect' = [effect EXCEPT ![a] = Seen(a)'] /\ Anomalies' = Anomalies
        /\ op'[a].pc = result
    BY <1>0, <1>1 DEF Ends
  <2>2. Seen(a)' = IF result = "drop" THEN "dropping" ELSE result
    BY <2>1 DEF Seen
  <2> QED
    BY <2>1, <2>2 DEF Promised!Returns
(* The write of a transaction: an update in one step, or an overwrite.     *)
<1>2. ASSUME op[a].pc = "write", Stores(Patched(a, op[a].read)), Ends(a, "done"),
             UNCHANGED provider,
             op[a].read \in {row, Live} \/ (Racy /\ op[a].read = Absent)
      PROVE  Promised!Next
  <2>1. Promised!Returns(a, "done") /\ effect[a] = Seen(a)
    BY <1>1, <1>2
  <2>2. CASE Racy /\ op[a].read = Absent
    <3>1. effect[a] = "fresh"
      BY <1>2, <2>1, <2>2 DEF Seen
    <3>2. Promised!Overwrite(a)
      BY <1>2, <2>1, <2>2, <3>1 DEF Promised!Overwrite, Promised!Patched, Stores, Patched
    <3> QED
      BY <3>2 DEF Promised!Next
  <2>3. CASE ~(Racy /\ op[a].read = Absent)
    <3>1. effect[a] = "idle" /\ op[a].read \in {row, Live}
      BY <1>2, <2>1, <2>3 DEF Seen
    <3>2. Promised!Update(a)
      BY <1>2, <2>1, <3>1
         DEF Promised!Update, Promised!Patched, Promised!Live, Stores, Patched, Live
    <3> QED
      BY <3>2 DEF Promised!Next
  <2> QED
    BY <2>2, <2>3
(* A read: a racy driver may find nothing; else nothing is to be seen.     *)
<1>3. ASSUME NEW v, NEW n, op' = [op EXCEPT ![a] = [pc |-> "write", read |-> v, tries |-> n]],
             op[a].pc = "idle" \/ (op[a].pc = "write" /\ (Racy => op[a].read # Absent)),
             (Racy /\ v = Absent) => Live = Absent, UNCHANGED <<provider, row, expired>>
      PROVE  [Promised!Next]_(Promised!vars)
  <2>1. /\ effect' = [effect EXCEPT ![a] = Seen(a)'] /\ Anomalies' = Anomalies
        /\ op'[a] = [pc |-> "write", read |-> v, tries |-> n] /\ effect[a] = Seen(a)
        /\ Seen(a)' = Seen(a) => UNCHANGED effect
    BY <1>0, <1>3
  <2>2. Seen(a) = "idle" /\ Racy' = Racy
    BY <1>3 DEF Seen, Racy
  <2>3. CASE Racy /\ v = Absent
    <3>1. Seen(a)' = "fresh" /\ "racy" \in Anomalies
      BY <2>1, <2>2, <2>3 DEF Seen, Anomalies
    <3>2. Promised!FindsNothing(a)
      BY <1>3, <2>1, <2>2, <2>3, <3>1
         DEF Promised!FindsNothing, Promised!Returns, Promised!Live, Live
    <3> QED
      BY <3>2 DEF Promised!Next
  <2>4. CASE ~(Racy /\ v = Absent)
    <3>1. Seen(a)' = "idle"
      BY <2>1, <2>2, <2>4 DEF Seen
    <3> QED
      BY <1>3, <2>1, <2>2, <3>1 DEF Promised!vars
  <2> QED
    BY <2>3, <2>4
<1>4. ASSUME NEW v, TriesAgain(a, v), op[a].pc = "write", Racy => op[a].read # Absent,
             (Racy /\ v = Absent) => Live = Absent
      PROVE  [Promised!Next]_(Promised!vars)
  <2>1. CASE op[a].tries + 1 < MaxAttempts
    BY <1>3, <1>4, <2>1 DEF TriesAgain
  <2>2. CASE ~(op[a].tries + 1 < MaxAttempts)
    <3>1. Ends(a, "failed") /\ UNCHANGED <<provider, row, expired>>
      BY <1>4, <2>2 DEF TriesAgain
    <3>2. Promised!Returns(a, "failed") /\ effect[a] = "idle"
      BY <1>1, <1>4, <3>1 DEF Seen
    <3>3. Promised!Fail(a)
      BY <3>1, <3>2 DEF Promised!Fail
    <3> QED
      BY <3>3 DEF Promised!Next
  <2> QED
    BY <2>1, <2>2
(* A statement: it is called and it has returned.                          *)
<1>5. ASSUME NEW what, Begins(a, what), Ends(a, "done"), UNCHANGED provider
      PROVE  Promised!Returns(a, "done") /\ effect[a] = "idle"
  BY <1>1, <1>5 DEF Begins, Seen
<1>6. CASE SqliteUpdate(a)
  <2>1. Promised!Update(a)
    BY <1>5, <1>6 DEF SqliteUpdate, Stores, Live, Patched,
       Promised!Update, Promised!Live, Promised!Patched
  <2> QED
    BY <2>1 DEF Promised!Next
<1>7. CASE PostgresSelect(a)
  <2>1. PICK v \in {Live, Absent} : HasRead(a, v) /\ (v = Absent => Live = Absent)
    BY <1>7 DEF PostgresSelect, PostgresHolds, Live
  <2> QED
    BY <1>3, <1>7, <2>1 DEF PostgresSelect, Begins, HasRead
<1>8. CASE PostgresUpsert(a)
  <2>1. op[a].read \in {row, Live} \/ (Racy /\ op[a].read = Absent)
    BY <1>8 DEF PostgresUpsert, PostgresHolds, Racy
  <2> QED
    BY <1>2, <1>8, <2>1 DEF PostgresUpsert
<1>9. CASE MysqlSelect(a)
  BY <1>3, <1>9 DEF MysqlSelect, Begins, HasRead, Racy
<1>10. CASE MysqlInsert(a)
  <2>1. op[a].read \in {row, Live}
    BY <1>10 DEF MysqlInsert, MysqlHolds, Live
  <2> QED
    BY <1>2, <1>10, <2>1 DEF MysqlInsert
<1>11. ASSUME Ends(a, "failed"), op[a].pc \in {"write", "drop"}, UNCHANGED <<provider, row, expired>>
       PROVE  Promised!Next
  <2>1. Promised!Returns(a, "failed") /\ effect[a] \in {"idle", "fresh", "dropping"}
    BY <1>1, <1>11 DEF Seen
  <2>2. Promised!Fail(a)
    BY <1>11, <2>1 DEF Promised!Fail
  <2> QED
    BY <2>2 DEF Promised!Next
<1>12. CASE MysqlDeadlock(a)
  BY <1>11, <1>12 DEF MysqlDeadlock
<1>13. CASE MongoRead(a)
  BY <1>3, <1>13 DEF MongoRead, Begins, HasRead
<1>14. CASE MongoWrite(a)
  <2>1. op[a].read = Absent => Racy
    BY <1>14 DEF MongoWrite, Racy
  <2> QED
    BY <1>2, <1>4, <1>14, <2>1 DEF MongoWrite
<1>15. CASE RedisGet(a)
  BY <1>3, <1>15 DEF RedisGet, Begins, HasRead, Racy
<1>16. CASE RedisEval(a)
  BY <1>2, <1>4, <1>16 DEF RedisEval, Racy
<1>17. CASE Set(a)
  <2>1. Promised!Set(a)
    BY <1>5, <1>17 DEF Set, Stores, Promised!Set
  <2> QED
    BY <2>1 DEF Promised!Next
<1>18. CASE Delete(a)
  <2>1. Promised!Delete(a)
    BY <1>5, <1>18 DEF Delete, Stores, Promised!Delete
  <2> QED
    BY <2>1 DEF Promised!Next
<1>19. CASE Get(a)
  <2>1. CASE Lazy /\ expired
    <3>1. Ends(a, "drop") /\ "lazy" \in Anomalies /\ effect[a] = "idle"
      BY <1>19, <2>1 DEF Get, Begins, Seen, Anomalies
    <3>2. Promised!FindsExpired(a)
      BY <1>1, <1>19, <2>1, <3>1 DEF Get, Promised!FindsExpired
    <3> QED
      BY <3>2 DEF Promised!Next
  <2>2. CASE ~(Lazy /\ expired)
    <3>1. Promised!Get(a)
      BY <1>5, <1>19, <2>2 DEF Get, Promised!Get
    <3> QED
      BY <3>1 DEF Promised!Next
  <2> QED
    BY <2>1, <2>2
<1>20. CASE Drop(a)
  <2>1. Promised!Drop(a)
    BY <1>1, <1>20 DEF Drop, Stores, Seen, Promised!Drop
  <2> QED
    BY <2>1 DEF Promised!Next
<1>21. CASE Fail(a)
  BY <1>11, <1>21 DEF Fail
<1> QED
  BY <1>6, <1>7, <1>8, <1>9, <1>10, <1>12, <1>13, <1>14, <1>15, <1>16, <1>17,
     <1>18, <1>19, <1>20, <1>21 DEF Steps

(* Every driver implements RowUpdate: updates of a row that is there       *)
(* serialise with all other writes, and the anomalies of a driver are at   *)
(* most those that RowUpdate names.                                        *)
THEOREM DriversKeepPromise == Spec => KeepsPromise
<1>1. ASSUME Init PROVE Promised!Init
  <2>1. Anomalies \in SUBSET {"racy", "lazy"}
    BY DEF Anomalies
  <2>2. [b \in Callers |-> Seen(b)] = [b \in Callers |-> "idle"]
    BY <1>1 DEF Init, Seen
  <2> QED
    BY <1>1, <2>1, <2>2 DEF Init, Promised!Init
<1>2. ASSUME Inv, [Next]_vars PROVE [Promised!Next]_(Promised!vars)
  <2>0. ASSUME UNCHANGED <<provider, op>>
        PROVE  UNCHANGED <<Anomalies, [b \in Callers |-> Seen(b)]>>
    BY <2>0 DEF Anomalies, Racy, Lazy, Seen
  <2>1. CASE UNCHANGED vars
    BY <2>0, <2>1 DEF vars, Promised!vars
  <2>2. ASSUME NEW a \in Callers, Steps(a) PROVE [Promised!Next]_(Promised!vars)
    BY <1>2, <2>2, CallerStep
  <2>3. CASE Expire
    BY <2>0, <2>3 DEF Expire, Stores, Promised!Next, Promised!Expire
  <2>4. CASE PurgeExpired
    BY <1>2, <2>0, <2>4 DEF PurgeExpired, Stores, Inv, TypeOK, Promised!Next, Promised!Expire
  <2> QED
    BY <1>2, <2>1, <2>2, <2>3, <2>4 DEF Next, Steps
<1> QED
  BY <1>1, <1>2, DriverInvariance, PTL DEF Spec, KeepsPromise, Promised!Spec

-----------------------------------------------------------------------------
(* What is asked of the database: the settings the theorems are about.     *)

(* The schemas that some process can open the table with first.            *)
Declared == {s \in {setting.declares[p] : p \in Processes} \ {None} : validateTableSchema(s)}

Adds(c, n)    == Asked(c).op = "addKey" /\ Asked(c).name = n
AsksIndex(c)  == Asked(c).def.index # None
Mark(c)       == [on |-> Asked(c).name, unique |-> Asked(c).def.index]

TypesOf(n) == {s.keys[n].type : s \in {t \in Declared : t.keys[n] # None}}
                \cup {Asked(c).def.type : c \in {d \in Changes : Adds(d, n)}}

OneDeclaration == \A s, t \in Declared : s = t

(* A column is of one type, or a second statement that adds it is refused. *)
OneType == \/ Evolves.columnTwice = "fails"
           \/ \A n \in Names : \A x, y \in TypesOf(n) : x = y

(* Who drops the table is the only one to open it, and nothing interrupts  *)
(* the drop.                                                               *)
MayOpen(p) == setting.declares[p] \in Declared \cup {None}
DropsAlone ==
  setting.drops => setting.faults = 0 /\ \A p, q \in Processes : MayOpen(p) /\ MayOpen(q) => p = q

Orderly == OneDeclaration /\ DropsAlone

(* One process alters the table, one call at a time, and the registry is   *)
(* there to be written.                                                    *)
OneAtATime ==
  /\ \A c, d \in Changes : Home(c) = Home(d)
  /\ Evolves.alone \/ setting.awaits
  /\ ~setting.registerFails

(* Indexes that are asked for are new, and those of one name are alike     *)
(* where an index of the name is taken for the one asked for.              *)
NewIndexes ==
  \A c \in Changes : AsksIndex(c) =>
    /\ \A s \in Declared : \A i \in Wanted(s) : i.on # Asked(c).name
    /\ Evolves.indexTwice = "ignored" =>
         \A d \in Changes : AsksIndex(d) /\ Asked(d).name = Asked(c).name => Mark(d) = Mark(c)

-----------------------------------------------------------------------------
Handle ==
  {h \in [pc : {"closed", "plain", "create", "register", "index", "open", "dropping"},
          schema : Schema \cup {None}, todo : SUBSET Index] :
     h.pc \in {"create", "register", "index", "open"} => h.schema # None}

Change ==
  {e \in [pc : {"idle", "refused", "answered"} \cup Underway, evolved : Schema \cup {None}] :
     e.pc \in Underway => e.evolved # None}

SchemaTypeOK ==
  /\ setting \in Settings
  /\ registry \in Schema \cup {None} /\ columns \in Columns \cup {None}
  /\ indexes \in [Names -> Uniqueness \cup {None}]
  /\ handle \in [Processes -> Handle] /\ evolution \in [Changes -> Change]
  /\ faults \in Nat

(* The column of a key is there, and of the type of the key.               *)
HasColumn(s, n) ==
  s.keys[n] # None => columns[n] # None /\ (OneType => columns[n].type = s.keys[n].type)

Served(s) == Opens.createsTable => columns # None /\ \A n \in Names : HasColumn(s, n)

Dropping == \E p \in Processes : handle[p].pc = "dropping"

(* A handle on its way to open has a declared schema, of which it makes    *)
(* the indexes; from the table on, the schema is served.                   *)
HandleSound(p) ==
  /\ handle[p].pc \in {"create", "register", "index"} =>
       handle[p].schema \in Declared /\ handle[p].todo \subseteq Wanted(handle[p].schema)
  /\ handle[p].pc \in {"register", "index", "open"} => Served(handle[p].schema)
  /\ handle[p].pc \in {"index", "open"} => registry # None
  /\ handle[p].pc = "dropping" => setting.drops
  /\ handle[p].pc # "closed" => MayOpen(p)

TableSound ==
  /\ registry # None /\ ~Dropping => Served(registry)
  /\ columns # None => /\ \A s \in Declared : Served(s)
                       /\ \A n \in Names : columns[n] # None => columns[n].type \in TypesOf(n)

ChangeSound(c) ==
  LET e == evolution[c].evolved
      a == Asked(c) IN
  /\ evolution[c].pc \in Underway => handle[Home(c)].pc = "open"
  /\ evolution[c].pc = "alter" =>
       /\ a.op = "addKey" /\ e.keys[a.name] = a.def
       /\ Opens.createsTable => columns # None /\ \A n \in Names \ {a.name} : HasColumn(e, n)
  /\ evolution[c].pc = "index" => AsksIndex(c)
  /\ evolution[c].pc \in {"index", "register"} => Served(e)

ServedInv ==
  /\ \A p \in Processes : HandleSound(p)
  /\ TableSound
  /\ \A c \in Changes : ChangeSound(c)

-----------------------------------------------------------------------------
(* e is s with what c asks for.                                            *)
Extends(e, s, c) ==
  LET a == Asked(c) IN
  /\ e.keys = IF a.op = "addKey" THEN [s.keys EXCEPT ![a.name] = a.def] ELSE s.keys
  /\ e.indexes = IF AsksIndex(c) THEN s.indexes \cup {Mark(c)} ELSE s.indexes
  /\ s.keys[a.name] = None \/ s.keys[a.name] = e.keys[a.name]
  /\ e.keys[a.name] # None

Alone ==
  \A c, d \in Changes : evolution[c].pc \in Underway /\ evolution[d].pc \in Underway => c = d

(* The handle of the process that alters the table is the registry, or one *)
(* call ahead of it.                                                       *)
Current(p) ==
  /\ handle[p].pc \in {"create", "register", "index"} => registry \in Declared \cup {None}
  /\ handle[p].pc = "open" /\ (\A c \in Changes : evolution[c].pc # "register")
       => handle[p].schema = registry

AheadByOne(c) ==
  /\ evolution[c].pc \in Underway => Extends(evolution[c].evolved, registry, c)
  /\ evolution[c].pc = "register" =>
       /\ handle[Home(c)].schema = evolution[c].evolved
       /\ AsksIndex(c) => indexes[Asked(c).name] = Asked(c).def.index

(* The indexes that calls ask for are built when the registry lists them,  *)
(* and listed with their keys.                                             *)
IndexSound(c) ==
  AsksIndex(c) =>
    LET n == Asked(c).name IN
    /\ registry # None /\ ~Dropping =>
         /\ \A u \in Uniqueness : [on |-> n, unique |-> u] \in registry.indexes => indexes[n] = u
         /\ registry.keys[n] # None /\ registry.keys[n].index # None
              => [on |-> n, unique |-> registry.keys[n].index] \in registry.indexes
    /\ Evolves.indexTwice = "ignored" => indexes[n] \in {None, Asked(c).def.index}

Remembered(c) ==
  LET a == Asked(c) IN
  /\ registry # None
  /\ registry.keys[a.name] # None
  /\ a.op = "addKey" => registry.keys[a.name] = a.def
  /\ AsksIndex(c) => Mark(c) \in registry.indexes /\ indexes[a.name] = a.def.index
  /\ Opens.createsTable => columns # None /\ columns[a.name] # None

KeptInv ==
  /\ Alone
  /\ \A c \in Changes :
       /\ Current(Home(c)) /\ AheadByOne(c) /\ IndexSound(c)
       /\ evolution[c].pc = "answered" => Remembered(c) /\ ~Dropping

Lasting == Orderly /\ OneAtATime /\ NewIndexes

(* What is asked for, as the assumption has it.                            *)
LEMMA SettingTypes ==
  ASSUME setting \in Settings
  PROVE  /\ setting.declares \in [Processes -> Schema \cup {None}]
         /\ setting.faults \in Nat
         /\ \A c \in Changes : /\ Home(c) \in Processes
                               /\ Asked(c) \in Request
                               /\ Asked(c).op \in {"addKey", "addIndex"} /\ Asked(c).name \in Names
                               /\ Asked(c).def \in Definition
                               /\ Asked(c).def.index \in Uniqueness \cup {None}
                               /\ Asked(c).op = "addIndex" => AsksIndex(c)
                               /\ AsksIndex(c) => Mark(c) \in Index
         /\ Declared \subseteq Schema
<1>1. /\ setting.declares \in [Processes -> Schema \cup {None}]
      /\ setting.faults \in Nat
      /\ setting.home \in [Changes -> Processes] /\ setting.asks \in [Changes -> Request]
  BY SchemaAssumption
<1>2. Declared \subseteq Schema
  BY <1>1 DEF Declared
<1>3. ASSUME NEW c \in Changes
      PROVE  /\ Home(c) \in Processes
             /\ Asked(c) \in Request
             /\ Asked(c).op \in {"addKey", "addIndex"} /\ Asked(c).name \in Names
             /\ Asked(c).def \in Definition
             /\ Asked(c).def.index \in Uniqueness \cup {None}
             /\ Asked(c).op = "addIndex" => AsksIndex(c)
             /\ AsksIndex(c) => Mark(c) \in Index
  <2>1. Home(c) \in Processes /\ Asked(c) \in Request
    BY <1>1 DEF Home, Asked
  <2>2. Asked(c).op \in {"addKey", "addIndex"} /\ Asked(c).name \in Names /\ Asked(c).def \in Definition
        /\ (Asked(c).op = "addIndex" => AsksIndex(c))
    BY <2>1 DEF Request, AsksIndex
  <2>3. Asked(c).def.index \in Uniqueness \cup {None}
    BY <2>2 DEF Definition
  <2>4. AsksIndex(c) => Mark(c) \in Index
    BY <2>2, <2>3 DEF AsksIndex, Mark, Index
  <2> QED BY <2>1, <2>2, <2>3, <2>4
<1> QED BY <1>1, <1>2, <1>3

(* Adding a key or an index gives a schema, or None.                       *)
LEMMA AddKeyType ==
  ASSUME NEW s \in Schema, NEW n \in Names, NEW d \in Definition
  PROVE  evolveSchemaAddKey(s, n, d) \in Schema \cup {None}
<1>1. d.index # None => [on |-> n, unique |-> d.index] \in Index
  BY DEF Definition, Index
<1>2. [s.keys EXCEPT ![n] = d] \in Columns
  BY DEF Schema, Columns
<1>3. s.indexes \cup {[on |-> n, unique |-> d.index]} \subseteq Index \/ d.index = None
  BY <1>1 DEF Schema
<1>4. s.version + 1 \in Nat
  BY DEF Schema
<1>5. [s EXCEPT !.keys[n] = d,
                !.indexes = IF d.index = None THEN @ ELSE @ \cup {[on |-> n, unique |-> d.index]},
                !.version = @ + 1] \in Schema
  BY <1>2, <1>3, <1>4 DEF Schema
<1> QED BY <1>5 DEF evolveSchemaAddKey

LEMMA AddIndexType ==
  ASSUME NEW s \in Schema, NEW i \in Index
  PROVE  evolveSchemaAddIndex(s, i) \in Schema \cup {None}
<1>1. s.version + 1 \in Nat /\ s.indexes \cup {i} \subseteq Index
  BY DEF Schema
<1>2. [s EXCEPT !.indexes = @ \cup {i}, !.version = @ + 1] \in Schema
  BY <1>1 DEF Schema
<1> QED BY <1>2 DEF evolveSchemaAddIndex

LEMMA WantedType ==
  ASSUME NEW s \in Schema
  PROVE  Wanted(s) \subseteq Index
<1>1. ASSUME NEW n \in Names, s.keys[n] # None, s.keys[n].index # None
      PROVE  [on |-> n, unique |-> s.keys[n].index] \in Index
  <2>1. s.keys[n] \in Definition
    BY <1>1 DEF Schema, Columns
  <2> QED BY <1>1, <2>1 DEF Definition, Index
<1> QED BY <1>1 DEF Wanted, Schema

(* What a call makes of the schema of its handle.                          *)
LEMMA EvolvedType ==
  ASSUME SchemaTypeOK, NEW c \in Changes, handle[Home(c)].schema # None
  PROVE  Evolved(c) \in Schema \cup {None}
<1>1. Home(c) \in Processes /\ Asked(c).op \in {"addKey", "addIndex"} /\ Asked(c).name \in Names
      /\ Asked(c).def \in Definition /\ (Asked(c).op = "addIndex" => AsksIndex(c))
      /\ (AsksIndex(c) => Mark(c) \in Index)
  BY SettingTypes DEF SchemaTypeOK
<1>2. handle[Home(c)].schema \in Schema
  BY <1>1 DEF SchemaTypeOK, Handle
<1>3. CASE Asked(c).op = "addKey"
  BY <1>1, <1>2, <1>3, AddKeyType DEF Evolved
<1>4. CASE Asked(c).op = "addIndex"
  BY <1>1, <1>2, <1>4, AddIndexType DEF Evolved, Mark
<1> QED BY <1>1, <1>3, <1>4

-----------------------------------------------------------------------------
(* The parts of SchemaNext.                                                *)
ProcessSteps(p) ==
  \/ OpenReads(p) \/ OpenCreates(p) \/ OpenRegisters(p) \/ OpenIndexes(p)
  \/ OpenFails(p) \/ Crash(p) \/ Drops(p) \/ Unregisters(p)

ChangeSteps(c) ==
  CallStarts(c) \/ Alters(c) \/ Indexes(c) \/ Registers(c) \/ CallFails(c)

(* No step changes what is asked.                                          *)
LEMMA SettingStays == [SchemaNext]_schema => setting' = setting
BY DEF SchemaNext, schema, OpenReads, OpenCreates, OpenRegisters, OpenIndexes, OpenFails, Crash, Drops,
       Unregisters, CallStarts, Alters, Indexes, Registers, CallFails

(* The types survive every step.                                           *)
LEMMA SchemaTypeStep == SchemaTypeOK /\ [SchemaNext]_schema => SchemaTypeOK'
<1> SUFFICES ASSUME SchemaTypeOK, [SchemaNext]_schema PROVE SchemaTypeOK'
  OBVIOUS
<1>0. setting' = setting
  BY SettingStays
<1>1. CASE UNCHANGED schema
  BY <1>1 DEF schema, SchemaTypeOK
<1>2. ASSUME NEW p \in Processes, ProcessSteps(p) PROVE SchemaTypeOK'
  <2>1. CASE OpenReads(p)
    <3> DEFINE declared == setting.declares[p]
               resolved == IF declared # None THEN declared ELSE registry
               new == [schema |-> resolved, todo |-> IF resolved = None THEN {} ELSE Wanted(resolved),
                       pc |-> IF resolved = None THEN "plain"
                              ELSE IF registry # None THEN "open"
                              ELSE IF Opens.createsTable THEN "create" ELSE "register"]
    <3>1. resolved \in Schema \cup {None}
      BY SettingTypes DEF SchemaTypeOK
    <3>2. (IF resolved = None THEN {} ELSE Wanted(resolved)) \subseteq Index
      BY <3>1, WantedType
    <3> HIDE DEF resolved
    <3>3. new \in Handle
      BY <3>1, <3>2 DEF Handle
    <3>4. handle' = [handle EXCEPT ![p] = new]
      BY <2>1 DEF OpenReads, new, resolved, declared
    <3> HIDE DEF new
    <3>5. handle' \in [Processes -> Handle]
      BY <3>3, <3>4 DEF SchemaTypeOK
    <3> QED BY <2>1, <3>5, <1>0 DEF SchemaTypeOK, OpenReads
  <2>2. CASE OpenCreates(p)
    <3>1. handle[p] \in Handle /\ handle[p].pc = "create"
      BY <2>2 DEF OpenCreates, SchemaTypeOK
    <3>2. handle[p].schema.keys \in Columns
      BY <3>1 DEF Handle, Schema
    <3>3. [handle[p] EXCEPT !.pc = "register"] \in Handle
      BY <3>1 DEF Handle
    <3> QED BY <2>2, <3>2, <3>3, <1>0 DEF SchemaTypeOK, OpenCreates
  <2>3. CASE OpenRegisters(p)
    <3>1. handle[p] \in Handle /\ handle[p].pc = "register"
      BY <2>3 DEF OpenRegisters, SchemaTypeOK
    <3>2. handle[p].schema \in Schema /\ [handle[p] EXCEPT !.pc = "index"] \in Handle /\ Closed \in Handle
      BY <3>1 DEF Handle, Closed
    <3> QED BY <2>3, <3>2, <1>0 DEF SchemaTypeOK, OpenRegisters
  <2>4. CASE OpenIndexes(p)
    <3>1. handle[p] \in Handle /\ handle[p].pc = "index"
      BY <2>4 DEF OpenIndexes, SchemaTypeOK
    <3>2. [handle[p] EXCEPT !.pc = "open"] \in Handle /\ Closed \in Handle
      BY <3>1 DEF Handle, Closed
    <3>3. ASSUME NEW i \in handle[p].todo
          PROVE  [handle[p] EXCEPT !.todo = @ \ {i}] \in Handle /\ i \in Index /\ i.on \in Names
                 /\ i.unique \in Uniqueness
      BY <3>1 DEF Handle, Index
    <3> QED BY <2>4, <3>2, <3>3, <1>0 DEF SchemaTypeOK, OpenIndexes
  <2>5. CASE OpenFails(p)
    BY <2>5, <1>0 DEF SchemaTypeOK, OpenFails, Handle, Closed
  <2>6. CASE Crash(p)
    BY <2>6, <1>0 DEF SchemaTypeOK, Crash, Handle, Closed, Change, Idle, Underway
  <2>7. CASE Drops(p)
    BY <2>7, <1>0 DEF SchemaTypeOK, Drops, Handle, Closed, Change, Idle, Underway
  <2>8. CASE Unregisters(p)
    BY <2>8, <1>0 DEF SchemaTypeOK, Unregisters, Handle, Closed
  <2> QED BY <1>2, <2>1, <2>2, <2>3, <2>4, <2>5, <2>6, <2>7, <2>8 DEF ProcessSteps
<1>3. ASSUME NEW c \in Changes, ChangeSteps(c) PROVE SchemaTypeOK'
  <2>0. /\ Home(c) \in Processes /\ Asked(c).name \in Names /\ Asked(c).def \in Definition
        /\ Asked(c).def.index \in Uniqueness \cup {None}
        /\ handle[Home(c)] \in Handle /\ evolution[c] \in Change
    BY SettingTypes DEF SchemaTypeOK
  <2>1. [Idle EXCEPT !.pc = "refused"] \in Change /\ [Idle EXCEPT !.pc = "answered"] \in Change
    BY DEF Idle, Change, Underway
  <2>2. CASE CallStarts(c)
    <3>1. Evolved(c) \in Schema \cup {None}
      BY <2>0, <2>2, EvolvedType DEF CallStarts, Handle
    <3>2. Evolved(c) # None => \A pc \in {"alter", "index"} : [evolved |-> Evolved(c), pc |-> pc] \in Change
      BY <3>1 DEF Change, Underway
    <3>3. evolution' \in [Changes -> Change]
      BY <2>2, <2>1, <3>1, <3>2 DEF CallStarts, Settles, SchemaTypeOK
    <3> QED BY <2>2, <3>3, <1>0 DEF SchemaTypeOK, CallStarts
  <2>3. ASSUME evolution[c].pc \in Underway, Adopts(c)
        PROVE  handle' \in [Processes -> Handle] /\ evolution' \in [Changes -> Change]
    <3>1. evolution[c].evolved \in Schema
      BY <2>0, <2>3 DEF Change
    <3>2. [evolution[c] EXCEPT !.pc = "register"] \in Change
          /\ [handle[Home(c)] EXCEPT !.schema = evolution[c].evolved] \in Handle
      BY <2>0, <3>1, SchemaAssumption DEF Change, Handle, Underway
    <3> QED BY <2>0, <2>3, <3>2 DEF Adopts, SchemaTypeOK
  <2>4. CASE Alters(c)
    <3>1. columns' \in Columns \cup {None}
      BY <2>0, <2>4 DEF Alters, SchemaTypeOK, Columns
    <3>2. [evolution[c] EXCEPT !.pc = "index"] \in Change
      BY <2>0, <2>4 DEF Change, Underway, Alters
    <3>3. handle' \in [Processes -> Handle] /\ evolution' \in [Changes -> Change]
      BY <2>0, <2>1, <2>3, <2>4, <3>2 DEF Alters, Settles, SchemaTypeOK, Underway
    <3> QED BY <2>4, <3>1, <3>3, <1>0 DEF SchemaTypeOK, Alters
  <2>5. CASE Indexes(c)
    <3>1. evolution[c].pc \in Underway
      BY <2>5 DEF Indexes, Underway
    <3>2. CASE Settles(c, "refused") /\ UNCHANGED <<indexes, handle>>
      BY <2>1, <2>5, <3>2, <1>0 DEF Indexes, Settles, SchemaTypeOK
    <3>3. CASE /\ indexes' = [indexes EXCEPT ![Asked(c).name] =
                               IF @ = None THEN Asked(c).def.index ELSE @]
               /\ Adopts(c)
      BY <2>0, <2>3, <2>5, <3>1, <3>3, <1>0 DEF Indexes, SchemaTypeOK
    <3> QED BY <2>5, <3>2, <3>3 DEF Indexes
  <2>6. CASE Registers(c)
    <3>1. evolution[c].evolved \in Schema
      BY <2>0, <2>6 DEF Registers, Change, Underway
    <3> QED BY <2>1, <2>6, <3>1, <1>0 DEF SchemaTypeOK, Registers, Settles
  <2>7. CASE CallFails(c)
    BY <2>1, <2>7, <1>0 DEF SchemaTypeOK, CallFails, Settles
  <2> QED BY <1>3, <2>2, <2>4, <2>5, <2>6, <2>7 DEF ChangeSteps
<1> QED BY <1>1, <1>2, <1>3 DEF SchemaNext, ProcessSteps, ChangeSteps

-----------------------------------------------------------------------------
(* Every open handle is served.                                            *)

(* What depends on the setting alone stays.                                *)
LEMMA SettingFixed ==
  ASSUME setting' = setting
  PROVE  /\ Declared' = Declared /\ Opens' = Opens /\ Evolves' = Evolves
         /\ OneType' = OneType
         /\ \A n \in Names : TypesOf(n)' = TypesOf(n)
         /\ \A p \in Processes : MayOpen(p)' = MayOpen(p)
         /\ \A c \in Changes : Asked(c)' = Asked(c) /\ Home(c)' = Home(c)
BY DEF Declared, Opens, Evolves, OneType, TypesOf, MayOpen, Asked, Home, Adds

(* Columns that are there stay as they are.                                *)
Grown ==
  columns # None => columns' # None /\ \A n \in Names : columns[n] # None => columns'[n] = columns[n]

(* A schema that is served stays so as the table grows.                    *)
LEMMA ServedKept ==
  ASSUME NEW s, setting' = setting, Grown, Served(s)
  PROVE  Served(s)'
BY SettingFixed DEF Served, HasColumn, Grown

LEMMA SameColumns == columns' = columns => Grown
BY DEF Grown

(* What is sound stays so in a step that does not touch it.                *)
LEMMA HandleKept ==
  ASSUME NEW p \in Processes, HandleSound(p), setting' = setting, Grown, handle'[p] = handle[p],
         registry # None => registry' # None
  PROVE  HandleSound(p)'
<1>1. Declared' = Declared /\ MayOpen(p)' = MayOpen(p)
  BY SettingFixed
<1>2. handle[p].pc \in {"register", "index", "open"} => Served(handle[p].schema)'
  BY ServedKept DEF HandleSound
<1> QED BY <1>1, <1>2 DEF HandleSound, Wanted

LEMMA ChangeKept ==
  ASSUME NEW c \in Changes, ChangeSound(c), setting' = setting, Grown, evolution'[c] = evolution[c],
         evolution[c].pc \in Underway => handle'[Home(c)].pc = handle[Home(c)].pc
  PROVE  ChangeSound(c)'
<1>1. /\ Asked(c)' = Asked(c) /\ Home(c)' = Home(c) /\ Opens' = Opens /\ OneType' = OneType
      /\ AsksIndex(c)' = AsksIndex(c)
  BY SettingFixed DEF AsksIndex
<1>2. evolution[c].pc \in {"index", "register"} => Served(evolution[c].evolved)'
  BY ServedKept DEF ChangeSound
<1>3. ASSUME evolution[c].pc = "alter", Opens.createsTable
      PROVE  columns' # None
             /\ \A n \in Names \ {Asked(c).name} : HasColumn(evolution[c].evolved, n)'
  BY <1>1, <1>3 DEF ChangeSound, HasColumn, Grown
<1> QED BY <1>1, <1>2, <1>3 DEF ChangeSound

LEMMA TableKept ==
  ASSUME TableSound, setting' = setting, columns' = columns, registry' = registry,
         Dropping => Dropping'
  PROVE  TableSound'
<1>1. \A s : Served(s) => Served(s)'
  BY ServedKept, SameColumns
<1>2. Served(registry) => Served(registry)'
  BY <1>1
<1> QED BY <1>1, <1>2, SettingFixed DEF TableSound

(* Where the table is dropped, one process has it at most.                 *)
LEMMA OneOpener ==
  ASSUME Orderly, setting.drops, NEW p \in Processes, NEW q \in Processes,
         HandleSound(q), handle[q].pc # "closed", MayOpen(p)
  PROVE  p = q
BY DEF Orderly, DropsAlone, HandleSound

(* While somebody has the table otherwise, nobody drops it.                *)
LEMMA NobodyDrops ==
  ASSUME Orderly, NEW p \in Processes, MayOpen(p), handle[p].pc # "dropping",
         \A q \in Processes : HandleSound(q)
  PROVE  ~Dropping
<1> SUFFICES ASSUME NEW q \in Processes, handle[q].pc = "dropping" PROVE FALSE
  BY DEF Dropping
<1>1. setting.drops
  BY DEF HandleSound
<1> QED BY <1>1, OneOpener

(* Nothing fails where the table is dropped.                               *)
LEMMA NoFaultDrops ==
  ASSUME Orderly, SchemaTypeOK, faults < setting.faults, \A q \in Processes : HandleSound(q)
  PROVE  ~Dropping /\ ~setting.drops
<1>1. ~setting.drops
  BY SettingTypes DEF Orderly, DropsAlone, SchemaTypeOK
<1> QED BY <1>1 DEF Dropping, HandleSound

-----------------------------------------------------------------------------
(* The first invariant, action by action: every schema that is in use, or  *)
(* was declared, or is in the registry, is served.                         *)
LEMMA ServedInit == SchemaInit => SchemaTypeOK /\ ServedInv
<1> SUFFICES ASSUME SchemaInit PROVE SchemaTypeOK /\ ServedInv
  OBVIOUS
<1>1. SchemaTypeOK
  BY DEF SchemaInit, SchemaTypeOK, Handle, Change, Closed, Idle, Underway
<1>2. ServedInv
  BY DEF SchemaInit, ServedInv, HandleSound, TableSound, ChangeSound, Closed, Idle, Underway
<1> QED BY <1>1, <1>2

LEMMA ServedOpenReads ==
  ASSUME SchemaTypeOK, Orderly, ServedInv, NEW p \in Processes, OpenReads(p)
  PROVE  ServedInv'
<1> DEFINE declared == setting.declares[p]
           resolved == IF declared # None THEN declared ELSE registry
<1>1. /\ setting' = setting /\ columns' = columns /\ registry' = registry /\ evolution' = evolution
      /\ handle[p].pc = "closed" /\ Grown
  BY SameColumns DEF OpenReads
<1>2. \A q \in Processes \ {p} : handle'[q] = handle[q]
  BY DEF OpenReads, SchemaTypeOK
<1>3. declared # None => declared \in Declared
  BY DEF OpenReads, Declared
<1>4. MayOpen(p) /\ ~Dropping
  BY <1>1, <1>3, NobodyDrops DEF MayOpen, ServedInv
<1>5. handle'[p] = [schema |-> resolved, todo |-> IF resolved = None THEN {} ELSE Wanted(resolved),
                    pc |-> IF resolved = None THEN "plain"
                           ELSE IF registry # None THEN "open"
                           ELSE IF Opens.createsTable THEN "create" ELSE "register"]
  BY DEF OpenReads, SchemaTypeOK
<1>6. registry # None => resolved = registry /\ Served(registry)
  BY <1>4 DEF OpenReads, ServedInv, TableSound
<1>7. registry = None /\ resolved # None => resolved \in Declared
  BY <1>3
<1>8. HandleSound(p)'
  <2>1. CASE resolved = None
    BY <1>4, <1>5, <2>1, <1>1, SettingFixed DEF HandleSound
  <2>2. CASE resolved # None /\ registry # None
    <3>1. Served(registry)'
      BY <1>1, <1>6, <2>2, ServedKept
    <3> QED BY <1>4, <1>5, <1>6, <2>2, <3>1, <1>1, SettingFixed DEF HandleSound
  <2>3. CASE resolved # None /\ registry = None
    <3>2. Declared' = Declared /\ MayOpen(p)' = MayOpen(p)
      BY <1>1, SettingFixed
    <3>3. /\ handle'[p].schema = resolved /\ handle'[p].todo = Wanted(resolved)
          /\ handle'[p].pc \in {"create", "register"}
          /\ handle'[p].pc = "register" => ~Opens.createsTable
      BY <1>5, <2>3
    <3> HIDE DEF resolved
    <3> QED BY <1>1, <1>4, <1>7, <2>3, <3>2, <3>3, SettingFixed DEF HandleSound, Wanted, Served
  <2> QED BY <2>1, <2>2, <2>3
<1>9. \A q \in Processes : HandleSound(q)'
  BY <1>1, <1>2, <1>8, HandleKept DEF ServedInv
<1>10. TableSound'
  BY <1>1, <1>4, TableKept DEF ServedInv
<1>11. \A c \in Changes : ChangeSound(c)'
  <2> TAKE c \in Changes
  <2>1. Home(c) \in Processes
    BY SettingTypes DEF SchemaTypeOK
  <2>2. evolution[c].pc \in Underway => Home(c) # p
    BY <1>1 DEF ServedInv, ChangeSound
  <2> QED BY <1>1, <1>2, <2>1, <2>2, ChangeKept DEF ServedInv
<1> QED BY <1>9, <1>10, <1>11 DEF ServedInv

LEMMA ServedOpenCreates ==
  ASSUME SchemaTypeOK, Orderly, ServedInv, NEW p \in Processes, OpenCreates(p)
  PROVE  ServedInv'
<1>0. PICK s : s = handle[p].schema
  OBVIOUS
<1>1. /\ setting' = setting /\ registry' = registry /\ evolution' = evolution
      /\ handle[p].pc = "create"
      /\ columns' = IF columns = None THEN s.keys ELSE columns
  BY <1>0 DEF OpenCreates
<1>2. /\ \A q \in Processes \ {p} : handle'[q] = handle[q]
      /\ handle'[p] = [handle[p] EXCEPT !.pc = "register"]
  BY DEF OpenCreates, SchemaTypeOK
<1>3. s \in Schema /\ s \in Declared /\ s.keys # None /\ handle[p] \in Handle
  <2>1. handle[p] \in Handle /\ s \in Declared
    BY <1>0, <1>1 DEF SchemaTypeOK, ServedInv, HandleSound
  <2>2. s \in Schema
    BY <1>0, <1>1, <2>1 DEF Handle
  <2> QED BY <2>1, <2>2, SchemaAssumption DEF Schema
<1>4. Grown /\ columns' # None
  BY <1>1, <1>3 DEF Grown
<1>5. Served(s)'
  <2>1. CASE columns = None
    BY <1>1, <1>3, <2>1 DEF Served, HasColumn
  <2>2. CASE columns # None
    BY <1>1, <1>3, <1>4, <2>2, ServedKept DEF ServedInv, TableSound
  <2> QED BY <2>1, <2>2
<1>6. HandleSound(p)'
  <2>1. /\ handle'[p].pc = "register" /\ handle'[p].schema = s /\ handle'[p].todo = handle[p].todo
    BY <1>0, <1>2, <1>3 DEF Handle
  <2>2. MayOpen(p) /\ handle[p].todo \subseteq Wanted(s)
    BY <1>0, <1>1 DEF ServedInv, HandleSound
  <2> QED BY <2>1, <2>2, <1>1, <1>3, <1>5, SettingFixed DEF HandleSound, Wanted
<1>7. \A q \in Processes : HandleSound(q)'
  BY <1>1, <1>2, <1>4, <1>6, HandleKept DEF ServedInv
<1>8. TableSound'
  <2>1. Dropping => Dropping'
    BY <1>1, <1>2 DEF Dropping
  <2>2. registry # None /\ ~Dropping' => Served(registry)'
    BY <1>1, <1>4, <2>1, ServedKept DEF ServedInv, TableSound
  <2>3. \A t \in Declared : Served(t)'
    BY <1>3, <1>5 DEF Orderly, OneDeclaration
  <2>4. ASSUME NEW n \in Names, columns'[n] # None PROVE columns'[n].type \in TypesOf(n)
    <3>1. CASE columns = None
      BY <1>1, <1>3, <2>4, <3>1 DEF TypesOf
    <3>2. CASE columns # None
      BY <1>1, <2>4, <3>2 DEF ServedInv, TableSound
    <3> QED BY <3>1, <3>2
  <2> QED BY <1>1, <2>2, <2>3, <2>4, SettingFixed DEF TableSound
<1>9. \A c \in Changes : ChangeSound(c)'
  <2> TAKE c \in Changes
  <2>1. Home(c) \in Processes
    BY SettingTypes DEF SchemaTypeOK
  <2>2. evolution[c].pc \in Underway => Home(c) # p
    BY <1>1 DEF ServedInv, ChangeSound
  <2> QED BY <1>1, <1>2, <1>4, <2>1, <2>2, ChangeKept DEF ServedInv
<1> QED BY <1>7, <1>8, <1>9 DEF ServedInv

LEMMA ServedOpenRegisters ==
  ASSUME SchemaTypeOK, Orderly, ServedInv, NEW p \in Processes, OpenRegisters(p)
  PROVE  ServedInv'
<1>0. PICK s : s = handle[p].schema
  OBVIOUS
<1>1. /\ setting' = setting /\ columns' = columns /\ evolution' = evolution
      /\ handle[p].pc = "register" /\ Grown
      /\ registry' = IF registry = None THEN s ELSE registry
  BY <1>0, SameColumns DEF OpenRegisters
<1>2. /\ \A q \in Processes \ {p} : handle'[q] = handle[q]
      /\ handle'[p] = IF registry # None /\ Opens.secondFails THEN Closed
                      ELSE [handle[p] EXCEPT !.pc = "index"]
  BY DEF OpenRegisters, SchemaTypeOK
<1>3. /\ handle[p] \in Handle /\ s \in Declared /\ s # None /\ Served(s)
      /\ MayOpen(p) /\ handle[p].todo \subseteq Wanted(s)
  <2>1. handle[p] \in Handle /\ s \in Declared /\ Served(s) /\ MayOpen(p)
        /\ handle[p].todo \subseteq Wanted(s)
    BY <1>0, <1>1 DEF SchemaTypeOK, ServedInv, HandleSound
  <2> QED BY <1>0, <1>1, <2>1 DEF Handle
<1>4. registry' # None /\ Served(s)'
  BY <1>1, <1>3, ServedKept
<1>5. HandleSound(p)'
  <2>1. CASE handle'[p] = Closed
    BY <2>1 DEF HandleSound, Closed
  <2>2. CASE handle'[p] = [handle[p] EXCEPT !.pc = "index"]
    <3>1. handle'[p].pc = "index" /\ handle'[p].schema = s /\ handle'[p].todo = handle[p].todo
      BY <1>0, <1>3, <2>2 DEF Handle
    <3> QED BY <1>1, <1>3, <1>4, <3>1, SettingFixed DEF HandleSound, Wanted
  <2> QED BY <1>2, <2>1, <2>2
<1>6. \A q \in Processes : HandleSound(q)'
  BY <1>1, <1>2, <1>4, <1>5, HandleKept DEF ServedInv
<1>7. TableSound'
  <2>1. Dropping => Dropping'
    BY <1>1, <1>2 DEF Dropping
  <2>2. CASE registry # None
    BY <1>1, <2>1, <2>2, TableKept DEF ServedInv
  <2>3. CASE registry = None
    <3>1. Served(registry)'
      BY <1>1, <1>4, <2>3
    <3>2. \A t \in Declared : Served(t) => Served(t)'
      BY <1>1, ServedKept
    <3> QED BY <1>1, <3>1, <3>2, SettingFixed DEF ServedInv, TableSound
  <2> QED BY <2>2, <2>3
<1>8. \A c \in Changes : ChangeSound(c)'
  <2> TAKE c \in Changes
  <2>1. Home(c) \in Processes
    BY SettingTypes DEF SchemaTypeOK
  <2>2. evolution[c].pc \in Underway => Home(c) # p
    BY <1>1 DEF ServedInv, ChangeSound
  <2> QED BY <1>1, <1>2, <2>1, <2>2, ChangeKept DEF ServedInv
<1> QED BY <1>6, <1>7, <1>8 DEF ServedInv

(* The steps of a handle that touch neither table nor registry.            *)
LEMMA ServedElsewhere ==
  ASSUME SchemaTypeOK, Orderly, ServedInv, NEW p \in Processes,
         setting' = setting, columns' = columns, registry' = registry,
         \A q \in Processes \ {p} : handle'[q] = handle[q], HandleSound(p)',
         handle[p].pc # "dropping",
         \A c \in Changes : evolution'[c].pc \in Underway =>
           evolution'[c] = evolution[c] /\ Home(c) # p
  PROVE  ServedInv'
<1>1. \A q \in Processes : HandleSound(q)'
  BY SameColumns, HandleKept DEF ServedInv
<1>2. TableSound'
  BY TableKept DEF ServedInv, Dropping
<1>3. \A c \in Changes : ChangeSound(c)'
  <2> TAKE c \in Changes
  <2>1. Home(c) \in Processes
    BY SettingTypes DEF SchemaTypeOK
  <2>2. CASE evolution'[c].pc \in Underway
    BY <2>1, <2>2, ChangeKept, SameColumns DEF ServedInv
  <2>3. CASE evolution'[c].pc \notin Underway
    BY <2>3 DEF ChangeSound, Underway
  <2> QED BY <2>2, <2>3
<1> QED BY <1>1, <1>2, <1>3 DEF ServedInv

LEMMA ServedOpenIndexes ==
  ASSUME SchemaTypeOK, Orderly, ServedInv, NEW p \in Processes, OpenIndexes(p)
  PROVE  ServedInv'
<1>0. PICK s : s = handle[p].schema
  OBVIOUS
<1>1. /\ setting' = setting /\ columns' = columns /\ evolution' = evolution /\ registry' = registry
      /\ handle[p].pc = "index"
  BY DEF OpenIndexes
<1>2. /\ \A q \in Processes \ {p} : handle'[q] = handle[q]
      /\ \/ handle'[p] = Closed
         \/ handle'[p] = [handle[p] EXCEPT !.pc = "open"]
         \/ \E i \in handle[p].todo : handle'[p] = [handle[p] EXCEPT !.todo = @ \ {i}]
  BY DEF OpenIndexes, SchemaTypeOK
<1>3. /\ handle[p] \in Handle /\ s \in Declared /\ Served(s) /\ MayOpen(p) /\ registry # None
      /\ handle[p].todo \subseteq Wanted(s)
  BY <1>0, <1>1 DEF SchemaTypeOK, ServedInv, HandleSound
<1>4. Served(s)'
  BY <1>1, <1>3, ServedKept, SameColumns
<1>5. HandleSound(p)'
  <2>1. CASE handle'[p] = Closed
    BY <2>1 DEF HandleSound, Closed
  <2>2. CASE handle'[p] # Closed
    <3>1. /\ handle'[p].schema = s /\ handle'[p].todo \subseteq handle[p].todo
          /\ handle'[p].pc \in {"index", "open"}
      BY <1>0, <1>1, <1>2, <1>3, <2>2 DEF Handle
    <3> QED BY <1>1, <1>3, <1>4, <3>1, SettingFixed DEF HandleSound, Wanted
  <2> QED BY <2>1, <2>2
<1>6. \A c \in Changes : evolution[c].pc \in Underway => Home(c) # p
  BY <1>1 DEF ServedInv, ChangeSound
<1> QED BY <1>1, <1>2, <1>5, <1>6, ServedElsewhere

LEMMA ServedOpenFails ==
  ASSUME SchemaTypeOK, Orderly, ServedInv, NEW p \in Processes, OpenFails(p)
  PROVE  ServedInv'
<1>1. /\ setting' = setting /\ columns' = columns /\ evolution' = evolution /\ registry' = registry
      /\ handle[p].pc \in {"create", "register", "index", "closed"}
      /\ \A q \in Processes \ {p} : handle'[q] = handle[q]
      /\ \/ handle'[p] = Closed
         \/ handle'[p] = [Closed EXCEPT !.pc = "plain"] /\ setting.declares[p] = None
  BY DEF OpenFails, SchemaTypeOK
<1>2. HandleSound(p)'
  BY <1>1, SettingFixed DEF HandleSound, Closed, MayOpen
<1>3. \A c \in Changes : evolution[c].pc \in Underway => Home(c) # p
  BY <1>1 DEF ServedInv, ChangeSound
<1> QED BY <1>1, <1>2, <1>3, ServedElsewhere

LEMMA ServedCrash ==
  ASSUME SchemaTypeOK, Orderly, ServedInv, NEW p \in Processes, Crash(p)
  PROVE  ServedInv'
<1>1. /\ setting' = setting /\ columns' = columns /\ registry' = registry
      /\ \A q \in Processes \ {p} : handle'[q] = handle[q]
      /\ handle'[p] = Closed
      /\ \A c \in Changes : evolution'[c] =
           IF Home(c) = p /\ evolution[c].pc # "answered" THEN Idle ELSE evolution[c]
  BY DEF Crash, SchemaTypeOK
<1>2. HandleSound(p)'
  BY <1>1 DEF HandleSound, Closed
<1>3. handle[p].pc # "dropping"
  BY NoFaultDrops DEF Crash, Dropping, ServedInv
<1>4. \A c \in Changes : evolution'[c].pc \in Underway => evolution'[c] = evolution[c] /\ Home(c) # p
  BY <1>1 DEF Idle, Underway
<1> QED BY <1>1, <1>2, <1>3, <1>4, ServedElsewhere

(* Where the table is dropped the handles of the others are closed.        *)
LEMMA OthersClosed ==
  ASSUME Orderly, ServedInv, setting.drops, NEW p \in Processes, handle[p].pc # "closed"
  PROVE  \A q \in Processes \ {p} : handle[q].pc = "closed"
BY OneOpener DEF ServedInv, HandleSound

LEMMA ServedDrops ==
  ASSUME SchemaTypeOK, Orderly, ServedInv, NEW p \in Processes, Drops(p)
  PROVE  ServedInv'
<1>1. /\ setting' = setting /\ columns' = None /\ registry' = registry /\ setting.drops
      /\ \A q \in Processes \ {p} : handle'[q] = handle[q]
      /\ handle[p].pc = "open" /\ handle'[p].pc = "dropping"
      /\ \A c \in Changes : evolution'[c] = Idle
  BY DEF Drops, SchemaTypeOK, Closed
<1>2. MayOpen(p)' /\ Dropping'
  BY <1>1, SettingFixed DEF ServedInv, HandleSound, Dropping
<1>3. HandleSound(p)'
  BY <1>1, <1>2 DEF HandleSound
<1>4. \A q \in Processes \ {p} : HandleSound(q)'
  BY <1>1, OthersClosed DEF HandleSound
<1>5. TableSound'
  BY <1>1, <1>2 DEF TableSound
<1>6. \A c \in Changes : ChangeSound(c)'
  BY <1>1 DEF ChangeSound, Idle, Underway
<1> QED BY <1>3, <1>4, <1>5, <1>6 DEF ServedInv

LEMMA ServedUnregisters ==
  ASSUME SchemaTypeOK, Orderly, ServedInv, NEW p \in Processes, Unregisters(p)
  PROVE  ServedInv'
<1>1. /\ setting' = setting /\ columns' = columns /\ registry' = None /\ evolution' = evolution
      /\ \A q \in Processes \ {p} : handle'[q] = handle[q]
      /\ handle[p].pc = "dropping" /\ handle'[p] = Closed
  BY DEF Unregisters, SchemaTypeOK
<1>2. \A q \in Processes \ {p} : handle[q].pc = "closed"
  BY <1>1, OthersClosed DEF ServedInv, HandleSound
<1>3. \A q \in Processes : HandleSound(q)'
  BY <1>1, <1>2 DEF HandleSound, Closed
<1>4. TableSound'
  <2>1. \A s : Served(s) => Served(s)'
    BY <1>1, ServedKept, SameColumns
  <2> QED BY <1>1, <2>1, SettingFixed DEF ServedInv, TableSound
<1>5. \A c \in Changes : ChangeSound(c)'
  <2> TAKE c \in Changes
  <2>1. Home(c) \in Processes
    BY SettingTypes DEF SchemaTypeOK
  <2>2. evolution[c].pc \notin Underway
    BY <1>1, <1>2, <2>1 DEF ServedInv, ChangeSound
  <2> QED BY <1>1, <2>2 DEF ChangeSound, Underway
<1> QED BY <1>3, <1>4, <1>5 DEF ServedInv

-----------------------------------------------------------------------------
(* What a call makes of a schema: s, with what c asks for.                 *)
LEMMA EvolvedExtends ==
  ASSUME SchemaTypeOK, NEW c \in Changes, NEW s, s = handle[Home(c)].schema, s \in Schema,
         Evolved(c) \notin {None, s}
  PROVE  Extends(Evolved(c), s, c)
<1>1. /\ Asked(c).op \in {"addKey", "addIndex"} /\ Asked(c).name \in Names
      /\ Asked(c).def \in Definition /\ (Asked(c).op = "addIndex" => AsksIndex(c))
      /\ Asked(c).def # None
  BY SettingTypes, SchemaAssumption DEF SchemaTypeOK
<1>2. s = [keys |-> s.keys, indexes |-> s.indexes, version |-> s.version]
      /\ s.keys = [n \in Names |-> s.keys[n]]
  BY DEF Schema, Columns
<1>3. CASE Asked(c).op = "addKey"
  <2> DEFINE d == Asked(c).def
             n == Asked(c).name
             e == [s EXCEPT !.keys[n] = d,
                            !.indexes = IF d.index = None THEN @ ELSE @ \cup {[on |-> n, unique |-> d.index]},
                            !.version = @ + 1]
  <2>1. Evolved(c) = e /\ s.keys[n] = None
    BY <1>3 DEF Evolved, evolveSchemaAddKey
  <2>2. /\ e.keys = [s.keys EXCEPT ![n] = d]
        /\ e.indexes = IF d.index = None THEN s.indexes ELSE s.indexes \cup {[on |-> n, unique |-> d.index]}
    BY <1>2
  <2>3. e.keys[n] = d
    BY <1>1, <1>2, <2>2
  <2> HIDE DEF e
  <2> QED BY <1>1, <1>3, <2>1, <2>2, <2>3 DEF Extends, AsksIndex, Mark
<1>4. CASE Asked(c).op = "addIndex"
  <2> DEFINE i == Mark(c)
             e == [s EXCEPT !.indexes = @ \cup {i}, !.version = @ + 1]
  <2>1. Evolved(c) = e /\ s.keys[i.on] # None
    BY <1>4 DEF Evolved, evolveSchemaAddIndex, Mark
  <2>2. e.keys = s.keys /\ e.indexes = s.indexes \cup {i} /\ i.on = Asked(c).name
    BY <1>2 DEF Mark
  <2> HIDE DEF e
  <2> QED BY <1>1, <1>4, <2>1, <2>2 DEF Extends
<1> QED BY <1>1, <1>3, <1>4

(* The steps of a call.                                                    *)
LEMMA ServedByChange ==
  ASSUME SchemaTypeOK, Orderly, ServedInv, NEW c \in Changes, setting' = setting, Grown,
         registry # None => registry' # None,
         \A d \in Changes \ {c} : evolution'[d] = evolution[d],
         \A q \in Processes \ {Home(c)} : handle'[q] = handle[q],
         handle'[Home(c)] = handle[Home(c)]
           \/ /\ handle[Home(c)].pc = "open" /\ handle'[Home(c)].pc = "open"
              /\ Served(handle[Home(c)].schema)',
         TableSound', ChangeSound(c)'
  PROVE  ServedInv'
<1>1. Home(c) \in Processes
  BY SettingTypes DEF SchemaTypeOK
<1>2. HandleSound(Home(c))'
  <2>1. CASE handle'[Home(c)] = handle[Home(c)]
    <3>1. PICK p \in Processes : p = Home(c)
      BY <1>1
    <3>2. HandleSound(p)'
      BY <2>1, <3>1, HandleKept DEF ServedInv
    <3> QED BY <3>1, <3>2, SettingFixed
  <2>2. CASE /\ handle[Home(c)].pc = "open" /\ handle'[Home(c)].pc = "open"
             /\ Served(handle[Home(c)].schema)'
    <3>1. PICK p \in Processes : p = Home(c)
      BY <1>1
    <3>2. p = Home(c)'
      BY <3>1, SettingFixed
    <3>3. MayOpen(p) /\ registry # None
      BY <2>2, <3>1 DEF ServedInv, HandleSound
    <3>4. HandleSound(p)'
      BY <2>2, <3>1, <3>2, <3>3, SettingFixed DEF HandleSound
    <3> QED BY <3>2, <3>4
  <2> QED BY <2>1, <2>2
<1>3. \A q \in Processes : HandleSound(q)'
  <2> TAKE q \in Processes
  <2>1. CASE q = Home(c)
    BY <1>2, <2>1, SettingFixed
  <2>2. CASE q # Home(c)
    BY <2>2, HandleKept DEF ServedInv
  <2> QED BY <2>1, <2>2
<1>4. \A d \in Changes : ChangeSound(d)'
  <2> TAKE d \in Changes
  <2>1. Home(d) \in Processes
    BY SettingTypes DEF SchemaTypeOK
  <2>2. handle'[Home(d)].pc = handle[Home(d)].pc
    BY <2>1
  <2>3. CASE d # c
    BY <2>2, <2>3, ChangeKept DEF ServedInv
  <2> QED BY <2>3
<1> QED BY <1>3, <1>4 DEF ServedInv

LEMMA ServedCallStarts ==
  ASSUME SchemaTypeOK, Orderly, ServedInv, NEW c \in Changes, CallStarts(c)
  PROVE  ServedInv'
<1>0. PICK s : s = handle[Home(c)].schema
  OBVIOUS
<1>00. PICK e : e = Evolved(c)
  OBVIOUS
<1>1. /\ setting' = setting /\ columns' = columns /\ registry' = registry /\ handle' = handle
      /\ handle[Home(c)].pc = "open" /\ Grown
      /\ \A d \in Changes \ {c} : evolution'[d] = evolution[d]
      /\ evolution'[c] = IF e \in {None, s}
                         THEN [Idle EXCEPT !.pc = IF e = None THEN "refused" ELSE "answered"]
                         ELSE [evolved |-> e, pc |-> IF Asked(c).op = "addKey" THEN "alter" ELSE "index"]
  BY <1>0, <1>00, SameColumns DEF CallStarts, Settles, SchemaTypeOK
<1>2. /\ Home(c) \in Processes /\ Asked(c).op \in {"addKey", "addIndex"} /\ Asked(c).name \in Names
      /\ (Asked(c).op = "addIndex" => AsksIndex(c))
  BY SettingTypes DEF SchemaTypeOK
<1>3. s \in Schema /\ Served(s)
  BY <1>0, <1>1, <1>2 DEF SchemaTypeOK, Handle, ServedInv, HandleSound
<1>4. TableSound'
  BY <1>1, TableKept DEF ServedInv, Dropping
<1>5. ChangeSound(c)'
  <2>1. CASE e \in {None, s}
    BY <1>1, <2>1 DEF ChangeSound, Idle, Underway
  <2>2. CASE e \notin {None, s}
    <3>1. Extends(e, s, c)
      BY <1>0, <1>00, <1>3, <2>2, EvolvedExtends
    <3>2. evolution'[c].evolved = e
          /\ evolution'[c].pc = IF Asked(c).op = "addKey" THEN "alter" ELSE "index"
      BY <1>1, <2>2
    <3>3. /\ Home(c)' = Home(c) /\ Asked(c)' = Asked(c) /\ Opens' = Opens /\ OneType' = OneType
          /\ AsksIndex(c)' = AsksIndex(c)
      BY <1>1, SettingFixed DEF AsksIndex
    <3>4. s.keys = [n \in Names |-> s.keys[n]]
      BY <1>3 DEF Schema, Columns
    <3>5. CASE Asked(c).op = "addKey"
      <4>1. /\ e.keys[Asked(c).name] = Asked(c).def
            /\ \A n \in Names \ {Asked(c).name} : e.keys[n] = s.keys[n]
        BY <1>2, <3>1, <3>4, <3>5 DEF Extends
      <4>2. Opens.createsTable => columns # None /\ \A n \in Names \ {Asked(c).name} : HasColumn(e, n)
        BY <1>3, <4>1 DEF Served, HasColumn
      <4>3. Opens.createsTable => columns' # None /\ \A n \in Names \ {Asked(c).name} : HasColumn(e, n)'
        BY <1>1, <3>3, <4>2 DEF HasColumn
      <4> QED BY <1>1, <3>2, <3>3, <3>5, <4>1, <4>3 DEF ChangeSound
    <3>6. CASE Asked(c).op = "addIndex"
      <4>1. e.keys = s.keys
        BY <3>1, <3>6 DEF Extends
      <4>2. Served(e)'
        BY <1>1, <1>3, <3>3, <4>1 DEF Served, HasColumn
      <4> QED BY <1>1, <1>2, <3>2, <3>3, <3>6, <4>2 DEF ChangeSound
    <3> QED BY <1>2, <3>5, <3>6
  <2> QED BY <2>1, <2>2
<1> QED BY <1>1, <1>4, <1>5, ServedByChange

LEMMA ServedAlters ==
  ASSUME SchemaTypeOK, Orderly, ServedInv, NEW c \in Changes, Alters(c)
  PROVE  ServedInv'
<1>0. PICK e : e = evolution[c].evolved
  OBVIOUS
<1> DEFINE n == Asked(c).name
           d == Asked(c).def
           fails == Opens.createsTable
                    /\ (columns = None \/ (columns[n] # None /\ Evolves.columnTwice = "fails"))
<1>1. /\ setting' = setting /\ registry' = registry /\ evolution[c].pc = "alter"
      /\ \A b \in Changes \ {c} : evolution'[b] = evolution[b]
  BY DEF Alters, Adopts, Settles, SchemaTypeOK
<1>2. /\ Home(c) \in Processes /\ n \in Names /\ d \in Definition /\ d # None
      /\ evolution[c] \in Change
  BY SettingTypes, SchemaAssumption DEF SchemaTypeOK
<1>3. /\ Asked(c).op = "addKey" /\ e.keys[n] = d /\ handle[Home(c)].pc = "open"
      /\ Opens.createsTable => columns # None /\ \A m \in Names \ {n} : HasColumn(e, m)
  BY <1>0, <1>1 DEF ServedInv, ChangeSound, Underway
<1>4. CASE fails
  <2>1. columns' = columns /\ handle' = handle /\ evolution'[c].pc = "refused"
    BY <1>4 DEF Alters, Settles, SchemaTypeOK, Idle
  <2>2. TableSound'
    BY <1>1, <2>1, TableKept DEF ServedInv, Dropping
  <2>3. ChangeSound(c)'
    BY <2>1 DEF ChangeSound, Underway
  <2> QED BY <1>1, <2>1, <2>2, <2>3, SameColumns, ServedByChange
<1>5. CASE ~fails
  <2>1. columns' = IF columns = None \/ columns[n] # None THEN columns ELSE [columns EXCEPT ![n] = d]
    BY <1>5 DEF Alters
  <2>2. \/ evolution'[c] = [evolution[c] EXCEPT !.pc = "index"] /\ AsksIndex(c) /\ handle' = handle
        \/ /\ evolution'[c] = [evolution[c] EXCEPT !.pc = "register"]
           /\ handle' = [handle EXCEPT ![Home(c)].schema = e]
    BY <1>0, <1>5 DEF Alters, Adopts, AsksIndex, SchemaTypeOK
  <2>3. /\ evolution'[c].evolved = e
        /\ \/ evolution'[c].pc = "index" /\ AsksIndex(c)
           \/ evolution'[c].pc = "register"
    BY <1>0, <1>2, <2>2 DEF Change
  <2>4. Grown /\ \A m \in Names : columns' # None /\ columns'[m] # None =>
                    columns # None /\ (columns'[m] = columns[m] \/ (m = n /\ columns'[m] = d))
    <3>1. CASE columns = None
      BY <2>1, <3>1 DEF Grown
    <3>2. CASE columns # None
      <4>1. columns \in Columns /\ columns' \in Columns
        BY <1>2, <2>1, <3>2 DEF SchemaTypeOK, Columns
      <4> QED BY <1>2, <2>1, <3>2, <4>1, SchemaAssumption DEF Grown, Columns
    <3> QED BY <3>1, <3>2
  <2>5. Served(e)'
    <3> SUFFICES ASSUME Opens.createsTable PROVE columns' # None /\ \A m \in Names : HasColumn(e, m)'
      BY <1>1, SettingFixed DEF Served
    <3>1. columns # None /\ columns' # None
      BY <1>3, <2>4 DEF Grown
    <3>2. \A m \in Names \ {n} : HasColumn(e, m)'
      BY <1>1, <1>3, <2>4, <3>1, SettingFixed DEF HasColumn, Grown
    <3>3. columns'[n] # None
      BY <1>2, <2>1, <2>4, <3>1 DEF SchemaTypeOK, Columns
    <3>4. OneType => columns'[n].type = d.type
      <4>1. CASE columns[n] = None
        BY <1>2, <2>1, <3>1, <4>1 DEF SchemaTypeOK, Columns
      <4>2. CASE columns[n] # None
        <5>1. columns'[n] = columns[n] /\ columns[n].type \in TypesOf(n)
          BY <1>2, <2>1, <4>2, <3>1 DEF ServedInv, TableSound
        <5>2. d.type \in TypesOf(n)
          BY <1>3 DEF TypesOf, Adds
        <5>3. Evolves.columnTwice # "fails"
          BY <1>5, <4>2
        <5> QED BY <1>2, <5>1, <5>2, <5>3 DEF OneType
      <4> QED BY <4>1, <4>2
    <3>5. HasColumn(e, n)'
      <4>1. PICK m \in Names : m = n
        BY <1>2
      <4>2. HasColumn(e, m)'
        BY <1>1, <1>3, <3>3, <3>4, <4>1, SettingFixed DEF HasColumn
      <4> QED BY <1>1, <4>1, <4>2, SettingFixed
    <3> QED BY <1>1, <3>1, <3>2, <3>5, SettingFixed
  <2>6. TableSound'
    <3>1. \A s : Served(s) => Served(s)'
      BY <1>1, <2>4, ServedKept
    <3>2. Dropping => Dropping'
      BY <1>2, <1>3, <2>2 DEF Dropping, SchemaTypeOK
    <3>3. registry' # None /\ ~Dropping' => Served(registry)'
      BY <1>1, <3>1, <3>2 DEF ServedInv, TableSound
    <3>4. ASSUME columns' # None, NEW m \in Names, columns'[m] # None
          PROVE  columns'[m].type \in TypesOf(m)
      <4>1. CASE columns'[m] = columns[m]
        BY <2>4, <3>4, <4>1 DEF ServedInv, TableSound
      <4>2. CASE m = n /\ columns'[m] = d
        BY <1>3, <4>2 DEF TypesOf, Adds
      <4> QED BY <2>4, <3>4, <4>1, <4>2
    <3>5. columns' # None => columns # None
      BY <2>1
    <3> QED BY <1>1, <3>1, <3>3, <3>4, <3>5, SettingFixed DEF ServedInv, TableSound
  <2>7. handle'[Home(c)] = handle[Home(c)]
        \/ /\ handle[Home(c)].pc = "open" /\ handle'[Home(c)].pc = "open"
           /\ Served(handle[Home(c)].schema)'
    <3>1. CASE handle' = handle
      BY <3>1
    <3>2. CASE handle' = [handle EXCEPT ![Home(c)].schema = e]
      <4>1. handle'[Home(c)].schema = e /\ handle'[Home(c)].pc = "open"
        BY <1>2, <1>3, <3>2 DEF SchemaTypeOK, Handle
      <4>2. handle'[Home(c)'].schema = e
        BY <1>1, <4>1, SettingFixed
      <4> QED BY <1>3, <2>5, <4>1, <4>2
    <3> QED BY <2>2, <3>1, <3>2
  <2>8. ChangeSound(c)'
    <3>1. handle'[Home(c)].pc = "open"
      BY <1>3, <2>7
    <3>2. Home(c)' = Home(c) /\ AsksIndex(c)' = AsksIndex(c)
      BY <1>1, SettingFixed DEF AsksIndex
    <3> QED BY <2>3, <2>5, <3>1, <3>2 DEF ChangeSound
  <2>9. \A q \in Processes \ {Home(c)} : handle'[q] = handle[q]
    BY <2>2 DEF SchemaTypeOK
  <2> QED BY <1>1, <2>4, <2>6, <2>7, <2>8, <2>9, ServedByChange
<1> QED BY <1>4, <1>5

LEMMA ServedIndexes ==
  ASSUME SchemaTypeOK, Orderly, ServedInv, NEW c \in Changes, Indexes(c)
  PROVE  ServedInv'
<1>0. PICK e : e = evolution[c].evolved
  OBVIOUS
<1>1. /\ setting' = setting /\ registry' = registry /\ columns' = columns /\ Grown
      /\ evolution[c].pc = "index"
      /\ \A b \in Changes \ {c} : evolution'[b] = evolution[b]
      /\ Home(c) \in Processes /\ evolution[c] \in Change
  BY SettingTypes, SameColumns DEF Indexes, Adopts, Settles, SchemaTypeOK
<1>2. handle[Home(c)].pc = "open" /\ Served(e)
  BY <1>0, <1>1 DEF ServedInv, ChangeSound, Underway
<1>3. CASE Settles(c, "refused") /\ UNCHANGED <<indexes, handle>>
  <2>1. handle' = handle /\ evolution'[c].pc = "refused"
    BY <1>3 DEF Settles, SchemaTypeOK, Idle
  <2>2. TableSound'
    BY <1>1, <2>1, TableKept DEF ServedInv, Dropping
  <2>3. ChangeSound(c)'
    BY <2>1 DEF ChangeSound, Underway
  <2> QED BY <1>1, <2>1, <2>2, <2>3, ServedByChange
<1>4. CASE Adopts(c)
  <2>1. /\ evolution'[c] = [evolution[c] EXCEPT !.pc = "register"]
        /\ handle' = [handle EXCEPT ![Home(c)].schema = e]
    BY <1>0, <1>4 DEF Adopts, SchemaTypeOK
  <2>2. evolution'[c].pc = "register" /\ evolution'[c].evolved = e
    BY <1>0, <1>1, <2>1 DEF Change
  <2>3. handle'[Home(c)].schema = e /\ handle'[Home(c)].pc = "open"
    BY <1>1, <1>2, <2>1 DEF SchemaTypeOK, Handle
  <2>4. Served(e)' /\ Home(c)' = Home(c)
    BY <1>1, <1>2, ServedKept, SettingFixed
  <2>5. TableSound'
    <3>1. Dropping => Dropping'
      BY <1>1, <1>2, <2>1 DEF Dropping, SchemaTypeOK
    <3> QED BY <1>1, <3>1, TableKept DEF ServedInv
  <2>6. ChangeSound(c)'
    BY <2>2, <2>3, <2>4 DEF ChangeSound
  <2>7. Served(handle[Home(c)].schema)'
    BY <2>3, <2>4
  <2>8. \A q \in Processes \ {Home(c)} : handle'[q] = handle[q]
    BY <2>1 DEF SchemaTypeOK
  <2> QED BY <1>1, <1>2, <2>3, <2>5, <2>6, <2>7, <2>8, ServedByChange
<1> QED BY <1>3, <1>4 DEF Indexes

LEMMA ServedRegisters ==
  ASSUME SchemaTypeOK, Orderly, ServedInv, NEW c \in Changes, Registers(c)
  PROVE  ServedInv'
<1>0. PICK e : e = evolution[c].evolved
  OBVIOUS
<1>1. /\ setting' = setting /\ columns' = columns /\ handle' = handle /\ Grown
      /\ evolution[c].pc = "register" /\ evolution'[c].pc = "answered"
      /\ registry' = IF registry = None /\ ~Evolves.upserts THEN None ELSE e
      /\ \A b \in Changes \ {c} : evolution'[b] = evolution[b]
      /\ evolution[c] \in Change
  BY <1>0, SameColumns DEF Registers, Settles, SchemaTypeOK, Idle
<1>2. Served(e) /\ e # None
  BY <1>0, <1>1 DEF ServedInv, ChangeSound, Change, Underway
<1>3. TableSound'
  <2>1. \A s : Served(s) => Served(s)'
    BY <1>1, ServedKept
  <2>2. registry' # None => Served(registry)'
    BY <1>1, <1>2, <2>1
  <2> QED BY <1>1, <2>1, <2>2, SettingFixed DEF ServedInv, TableSound
<1>4. ChangeSound(c)'
  BY <1>1 DEF ChangeSound, Underway
<1> QED BY <1>1, <1>2, <1>3, <1>4, ServedByChange

LEMMA ServedCallFails ==
  ASSUME SchemaTypeOK, Orderly, ServedInv, NEW c \in Changes, CallFails(c)
  PROVE  ServedInv'
<1>1. /\ setting' = setting /\ columns' = columns /\ handle' = handle /\ registry' = registry
      /\ Grown /\ evolution'[c].pc = "refused"
      /\ \A b \in Changes \ {c} : evolution'[b] = evolution[b]
  BY SameColumns DEF CallFails, Settles, SchemaTypeOK, Idle
<1>2. TableSound'
  BY <1>1, TableKept DEF ServedInv, Dropping
<1>3. ChangeSound(c)'
  BY <1>1 DEF ChangeSound, Underway
<1> QED BY <1>1, <1>2, <1>3, ServedByChange

-----------------------------------------------------------------------------
(* Every step keeps it.                                                    *)
LEMMA ServedStep ==
  ASSUME SchemaTypeOK, Orderly, ServedInv, [SchemaNext]_schema
  PROVE  ServedInv'
<1>1. CASE UNCHANGED schema
  <2>1. setting' = setting /\ Grown /\ handle' = handle /\ evolution' = evolution /\ registry' = registry
        /\ columns' = columns
    BY <1>1, SameColumns DEF schema
  <2>2. \A p \in Processes : HandleSound(p)'
    BY <2>1, HandleKept DEF ServedInv
  <2>3. TableSound'
    BY <2>1, TableKept DEF ServedInv, Dropping
  <2>4. \A c \in Changes : ChangeSound(c)'
    BY <2>1, ChangeKept DEF ServedInv
  <2> QED BY <2>2, <2>3, <2>4 DEF ServedInv
<1>2. ASSUME NEW p \in Processes, ProcessSteps(p) PROVE ServedInv'
  BY <1>2, ServedOpenReads, ServedOpenCreates, ServedOpenRegisters, ServedOpenIndexes, ServedOpenFails,
     ServedCrash, ServedDrops, ServedUnregisters DEF ProcessSteps
<1>3. ASSUME NEW c \in Changes, ChangeSteps(c) PROVE ServedInv'
  BY <1>3, ServedCallStarts, ServedAlters, ServedIndexes, ServedRegisters, ServedCallFails
     DEF ChangeSteps
<1> QED BY <1>1, <1>2, <1>3 DEF SchemaNext, ProcessSteps, ChangeSteps

LEMMA OrderlyFixed == setting' = setting => Orderly' = Orderly
BY SettingFixed DEF Orderly, OneDeclaration, DropsAlone

(* The variables of SchemaEvolution have their types, whatever is asked of *)
(* the database.                                                           *)
THEOREM SchemaTypes == SchemaSpec => []SchemaTypeOK
<1>1. SchemaInit => SchemaTypeOK
  BY ServedInit
<1> QED BY <1>1, SchemaTypeStep, PTL DEF SchemaSpec

(* Where processes declare one schema, and who drops the table is alone    *)
(* with it, the columns serve every schema that a process or the registry  *)
(* has.                                                                    *)
THEOREM SchemaServed == SchemaSpec => [](Orderly => ServedInv)
<1>1. SchemaInit => (Orderly => ServedInv)
  BY ServedInit
<1>2. SchemaTypeOK /\ (Orderly => ServedInv) /\ [SchemaNext]_schema => (Orderly => ServedInv)'
  BY ServedStep, SettingStays, OrderlyFixed
<1> QED BY <1>1, <1>2, SchemaTypes, PTL DEF SchemaSpec

(* HandlesServed: if besides no key is added with two types, or the        *)
(* database refuses the second, no open handle lists a key whose column is *)
(* missing or of another type, whoever opens, alters, fails and crashes in *)
(* between.                                                                *)
THEOREM EveryHandleServed == SchemaSpec => [](Orderly /\ OneType => HandlesServed)
<1>1. Orderly /\ OneType /\ ServedInv => HandlesServed
  BY DEF ServedInv, HandleSound, HandlesServed, Served, HasColumn
<1> QED BY <1>1, SchemaServed, PTL

-----------------------------------------------------------------------------
(* Nothing that was answered is forgotten.                                 *)
LastingInv == SchemaTypeOK /\ Lasting /\ ServedInv /\ KeptInv

IndexesGrown == \A n \in Names : indexes[n] # None => indexes'[n] = indexes[n]

(* The registry lists what it did.                                         *)
RegistryGrown ==
  /\ registry' # None
  /\ \A n \in Names : registry.keys[n] # None => registry'.keys[n] = registry.keys[n]
  /\ registry.indexes \subseteq registry'.indexes

(* The conditions stay.                                                    *)
LEMMA LastingFixed ==
  ASSUME setting' = setting
  PROVE  /\ Lasting' = Lasting /\ (\A c \in Changes : AsksIndex(c)' = AsksIndex(c) /\ Mark(c)' = Mark(c))
<1>1. \A c \in Changes : AsksIndex(c)' = AsksIndex(c) /\ Mark(c)' = Mark(c)
  BY SettingFixed DEF AsksIndex, Mark
<1>2. OneAtATime' = OneAtATime
  BY SettingFixed DEF OneAtATime
<1>3. NewIndexes' = NewIndexes
  BY SettingFixed, <1>1 DEF NewIndexes, Wanted
<1> QED BY <1>1, <1>2, <1>3, OrderlyFixed DEF Lasting

(* What is sound stays so while the table, its indexes and the registry    *)
(* grow.                                                                   *)
LEMMA RememberedKept ==
  ASSUME SchemaTypeOK, NEW c \in Changes, Remembered(c), setting' = setting, Grown, IndexesGrown,
         registry' = registry \/ RegistryGrown
  PROVE  Remembered(c)'
<1>1. /\ Asked(c)' = Asked(c) /\ Opens' = Opens /\ AsksIndex(c)' = AsksIndex(c) /\ Mark(c)' = Mark(c)
      /\ Asked(c).name \in Names
  BY SettingFixed, LastingFixed, SettingTypes DEF SchemaTypeOK
<1>2. registry' # None /\ registry'.keys[Asked(c).name] = registry.keys[Asked(c).name]
      /\ registry.indexes \subseteq registry'.indexes
  BY <1>1 DEF Remembered, RegistryGrown
<1>3. AsksIndex(c) => indexes'[Asked(c).name] = Asked(c).def.index
  BY <1>1 DEF Remembered, IndexesGrown, AsksIndex
<1>4. Opens.createsTable => columns' # None /\ columns'[Asked(c).name] # None
  BY <1>1 DEF Remembered, Grown
<1> QED BY <1>1, <1>2, <1>3, <1>4 DEF Remembered

LEMMA AheadKept ==
  ASSUME SchemaTypeOK, NEW c \in Changes, AheadByOne(c), setting' = setting, registry' = registry,
         IndexesGrown, evolution'[c] = evolution[c],
         evolution[c].pc \in Underway => handle'[Home(c)] = handle[Home(c)]
  PROVE  AheadByOne(c)'
<1>1. /\ Asked(c)' = Asked(c) /\ Home(c)' = Home(c) /\ AsksIndex(c)' = AsksIndex(c)
      /\ Mark(c)' = Mark(c) /\ Asked(c).name \in Names
  BY SettingFixed, LastingFixed, SettingTypes DEF SchemaTypeOK
<1>2. evolution[c].pc \in Underway => Extends(evolution[c].evolved, registry, c)'
  BY <1>1 DEF AheadByOne, Extends
<1>3. evolution[c].pc = "register" =>
        /\ handle'[Home(c)].schema = evolution[c].evolved
        /\ AsksIndex(c) => indexes'[Asked(c).name] = Asked(c).def.index
  BY <1>1 DEF AheadByOne, IndexesGrown, Underway, AsksIndex
<1> QED BY <1>1, <1>2, <1>3 DEF AheadByOne

LEMMA IndexKept ==
  ASSUME SchemaTypeOK, NEW c \in Changes, IndexSound(c), setting' = setting, registry' = registry,
         IndexesGrown, ~Dropping' => ~Dropping,
         AsksIndex(c) /\ Evolves.indexTwice = "ignored" =>
           indexes'[Asked(c).name] \in {None, Asked(c).def.index}
  PROVE  IndexSound(c)'
<1>1. /\ Asked(c)' = Asked(c) /\ AsksIndex(c)' = AsksIndex(c) /\ Evolves' = Evolves
      /\ Asked(c).name \in Names
  BY SettingFixed, LastingFixed, SettingTypes DEF SchemaTypeOK
<1>2. \A u \in Uniqueness : u # None
  BY SchemaAssumption
<1> QED BY <1>1, <1>2 DEF IndexSound, IndexesGrown

LEMMA CurrentKept ==
  ASSUME NEW p \in Processes, Current(p), setting' = setting, registry' = registry,
         handle'[p] = handle[p],
         \A c \in Changes : evolution[c].pc = "register" => evolution'[c].pc = "register"
  PROVE  Current(p)'
BY SettingFixed DEF Current

(* The steps of a handle that leave the registry and the calls alone.      *)
LEMMA KeptElsewhere ==
  ASSUME LastingInv, NEW p \in Processes, setting' = setting, registry' = registry, Grown, IndexesGrown,
         evolution' = evolution, handle[p].pc \notin {"open", "dropping"},
         handle'[p].pc # "dropping", (\E c \in Changes : Home(c) = p) => Current(p)',
         \A q \in Processes \ {p} : handle'[q] = handle[q],
         \A c \in Changes : AsksIndex(c) => indexes'[Asked(c).name] = indexes[Asked(c).name]
  PROVE  KeptInv'
<1>1. Dropping' = Dropping
  BY DEF Dropping
<1>2. Alone'
  BY DEF LastingInv, KeptInv, Alone
<1>3. ASSUME NEW c \in Changes
      PROVE  Current(Home(c))' /\ AheadByOne(c)' /\ IndexSound(c)'
             /\ (evolution'[c].pc = "answered" => Remembered(c)' /\ ~Dropping')
  <2>1. Home(c) \in Processes /\ Home(c)' = Home(c)
    BY SettingTypes, SettingFixed DEF SchemaTypeOK, LastingInv
  <2>2. Current(Home(c))'
    <3>1. PICK q \in Processes : q = Home(c)
      BY <2>1
    <3>2. Current(q)'
      BY <3>1, CurrentKept DEF LastingInv, KeptInv
    <3> QED BY <2>1, <3>1, <3>2
  <2>3. evolution[c].pc \in Underway => Home(c) # p
    BY DEF LastingInv, ServedInv, ChangeSound
  <2>4. AheadByOne(c)'
    BY <2>1, <2>3, AheadKept DEF LastingInv, KeptInv
  <2>5. IndexSound(c)'
    BY <1>1, IndexKept DEF LastingInv, KeptInv, IndexSound
  <2>6. evolution[c].pc = "answered" => Remembered(c)'
    BY RememberedKept DEF LastingInv, KeptInv
  <2> QED BY <1>1, <2>2, <2>4, <2>5, <2>6 DEF LastingInv, KeptInv
<1> QED BY <1>2, <1>3 DEF KeptInv

LEMMA SameIndexes == indexes' = indexes => IndexesGrown
BY DEF IndexesGrown

(* The second invariant, action by action.                                 *)
LEMMA KeptOpenReads ==
  ASSUME LastingInv, NEW p \in Processes, OpenReads(p)
  PROVE  KeptInv'
<1> DEFINE declared == setting.declares[p]
           resolved == IF declared # None THEN declared ELSE registry
<1>1. /\ setting' = setting /\ columns' = columns /\ registry' = registry /\ evolution' = evolution
      /\ indexes' = indexes /\ handle[p].pc = "closed"
      /\ \A q \in Processes \ {p} : handle'[q] = handle[q]
  BY DEF OpenReads, LastingInv, SchemaTypeOK
<1>2. /\ handle'[p].schema = resolved
      /\ handle'[p].pc = IF resolved = None THEN "plain"
                         ELSE IF registry # None THEN "open"
                         ELSE IF Opens.createsTable THEN "create" ELSE "register"
      /\ registry # None => resolved = registry
  BY DEF OpenReads, LastingInv, SchemaTypeOK
<1>3. Current(p)'
  BY <1>1, <1>2 DEF Current
<1>4. handle'[p].pc # "dropping"
  BY <1>2
<1> QED BY <1>1, <1>3, <1>4, KeptElsewhere, SameColumns, SameIndexes

LEMMA KeptOpenCreates ==
  ASSUME LastingInv, NEW p \in Processes, OpenCreates(p)
  PROVE  KeptInv'
<1>1. /\ setting' = setting /\ registry' = registry /\ evolution' = evolution
      /\ indexes' = indexes /\ handle[p].pc = "create"
      /\ \A q \in Processes \ {p} : handle'[q] = handle[q]
      /\ handle'[p] = [handle[p] EXCEPT !.pc = "register"] /\ handle[p] \in Handle
      /\ columns' = IF columns = None THEN handle[p].schema.keys ELSE columns
  BY DEF OpenCreates, LastingInv, SchemaTypeOK
<1>2. Grown
  BY <1>1 DEF Grown
<1>3. handle'[p].pc = "register"
  BY <1>1 DEF Handle
<1>4. ASSUME NEW c \in Changes, Home(c) = p PROVE Current(p)'
  <2>1. Current(p)
    BY <1>4 DEF LastingInv, KeptInv
  <2> QED BY <1>1, <1>3, <2>1, SettingFixed DEF Current
<1> QED BY <1>1, <1>2, <1>3, <1>4, KeptElsewhere, SameIndexes

LEMMA KeptOpenIndexes ==
  ASSUME LastingInv, NEW p \in Processes, OpenIndexes(p)
  PROVE  KeptInv'
<1>1. /\ setting' = setting /\ registry' = registry /\ evolution' = evolution
      /\ columns' = columns /\ handle[p].pc = "index" /\ handle[p] \in Handle
      /\ \A q \in Processes \ {p} : handle'[q] = handle[q]
      /\ indexes \in [Names -> Uniqueness \cup {None}]
  BY DEF OpenIndexes, LastingInv, SchemaTypeOK
<1>2. /\ handle[p].schema \in Declared /\ handle[p].todo \subseteq Wanted(handle[p].schema)
      /\ registry # None
  BY <1>1 DEF LastingInv, ServedInv, HandleSound
<1>3. \/ handle'[p] = Closed /\ indexes' = indexes
      \/ handle'[p] = [handle[p] EXCEPT !.pc = "open"] /\ indexes' = indexes
      \/ \E i \in handle[p].todo :
           /\ handle'[p] = [handle[p] EXCEPT !.todo = @ \ {i}]
           /\ indexes' = [indexes EXCEPT ![i.on] = IF @ = None THEN i.unique ELSE @]
  BY DEF OpenIndexes, LastingInv, SchemaTypeOK
<1>4. /\ handle'[p].pc \in {"closed", "index", "open"}
      /\ handle'[p].pc # "closed" => handle'[p].schema = handle[p].schema
  <2>1. CASE handle'[p] = Closed
    BY <2>1 DEF Closed
  <2>2. CASE handle'[p] = [handle[p] EXCEPT !.pc = "open"]
    BY <1>1, <2>2 DEF Handle
  <2>3. ASSUME NEW i \in handle[p].todo, handle'[p] = [handle[p] EXCEPT !.todo = @ \ {i}]
        PROVE  handle'[p].pc = "index" /\ handle'[p].schema = handle[p].schema
    BY <1>1, <2>3 DEF Handle
  <2> QED BY <1>3, <2>1, <2>2, <2>3
<1>5. IndexesGrown
  BY <1>1, <1>3 DEF IndexesGrown
<1>6. ASSUME NEW c \in Changes, AsksIndex(c)
      PROVE  indexes'[Asked(c).name] = indexes[Asked(c).name]
  <2>1. \A i \in handle[p].todo : i.on # Asked(c).name
    BY <1>2, <1>6 DEF LastingInv, Lasting, NewIndexes
  <2>2. Asked(c).name \in Names
    BY SettingTypes DEF LastingInv, SchemaTypeOK
  <2> QED BY <1>1, <1>3, <2>1, <2>2
<1>7. ASSUME NEW c \in Changes, Home(c) = p PROVE Current(p)'
  <2>1. registry = handle[p].schema
    <3>1. registry \in Declared
      BY <1>1, <1>2, <1>7 DEF LastingInv, KeptInv, Current
    <3> QED BY <1>2, <3>1 DEF LastingInv, Lasting, Orderly, OneDeclaration
  <2>2. registry \in Declared
    BY <1>2, <2>1
  <2> QED BY <1>1, <1>4, <2>1, <2>2, SettingFixed DEF Current
<1> QED BY <1>1, <1>4, <1>5, <1>6, <1>7, KeptElsewhere, SameColumns

LEMMA KeptOpenFails ==
  ASSUME LastingInv, NEW p \in Processes, OpenFails(p)
  PROVE  KeptInv'
<1>1. /\ setting' = setting /\ columns' = columns /\ evolution' = evolution /\ registry' = registry
      /\ indexes' = indexes
      /\ handle[p].pc \in {"create", "register", "index", "closed"}
      /\ \A q \in Processes \ {p} : handle'[q] = handle[q]
      /\ handle'[p].pc \in {"closed", "plain"}
  BY DEF OpenFails, LastingInv, SchemaTypeOK, Closed
<1>2. Current(p)'
  BY <1>1 DEF Current
<1> QED BY <1>1, <1>2, KeptElsewhere, SameColumns, SameIndexes

(* The first row of the registry: no call has been made.                   *)
LEMMA KeptOpenRegisters ==
  ASSUME LastingInv, NEW p \in Processes, OpenRegisters(p)
  PROVE  KeptInv'
<1>0. PICK s : s = handle[p].schema
  OBVIOUS
<1>1. /\ setting' = setting /\ columns' = columns /\ evolution' = evolution /\ indexes' = indexes
      /\ handle[p].pc = "register" /\ handle[p] \in Handle
      /\ registry' = IF registry = None THEN s ELSE registry
      /\ \A q \in Processes \ {p} : handle'[q] = handle[q]
      /\ handle'[p] = IF registry # None /\ Opens.secondFails THEN Closed
                      ELSE [handle[p] EXCEPT !.pc = "index"]
  BY <1>0 DEF OpenRegisters, LastingInv, SchemaTypeOK
<1>2. s \in Declared /\ handle'[p].pc \in {"closed", "index"}
  BY <1>0, <1>1 DEF LastingInv, ServedInv, HandleSound, Handle, Closed
<1>3. CASE registry # None
  <2>1. ASSUME NEW c \in Changes, Home(c) = p PROVE Current(p)'
    <3>1. registry \in Declared
      BY <1>1, <1>3, <2>1 DEF LastingInv, KeptInv, Current
    <3> QED BY <1>1, <1>2, <1>3, <3>1, SettingFixed DEF Current
  <2> QED BY <1>1, <1>2, <1>3, <2>1, KeptElsewhere, SameColumns, SameIndexes
<1>4. CASE registry = None
  <2>1. \A c \in Changes : evolution[c].pc \notin Underway \cup {"answered"}
    <3> TAKE c \in Changes
    <3>1. Home(c) \in Processes
      BY SettingTypes DEF LastingInv, SchemaTypeOK
    <3>2. evolution[c].pc # "answered"
      BY <1>4 DEF LastingInv, KeptInv, Remembered
    <3>3. evolution[c].pc \notin Underway
      BY <1>4, <3>1 DEF LastingInv, ServedInv, ChangeSound, HandleSound
    <3> QED BY <3>2, <3>3
  <2>2. Alone'
    BY <1>1, <2>1 DEF Alone
  <2>3. ASSUME NEW c \in Changes PROVE Current(Home(c))' /\ AheadByOne(c)' /\ IndexSound(c)'
    <3>1. Home(c) \in Processes /\ Home(c)' = Home(c) /\ Asked(c)' = Asked(c)
          /\ AsksIndex(c)' = AsksIndex(c) /\ Evolves' = Evolves /\ Declared' = Declared
      BY <1>1, SettingTypes, SettingFixed, LastingFixed DEF SchemaTypeOK, LastingInv
    <3>2. handle'[Home(c)].pc # "open"
      BY <1>1, <1>2, <1>4, <3>1 DEF LastingInv, ServedInv, HandleSound
    <3>3. Current(Home(c))'
      BY <1>1, <1>2, <1>4, <3>1, <3>2 DEF Current
    <3>4. AheadByOne(c)'
      BY <1>1, <2>1 DEF AheadByOne, Underway
    <3>5. ASSUME AsksIndex(c)
          PROVE  /\ \A u \in Uniqueness : [on |-> Asked(c).name, unique |-> u] \notin s.indexes
                 /\ s.keys[Asked(c).name] = None \/ s.keys[Asked(c).name].index = None
      <4>1. \A i \in Wanted(s) : i.on # Asked(c).name
        BY <1>2, <3>5 DEF LastingInv, Lasting, NewIndexes
      <4>2. Asked(c).name \in Names
        BY SettingTypes DEF LastingInv, SchemaTypeOK
      <4>3. ASSUME NEW u \in Uniqueness PROVE [on |-> Asked(c).name, unique |-> u] \notin s.indexes
        BY <4>1 DEF Wanted
      <4>4. ASSUME s.keys[Asked(c).name] # None, s.keys[Asked(c).name].index # None PROVE FALSE
        <5>1. [on |-> Asked(c).name, unique |-> s.keys[Asked(c).name].index] \in Wanted(s)
          BY <4>2, <4>4 DEF Wanted
        <5> QED BY <4>1, <5>1
      <4> QED BY <4>3, <4>4
    <3>6. IndexSound(c)'
      BY <1>1, <1>4, <3>1, <3>5 DEF IndexSound, LastingInv, KeptInv
    <3> QED BY <3>3, <3>4, <3>6
  <2> QED BY <1>1, <2>1, <2>2, <2>3 DEF KeptInv
<1> QED BY <1>3, <1>4

LEMMA KeptCrash ==
  ASSUME LastingInv, NEW p \in Processes, Crash(p)
  PROVE  KeptInv'
<1>1. /\ setting' = setting /\ columns' = columns /\ registry' = registry /\ indexes' = indexes
      /\ \A q \in Processes \ {p} : handle'[q] = handle[q]
      /\ handle'[p] = Closed
      /\ \A c \in Changes : evolution'[c] =
           IF Home(c) = p /\ evolution[c].pc # "answered" THEN Idle ELSE evolution[c]
  BY DEF Crash, LastingInv, SchemaTypeOK
<1>2. Grown /\ IndexesGrown
  BY <1>1, SameColumns, SameIndexes
<1>3. ~Dropping /\ ~Dropping'
  <2>1. ~Dropping
    BY NoFaultDrops DEF Crash, LastingInv, ServedInv, Lasting
  <2> QED BY <1>1, <2>1 DEF Dropping, Closed
<1>4. \A c \in Changes : evolution'[c].pc \in Underway => evolution'[c] = evolution[c] /\ Home(c) # p
  BY <1>1 DEF Idle, Underway
<1>5. Alone'
  BY <1>4 DEF LastingInv, KeptInv, Alone
<1>6. ASSUME NEW c \in Changes
      PROVE  Current(Home(c))' /\ AheadByOne(c)' /\ IndexSound(c)'
             /\ (evolution'[c].pc = "answered" => Remembered(c)' /\ ~Dropping')
  <2>1. Home(c) \in Processes /\ Home(c)' = Home(c)
    BY <1>1, SettingTypes, SettingFixed DEF SchemaTypeOK, LastingInv
  <2>2. Current(Home(c))'
    <3>1. CASE Home(c) = p
      BY <1>1, <2>1, <3>1 DEF Current, Closed
    <3>2. CASE Home(c) # p
      <4>1. \A d \in Changes : evolution'[d] = evolution[d]
        BY <1>1, <3>2 DEF LastingInv, Lasting, OneAtATime
      <4>2. PICK q \in Processes : q = Home(c)
        BY <2>1
      <4>3. Current(q)'
        BY <1>1, <3>2, <4>1, <4>2, CurrentKept DEF LastingInv, KeptInv
      <4> QED BY <2>1, <4>2, <4>3
    <3> QED BY <3>1, <3>2
  <2>3. AheadByOne(c)'
    <3>1. CASE evolution'[c].pc \in Underway
      BY <1>1, <1>2, <1>4, <2>1, <3>1, AheadKept DEF LastingInv, KeptInv
    <3>2. CASE evolution'[c].pc \notin Underway
      BY <3>2 DEF AheadByOne, Underway
    <3> QED BY <3>1, <3>2
  <2>4. IndexSound(c)'
    BY <1>1, <1>2, <1>3, IndexKept DEF LastingInv, KeptInv, IndexSound
  <2>5. evolution'[c].pc = "answered" => Remembered(c)'
    BY <1>1, <1>2, RememberedKept DEF LastingInv, KeptInv, Idle
  <2> QED BY <1>3, <2>2, <2>3, <2>4, <2>5
<1> QED BY <1>5, <1>6 DEF KeptInv

LEMMA KeptDrops ==
  ASSUME LastingInv, NEW p \in Processes, Drops(p)
  PROVE  KeptInv'
<1>1. /\ setting' = setting /\ setting.drops /\ handle[p].pc = "open"
      /\ \A q \in Processes \ {p} : handle'[q] = handle[q]
      /\ handle'[p].pc = "dropping"
      /\ indexes' = [n \in Names |-> None]
      /\ \A c \in Changes : evolution'[c] = Idle
  BY DEF Drops, LastingInv, SchemaTypeOK, Closed
<1>2. \A q \in Processes : handle'[q].pc \in {"closed", "dropping"}
  BY <1>1, OthersClosed DEF LastingInv, Lasting
<1>3. Dropping'
  BY <1>1 DEF Dropping
<1>4. ASSUME NEW c \in Changes
      PROVE  Current(Home(c))' /\ AheadByOne(c)' /\ IndexSound(c)' /\ evolution'[c].pc # "answered"
  <2>1. Home(c) \in Processes /\ Home(c)' = Home(c) /\ Asked(c)' = Asked(c) /\ Asked(c).name \in Names
    BY <1>1, SettingTypes, SettingFixed DEF SchemaTypeOK, LastingInv
  <2>2. Current(Home(c))'
    BY <1>2, <2>1 DEF Current
  <2>3. AheadByOne(c)' /\ evolution'[c].pc # "answered"
    BY <1>1 DEF AheadByOne, Idle, Underway
  <2>4. IndexSound(c)'
    BY <1>1, <1>3, <2>1 DEF IndexSound
  <2> QED BY <2>2, <2>3, <2>4
<1>5. Alone'
  BY <1>1 DEF Alone, Idle, Underway
<1> QED BY <1>4, <1>5 DEF KeptInv

LEMMA KeptUnregisters ==
  ASSUME LastingInv, NEW p \in Processes, Unregisters(p)
  PROVE  KeptInv'
<1>1. /\ setting' = setting /\ registry' = None /\ indexes' = indexes /\ evolution' = evolution
      /\ handle[p].pc = "dropping" /\ handle'[p] = Closed
      /\ \A q \in Processes \ {p} : handle'[q] = handle[q]
  BY DEF Unregisters, LastingInv, SchemaTypeOK
<1>2. \A q \in Processes \ {p} : handle[q].pc = "closed"
  BY <1>1, OthersClosed DEF LastingInv, Lasting, ServedInv, HandleSound
<1>3. \A c \in Changes : evolution[c].pc \notin Underway \cup {"answered"}
  <2> TAKE c \in Changes
  <2>1. Home(c) \in Processes
    BY SettingTypes DEF LastingInv, SchemaTypeOK
  <2>2. evolution[c].pc \notin Underway
    BY <1>1, <1>2, <2>1 DEF LastingInv, ServedInv, ChangeSound
  <2>3. evolution[c].pc # "answered"
    BY <1>1 DEF LastingInv, KeptInv, Dropping
  <2> QED BY <2>2, <2>3
<1>4. ASSUME NEW c \in Changes
      PROVE  Current(Home(c))' /\ AheadByOne(c)' /\ IndexSound(c)'
  <2>1. Home(c) \in Processes /\ Home(c)' = Home(c) /\ Asked(c)' = Asked(c)
        /\ AsksIndex(c)' = AsksIndex(c) /\ Evolves' = Evolves
    BY <1>1, SettingTypes, SettingFixed, LastingFixed DEF SchemaTypeOK, LastingInv
  <2>2. Current(Home(c))'
    BY <1>1, <1>2, <2>1 DEF Current, Closed
  <2>3. AheadByOne(c)'
    BY <1>1, <1>3 DEF AheadByOne, Underway
  <2>4. IndexSound(c)'
    BY <1>1, <2>1 DEF IndexSound, LastingInv, KeptInv
  <2> QED BY <2>2, <2>3, <2>4
<1>5. Alone'
  BY <1>1, <1>3 DEF Alone
<1> QED BY <1>1, <1>3, <1>4, <1>5 DEF KeptInv

(* While a handle is open nobody drops the table, and one call at most is  *)
(* under way.                                                              *)
LEMMA OpenUndropped ==
  ASSUME LastingInv, NEW p \in Processes, handle[p].pc = "open"
  PROVE  ~Dropping
BY NobodyDrops DEF LastingInv, Lasting, ServedInv, HandleSound

LEMMA OthersRest ==
  ASSUME LastingInv, NEW c \in Changes, evolution[c].pc \in Underway \/ MayRun(c)
  PROVE  \A d \in Changes \ {c} : evolution[d].pc \notin Underway
BY DEF LastingInv, Lasting, OneAtATime, KeptInv, Alone, MayRun

(* The steps of a call before it writes the registry.                      *)
LEMMA KeptByChange ==
  ASSUME LastingInv, NEW c \in Changes, setting' = setting, registry' = registry, Grown, IndexesGrown,
         \A d \in Changes \ {c} : evolution'[d] = evolution[d] /\ evolution[d].pc \notin Underway,
         ~Dropping, ~Dropping', Current(Home(c))', AheadByOne(c)',
         evolution'[c].pc = "answered" => Remembered(c)',
         \A d \in Changes : AsksIndex(d) /\ Evolves.indexTwice = "ignored" =>
           indexes'[Asked(d).name] \in {None, Asked(d).def.index}
  PROVE  KeptInv'
<1>1. Alone'
  BY DEF Alone
<1>2. ASSUME NEW d \in Changes
      PROVE  Current(Home(d))' /\ AheadByOne(d)' /\ IndexSound(d)'
             /\ (evolution'[d].pc = "answered" => Remembered(d)' /\ ~Dropping')
  <2>1. Home(d)' = Home(c)'
    BY SettingFixed DEF LastingInv, Lasting, OneAtATime
  <2>2. Current(Home(d))'
    BY <2>1
  <2>3. AheadByOne(d)'
    BY DEF AheadByOne, Underway
  <2>4. IndexSound(d)'
    BY IndexKept DEF LastingInv, KeptInv
  <2>5. evolution'[d].pc = "answered" => Remembered(d)'
    BY RememberedKept DEF LastingInv, KeptInv
  <2> QED BY <2>2, <2>3, <2>4, <2>5
<1> QED BY <1>1, <1>2 DEF KeptInv

(* No index that is asked for is replaced by a step that leaves the        *)
(* indexes alone.                                                          *)
LEMMA IndexesStay ==
  ASSUME LastingInv, indexes' = indexes
  PROVE  \A d \in Changes : AsksIndex(d) /\ Evolves.indexTwice = "ignored" =>
           indexes'[Asked(d).name] \in {None, Asked(d).def.index}
BY DEF LastingInv, KeptInv, IndexSound

(* A call under way ends in an error before the last statement.            *)
LEMMA KeptRefused ==
  ASSUME LastingInv, NEW c \in Changes, setting' = setting, registry' = registry, columns' = columns,
         indexes' = indexes, handle' = handle, evolution[c].pc \in {"alter", "index"},
         evolution'[c].pc = "refused", \A d \in Changes \ {c} : evolution'[d] = evolution[d]
  PROVE  KeptInv'
<1>1. Home(c) \in Processes /\ handle[Home(c)].pc = "open" /\ Home(c)' = Home(c)
  BY SettingTypes, SettingFixed DEF LastingInv, SchemaTypeOK, ServedInv, ChangeSound, Underway
<1>2. \A d \in Changes \ {c} : evolution[d].pc \notin Underway
  BY OthersRest DEF Underway
<1>3. ~Dropping /\ ~Dropping'
  BY <1>1, OpenUndropped DEF Dropping
<1>4. Current(Home(c))'
  <2>1. \A d \in Changes : evolution[d].pc # "register"
    BY <1>2 DEF Underway
  <2> QED BY <1>1, <2>1 DEF LastingInv, KeptInv, Current
<1>5. AheadByOne(c)'
  BY DEF AheadByOne, Underway
<1> QED BY <1>2, <1>3, <1>4, <1>5, IndexesStay, SameColumns, SameIndexes, KeptByChange

LEMMA KeptCallFails ==
  ASSUME LastingInv, NEW c \in Changes, CallFails(c)
  PROVE  KeptInv'
<1>1. evolution[c].pc \in {"alter", "index"}
  BY DEF CallFails, Underway, LastingInv, Lasting, OneAtATime
<1>2. evolution'[c].pc = "refused" /\ \A d \in Changes \ {c} : evolution'[d] = evolution[d]
  BY DEF CallFails, Settles, LastingInv, SchemaTypeOK, Idle
<1> QED BY <1>1, <1>2, KeptRefused DEF CallFails

(* The handle takes the new schema.                                        *)
LEMMA KeptAdopts ==
  ASSUME LastingInv, NEW c \in Changes, setting' = setting, registry' = registry, Grown, IndexesGrown,
         evolution[c].pc \in {"alter", "index"}, Adopts(c),
         AsksIndex(c) => indexes'[Asked(c).name] = Asked(c).def.index,
         \A d \in Changes : AsksIndex(d) /\ Evolves.indexTwice = "ignored" =>
           indexes'[Asked(d).name] \in {None, Asked(d).def.index}
  PROVE  KeptInv'
<1>0. PICK e : e = evolution[c].evolved
  OBVIOUS
<1>1. /\ Home(c) \in Processes /\ handle[Home(c)].pc = "open" /\ Home(c)' = Home(c)
      /\ Asked(c)' = Asked(c) /\ AsksIndex(c)' = AsksIndex(c) /\ Mark(c)' = Mark(c)
      /\ evolution[c] \in Change
  BY SettingTypes, SettingFixed, LastingFixed
     DEF LastingInv, SchemaTypeOK, ServedInv, ChangeSound, Underway
<1>2. \A d \in Changes \ {c} : evolution[d].pc \notin Underway
  BY OthersRest DEF Underway
<1>3. /\ evolution' = [evolution EXCEPT ![c] = [@ EXCEPT !.pc = "register"]]
      /\ handle' = [handle EXCEPT ![Home(c)].schema = e]
  BY <1>0 DEF Adopts
<1>4. /\ \A d \in Changes \ {c} : evolution'[d] = evolution[d]
      /\ evolution'[c].pc = "register" /\ evolution'[c].evolved = e
  BY <1>0, <1>1, <1>3 DEF LastingInv, SchemaTypeOK, Change
<1>5. /\ handle'[Home(c)].pc = "open" /\ handle'[Home(c)].schema = e
      /\ \A q \in Processes \ {Home(c)} : handle'[q] = handle[q]
  BY <1>1, <1>3 DEF LastingInv, SchemaTypeOK, Handle
<1>6. ~Dropping /\ ~Dropping'
  <2>1. ~Dropping
    BY <1>1, OpenUndropped
  <2> QED BY <1>5, <2>1 DEF Dropping
<1>7. Current(Home(c))'
  BY <1>1, <1>4, <1>5 DEF Current
<1>8. AheadByOne(c)'
  <2>1. Extends(e, registry, c)
    BY <1>0 DEF LastingInv, KeptInv, AheadByOne, Underway
  <2>2. Extends(evolution[c].evolved, registry, c)'
    BY <1>1, <1>4, <2>1 DEF Extends
  <2> QED BY <1>1, <1>4, <1>5, <2>2 DEF AheadByOne
<1> QED BY <1>2, <1>4, <1>6, <1>7, <1>8, KeptByChange

LEMMA KeptAlters ==
  ASSUME LastingInv, NEW c \in Changes, Alters(c)
  PROVE  KeptInv'
<1> DEFINE n == Asked(c).name
           d == Asked(c).def
           fails == Opens.createsTable
                    /\ (columns = None \/ (columns[n] # None /\ Evolves.columnTwice = "fails"))
<1>1. /\ setting' = setting /\ registry' = registry /\ indexes' = indexes
      /\ evolution[c].pc = "alter" /\ evolution[c] \in Change
  BY DEF Alters, LastingInv, SchemaTypeOK
<1>2. CASE fails
  <2>1. columns' = columns /\ handle' = handle /\ evolution'[c].pc = "refused"
        /\ \A b \in Changes \ {c} : evolution'[b] = evolution[b]
    BY <1>2 DEF Alters, Settles, LastingInv, SchemaTypeOK, Idle
  <2> QED BY <1>1, <2>1, KeptRefused
<1>3. CASE ~fails
  <2>1. Grown
    <3>1. /\ n \in Names /\ d # None
          /\ columns' = IF columns = None \/ columns[n] # None THEN columns ELSE [columns EXCEPT ![n] = d]
      BY <1>3, SettingTypes, SchemaAssumption DEF Alters, LastingInv, SchemaTypeOK
    <3>2. CASE columns = None
      BY <3>1, <3>2 DEF Grown
    <3>3. CASE columns # None
      <4>1. columns \in Columns /\ columns' \in Columns
        BY <3>1, <3>3, SettingTypes DEF LastingInv, SchemaTypeOK, Columns
      <4> QED BY <3>1, <3>3, <4>1, SchemaAssumption DEF Grown, Columns
    <3> QED BY <3>2, <3>3
  <2>2. CASE AsksIndex(c)
    <3>1. handle' = handle /\ evolution' = [evolution EXCEPT ![c] = [@ EXCEPT !.pc = "index"]]
      BY <1>3, <2>2 DEF Alters, AsksIndex
    <3>2. /\ evolution'[c].pc = "index" /\ evolution'[c].evolved = evolution[c].evolved
          /\ \A b \in Changes \ {c} : evolution'[b] = evolution[b]
      BY <1>1, <3>1 DEF LastingInv, SchemaTypeOK, Change
    <3>3. /\ Home(c) \in Processes /\ handle[Home(c)].pc = "open" /\ Home(c)' = Home(c)
          /\ Asked(c)' = Asked(c) /\ AsksIndex(c)' = AsksIndex(c) /\ Mark(c)' = Mark(c)
      BY <1>1, SettingTypes, SettingFixed, LastingFixed
         DEF LastingInv, SchemaTypeOK, ServedInv, ChangeSound, Underway
    <3>4. \A b \in Changes \ {c} : evolution[b].pc \notin Underway
      BY <1>1, OthersRest DEF Underway
    <3>5. ~Dropping /\ ~Dropping'
      BY <3>1, <3>3, OpenUndropped DEF Dropping
    <3>6. Current(Home(c))'
      <4>1. \A b \in Changes : evolution[b].pc # "register"
        BY <1>1, <3>4 DEF Underway
      <4> QED BY <1>1, <3>1, <3>3, <4>1 DEF LastingInv, KeptInv, Current
    <3>7. AheadByOne(c)'
      BY <1>1, <3>2, <3>3 DEF LastingInv, KeptInv, AheadByOne, Extends, Underway
    <3>8. IndexesGrown /\ evolution'[c].pc # "answered"
      BY <1>1, <3>2, SameIndexes
    <3> QED BY <1>1, <2>1, <3>2, <3>4, <3>5, <3>6, <3>7, <3>8, IndexesStay, KeptByChange
  <2>3. CASE ~AsksIndex(c)
    <3>1. Adopts(c)
      BY <1>3, <2>3 DEF Alters, AsksIndex
    <3> QED BY <1>1, <2>1, <2>3, <3>1, IndexesStay, SameIndexes, KeptAdopts
  <2> QED BY <2>2, <2>3
<1> QED BY <1>2, <1>3

LEMMA KeptIndexes ==
  ASSUME LastingInv, NEW c \in Changes, Indexes(c)
  PROVE  KeptInv'
<1> DEFINE n == Asked(c).name
           u == Asked(c).def.index
<1>1. /\ setting' = setting /\ registry' = registry /\ columns' = columns
      /\ evolution[c].pc = "index" /\ n \in Names /\ indexes \in [Names -> Uniqueness \cup {None}]
  BY SettingTypes DEF Indexes, LastingInv, SchemaTypeOK
<1>2. CASE Settles(c, "refused") /\ UNCHANGED <<indexes, handle>>
  <2>1. evolution'[c].pc = "refused" /\ \A b \in Changes \ {c} : evolution'[b] = evolution[b]
    BY <1>2 DEF Settles, LastingInv, SchemaTypeOK, Idle
  <2> QED BY <1>1, <1>2, <2>1, KeptRefused
<1>3. CASE ~(Settles(c, "refused") /\ UNCHANGED <<indexes, handle>>)
  <2>1. /\ indexes' = [indexes EXCEPT ![n] = IF @ = None THEN u ELSE @] /\ Adopts(c)
        /\ ~(indexes[n] # None /\ Evolves.indexTwice = "fails")
        /\ ~(indexes[n] \notin {None, u} /\ Evolves.indexTwice = "failsIfOther")
    BY <1>3 DEF Indexes
  <2>2. AsksIndex(c)
    BY <1>1 DEF LastingInv, ServedInv, ChangeSound
  <2>3. Evolves.indexTwice \in {"fails", "failsIfOther", "ignored"}
    <3>1. setting.driver \in {"sqlite", "postgres", "mysql", "mongodb"}
      BY SchemaAssumption DEF LastingInv, SchemaTypeOK
    <3> QED BY <3>1 DEF Evolves, SqliteEvolves, PostgresEvolves, MysqlEvolves, MongodbEvolves
  <2>4. indexes[n] \in {None, u}
    BY <2>1, <2>2, <2>3 DEF LastingInv, KeptInv, IndexSound
  <2>5. indexes'[n] = u /\ \A m \in Names \ {n} : indexes'[m] = indexes[m]
    BY <1>1, <2>1, <2>4
  <2>6. IndexesGrown
    BY <2>4, <2>5 DEF IndexesGrown
  <2>7. ASSUME NEW b \in Changes, AsksIndex(b), Evolves.indexTwice = "ignored"
        PROVE  indexes'[Asked(b).name] \in {None, Asked(b).def.index}
    <3>1. Asked(b).name \in Names
      BY SettingTypes DEF LastingInv, SchemaTypeOK
    <3>2. CASE Asked(b).name = n
      <4>1. Mark(b) = Mark(c)
        BY <2>2, <2>7, <3>2 DEF LastingInv, Lasting, NewIndexes
      <4> QED BY <2>5, <3>2, <4>1 DEF Mark
    <3>3. CASE Asked(b).name # n
      BY <2>5, <2>7, <3>1, <3>3 DEF LastingInv, KeptInv, IndexSound
    <3> QED BY <3>2, <3>3
  <2> QED BY <1>1, <2>1, <2>5, <2>6, <2>7, SameColumns, KeptAdopts
<1> QED BY <1>2, <1>3

(* A call that finds nothing to do is answered for the registry has it.    *)
LEMMA FoundRemembered ==
  ASSUME LastingInv, NEW c \in Changes, handle[Home(c)].pc = "open", handle[Home(c)].schema = registry,
         Evolved(c) = registry
  PROVE  Remembered(c)
<1> DEFINE a == Asked(c)
           n == Asked(c).name
<1>0. PICK s : s = registry
  OBVIOUS
<1>1. /\ a.op \in {"addKey", "addIndex"} /\ n \in Names /\ a.def \in Definition /\ a.def # None
      /\ a.def.index \in Uniqueness \cup {None} /\ (a.op = "addIndex" => AsksIndex(c))
      /\ Home(c) \in Processes
  BY SettingTypes, SchemaAssumption DEF LastingInv, SchemaTypeOK
<1>2. s \in Schema /\ s # None /\ s.version + 1 # s.version
  <2>1. s # None
    BY <1>0, <1>1 DEF LastingInv, ServedInv, HandleSound
  <2>2. s \in Schema
    BY <1>0, <2>1 DEF LastingInv, SchemaTypeOK
  <2>3. s.version \in Nat
    BY <2>2 DEF Schema
  <2> QED BY <2>1, <2>2, <2>3
<1>3. ~Dropping /\ Served(s)
  BY <1>0, <1>1, <1>2, OpenUndropped DEF LastingInv, ServedInv, TableSound
<1>4. s.keys[n] # None /\ (a.op = "addKey" => s.keys[n] = a.def) /\ (AsksIndex(c) => Mark(c) \in s.indexes)
  <2>1. CASE a.op = "addKey"
    <3>1. s.keys[n] = a.def
      <4> SUFFICES ASSUME s.keys[n] # a.def PROVE FALSE
        OBVIOUS
      <4>1. Evolved(c) = evolveSchemaAddKey(s, n, a.def)
        BY <1>0, <2>1 DEF Evolved
      <4>2. evolveSchemaAddKey(s, n, a.def) = None
            \/ evolveSchemaAddKey(s, n, a.def).version = s.version + 1
        BY <1>2 DEF evolveSchemaAddKey, Schema
      <4> QED BY <1>0, <1>2, <4>1, <4>2
    <3>2. AsksIndex(c) => Mark(c) \in s.indexes
      BY <1>0, <1>1, <1>2, <1>3, <3>1 DEF LastingInv, KeptInv, IndexSound, AsksIndex, Mark
    <3> QED BY <1>1, <2>1, <3>1, <3>2
  <2>2. CASE a.op = "addIndex"
    <3>1. Evolved(c) = evolveSchemaAddIndex(s, Mark(c))
      BY <1>0, <2>2 DEF Evolved, Mark
    <3>2. s.keys[n] # None
      BY <1>0, <1>2, <3>1 DEF evolveSchemaAddIndex, Mark
    <3>3. Mark(c) \in s.indexes
      <4> SUFFICES ASSUME Mark(c) \notin s.indexes PROVE FALSE
        OBVIOUS
      <4>1. evolveSchemaAddIndex(s, Mark(c)).version = s.version + 1
        BY <1>2, <3>2 DEF evolveSchemaAddIndex, Schema, Mark
      <4> QED BY <1>0, <1>2, <3>1, <4>1
    <3> QED BY <2>2, <3>2, <3>3
  <2> QED BY <1>1, <2>1, <2>2
<1>5. AsksIndex(c) => indexes[n] = a.def.index
  BY <1>0, <1>1, <1>2, <1>3, <1>4 DEF LastingInv, KeptInv, IndexSound, AsksIndex, Mark
<1>6. Opens.createsTable => columns # None /\ columns[n] # None
  BY <1>1, <1>3, <1>4 DEF Served, HasColumn
<1> QED BY <1>0, <1>2, <1>4, <1>5, <1>6 DEF Remembered

LEMMA KeptCallStarts ==
  ASSUME LastingInv, NEW c \in Changes, CallStarts(c)
  PROVE  KeptInv'
<1>0. PICK s : s = handle[Home(c)].schema
  OBVIOUS
<1>00. PICK e : e = Evolved(c)
  OBVIOUS
<1>1. /\ setting' = setting /\ columns' = columns /\ registry' = registry /\ handle' = handle
      /\ indexes' = indexes /\ handle[Home(c)].pc = "open" /\ evolution[c].pc \in {"idle", "refused"}
      /\ MayRun(c) /\ Grown /\ IndexesGrown
      /\ \A d \in Changes \ {c} : evolution'[d] = evolution[d]
      /\ evolution'[c] = IF e \in {None, s}
                         THEN [Idle EXCEPT !.pc = IF e = None THEN "refused" ELSE "answered"]
                         ELSE [evolved |-> e, pc |-> IF Asked(c).op = "addKey" THEN "alter" ELSE "index"]
  BY <1>0, <1>00, SameColumns, SameIndexes DEF CallStarts, Settles, LastingInv, SchemaTypeOK
<1>2. /\ Home(c) \in Processes /\ Home(c)' = Home(c) /\ Asked(c)' = Asked(c)
      /\ AsksIndex(c)' = AsksIndex(c) /\ Mark(c)' = Mark(c)
  BY <1>1, SettingTypes, SettingFixed, LastingFixed DEF LastingInv, SchemaTypeOK
<1>3. \A d \in Changes \ {c} : evolution[d].pc \notin Underway
  BY <1>1, OthersRest
<1>4. ~Dropping /\ ~Dropping'
  BY <1>1, <1>2, OpenUndropped DEF Dropping
<1>5. s = registry /\ s \in Schema
  <2>1. \A d \in Changes : evolution[d].pc # "register"
    BY <1>1, <1>3 DEF Underway
  <2>2. s = registry
    BY <1>0, <1>1, <2>1 DEF LastingInv, KeptInv, Current
  <2>3. s \in Schema
    BY <1>0, <1>1, <1>2 DEF LastingInv, SchemaTypeOK, Handle
  <2> QED BY <2>2, <2>3
<1>6. Current(Home(c))'
  BY <1>0, <1>1, <1>2, <1>5 DEF Current
<1>7. CASE e \in {None, s}
  <2>1. evolution'[c].pc = IF e = None THEN "refused" ELSE "answered"
    BY <1>1, <1>7 DEF Idle
  <2>2. AheadByOne(c)'
    BY <2>1 DEF AheadByOne, Underway
  <2>3. evolution'[c].pc = "answered" => Remembered(c)'
    <3>1. evolution'[c].pc = "answered" => Remembered(c)
      BY <1>0, <1>00, <1>1, <1>5, <1>7, <2>1, FoundRemembered
    <3> QED BY <1>1, <3>1, RememberedKept DEF LastingInv
  <2> QED BY <1>1, <1>3, <1>4, <1>6, <2>2, <2>3, IndexesStay, KeptByChange
<1>8. CASE e \notin {None, s}
  <2>1. Extends(e, s, c)
    BY <1>0, <1>00, <1>5, <1>8, EvolvedExtends DEF LastingInv
  <2>2. evolution'[c].evolved = e /\ evolution'[c].pc \in {"alter", "index"}
    BY <1>1, <1>8
  <2>3. AheadByOne(c)'
    BY <1>1, <1>2, <1>5, <2>1, <2>2 DEF AheadByOne, Extends
  <2> QED BY <1>1, <1>3, <1>4, <1>6, <2>2, <2>3, IndexesStay, KeptByChange
<1> QED BY <1>7, <1>8

(* The registry takes the schema of the call, which has what it had.       *)
LEMMA KeptRegisters ==
  ASSUME LastingInv, NEW c \in Changes, Registers(c)
  PROVE  KeptInv'
<1>0. PICK e : e = evolution[c].evolved
  OBVIOUS
<1>00. PICK r : r = registry
  OBVIOUS
<1> DEFINE n == Asked(c).name
<1>1. /\ setting' = setting /\ columns' = columns /\ handle' = handle /\ indexes' = indexes
      /\ evolution[c].pc = "register" /\ evolution[c].pc \in Underway /\ evolution'[c].pc = "answered"
      /\ \A d \in Changes \ {c} : evolution'[d] = evolution[d]
      /\ evolution[c] \in Change
  BY DEF Registers, Settles, LastingInv, SchemaTypeOK, Idle, Underway
<1>2. /\ Home(c) \in Processes /\ handle[Home(c)].pc = "open" /\ r # None
      /\ n \in Names /\ Asked(c).op \in {"addKey", "addIndex"} /\ Asked(c).def.index \in Uniqueness \cup {None}
      /\ (Asked(c).op = "addIndex" => AsksIndex(c))
      /\ e \in Schema /\ e # None /\ r \in Schema /\ Served(e)
  BY <1>0, <1>00, <1>1, SettingTypes
     DEF LastingInv, SchemaTypeOK, ServedInv, ChangeSound, HandleSound, Change
<1>3. registry' = e
  BY <1>0, <1>00, <1>2 DEF Registers
<1>4. Extends(e, r, c) /\ handle[Home(c)].schema = e
      /\ (AsksIndex(c) => indexes[n] = Asked(c).def.index)
  BY <1>0, <1>00, <1>1 DEF LastingInv, KeptInv, AheadByOne
<1>5. \A d \in Changes \ {c} : evolution[d].pc \notin Underway
  BY <1>1, OthersRest
<1>6. ~Dropping /\ ~Dropping'
  BY <1>1, <1>2, OpenUndropped DEF Dropping
<1>7. r.keys = [m \in Names |-> r.keys[m]] /\ e.keys = [m \in Names |-> e.keys[m]]
  BY <1>2 DEF Schema, Columns
<1>8. \A m \in Names : /\ r.keys[m] # None => e.keys[m] = r.keys[m]
                       /\ e.keys[m] = r.keys[m] \/ (m = n /\ e.keys[m] = Asked(c).def)
  BY <1>2, <1>4, <1>7 DEF Extends
<1>9. RegistryGrown
  <2>1. r.indexes \subseteq e.indexes
    BY <1>4 DEF Extends
  <2> QED BY <1>00, <1>2, <1>3, <1>8, <2>1 DEF RegistryGrown
<1>10. Grown /\ IndexesGrown
  BY <1>1, SameColumns, SameIndexes
<1>11. Remembered(c)'
  <2>1. /\ Asked(c)' = Asked(c) /\ Opens' = Opens /\ AsksIndex(c)' = AsksIndex(c) /\ Mark(c)' = Mark(c)
    BY <1>1, SettingFixed, LastingFixed
  <2>2. e.keys[n] # None /\ (Asked(c).op = "addKey" => e.keys[n] = Asked(c).def)
        /\ (AsksIndex(c) => Mark(c) \in e.indexes)
    BY <1>2, <1>4, <1>7 DEF Extends
  <2>3. Opens.createsTable => columns # None /\ columns[n] # None
    BY <1>2, <2>2 DEF Served, HasColumn
  <2> QED BY <1>1, <1>2, <1>3, <1>4, <2>1, <2>2, <2>3 DEF Remembered
<1>12. Alone'
  BY <1>1, <1>5 DEF Alone, Underway
<1>13. ASSUME NEW d \in Changes
       PROVE  Current(Home(d))' /\ AheadByOne(d)' /\ IndexSound(d)'
              /\ (evolution'[d].pc = "answered" => Remembered(d)' /\ ~Dropping')
  <2>1. /\ Home(d)' = Home(c) /\ Asked(d)' = Asked(d) /\ AsksIndex(d)' = AsksIndex(d)
        /\ Evolves' = Evolves /\ Asked(d).name \in Names
    BY <1>1, SettingTypes, SettingFixed, LastingFixed DEF LastingInv, SchemaTypeOK, Lasting, OneAtATime
  <2>2. Current(Home(d))'
    BY <1>1, <1>2, <1>3, <1>4, <2>1 DEF Current
  <2>3. AheadByOne(d)'
    BY <1>1, <1>5 DEF AheadByOne, Underway
  <2>4. evolution'[d].pc = "answered" => Remembered(d)'
    BY <1>1, <1>9, <1>10, <1>11, RememberedKept DEF LastingInv, KeptInv
  <2>5. IndexSound(d)'
    <3> DEFINE m == Asked(d).name
    <3>1. ASSUME AsksIndex(d)
          PROVE  /\ \A u \in Uniqueness : [on |-> m, unique |-> u] \in r.indexes => indexes[m] = u
                 /\ r.keys[m] # None /\ r.keys[m].index # None
                      => [on |-> m, unique |-> r.keys[m].index] \in r.indexes
                 /\ Evolves.indexTwice = "ignored" => indexes[m] \in {None, Asked(d).def.index}
      BY <1>00, <1>2, <1>6, <3>1 DEF LastingInv, KeptInv, IndexSound
    <3>2. ASSUME AsksIndex(d), NEW u \in Uniqueness, [on |-> m, unique |-> u] \in e.indexes
          PROVE  indexes[m] = u
      <4>1. CASE [on |-> m, unique |-> u] \in r.indexes
        BY <3>1, <3>2, <4>1
      <4>2. CASE AsksIndex(c) /\ [on |-> m, unique |-> u] = Mark(c)
        <5>1. m = n /\ u = Asked(c).def.index
          BY <4>2 DEF Mark
        <5> QED BY <1>4, <4>2, <5>1
      <4> QED BY <1>4, <3>2, <4>1, <4>2 DEF Extends
    <3>3. ASSUME AsksIndex(d), e.keys[m] # None, e.keys[m].index # None
          PROVE  [on |-> m, unique |-> e.keys[m].index] \in e.indexes
      <4>1. CASE e.keys[m] = r.keys[m]
        BY <1>00, <1>3, <1>9, <3>1, <3>3, <4>1 DEF RegistryGrown
      <4>2. CASE m = n /\ e.keys[m] = Asked(c).def
        BY <1>4, <3>3, <4>2 DEF Extends, AsksIndex, Mark
      <4> QED BY <1>8, <2>1, <4>1, <4>2
    <3> QED BY <1>1, <1>3, <2>1, <3>1, <3>2, <3>3 DEF IndexSound
  <2> QED BY <1>6, <2>2, <2>3, <2>4, <2>5
<1> QED BY <1>12, <1>13 DEF KeptInv

(* A step that changes nothing.                                            *)
LEMMA KeptStays ==
  ASSUME LastingInv, UNCHANGED schema
  PROVE  KeptInv'
<1>1. /\ setting' = setting /\ columns' = columns /\ registry' = registry /\ handle' = handle
      /\ indexes' = indexes /\ evolution' = evolution
  BY DEF schema
<1>2. Alone' /\ Dropping' = Dropping
  BY <1>1 DEF LastingInv, KeptInv, Alone, Dropping
<1>3. ASSUME NEW c \in Changes
      PROVE  Current(Home(c))' /\ AheadByOne(c)' /\ IndexSound(c)'
             /\ (evolution'[c].pc = "answered" => Remembered(c)' /\ ~Dropping')
  <2>1. Home(c)' = Home(c)
    BY <1>1, SettingFixed
  <2>2. Current(Home(c))'
    BY <1>1, <2>1, SettingFixed DEF LastingInv, KeptInv, Current
  <2>3. AheadByOne(c)' /\ IndexSound(c)' /\ (evolution'[c].pc = "answered" => Remembered(c)')
    BY <1>1, <1>2, AheadKept, IndexKept, RememberedKept, SameColumns, SameIndexes
       DEF LastingInv, KeptInv, IndexSound
  <2> QED BY <1>1, <1>2, <2>2, <2>3 DEF LastingInv, KeptInv
<1> QED BY <1>2, <1>3 DEF KeptInv

(* Every step keeps it.                                                    *)
LEMMA KeptStep ==
  ASSUME LastingInv, [SchemaNext]_schema
  PROVE  KeptInv'
<1>1. ASSUME NEW p \in Processes, ProcessSteps(p) PROVE KeptInv'
  BY <1>1, KeptOpenReads, KeptOpenCreates, KeptOpenRegisters, KeptOpenIndexes, KeptOpenFails,
     KeptCrash, KeptDrops, KeptUnregisters DEF ProcessSteps
<1>2. ASSUME NEW c \in Changes, ChangeSteps(c) PROVE KeptInv'
  BY <1>2, KeptCallStarts, KeptAlters, KeptIndexes, KeptRegisters, KeptCallFails DEF ChangeSteps
<1> QED BY <1>1, <1>2, KeptStays DEF SchemaNext, ProcessSteps, ChangeSteps

LEMMA KeptInit == SchemaInit => KeptInv
<1> SUFFICES ASSUME SchemaInit PROVE KeptInv
  OBVIOUS
<1>1. SchemaTypeOK /\ registry = None
  BY ServedInit DEF SchemaInit
<1>2. \A c \in Changes : Home(c) \in Processes /\ Asked(c).name \in Names
  BY <1>1, SettingTypes DEF SchemaTypeOK
<1> QED BY <1>1, <1>2 DEF SchemaInit, KeptInv, Alone, Current, AheadByOne, IndexSound, Closed, Idle, Underway

(* Where besides one process alters the table, one call at a time, writes  *)
(* of the registry do not fail, and indexes that are asked for are new,    *)
(* the registry is the schema of that process, or one call behind it.      *)
THEOREM SchemaKept == SchemaSpec => [](Lasting => KeptInv)
<1>1. SchemaInit => (Lasting => KeptInv)
  BY KeptInit
<1>2. /\ SchemaTypeOK /\ (Orderly => ServedInv) /\ (Lasting => KeptInv) /\ [SchemaNext]_schema
      => (Lasting => KeptInv)'
  BY KeptStep, SettingStays, LastingFixed DEF LastingInv, Lasting
<1> QED BY <1>1, <1>2, SchemaTypes, SchemaServed, PTL DEF SchemaSpec

(* NothingForgotten: under these conditions no key and no index is lost of *)
(* a call that was answered, though others open the table and statements   *)
(* fail and processes crash.                                               *)
THEOREM NothingIsForgotten == SchemaSpec => [](Lasting => NothingForgotten)
<1>1. Lasting /\ KeptInv => NothingForgotten
  BY DEF KeptInv, NothingForgotten, Remembered, AsksIndex, Mark
<1> QED BY <1>1, SchemaKept, PTL

-----------------------------------------------------------------------------
(* The pages of a query.                                                   *)

(* Nothing is left out after the limit, and a limit lets something pass.   *)
Paged(q) == ~q.soft /\ 0 \notin q.limit

(* How many rows are found.                                                *)
Size == Counted(backend, table, query)

UpTo(n) == IF n <= Size THEN n ELSE Size

(* The pages so far are as many rows as there are up to the offset.        *)
PagesInv ==
  /\ table \in Tables /\ query \in Queries
  /\ offset \in Nat /\ seen \in Seq(Selected(backend, table, query))
  /\ total \in {{}, {Size}}
  /\ Len(seen) = (IF state = "done" THEN Size ELSE UpTo(offset)) - UpTo(query.offset)
  /\ query.offset <= offset

(* They are those of every listing that the order allows.                  *)
ListedInv ==
  /\ state = "done" \/ seen # <<>> => Listings(backend, table, query) # {}
  /\ \A keys \in Listings(backend, table, query) : \A i \in 1..Len(seen) : seen[i] = keys[query.offset + i]

(* Tables are finite.                                                      *)
LEMMA SizeType ==
  ASSUME NEW t \in Tables, NEW b, NEW q
  PROVE  Counted(b, t, q) \in Nat
<1>1. IsFiniteSet(DOMAIN t.rows) /\ Selected(b, t, q) \in SUBSET DOMAIN t.rows
  BY FindAssumption DEF Selected, Matching
<1> QED BY <1>1, FS_Subset, FS_CardinalityType DEF Counted

(* A set of natural numbers has a least one.                               *)
LEMMA Least ==
  ASSUME NEW S \in SUBSET Nat, S # {}
  PROVE  \E n \in S : \A m \in S : n <= m
<1> DEFINE R == {p \in Nat \X Nat : p[1] < p[2]}
<1>1. IsWellFoundedOn(R, Nat)
  BY NatLessThanWellFounded DEF OpToRel
<1> HIDE DEF R
<1>2. PICK n \in S : \A m \in S : ~(<<m, n>> \in R)
  BY <1>1, WFMin
<1>3. \A m \in S : ~(m < n)
  BY <1>2 DEF R
<1> QED BY <1>3

(* A listing has every row that is found, once.                            *)
LEMMA ListingIs ==
  ASSUME NEW t \in Tables, NEW b, NEW q, NEW keys \in Listings(b, t, q)
  PROVE  LET n == Counted(b, t, q)
             S == Selected(b, t, q)
         IN  /\ n \in Nat /\ keys \in [1..n -> S] /\ keys \in Seq(S) /\ Len(keys) = n
             /\ \A i, j \in 1..n : keys[i] = keys[j] => i = j
             /\ \A k \in S : \E i \in 1..n : keys[i] = k
<1> DEFINE n == Counted(b, t, q)
           S == Selected(b, t, q)
<1>1. n \in Nat
  BY SizeType
<1>2. keys \in Bijection(1..n, S)
  BY DEF Listings
<1>3. /\ keys \in [1..n -> S]
      /\ \A i, j \in 1..n : keys[i] = keys[j] => i = j
      /\ \A k \in S : \E i \in 1..n : keys[i] = k
  BY <1>2 DEF Bijection, Injection, Surjection, IsInjective
<1>4. keys \in Seq(S) /\ Len(keys) = n
  BY <1>1, <1>3, IsASeq
<1> QED BY <1>1, <1>3, <1>4

(* If the order tells the rows apart there is one listing at most.         *)
LEMMA OneListing ==
  ASSUME NEW t \in Tables, NEW b, NEW q, Distinct(b, t, q),
         NEW keys \in Listings(b, t, q), NEW others \in Listings(b, t, q)
  PROVE  keys = others
<1> DEFINE n == Counted(b, t, q)
           S == Selected(b, t, q)
           D == {i \in 1..n : keys[i] # others[i]}
<1>1. /\ n \in Nat /\ keys \in [1..n -> S] /\ others \in [1..n -> S]
      /\ \A i, j \in 1..n : others[i] = others[j] => i = j
      /\ \A i, j \in 1..n : keys[i] = keys[j] => i = j
      /\ \A k \in S : \E i \in 1..n : keys[i] = k
      /\ \A k \in S : \E i \in 1..n : others[i] = k
  BY ListingIs
<1>2. /\ \A i, j \in 1..n : i < j => ~SortsBefore(b, t, q, keys[j], keys[i])
      /\ \A i, j \in 1..n : i < j => ~SortsBefore(b, t, q, others[j], others[i])
  BY <1>1 DEF Listings, Ordered
<1> SUFFICES ASSUME D # {} PROVE FALSE
  BY <1>1
<1> HIDE DEF n, S
<1>3. PICK i \in D : \A m \in D : i <= m
  <2>1. D \in SUBSET Nat
    BY <1>1
  <2> HIDE DEF D
  <2> QED BY <2>1, Least
<1>4. PICK j \in 1..n : keys[j] = others[i]
  BY <1>1
<1>5. PICK k \in 1..n : others[k] = keys[i]
  BY <1>1
<1>6. i \in 1..n /\ keys[i] # others[i] /\ \A m \in 1..n : m < i => keys[m] = others[m]
  BY <1>1, <1>3
<1>7. i < j
  <2>1. j # i
    BY <1>4, <1>6
  <2>2. ~(j < i)
    BY <1>1, <1>4, <1>6
  <2> QED BY <1>1, <1>6, <2>1, <2>2
<1>8. i < k
  <2>1. k # i
    BY <1>5, <1>6
  <2>2. ~(k < i)
    BY <1>1, <1>5, <1>6
  <2> QED BY <1>1, <1>6, <2>1, <2>2
<1>9. ~SortsBefore(b, t, q, others[i], keys[i])
  BY <1>2, <1>4, <1>6, <1>7
<1>10. ~SortsBefore(b, t, q, keys[i], others[i])
  BY <1>2, <1>5, <1>6, <1>8
<1>11. keys[i] \in S /\ others[i] \in S
  BY <1>1, <1>6
<1> QED BY <1>6, <1>9, <1>10, <1>11 DEF Distinct, S

(* How many of n rows lie beyond an offset.                                *)
Rest(n, from) == IF from <= n THEN n - from ELSE 0

(* What a page has of the rows in their order.                             *)
Page(page, S, n, keys, from, limit) ==
  /\ page \in Seq(S)
  /\ limit = {} => Len(page) = Rest(n, from)
  /\ \A m \in limit : Len(page) = IF m < Rest(n, from) THEN m ELSE Rest(n, from)
  /\ \A i \in 1..Len(page) : page[i] = keys[from + i]

LEMMA PageIs ==
  ASSUME NEW S, NEW n \in Nat, NEW keys \in [1..n -> S], NEW b, NEW from \in Nat,
         NEW limit \in SUBSET Nat, \A m, l \in limit : m = l, 0 \notin limit
  PROVE  Page(Slice(b, keys, from, limit), S, n, keys, from, limit)
<1> DEFINE rest == SubSeq(keys, from + 1, Len(keys))
           page == Slice(b, keys, from, limit)
           size == Rest(n, from)
<1>1. keys \in Seq(S) /\ Len(keys) = n
  BY IsASeq
<1>2. rest \in Seq(S) /\ Len(rest) = size /\ \A i \in 1..size : rest[i] = keys[from + i]
  BY <1>1, SubSeqProperties DEF Rest
<1>0. size \in Nat
  BY DEF Rest
<1> HIDE DEF size
<1> HIDE DEF rest
<1>3. CASE \E m \in limit : m < size
  <2>1. PICK m \in limit : m < size
    BY <1>3
  <2>2. (CHOOSE l \in limit : TRUE) = m
    BY <2>1
  <2>3. page = SubSeq(rest, 1, m)
    BY <1>0, <1>2, <2>1, <2>2 DEF Slice, rest
  <2> HIDE DEF page
  <2>4. page \in Seq(S) /\ Len(page) = m /\ \A i \in 1..m : page[i] = rest[i]
    <3>1. m \in Int /\ 1 \in Int /\ \A i \in 1..m : rest[i] \in S
      BY <1>0, <1>2, <2>1, ElementOfSeq
    <3>2. /\ SubSeq(rest, 1, m) \in Seq(S)
          /\ Len(SubSeq(rest, 1, m)) = IF 1 <= m THEN m - 1 + 1 ELSE 0
          /\ \A i \in 1..(m - 1 + 1) : SubSeq(rest, 1, m)[i] = rest[1 + i - 1]
      BY <3>1, SubSeqProperties
    <3> QED BY <2>1, <2>3, <3>2
  <2>5. \A i \in 1..Len(page) : page[i] = keys[from + i]
    BY <1>0, <1>2, <2>1, <2>4
  <2>6. \A l \in limit : Len(page) = IF l < size THEN l ELSE size
    BY <2>1, <2>4
  <2> QED BY <2>1, <2>4, <2>5, <2>6 DEF page, size, Page
<1>4. CASE ~\E m \in limit : m < size
  <2>1. page = rest
    BY <1>0, <1>2, <1>4 DEF Slice, rest
  <2> HIDE DEF page
  <2>2. \A l \in limit : Len(page) = IF l < size THEN l ELSE size
    BY <1>0, <1>2, <1>4, <2>1
  <2> QED BY <1>0, <1>2, <1>4, <2>1, <2>2 DEF page, size, Page
<1> QED BY <1>3, <1>4

ReaderInv ==
  /\ table \in Tables /\ query \in Queries
  /\ Paged(query) => PagesInv /\ (Distinct(backend, table, query) => ListedInv)

(* The invariant of the reader.                                            *)
LEMMA ReaderStart == ReaderInit => ReaderInv
<1> SUFFICES ASSUME ReaderInit PROVE ReaderInv
  OBVIOUS
<1>1. /\ table \in Tables /\ query \in Queries
      /\ offset = query.offset /\ seen = <<>> /\ total = {} /\ state = "reading"
  BY DEF ReaderInit
<1>2. Size \in Nat /\ query.offset \in Nat
  BY <1>1, SizeType, FindAssumption DEF Size
<1>3. seen \in Seq(Selected(backend, table, query)) /\ Len(seen) = 0
  BY <1>1, EmptySeq
<1>4. PagesInv
  BY <1>1, <1>2, <1>3 DEF PagesInv, UpTo
<1>5. ListedInv
  BY <1>1, <1>3 DEF ListedInv
<1> QED BY <1>1, <1>4, <1>5 DEF ReaderInv

(* The next page goes on where the last one ended.                         *)
LEMMA PageStep ==
  ASSUME ReaderInv, Paged(query), NextPage
  PROVE  PagesInv' /\ (Distinct(backend, table, query) => ListedInv')
<1> DEFINE S == Selected(backend, table, query)
           Ls == Listings(backend, table, query)
<1>1. /\ backend' = backend /\ table' = table /\ query' = query /\ total' = total
      /\ state = "reading"
      /\ offset' = offset + (IF query.limit = {} THEN 0 ELSE CHOOSE n \in query.limit : TRUE)
  BY DEF NextPage
<1>2. PICK page \in find(backend, table, query, offset) :
        /\ seen' = seen \o page
        /\ state' = IF page = <<>> \/ query.limit = {} THEN "done" ELSE "reading"
  BY DEF NextPage
<1>3. PICK keys \in Ls : page = Slice(backend, keys, offset, query.limit)
  BY <1>2 DEF find, Paged
<1>4. /\ table \in Tables /\ query \in Queries /\ offset \in Nat /\ seen \in Seq(S)
      /\ total \in {{}, {Size}} /\ query.offset <= offset
      /\ Len(seen) = UpTo(offset) - UpTo(query.offset)
  BY <1>1 DEF ReaderInv, PagesInv
<1>5. /\ Size \in Nat /\ query.offset \in Nat /\ query.limit \in SUBSET Nat
      /\ \A m, l \in query.limit : m = l
      /\ 0 \notin query.limit
  BY <1>4, SizeType, FindAssumption DEF Size, Paged
<1>6. /\ keys \in [1..Size -> S]
      /\ \A i, j \in 1..Size : keys[i] = keys[j] => i = j
  BY <1>3, <1>4, ListingIs DEF Size
<1>7. Size' = Size /\ S' = S /\ Ls' = Ls
  BY <1>1 DEF Size, Counted, Selected, Matching, Listings, Ordered
<1> DEFINE rest == Rest(Size, offset)
<1>8. /\ page \in Seq(S)
      /\ query.limit = {} => Len(page) = rest
      /\ \A m \in query.limit : Len(page) = IF m < rest THEN m ELSE rest
      /\ \A i \in 1..Len(page) : page[i] = keys[offset + i]
  <2> HIDE DEF S, Ls, rest
  <2>1. Page(page, S, Size, keys, offset, query.limit)
    BY <1>3, <1>4, <1>5, <1>6, PageIs
  <2> QED BY <2>1 DEF rest, Page
<1> HIDE DEF S, Ls
<1>9. /\ seen' \in Seq(S) /\ Len(seen') = Len(seen) + Len(page)
      /\ \A i \in 1..(Len(seen) + Len(page)) :
           seen'[i] = IF i <= Len(seen) THEN seen[i] ELSE page[i - Len(seen)]
  BY <1>2, <1>4, <1>8, ConcatProperties
<1>10. Len(page) \in Nat /\ Len(seen) \in Nat /\ (page = <<>> <=> Len(page) = 0)
  BY <1>4, <1>8, LenProperties, EmptySeq
<1>11. offset' \in Nat /\ offset <= offset'
       /\ Len(page) = (IF state' = "done" THEN Size ELSE UpTo(offset')) - UpTo(offset)
  <2>1. CASE query.limit = {}
    <3>1. offset' = offset /\ state' = "done" /\ Len(page) = Rest(Size, offset)
      BY <1>1, <1>2, <1>4, <1>8, <2>1
    <3> QED BY <1>4, <1>5, <3>1 DEF UpTo, Rest
  <2>2. CASE query.limit # {}
    <3>1. PICK m \in query.limit : m = CHOOSE n \in query.limit : TRUE
      BY <2>2
    <3>2. m \in Nat /\ m > 0 /\ offset' = offset + m /\ Len(page) = IF m < rest THEN m ELSE rest
      BY <1>1, <1>5, <1>8, <2>2, <3>1
    <3>3. state' = "done" <=> Len(page) = 0
      BY <1>2, <1>10, <2>2
    <3> QED BY <1>4, <1>5, <3>2, <3>3 DEF UpTo, Rest
  <2> QED BY <2>1, <2>2
<1>12. UpTo(offset)' = UpTo(offset') /\ UpTo(query.offset)' = UpTo(query.offset)
       /\ UpTo(offset) \in Nat /\ UpTo(query.offset) \in Nat
  BY <1>1, <1>4, <1>5, <1>7 DEF UpTo
<1>13. PagesInv'
  <2>1. Len(seen') = (IF state' = "done" THEN Size ELSE UpTo(offset')) - UpTo(query.offset)
    BY <1>4, <1>5, <1>9, <1>10, <1>11, <1>12 DEF UpTo
  <2> QED BY <1>1, <1>4, <1>5, <1>7, <1>9, <1>11, <1>12, <2>1 DEF PagesInv, S
<1>14. ASSUME Distinct(backend, table, query) PROVE ListedInv'
  <2>1. ListedInv
    BY <1>14 DEF ReaderInv
  <2>2. \A others \in Ls : others = keys
    BY <1>3, <1>4, <1>14, OneListing DEF Ls
  <2>3. ASSUME NEW i \in 1..Len(seen') PROVE seen'[i] = keys[query.offset + i]
    <3>1. CASE i <= Len(seen)
      BY <1>3, <1>9, <1>10, <2>1, <3>1 DEF ListedInv, Ls
    <3>2. CASE ~(i <= Len(seen))
      <4>1. i - Len(seen) \in 1..Len(page)
        BY <1>9, <1>10, <3>2
      <4>2. seen'[i] = page[i - Len(seen)] /\ page[i - Len(seen)] = keys[offset + (i - Len(seen))]
        BY <1>8, <1>9, <1>10, <3>2, <4>1
      <4>3. offset <= Size
        BY <1>1, <1>4, <1>5, <1>8, <1>10, <4>1 DEF Rest
      <4>4. offset + (i - Len(seen)) = query.offset + i
        BY <1>4, <1>5, <1>10, <4>3 DEF UpTo
      <4> QED BY <4>2, <4>4
    <3> QED BY <3>1, <3>2
  <2>4. (Listings(backend, table, query) # {})'
    BY <1>3, <1>7 DEF Ls
  <2> QED BY <1>1, <1>7, <2>2, <2>3, <2>4 DEF ListedInv, Ls
<1> QED BY <1>13, <1>14

LEMMA ReaderStep == ReaderInv /\ [ReaderNext]_reader => ReaderInv'
<1> SUFFICES ASSUME ReaderInv, [ReaderNext]_reader PROVE ReaderInv'
  OBVIOUS
<1>1. backend' = backend /\ table' = table /\ query' = query
  BY DEF ReaderNext, NextPage, Counts, Fails, reader
<1>2. /\ Paged(query)' = Paged(query) /\ Size' = Size
      /\ Distinct(backend, table, query)' = Distinct(backend, table, query)
      /\ Selected(backend, table, query)' = Selected(backend, table, query)
      /\ Listings(backend, table, query)' = Listings(backend, table, query)
  BY <1>1 DEF Paged, Size, Counted, Selected, Matching, Distinct, Listings, Ordered
<1>3. CASE NextPage
  BY <1>1, <1>2, <1>3, PageStep DEF ReaderInv
<1>4. ASSUME UNCHANGED <<offset, seen>>, total' \in {total, {Size}} \/ ~Paged(query),
             state' = state \/ (state = "reading" /\ state' = "failed")
      PROVE  ReaderInv'
  <2>1. ASSUME Paged(query), PagesInv PROVE PagesInv'
    <3>1. Len(seen') = ((IF state = "done" THEN Size ELSE UpTo(offset)) - UpTo(query.offset))'
      BY <1>1, <1>2, <1>4, <2>1 DEF PagesInv, UpTo
    <3> QED BY <1>1, <1>2, <1>4, <2>1, <3>1 DEF PagesInv
  <2>2. ListedInv => ListedInv'
    BY <1>1, <1>2, <1>4 DEF ListedInv
  <2> QED BY <1>1, <1>2, <2>1, <2>2 DEF ReaderInv
<1>5. CASE Counts
  <2>1. Paged(query) => total' = {Size}
    BY <1>5 DEF Counts, count, Paged, Size
  <2> QED BY <1>4, <1>5, <2>1 DEF Counts
<1>6. CASE Fails
  BY <1>4, <1>6 DEF Fails
<1>7. CASE UNCHANGED reader
  BY <1>4, <1>7 DEF reader
<1> QED BY <1>3, <1>5, <1>6, <1>7 DEF ReaderNext

(* The invariant tells what was read.                                      *)
LEMMA RowsOnce ==
  ASSUME ReaderInv, Paged(query)
  PROVE  EachRowOnce
<1> DEFINE S == Selected(backend, table, query)
<1>1. /\ table \in Tables /\ query.offset \in Nat /\ Size \in Nat /\ PagesInv
      /\ Len(seen) \in Nat /\ offset \in Nat /\ seen \in Seq(S) /\ DOMAIN seen = 1..Len(seen)
  BY SizeType, FindAssumption, LenProperties DEF ReaderInv, PagesInv, Size
<1>2. ASSUME Distinct(backend, table, query), seen # <<>> \/ state = "done"
      PROVE  /\ \A i, j \in DOMAIN seen : seen[i] = seen[j] => i = j
             /\ state = "done" /\ query.offset = 0 => Range(seen) = S
  <2>1. PICK keys \in Listings(backend, table, query) : TRUE
    BY <1>2 DEF ReaderInv, ListedInv
  <2>2. /\ keys \in [1..Size -> S]
        /\ \A i, j \in 1..Size : keys[i] = keys[j] => i = j
        /\ \A k \in S : \E i \in 1..Size : keys[i] = k
    BY <1>1, ListingIs DEF Size
  <2>3. \A i \in 1..Len(seen) : seen[i] = keys[query.offset + i]
    BY <1>2 DEF ReaderInv, ListedInv
  <2>4. \A i \in 1..Len(seen) : query.offset + i \in 1..Size
    BY <1>1 DEF PagesInv, UpTo
  <2>5. \A i, j \in DOMAIN seen : seen[i] = seen[j] => i = j
    BY <1>1, <2>2, <2>3, <2>4
  <2>6. ASSUME state = "done", query.offset = 0 PROVE Range(seen) = S
    <3>1. Len(seen) = Size
      BY <1>1, <2>6 DEF PagesInv, UpTo
    <3>2. \A i \in 1..Size : seen[i] = keys[i]
      BY <1>1, <2>3, <2>6, <3>1
    <3> QED BY <1>1, <2>2, <3>1, <3>2 DEF Range
  <2> QED BY <2>5, <2>6
<1>3. seen = <<>> => \A i, j \in DOMAIN seen : seen[i] = seen[j] => i = j
  OBVIOUS
<1>4. state = "done" /\ query.offset = 0 /\ total # {} => total = {Len(seen)}
  BY <1>1 DEF PagesInv, UpTo
<1>5. {k \in S : query.soft => ~table.rows[k].deleted} = S
  BY DEF Paged
<1> QED BY <1>2, <1>3, <1>4, <1>5 DEF EachRowOnce

(* The inductive invariant: with an order that tells the rows apart every  *)
(* page, read when it may, continues the one listing there is.             *)
THEOREM ReaderInvariance == ReaderSpec => []ReaderInv
BY ReaderStart, ReaderStep, PTL DEF ReaderSpec

(* EachRowOnce: whatever the rows, the query and the backend, the pages    *)
(* have no row twice and together every row, if the order tells the rows   *)
(* apart, and count() says how many they are.                              *)
THEOREM EveryRowOnce == ReaderSpec => [](Paged(query) => EachRowOnce)
<1>1. ReaderInv => (Paged(query) => EachRowOnce)
  BY RowsOnce
<1> QED BY <1>1, ReaderInvariance, PTL

=============================================================================
