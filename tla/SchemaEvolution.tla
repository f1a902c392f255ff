--------------------------- MODULE SchemaEvolution ---------------------------
(***************************************************************************)
(* How the schema of one physical table comes into being and grows:        *)
(* openSchemaTable(), addKey(), addIndex() and dropSchemaTable() of the    *)
(* four drivers that have schema tables, and what Table and KVDB keep of   *)
(* them.  The database has the table with its columns and indexes and a    *)
(* row of the registry that says what they are; every process has a handle *)
(* with a schema of its own, read or declared when the table was opened.   *)
(*                                                                         *)
(* Each statement is a step; nothing binds the statements of a call        *)
(* together.  On sqlite a call is synchronous: calls of one process do not *)
(* interleave, those of several processes do.  A schema is abstracted to   *)
(* its keys, the indexes it lists and its version; an index goes by the    *)
(* name of the key it is on, as the default index names do.                *)
(***************************************************************************)
EXTENDS Naturals

CONSTANTS
  Processes,        (* each with its own KVDB                              *)
  Changes,          (* calls of addKey() and addIndex()                    *)
  Names,            (* names of keys                                       *)
  None,             (* no key, no column, no index, no schema              *)
  Settings          (* what is asked of which database                     *)

VARIABLES
  setting,          (* the one of Settings that is checked                 *)
  registry,         (* the row of kvdb_schema_registry                     *)
  columns,          (* the columns of the table, None without one          *)
  indexes,          (* the indexes of the table: how unique each is        *)
  handle,           (* Table.schemaDriverPromise of each process           *)
  evolution,        (* how far each call is                                *)
  faults            (* crashes and failed statements so far                *)

schema == <<setting, registry, columns, indexes, handle, evolution, faults>>

-----------------------------------------------------------------------------
(* What the drivers do, and where they differ.                             *)

(* createsTable: a table is created; secondFails: the row of the registry  *)
(* must not be there yet.                                                  *)
SqliteOpens   == [createsTable |-> TRUE,  secondFails |-> TRUE]
PostgresOpens == [createsTable |-> TRUE,  secondFails |-> FALSE]
MysqlOpens    == [createsTable |-> TRUE,  secondFails |-> FALSE]
MongodbOpens  == [createsTable |-> FALSE, secondFails |-> FALSE]

(* columnTwice and indexTwice: what becomes of a statement that adds what  *)
(* is there; upserts: the row of the registry is made if it is missing;    *)
(* alone: no call of the same process comes in between.                    *)
SqliteEvolves   == [columnTwice |-> "fails",  indexTwice |-> "ignored",
                    upserts |-> FALSE, alone |-> TRUE]
PostgresEvolves == [columnTwice |-> "ignored", indexTwice |-> "ignored",
                    upserts |-> FALSE, alone |-> FALSE]
MysqlEvolves    == [columnTwice |-> "fails",  indexTwice |-> "fails",
                    upserts |-> FALSE, alone |-> FALSE]
MongodbEvolves  == [columnTwice |-> "ignored", indexTwice |-> "failsIfOther",
                    upserts |-> TRUE,  alone |-> FALSE]

Opens == [sqlite |-> SqliteOpens, postgres |-> PostgresOpens,
          mysql |-> MysqlOpens, mongodb |-> MongodbOpens][setting.driver]

Evolves == [sqlite |-> SqliteEvolves, postgres |-> PostgresEvolves,
            mysql |-> MysqlEvolves, mongodb |-> MongodbEvolves][setting.driver]

-----------------------------------------------------------------------------
(* Schemas: core/table-schema.ts.                                          *)

Uniqueness  == {"plain", "unique"}
Definition  == [type: {"string", "integer"}, index: {None} \cup Uniqueness,
                required: BOOLEAN, default: BOOLEAN]
Index       == [on: Names, unique: Uniqueness]
Columns     == [Names -> Definition \cup {None}]
Schema      == [keys: Columns, indexes: SUBSET Index, version: Nat]
Request     == {r \in [op: {"addKey", "addIndex"}, name: Names, def: Definition] :
                  r.op = "addIndex" => r.def.index # None}

ASSUME SchemaAssumption ==
  /\ None \notin Uniqueness \cup Definition /\ None \notin Columns /\ None \notin Schema
  /\ \A s \in Settings :
       /\ s.driver \in {"sqlite", "postgres", "mysql", "mongodb"}
       /\ s.declares \in [Processes -> Schema \cup {None}]
       /\ s.home \in [Changes -> Processes] /\ s.asks \in [Changes -> Request]
       /\ {s.awaits, s.drops, s.registerFails} \subseteq BOOLEAN /\ s.faults \in Nat

validateTableSchema(s) == \A i \in s.indexes : s.keys[i.on] # None

(* The schema with the key; the schema as it is when it has the key        *)
(* already; None when the key is refused.                                  *)
evolveSchemaAddKey(s, name, d) ==
  IF (d.required /\ ~d.default) \/ s.keys[name] \notin {None, d} THEN None
  ELSE IF s.keys[name] = d THEN s
  ELSE [s EXCEPT !.keys[name] = d,
                 !.indexes = IF d.index = None THEN @ ELSE @ \cup {[on |-> name, unique |-> d.index]},
                 !.version = @ + 1]

evolveSchemaAddIndex(s, i) ==
  IF s.keys[i.on] = None THEN None
  ELSE IF i \in s.indexes THEN s
  ELSE [s EXCEPT !.indexes = @ \cup {i}, !.version = @ + 1]

(* The indexes that opening a table makes: by key, then those listed.      *)
Wanted(s) ==
  {[on |-> n, unique |-> s.keys[n].index] :
     n \in {m \in Names : s.keys[m] # None /\ s.keys[m].index # None}} \cup s.indexes

-----------------------------------------------------------------------------
Asked(c) == setting.asks[c]
Home(c)  == setting.home[c]
Underway == {"alter", "index", "register"}

Closed == [pc |-> "closed", schema |-> None, todo |-> {}]
Idle   == [pc |-> "idle", evolved |-> None]

SchemaInit ==
  /\ setting \in Settings
  /\ registry = None
  /\ columns = None
  /\ indexes = [n \in Names |-> None]
  /\ handle = [p \in Processes |-> Closed]
  /\ evolution = [c \in Changes |-> Idle]
  /\ faults = 0

-----------------------------------------------------------------------------
(* openSchemaTable() on behalf of Table.schemaDriver(), which keeps the    *)
(* promise.  The registry is read first; a schema that differs from the    *)
(* one declared is a conflict, and the table stays closed.  Without either *)
(* the table is a plain one for as long as the process lives.              *)
OpenReads(p) ==
  LET declared == setting.declares[p]
      resolved == IF declared # None THEN declared ELSE registry
  IN
  /\ handle[p].pc = "closed"
  /\ registry = None \/ declared \in {None, registry}
  /\ resolved # None => validateTableSchema(resolved)
  /\ handle' = [handle EXCEPT ![p] =
       [schema |-> resolved, todo |-> IF resolved = None THEN {} ELSE Wanted(resolved),
        pc |-> IF resolved = None THEN "plain"
               ELSE IF registry # None THEN "open"
               ELSE IF Opens.createsTable THEN "create" ELSE "register"]]
  /\ UNCHANGED <<setting, registry, columns, indexes, evolution, faults>>

(* CREATE TABLE IF NOT EXISTS.                                             *)
OpenCreates(p) ==
  /\ handle[p].pc = "create"
  /\ columns' = IF columns = None THEN handle[p].schema.keys ELSE columns
  /\ handle' = [handle EXCEPT ![p].pc = "register"]
  /\ UNCHANGED <<setting, registry, indexes, evolution, faults>>

(* Mutant: the row is written whether there is one or not.                 *)
RegistersAnyway(p) ==
  /\ handle[p].pc = "register"
  /\ registry' = handle[p].schema
  /\ handle' = [handle EXCEPT ![p].pc = "index"]
  /\ UNCHANGED <<setting, columns, indexes, evolution, faults>>

(* The first to register wins; on sqlite the second fails.                 *)
OpenRegisters(p) ==
  /\ handle[p].pc = "register"
  /\ registry' = IF registry = None THEN handle[p].schema ELSE registry
  /\ handle' = [handle EXCEPT ![p] = IF registry # None /\ Opens.secondFails THEN Closed
                                     ELSE [@ EXCEPT !.pc = "index"]]
  /\ UNCHANGED <<setting, columns, indexes, evolution, faults>>

(* One index after the other; an index of that name is taken for it, but   *)
(* for mongodb, which compares.                                            *)
OpenIndexes(p) ==
  /\ handle[p].pc = "index"
  /\ \/ /\ handle[p].todo = {}
        /\ handle' = [handle EXCEPT ![p].pc = "open"]
        /\ UNCHANGED indexes
     \/ \E i \in handle[p].todo :
          IF indexes[i.on] \notin {None, i.unique} /\ Evolves.indexTwice = "failsIfOther"
          THEN handle' = [handle EXCEPT ![p] = Closed] /\ UNCHANGED indexes
          ELSE /\ handle' = [handle EXCEPT ![p].todo = @ \ {i}]
               /\ indexes' = [indexes EXCEPT ![i.on] = IF @ = None THEN i.unique ELSE @]
  /\ UNCHANGED <<setting, registry, columns, evolution, faults>>

-----------------------------------------------------------------------------
(* addKey() and addIndex() of a handle.                                    *)

(* On sqlite a call runs to its end before another of its process; a       *)
(* program may await each call.                                            *)
MayRun(c) ==
  Evolves.alone \/ setting.awaits =>
    \A d \in Changes \ {c} : Home(d) = Home(c) => evolution[d].pc \notin Underway

Evolved(c) ==
  LET s == handle[Home(c)].schema
      a == Asked(c)
  IN IF a.op = "addKey" THEN evolveSchemaAddKey(s, a.name, a.def)
     ELSE evolveSchemaAddIndex(s, [on |-> a.name, unique |-> a.def.index])

Settles(c, pc) == evolution' = [evolution EXCEPT ![c] = [Idle EXCEPT !.pc = pc]]

(* The call reads the schema of its handle.  It may be a second attempt.   *)
CallStarts(c) ==
  LET s == handle[Home(c)].schema
      e == Evolved(c)
  IN
  /\ evolution[c].pc \in {"idle", "refused"} /\ MayRun(c)
  /\ handle[Home(c)].pc = "open"
  /\ IF e \in {None, s} THEN Settles(c, IF e = None THEN "refused" ELSE "answered")
     ELSE evolution' = [evolution EXCEPT ![c] =
            [evolved |-> e, pc |-> IF Asked(c).op = "addKey" THEN "alter" ELSE "index"]]
  /\ UNCHANGED <<setting, registry, columns, indexes, handle, faults>>

(* this.schema = evolved, as soon as the last statement but one is back.   *)
Adopts(c) ==
  /\ evolution' = [evolution EXCEPT ![c].pc = "register"]
  /\ handle' = [handle EXCEPT ![Home(c)].schema = evolution[c].evolved]

(* Mutant: a column that is there is taken for the one asked for.          *)
AltersLeniently(c) ==
  LET n == Asked(c).name IN
  /\ evolution[c].pc = "alter" /\ MayRun(c)
  /\ columns' = IF columns = None \/ columns[n] # None THEN columns
                ELSE [columns EXCEPT ![n] = Asked(c).def]
  /\ IF Asked(c).def.index # None
     THEN evolution' = [evolution EXCEPT ![c].pc = "index"] /\ UNCHANGED handle
     ELSE Adopts(c)
  /\ UNCHANGED <<setting, registry, indexes, faults>>

(* ALTER TABLE ... ADD COLUMN; mongodb sets the default where it is        *)
(* missing, and has no columns.                                            *)
Alters(c) ==
  LET n == Asked(c).name IN
  /\ evolution[c].pc = "alter" /\ MayRun(c)
  /\ IF Opens.createsTable /\ (columns = None \/ (columns[n] # None /\ Evolves.columnTwice = "fails"))
     THEN Settles(c, "refused") /\ UNCHANGED <<columns, handle>>
     ELSE /\ columns' = IF columns = None \/ columns[n] # None THEN columns
                        ELSE [columns EXCEPT ![n] = Asked(c).def]
          /\ IF Asked(c).def.index # None
             THEN evolution' = [evolution EXCEPT ![c].pc = "index"] /\ UNCHANGED handle
             ELSE Adopts(c)
  /\ UNCHANGED <<setting, registry, indexes, faults>>

(* CREATE INDEX.                                                           *)
Indexes(c) ==
  LET n == Asked(c).name
      u == Asked(c).def.index
  IN
  /\ evolution[c].pc = "index" /\ MayRun(c)
  /\ IF \/ indexes[n] # None /\ Evolves.indexTwice = "fails"
        \/ indexes[n] \notin {None, u} /\ Evolves.indexTwice = "failsIfOther"
        \/ columns = None /\ Opens.createsTable
     THEN Settles(c, "refused") /\ UNCHANGED <<indexes, handle>>
     ELSE /\ indexes' = [indexes EXCEPT ![n] = IF @ = None THEN u ELSE @]
          /\ Adopts(c)
  /\ UNCHANGED <<setting, registry, columns, faults>>

(* UPDATE of the registry with the schema the handle got in this call.     *)
Registers(c) ==
  /\ evolution[c].pc = "register" /\ MayRun(c)
  /\ registry' = IF registry = None /\ ~Evolves.upserts THEN None ELSE evolution[c].evolved
  /\ Settles(c, "answered")
  /\ UNCHANGED <<setting, columns, indexes, handle, faults>>

-----------------------------------------------------------------------------
(* A statement fails: the error ends the open or the call.  Without a      *)
(* declared schema it is swallowed, and the table is a plain one.          *)
OpenFails(p) ==
  /\ faults < setting.faults
  /\ \/ /\ handle[p].pc \in {"create", "register", "index"}
        /\ handle' = [handle EXCEPT ![p] = Closed]
     \/ /\ handle[p].pc = "closed" /\ setting.declares[p] = None
        /\ handle' = [handle EXCEPT ![p] = [Closed EXCEPT !.pc = "plain"]]
  /\ faults' = faults + 1
  /\ UNCHANGED <<setting, registry, columns, indexes, evolution>>

CallFails(c) ==
  /\ faults < setting.faults
  /\ evolution[c].pc \in Underway /\ (evolution[c].pc = "register" => setting.registerFails)
  /\ Settles(c, "refused")
  /\ faults' = faults + 1
  /\ UNCHANGED <<setting, registry, columns, indexes, handle>>

(* A process dies and is started again.                                    *)
Crash(p) ==
  /\ faults < setting.faults
  /\ handle' = [handle EXCEPT ![p] = Closed]
  /\ evolution' = [c \in Changes |-> IF Home(c) = p /\ evolution[c].pc # "answered" THEN Idle ELSE evolution[c]]
  /\ faults' = faults + 1
  /\ UNCHANGED <<setting, registry, columns, indexes>>

(* dropTable(): KVDB forgets the Table; the table goes, then its row.      *)
Drops(p) ==
  /\ setting.drops /\ handle[p].pc = "open"
  /\ \A c \in Changes : Home(c) = p => evolution[c].pc \notin Underway
  /\ columns' = None /\ indexes' = [n \in Names |-> None]
  /\ handle' = [handle EXCEPT ![p] = [Closed EXCEPT !.pc = "dropping"]]
  /\ evolution' = [c \in Changes |-> Idle]
  /\ UNCHANGED <<setting, registry, faults>>

Unregisters(p) ==
  /\ handle[p].pc = "dropping"
  /\ registry' = None
  /\ handle' = [handle EXCEPT ![p] = Closed]
  /\ UNCHANGED <<setting, columns, indexes, evolution, faults>>

SchemaNext ==
  \/ \E p \in Processes :
       \/ OpenReads(p) \/ OpenCreates(p) \/ OpenRegisters(p) \/ OpenIndexes(p)
       \/ OpenFails(p) \/ Crash(p) \/ Drops(p) \/ Unregisters(p)
  \/ \E c \in Changes :
       CallStarts(c) \/ Alters(c) \/ Indexes(c) \/ Registers(c) \/ CallFails(c)

SchemaSpec == SchemaInit /\ [][SchemaNext]_schema

-----------------------------------------------------------------------------
(* Every key that the schema of an open handle lists is a column of its    *)
(* type: no record that this process accepts names a column that is not    *)
(* there.  Processes open at the same time, evolve what others have open,  *)
(* fail and crash between any two statements.                              *)
HandlesServed ==
  Opens.createsTable =>
    \A p \in Processes : handle[p].pc = "open" =>
      /\ columns # None
      /\ \A n \in Names : handle[p].schema.keys[n] # None =>
           columns[n] # None /\ columns[n].type = handle[p].schema.keys[n].type

(* What addKey() and addIndex() have answered stays: the key is in the     *)
(* registry, for those who open the table later, and its column and its    *)
(* index are there.                                                        *)
NothingForgotten ==
  \A c \in Changes : evolution[c].pc = "answered" =>
    LET a == Asked(c) IN
    /\ registry # None
    /\ registry.keys[a.name] # None
    /\ a.op = "addKey" => registry.keys[a.name] = a.def
    /\ a.def.index # None => /\ [on |-> a.name, unique |-> a.def.index] \in registry.indexes
                               /\ indexes[a.name] = a.def.index
    /\ Opens.createsTable => columns # None /\ columns[a.name] # None

(* Found violated: an open handle has the indexes its schema lists.        *)
IndexesBuilt ==
  \A p \in Processes : handle[p].pc = "open" =>
    \A i \in Wanted(handle[p].schema) : indexes[i.on] = i.unique

(* Found violated: a call that stopped half-way leaves no column that is   *)
(* not in the registry; sqlite and mysql refuse to add it again.           *)
NothingLeftOver ==
  columns # None /\ (\A c \in Changes : evolution[c].pc \notin Underway)
    /\ (\A p \in Processes : handle[p].pc \in {"closed", "open"})
    => registry # None /\ \A n \in Names : columns[n] # None => registry.keys[n] # None

(* Found violated: a table is taken for a plain one only if it has no      *)
(* schema.                                                                 *)
SchemaSeen ==
  [][\A p \in Processes : handle[p].pc = "closed" /\ handle'[p].pc = "plain" => registry = None]_schema

=============================================================================
