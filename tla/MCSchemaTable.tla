---------------------------- MODULE MCSchemaTable ----------------------------
(***************************************************************************)
(* Small instances of SchemaTable and of SchemaEvolution: a behaviour is   *)
(* one of either, chosen at the start, and the other stays as it is.       *)
(***************************************************************************)
EXTENDS SchemaTable, SchemaEvolution, TLC

CONSTANTS c1, c2, c3

VARIABLE part      (* which of the two it is                              *)

-----------------------------------------------------------------------------
(* The tables whose rows are written.                                      *)

ThreeCalls == {c1, c2, c3}
Symmetric  == Permutations(ThreeCalls)

Table(name, unique, expires, shared, seeded, operations) ==
  [driver |-> name, unique |-> unique, expires |-> expires, shared |-> shared, seeded |-> seeded,
   operations |-> operations]

Reads   == {"get", "getByKey"}
Bulk    == {"setRecords", "deleteRecords"}
All     == Reads \cup Bulk \cup {"set", "delete", "update"}
Updates == {"set", "setRecords", "update", "get"}

(* sqlite keeps what it was told if one process has the database, or       *)
(* nothing expires; mysql if no mark is unique; the others if reads that   *)
(* meet expired rows and writes do not mix, and no missing row is updated. *)
Kept ==
  {Table("sqlite", TRUE, TRUE, FALSE, FALSE, All), Table("sqlite", TRUE, FALSE, TRUE, FALSE, All),
   Table("mysql", FALSE, TRUE, TRUE, FALSE, All),
   Table("postgres", TRUE, FALSE, TRUE, TRUE, Updates),
   Table("postgres", TRUE, TRUE, TRUE, FALSE, Bulk \cup {"set", "delete"}),
   Table("postgres", TRUE, TRUE, TRUE, TRUE, Reads \cup {"delete"}),
   Table("mongodb", FALSE, FALSE, TRUE, TRUE, Updates),
   Table("mongodb", FALSE, FALSE, TRUE, FALSE, Bulk \cup {"set", "delete"}),
   Table("mongodb", FALSE, TRUE, TRUE, TRUE, Reads \cup {"delete"})}

(* The tables on which a property fails.                                   *)
MysqlUnique    == {Table("mysql", TRUE, FALSE, TRUE, FALSE, {"set"})}
LazyReads      == {Table("postgres", FALSE, TRUE, TRUE, FALSE, {"set", "get"})}
MissingRow     == {Table("postgres", FALSE, FALSE, TRUE, FALSE, {"update"})}
MongoBatch     == {Table("mongodb", TRUE, FALSE, TRUE, FALSE, {"set", "setRecords"})}
MongoNulls     == {Table("mongodb", TRUE, FALSE, TRUE, FALSE, {"set"})}
ExpiredHolders == {Table("sqlite", TRUE, TRUE, FALSE, FALSE, {"set"})}

-----------------------------------------------------------------------------
(* The schemas that are declared, and how they evolve.                     *)

Key(type, index) == [type |-> type, index |-> index, required |-> FALSE, default |-> TRUE]
NoKeys   == [n \in Names |-> None]
Base     == [keys |-> [NoKeys EXCEPT !["u"] = Key("string", "unique")], indexes |-> {}, version |-> 1]
Other    == [Base EXCEPT !.keys["b"] = Key("integer", None), !.version = 2]

AddKey(n, d)   == [op |-> "addKey", name |-> n, def |-> d]
AddIndex(n, u) == [op |-> "addIndex", name |-> n, def |-> Key("string", u)]

Drivers == {"sqlite", "postgres", "mysql", "mongodb"}
SqlDrivers == Drivers \ {"mongodb"}

Asking(name, d1, d2, h1, h2, a1, a2) ==
  [driver |-> name, declares |-> ("p1" :> d1 @@ "p2" :> d2), home |-> ("c1" :> h1 @@ "c2" :> h2),
   asks |-> ("c1" :> a1 @@ "c2" :> a2), awaits |-> TRUE, drops |-> FALSE,
   faults |-> 2, registerFails |-> FALSE]

(* Two first opens, then keys and indexes of one process, while the other  *)
(* opens what it finds, or its own declaration.                            *)
OneEvolves ==
  {Asking(d, Base, e, "p1", "p1", AddKey("a", Key("string", "unique")), AddKey("b", Key("integer", None))) :
     d \in Drivers, e \in {Base, None}}
  \cup {Asking(d, Base, None, "p1", "p1", AddKey("b", Key("integer", None)), AddIndex("b", "unique")) :
     d \in Drivers}

(* The same key of two types, from two processes.                          *)
TwoTypes(drivers) ==
  {Asking(d, Base, Base, "p1", "p2", AddKey("a", Key("string", None)), AddKey("a", Key("integer", None))) :
     d \in drivers}

(* Two declarations.                                                       *)
TwoTables(drivers) ==
  {Asking(d, Base, Other, "p1", "p1", AddKey("a", Key("string", "plain")), AddIndex("a", "plain")) :
     d \in drivers}

(* One process that drops the table and makes it again; the schema of the  *)
(* other is refused, and so is a required key without a default.           *)
Broken == [Base EXCEPT !.indexes = {[on |-> "b", unique |-> "plain"]}]

Dropped ==
  {[Asking(d, Base, Broken, "p1", "p1", AddKey("a", Key("string", "plain")),
      AddKey("b", [Key("integer", None) EXCEPT !.required = TRUE, !.default = FALSE]))
    EXCEPT !.drops = TRUE, !.faults = 0] : d \in Drivers}

Evolving == OneEvolves \cup TwoTypes({"sqlite", "mysql"}) \cup Dropped

(* Where the properties fail.                                              *)
TypeTaken   == TwoTypes({"postgres"})
TableTaken  == TwoTables(SqlDrivers)
TwoEvolve   == {[s EXCEPT !.home = ("c1" :> "p1" @@ "c2" :> "p2")] :
                  s \in {t \in OneEvolves : t.declares["p2"] = Base}}
AtOnce      == {[s EXCEPT !.awaits = FALSE] : s \in OneEvolves}
Unwritten   == {[s EXCEPT !.registerFails = TRUE] : s \in OneEvolves}
OverPlain   == {Asking(d, Base, None, "p1", "p1", AddKey("a", Key("string", "plain")),
                  AddIndex("a", "unique")) : d \in {"postgres", "sqlite"}}
DropCrashes == {[s EXCEPT !.faults = 1] : s \in Dropped}

-----------------------------------------------------------------------------
(* Which of the others stays as it is makes no difference.                 *)
TablesInit ==
  /\ part \in {"rows", "schema"}
  /\ Init /\ SchemaInit
  /\ part = "rows" => setting = CHOOSE s \in Settings : TRUE
  /\ part = "schema" => table = CHOOSE t \in Tables : TRUE

TablesNext ==
  \/ part = "rows"   /\ Next       /\ UNCHANGED <<part, schema>>
  \/ part = "schema" /\ SchemaNext /\ UNCHANGED <<part, vars>>

TablesSpec == TablesInit /\ [][TablesNext]_<<part, vars, schema>>

=============================================================================
