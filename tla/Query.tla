-------------------------------- MODULE Query --------------------------------
(***************************************************************************)
(* Queries: how a where document is parsed (src/query/parser.ts) and what  *)
(* the five backends make of it: the evaluator in memory                   *)
(* (src/query/evaluator.ts), which redis uses, the compiler to SQL with    *)
(* the dialects of sqlite, postgres and mysql, and the one to MongoDB.     *)
(*                                                                         *)
(* There is no state.  A compiled query is modelled by what the server     *)
(* answers to it: SQL has a third truth value, "null", and NOT leaves it;  *)
(* a backend that throws answers "error".  Operands are scalars, or arrays *)
(* of them for $in and $nin; a string is its rank in the order of strings, *)
(* and no string of the model reads as a number.                           *)
(***************************************************************************)
EXTENDS Integers, FiniteSets
LOCAL INSTANCE SequencesExt

Sql == {"sqlite", "postgres", "mysql"}

-----------------------------------------------------------------------------
(* JSON values.  A row has a document and columns, both by name.           *)

Missing  == [missing |-> 0]
Null     == [null |-> 0]
Num(n)   == [num |-> n]
Str(s)   == [str |-> s]
Bool(b)  == [bool |-> b]
Array(s) == [array |-> s]
Object(f) == [object |-> f]

Is(v, type)    == type \in DOMAIN v
SameType(v, w) == DOMAIN v = DOMAIN w
Scalar(v)      == \E type \in {"num", "str", "bool"} : Is(v, type)

Key(k)   == [key |-> k]
Index(i) == [index |-> i]

Enter(v, segment) ==
  CASE Is(segment, "key") /\ Is(v, "object") ->
         IF segment.key \in DOMAIN v.object THEN v.object[segment.key] ELSE Missing
    [] Is(segment, "index") /\ Is(v, "array") ->
         IF segment.index < Len(v.array) THEN v.array[segment.index + 1] ELSE Missing
    [] OTHER -> Missing

At(v, segments) == FoldLeft(Enter, v, segments)

Stored(row, path) ==
  IF path.kind = "column" THEN At(Object(row.columns), <<Key(path.column)>> \o path.segments)
  ELSE At(Object(row.doc), path.segments)

Plain(path) == path.kind = "column" /\ path.segments = <<>>

-----------------------------------------------------------------------------
(* The parser.  A where document is a set of entries: a field, given by    *)
(* the segments of its name, with a value or with tests; a logical         *)
(* operator; or fields said to be columns, or to be in the value.          *)

parsePath(name)  == [kind |-> "value", segments |-> name]
columnPath(name) == [kind |-> "column", column |-> Head(name).key, segments |-> Tail(name)]

AllOf(nodes) ==
  IF nodes = {} THEN [kind |-> "true"]
  ELSE IF Cardinality(nodes) = 1 THEN CHOOSE n \in nodes : TRUE
  ELSE [kind |-> "and", children |-> nodes]

RECURSIVE parseWhere(_), parseSchemaWhere(_, _)

parseTest(path, test) ==
  CASE test.op = "$exists"    -> [kind |-> "exists", path |-> path, exists |-> test.exists]
    [] test.op = "$elemMatch" -> [kind |-> "elemMatch", path |-> path,
                                  child |-> parseWhere(test.where)]
    [] OTHER -> [kind |-> "cmp", op |-> test.op, path |-> path, value |-> test.operand]

parseField(path, entry) ==
  IF Is(entry, "equals")
  THEN [kind |-> "cmp", op |-> "$eq", path |-> path, value |-> entry.equals]
  ELSE AllOf({parseTest(path, test) : test \in entry.tests})

fieldPath(name, known) ==
  IF Is(Head(name), "key") /\ Head(name).key \in known THEN columnPath(name) ELSE parsePath(name)

(* To a plain table `columns` and `value` are fields like any other; no    *)
(* query of the model asks one for them.                                   *)
parseEntry(e) ==
  CASE Is(e, "branches") -> [kind |-> e.op, children |-> {parseWhere(b) : b \in e.branches}]
    [] Is(e, "not")      -> [kind |-> "not", child |-> parseWhere(e.not)]
    [] OTHER             -> parseField(parsePath(e.field), e)

parseWhere(where) == AllOf({parseEntry(e) : e \in where})

parseSchemaEntry(e, known) ==
  CASE Is(e, "branches") -> [kind |-> e.op,
                             children |-> {parseSchemaWhere(b, known) : b \in e.branches}]
    [] Is(e, "not")      -> [kind |-> "not", child |-> parseSchemaWhere(e.not, known)]
    [] Is(e, "columns")  -> AllOf({parseField(columnPath(f.field), f) : f \in e.columns})
    [] Is(e, "values")   -> AllOf({parseField(parsePath(f.field), f) : f \in e.values})
    [] OTHER             -> parseField(fieldPath(e.field, known), e)

parseSchemaWhere(where, known) == AllOf({parseSchemaEntry(e, known) : e \in where})

-----------------------------------------------------------------------------
(* The evaluator.                                                          *)

extractValue(doc, path) ==
  IF path.kind = "column" THEN At(doc, <<Key(path.column)>> \o path.segments)
  ELSE At(doc, path.segments)

Operands(value) == IF Is(value, "array") THEN ToSet(value.array) ELSE {value}

Beyond(op, x, y) ==
  CASE op = "$gt" -> x > y [] op = "$gte" -> x >= y [] op = "$lt" -> x < y [] op = "$lte" -> x <= y

evaluateCompare(op, actual, target) ==
  CASE op = "$eq"  -> IF actual = Missing THEN target = Null ELSE actual = target
    [] op = "$ne"  -> actual # target
    [] op = "$in"  -> (IF actual = Missing THEN Null ELSE actual) \in Operands(target)
    [] op = "$nin" -> (IF actual = Missing THEN Null ELSE actual) \notin Operands(target)
    [] OTHER -> Is(actual, "num") /\ Is(target, "num") /\ Beyond(op, actual.num, target.num)

RECURSIVE evaluateQuery(_, _)

evaluateQuery(node, doc) ==
  CASE node.kind = "true"   -> TRUE
    [] node.kind = "and"    -> \A c \in node.children : evaluateQuery(c, doc)
    [] node.kind = "or"     -> \E c \in node.children : evaluateQuery(c, doc)
    [] node.kind = "nor"    -> ~\E c \in node.children : evaluateQuery(c, doc)
    [] node.kind = "not"    -> ~evaluateQuery(node.child, doc)
    [] node.kind = "exists" -> (extractValue(doc, node.path) # Missing) = node.exists
    [] node.kind = "cmp"    -> evaluateCompare(node.op, extractValue(doc, node.path), node.value)
    [] node.kind = "elemMatch" ->
         LET actual == extractValue(doc, node.path)
         IN  Is(actual, "array") /\ \E e \in ToSet(actual.array) : evaluateQuery(node.child, e)

-----------------------------------------------------------------------------
(* What the dialects make of a value v, plain if it is a column of its     *)
(* own: a scalar of SQL.  The type of the operand is their hint.           *)

Bit(v)  == IF Is(v, "bool") THEN Num(IF v.bool THEN 1 ELSE 0) ELSE v
Text(v) == IF Is(v, "str") THEN v ELSE [text |-> v]

SqliteScalar(v) ==
  IF v \in {Missing, Null} THEN Null ELSE IF Scalar(v) THEN Bit(v) ELSE Text(v)

(* Mutant: another type is cast, not left out.                             *)
PostgresCastsAll(v, plain, hint) ==
  IF v \in {Missing, Null} THEN Null
  ELSE IF plain THEN IF Scalar(v) THEN v ELSE Text(v)
  ELSE IF Is(hint, "num") \/ Is(hint, "bool") THEN hint
  ELSE Text(v)

PostgresScalar(v, plain, hint) ==
  IF v \in {Missing, Null} THEN Null
  ELSE IF plain THEN IF Scalar(v) THEN v ELSE Text(v)
  ELSE IF Is(hint, "num") \/ Is(hint, "bool") THEN IF SameType(v, hint) THEN v ELSE Null
  ELSE Text(v)

(* A cast to DOUBLE makes 0 of any other text, and a stored null is the    *)
(* text 'null'.                                                            *)
MysqlScalar(v, plain, hint) ==
  IF v = Missing \/ (plain /\ v = Null) THEN Null
  ELSE IF plain THEN IF Scalar(v) THEN Bit(v) ELSE Text(v)
  ELSE CASE Is(hint, "num")  -> IF Is(v, "num") THEN v ELSE Num(0)
         [] Is(hint, "bool") -> Num(IF v = Bool(TRUE) THEN 1 ELSE 0)
         [] OTHER -> Text(v)

scalarAt(backend, row, path, hint) ==
  LET v == Stored(row, path)
  IN  CASE backend = "sqlite"   -> SqliteScalar(v)
        [] backend = "postgres" -> PostgresScalar(v, Plain(path), hint)
        [] backend = "mysql"    -> MysqlScalar(v, Plain(path), hint)

(* A column of its own exists when it is not NULL.                         *)
pathExists(row, path) ==
  Stored(row, path) # Missing /\ ~(Plain(path) /\ Stored(row, path) = Null)

coerceParam(backend, v) == IF backend = "postgres" THEN v ELSE Bit(v)

-----------------------------------------------------------------------------
(* The compiler to SQL.                                                    *)

Truth(b) == IF b THEN "true" ELSE "false"

NotSql(t) == CASE t = "true" -> "false" [] t = "false" -> "true" [] OTHER -> t

AndSql(ts) ==
  IF "error" \in ts THEN "error"
  ELSE IF "false" \in ts THEN "false" ELSE IF "null" \in ts THEN "null" ELSE "true"

OrSql(ts) == NotSql(AndSql({NotSql(t) : t \in ts}))

(* The order of the texts of two numbers, digit by digit.                  *)
Digits(n) == IF n < 10 THEN 11 * n ELSE 11 * (n \div 10) + 1 + (n % 10)

Class(v) ==
  CASE Is(v, "num") -> 0 [] Is(v, "str") -> 2 [] Is(v, "bool") -> 4
    [] OTHER -> IF Is(v.text, "num") THEN 1 ELSE 3

RECURSIVE Before(_, _)

Before(v, w) ==
  CASE Is(v, "num") /\ Is(w, "num")   -> v.num < w.num
    [] Is(v, "str") /\ Is(w, "str")   -> v.str < w.str
    [] Is(v, "bool") /\ Is(w, "bool") -> ~v.bool /\ w.bool
    [] Is(v, "text") /\ Is(w, "text") ->
         IF Is(v.text, "num") /\ Is(w.text, "num") THEN Digits(v.text.num) < Digits(w.text.num)
         ELSE SameType(v.text, w.text) /\ Is(v.text, "bool") /\ Before(v.text, w.text)
    [] OTHER -> Class(v) < Class(w)

CompareSql(op, v, w) ==
  IF Null \in {v, w} THEN "null"
  ELSE Truth(CASE op = "$eq"  -> v = w
               [] op = "$ne"  -> v # w
               [] op = "$gt"  -> Before(w, v)
               [] op = "$gte" -> v = w \/ Before(w, v)
               [] op = "$lt"  -> Before(v, w)
               [] op = "$lte" -> v = w \/ Before(v, w))

compileCompare(backend, op, path, value, row) ==
  LET v == scalarAt(backend, row, path, IF Is(value, "array") /\ value.array # <<>>
                                        THEN Head(value.array) ELSE value)
      w == coerceParam(backend, value)
      InList == OrSql({CompareSql("$eq", v, coerceParam(backend, o)) : o \in Operands(value)})
  IN  CASE op = "$in"  -> InList
        [] op = "$nin" -> NotSql(InList)
        [] op = "$ne"  -> OrSql({Truth(v = Null), CompareSql("$ne", v, w)})
        [] op = "$eq" /\ value = Null -> Truth(v = Null)
        [] OTHER -> CompareSql(op, v, w)

(* Every column of the schema is in a row; a query of another is refused.  *)
UnknownColumn(node, row) ==
  /\ node.kind \in {"exists", "cmp", "elemMatch"} /\ node.path.kind = "column"
  /\ node.path.column \notin DOMAIN row.columns

RECURSIVE compileWhere(_, _, _)

compileWhere(backend, node, row) ==
  LET Each == {compileWhere(backend, c, row) : c \in node.children}
  IN  IF UnknownColumn(node, row) THEN "error"
      ELSE CASE node.kind = "true"   -> "true"
             [] node.kind = "and"    -> AndSql(Each)
             [] node.kind = "or"     -> OrSql(Each)
             [] node.kind = "nor"    -> NotSql(OrSql(Each))
             [] node.kind = "not"    -> NotSql(compileWhere(backend, node.child, row))
             [] node.kind = "exists" -> Truth(pathExists(row, node.path) = node.exists)
             [] node.kind = "cmp"    -> compileCompare(backend, node.op, node.path, node.value, row)
             [] node.kind = "elemMatch" -> "error"

-----------------------------------------------------------------------------
(* The compiler to MongoDB, and how MongoDB reads a filter: a field that   *)
(* holds an array is compared element by element too, types are compared   *)
(* with their own, and an empty list of branches is refused.               *)

Elements(v) == {v} \cup (IF Is(v, "array") THEN ToSet(v.array) ELSE {})

EqualsMongo(v, w) == v = w \/ (v = Missing /\ w = Null)

compareMongo(op, actual, target) ==
  LET Equal(w) == \E v \in Elements(actual) : EqualsMongo(v, w)
  IN  CASE op = "$eq"  -> Equal(target)
        [] op = "$ne"  -> ~Equal(target)
        [] op = "$in"  -> \E w \in Operands(target) : Equal(w)
        [] op = "$nin" -> ~\E w \in Operands(target) : Equal(w)
        [] target = Null -> op \in {"$gte", "$lte"} /\ Equal(Null)
        [] OTHER -> \E v \in Elements(actual) :
             /\ Scalar(v) /\ SameType(v, target)
             /\ \/ op \in {"$gte", "$lte"} /\ v = target
                \/ op \in {"$gt", "$gte"} /\ Before(target, v)
                \/ op \in {"$lt", "$lte"} /\ Before(v, target)

RECURSIVE compileMongoFilter(_, _)

compileMongoFilter(node, row) ==
  LET Each == {compileMongoFilter(c, row) : c \in node.children}
      actual == Stored(row, node.path)
      Branches(result) == IF node.children = {} THEN "error" ELSE result
  IN  CASE node.kind = "true" -> "true"
        [] node.kind = "and"  -> Branches(AndSql(Each))
        [] node.kind = "or"   -> Branches(OrSql(Each))
        [] node.kind = "nor"  -> Branches(NotSql(OrSql(Each)))
        [] node.kind = "not"  -> NotSql(compileMongoFilter(node.child, row))
        [] node.kind = "exists" -> Truth((actual # Missing) = node.exists)
        [] node.kind = "cmp"  -> Truth(compareMongo(node.op, actual, node.value))
        [] node.kind = "elemMatch" ->
             IF ~Is(actual, "array") THEN "false"
             ELSE OrSql({IF Is(e, "object")
                         THEN compileMongoFilter(node.child, [doc |-> e.object, columns |-> <<>>])
                         ELSE "false" : e \in ToSet(actual.array)})

-----------------------------------------------------------------------------
(* What a backend answers.  The evaluator has the columns at hand.         *)

Whole(row) ==
  Object([name \in DOMAIN row.columns \cup DOMAIN row.doc |->
            IF name \in DOMAIN row.columns THEN row.columns[name] ELSE row.doc[name]])

Evaluated(node, row) == evaluateQuery(node, Whole(row))

Answer(backend, node, row) ==
  CASE backend \in Sql       -> compileWhere(backend, node, row)
    [] backend = "mongodb"   -> compileMongoFilter(node, row)
    [] backend = "redis"     -> Truth(Evaluated(node, row))

-----------------------------------------------------------------------------
(* What is asked of a table: the where documents and the sort.             *)

mergedWhere(q) ==
  IF q.columns = {} THEN q.where
  ELSE {e \in q.where : ~Is(e, "columns")} \cup {[columns |-> q.columns]}

parsed(t, q) ==
  IF t.known = {} THEN parseWhere(q.where) ELSE parseSchemaWhere(mergedWhere(q), t.known)

parseSort(t, q) ==
  [i \in DOMAIN q.sort |-> [path |-> fieldPath(q.sort[i].field, t.known), desc |-> q.sort[i].desc]]

(* Mutant: SQL sorts on what the document has of that name.                *)
SortKeyInValue(b, row, path) ==
  LET segments == IF path.kind = "column" THEN <<Key(path.column)>> \o path.segments ELSE path.segments
      v        == Stored(row, path)
  IN  IF b \in Sql THEN scalarAt(b, row, parsePath(segments), Missing)
      ELSE IF v = Missing THEN Null ELSE v

(* The compiler knows of no operand: what is in a document is a text on    *)
(* postgres and mysql.                                                     *)
SortKey(b, row, path) ==
  IF b \in Sql THEN scalarAt(b, row, path, Missing)
  ELSE LET v == Stored(row, path) IN IF v = Missing THEN Null ELSE v

KeyBefore(b, v, w) ==
  /\ v # w
  /\ IF Null \in {v, w} THEN (v = Null) = (b # "postgres") ELSE Before(v, w)

Precedes(b, sort, r, s) ==
  \E i \in DOMAIN sort :
    LET v(j) == SortKey(b, r, sort[j].path)
        w(j) == SortKey(b, s, sort[j].path)
    IN  /\ \A j \in 1..(i - 1) : v(j) = w(j)
        /\ IF sort[i].desc THEN KeyBefore(b, w(i), v(i)) ELSE KeyBefore(b, v(i), w(i))

(* What a backend answers of the row k, and whether it sorts it before l.  *)
AnswerOf(b, t, q, k)      == Answer(b, parsed(t, q), t.rows[k])
PrecedesIn(b, t, q, k, l) == Precedes(b, parseSort(t, q), t.rows[k], t.rows[l])

-----------------------------------------------------------------------------
(* What every backend is to answer alike.  A comparison is exact if its    *)
(* answer is the evaluator's; it is safe if it is not "true" where the     *)
(* evaluator says no, which is enough where nothing negates it.            *)

Ranges == {"$gt", "$gte", "$lt", "$lte"}

(* A string where a number is asked for, or the converse.                  *)
Apart(v, w) == (Is(v, "num") /\ Is(w, "str")) \/ (Is(v, "str") /\ Is(w, "num"))

(* mysql takes a null in a document for the text 'null'.                   *)
NullIsNull(backend, path, v) == v = Null /\ (backend # "mysql" \/ Plain(path))

Exact(backend, node, v) ==
  \/ node.kind = "exists" /\ (v # Null \/ ~Plain(node.path))
  \/ node.kind = "elemMatch" /\ backend \in {"mongodb", "redis"}
  \/ /\ node.kind = "cmp"
     /\ LET w == node.value IN
          \/ /\ Scalar(v) /\ \A o \in Operands(w) : SameType(v, o)
             /\ node.op \in Ranges => Is(v, "num")
          \/ Operands(w) = {}
          \/ /\ v = Missing \/ NullIsNull(backend, node.path, v)
             /\ IF node.op = "$eq" THEN w = Null ELSE node.op = "$ne" /\ Scalar(w)
          \/ node.op = "$ne" /\ Apart(v, w) /\ ~Plain(node.path) /\ backend # "mysql"

Safe(backend, node, v) ==
  /\ node.kind = "cmp" /\ node.op \notin {"$ne", "$nin"}
  /\ \A o \in Operands(node.value) :
       \/ (v = Missing \/ NullIsNull(backend, node.path, v)) /\ Scalar(o)
       \/ /\ Apart(v, o) /\ ~Plain(node.path) /\ backend # "mysql"
          /\ node.op \in Ranges => backend # "sqlite" /\ (backend = "postgres" => Is(v, "str"))

RECURSIVE Portable(_, _, _, _)

(* negated: the answer to node is to be exact.                             *)
Portable(backend, node, row, negated) ==
  CASE node.kind = "true" -> TRUE
    [] node.kind \in {"and", "or", "nor"} ->
         /\ backend = "mongodb" => node.children # {}
         /\ \A c \in node.children : Portable(backend, c, row, negated \/ node.kind = "nor")
    [] node.kind = "not" -> Portable(backend, node.child, row, TRUE)
    [] OTHER ->
         LET v == Stored(row, node.path) IN
         /\ Exact(backend, node, v) \/ (~negated /\ Safe(backend, node, v))
         /\ ~UnknownColumn(node, row)
         /\ node.kind = "elemMatch" /\ Is(v, "array") =>
              \A e \in ToSet(v.array) :
                /\ Is(e, "object")
                /\ Portable(backend, node.child, [doc |-> e.object, columns |-> <<>>], TRUE)
=============================================================================
