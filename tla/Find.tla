-------------------------------- MODULE Find --------------------------------
(***************************************************************************)
(* find() and count() of a table (src/core/table.ts) and of the drivers,   *)
(* as a client uses them that reads a table page by page: the rows that    *)
(* live and match, in the order asked for, from an offset on and up to a   *)
(* limit.  Rows that the order leaves together come in any order, which    *)
(* may be another one for every page.  What a row is to a query, and how   *)
(* two rows are sorted, are parameters here; Query has their values.       *)
(*                                                                         *)
(* The buffer and the caches, which find() flushes and reads first, are in *)
(* TableData; here nothing is written.                                     *)
(***************************************************************************)
EXTENDS Naturals, Sequences, FiniteSets, Functions

CONSTANTS
  Tables,     (* the tables: the columns of the schema, none for a plain   *)
              (* table, and the rows by key                                *)
  Queries,    (* what is asked of them                                     *)
  Answers(_, _, _, _),
              (* what a backend answers, of a table, to a query, about the *)
              (* row of a key: "true", "false", "null" or "error"          *)
  SortsBefore(_, _, _, _, _)
              (* of two keys it sorts the first before the second          *)

ASSUME FindAssumption ==
  /\ \A t \in Tables : IsFiniteSet(DOMAIN t.rows)
  /\ \A q \in Queries :
       q.offset \in Nat /\ q.limit \subseteq Nat /\ \A m, n \in q.limit : m = n

VARIABLES
  backend, table, query,
  offset,     (* of the page that is read next                             *)
  seen,       (* the keys on the pages so far                              *)
  total,      (* what count() said, once it was asked                      *)
  state       (* of the reader: "reading", "done" or "failed"              *)

reader == <<backend, table, query, offset, seen, total, state>>

Backends == {"sqlite", "postgres", "mysql", "mongodb", "redis"}

-----------------------------------------------------------------------------
(* The drivers.                                                            *)

Refused(b, t, q) == \E k \in DOMAIN t.rows : Answers(b, t, q, k) = "error"
Matching(b, t, q) == {k \in DOMAIN t.rows : Answers(b, t, q, k) = "true"}
Selected(b, t, q) == {k \in Matching(b, t, q) : t.rows[k].live}

(* Mutant: the limit is applied before the offset.                         *)
SliceLimitFirst(b, keys, from, limit) ==
  LET short == \E n \in limit : n < Len(keys) /\ ~(b = "mongodb" /\ n = 0)
  IN  SubSeq(keys, from + 1, IF short THEN CHOOSE n \in limit : TRUE ELSE Len(keys))

(* The limit is a set, of one number or of none.  To MongoDB a limit of 0  *)
(* is none.                                                                *)
Slice(b, keys, from, limit) ==
  LET rest  == SubSeq(keys, from + 1, Len(keys))
      short == \E n \in limit : n < Len(rest) /\ ~(b = "mongodb" /\ n = 0)
  IN  IF short THEN SubSeq(rest, 1, CHOOSE n \in limit : TRUE) ELSE rest

Counted(b, t, q) == Cardinality(Selected(b, t, q))

Ordered(b, t, q, keys) == \A i, j \in DOMAIN keys : i < j => ~SortsBefore(b, t, q, keys[j], keys[i])

Listings(b, t, q) ==
  {keys \in Bijection(1..Counted(b, t, q), Selected(b, t, q)) : Ordered(b, t, q, keys)}

-----------------------------------------------------------------------------
(* The table.  What was soft-deleted is left out of what the driver found, *)
(* unless it is asked for.                                                 *)

find(b, t, q, from) ==
  LET pages    == {Slice(b, keys, from, q.limit) : keys \in Listings(b, t, q)}
      Shown(k) == ~t.rows[k].deleted
  IN  IF q.soft THEN {SelectSeq(page, Shown) : page \in pages} ELSE pages

(* The driver counts, whatever the limit, if nothing is to be left out.    *)
count(b, t, q) ==
  IF q.soft THEN {Len(keys) : keys \in find(b, t, q, q.offset)} ELSE {Counted(b, t, q)}

-----------------------------------------------------------------------------
(* The reader.  Who asks for columns has a table with some.                *)

ReaderInit ==
  /\ table \in Tables /\ query \in Queries
  /\ query.columns # {} => table.known # {}
  /\ backend \in (IF table.known = {} THEN Backends ELSE Backends \ {"redis"})
  /\ offset = query.offset /\ seen = <<>> /\ total = {} /\ state = "reading"

NextPage ==
  /\ state = "reading" /\ ~Refused(backend, table, query)
  /\ \E page \in find(backend, table, query, offset) :
       /\ seen' = seen \o page
       /\ state' = IF page = <<>> \/ query.limit = {} THEN "done" ELSE "reading"
  /\ offset' = offset + (IF query.limit = {} THEN 0 ELSE CHOOSE n \in query.limit : TRUE)
  /\ UNCHANGED <<backend, table, query, total>>

Counts ==
  /\ total = {} /\ state = "reading" /\ ~Refused(backend, table, query)
  /\ \E n \in count(backend, table, query) : total' = {n}
  /\ UNCHANGED <<backend, table, query, offset, seen, state>>

Fails ==
  /\ state = "reading" /\ Refused(backend, table, query)
  /\ state' = "failed"
  /\ UNCHANGED <<backend, table, query, offset, seen, total>>

ReaderNext == NextPage \/ Counts \/ Fails

ReaderSpec == ReaderInit /\ [][ReaderNext]_reader

-----------------------------------------------------------------------------
Distinct(b, t, q) ==
  \A k, l \in Selected(b, t, q) :
    k # l => SortsBefore(b, t, q, k, l) \/ SortsBefore(b, t, q, l, k)

(* Pages of a table that leaves soft-deleted rows out come short.          *)
Unfiltered(q) == q.soft => q.limit = {}

(* If the order tells the rows apart, the pages have no row twice, and     *)
(* together they have every row; in whatever order they come, count() says *)
(* how many they are.                                                      *)
EachRowOnce ==
  Unfiltered(query) =>
    /\ Distinct(backend, table, query) =>
         /\ \A i, j \in DOMAIN seen : seen[i] = seen[j] => i = j
         /\ state = "done" /\ query.offset = 0 =>
              Range(seen) = {k \in Selected(backend, table, query) :
                               query.soft => ~table.rows[k].deleted}
    /\ state = "done" /\ query.offset = 0 /\ total # {} => total = {Len(seen)}

-----------------------------------------------------------------------------
(* What does not hold of every query.                                      *)

(* A limit is never exceeded (MongoDB: 0 is no limit).                     *)
LimitKept == query.limit # {} => Len(seen) <= offset - query.offset

(* count() does not depend on the limit.                                   *)
CountWhole ==
  \A n \in total : n = Cardinality({k \in Selected(backend, table, query) :
                                      query.soft => ~table.rows[k].deleted})

=============================================================================
