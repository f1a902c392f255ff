-------------------------------- MODULE MCFind --------------------------------
(***************************************************************************)
(* Find with the answers of Query, on small tables: what every backend is  *)
(* to answer alike.                                                        *)
(***************************************************************************)
EXTENDS Find, Query, TLC
LOCAL INSTANCE SequencesExt

N(field) == <<Key(field)>>
OX       == <<Key("o"), Key("x")>>
L0       == <<Key("l"), Index(0)>>

(* a is a number here and a string there, a null, an array, or missing; d  *)
(* and f are columns, null or not.                                         *)
Docs(x, y, z)  == 1 :> x @@ 2 :> y @@ 3 :> z
Row(doc, cols) == [doc |-> doc, columns |-> cols, live |-> TRUE, deleted |-> FALSE]
PlainTable(docs) == [known |-> {}, rows |-> [k \in DOMAIN docs |-> Row(docs[k], <<>>)]]
Expired(t, k)  == [t EXCEPT !.rows[k].live = FALSE]
Deleted(t, k)  == [t EXCEPT !.rows[k].deleted = TRUE]

X(v)    == Object([x |-> v])
Numbers == PlainTable(Docs([a |-> Num(2), s |-> Str(1), o |-> X(Num(2))],
                           [a |-> Num(10), s |-> Str(2), o |-> X(Str(1))],
                           [a |-> Num(3), s |-> Str(3), o |-> X(Bool(TRUE))]))
Mixed   == PlainTable(Docs([a |-> Num(2), s |-> Str(2), l |-> Array(<<X(Num(2)), X(Num(10))>>)],
                           [a |-> Str(1), s |-> Str(2), l |-> Array(<<Num(2)>>)],
                           [a |-> Bool(TRUE), s |-> Str(1), o |-> X(Num(10)), l |-> Array(<<>>)]))
Sparse  == PlainTable(Docs([a |-> Null, s |-> Str(1)],
                           [s |-> Str(2), o |-> Object([y |-> Num(2)])],
                           [a |-> Array(<<Num(2), Num(10)>>), s |-> Null]))
Columned ==
  [known |-> {"d", "f"},
   rows  |-> Docs(Row([a |-> Num(2), s |-> Str(1)], [d |-> Num(10), f |-> Bool(TRUE)]),
                  Row([a |-> Num(3), s |-> Str(2)], [d |-> Num(2), f |-> Null]),
                  Row([a |-> Num(10), s |-> Str(2), d |-> Num(3)], [d |-> Null, f |-> Bool(FALSE)]))]

MCTables == {Numbers, Mixed, Sparse, Columned, Expired(Numbers, 2), Deleted(Numbers, 3),
             Deleted(Expired(Columned, 1), 2)}

Test(field, op, v)   == [field |-> field, tests |-> {[op |-> op, operand |-> v]}]
Exists(field, there) == [field |-> field, tests |-> {[op |-> "$exists", exists |-> there]}]

Scalars  == {Num(2), Num(10), Str(1), Bool(TRUE), Null}
Lists    == {Array(<<>>), Array(<<Num(2), Num(3)>>), Array(<<Str(1), Null>>)}
Fields   == {N("a"), OX, L0, N("d"), N("f")}
Leaves   ==
  {Test(n, op, v) : n \in Fields, op \in {"$ne", "$gt", "$gte", "$lt", "$lte"}, v \in Scalars}
    \cup {Test(n, op, v) : n \in Fields, op \in {"$in", "$nin"}, v \in Lists}
    \cup {Exists(n, there) : n \in Fields, there \in BOOLEAN}
    \cup {[field |-> n, equals |-> v] : n \in Fields, v \in Scalars}

S2 == [field |-> N("s"), equals |-> Str(2)]

Wheres == {{}}
  \cup {{e} : e \in Leaves}
  \cup {{[not |-> {e}]} : e \in Leaves}
  \cup {{[op |-> "or", branches |-> {{e}, {S2}}]} : e \in Leaves}
  \cup {{[op |-> "nor", branches |-> {{e}, {S2}}]} : e \in Leaves}
  \cup {{[op |-> op, branches |-> {}]} : op \in {"and", "or", "nor"}}
  \cup {{[field |-> N("l"), tests |-> {[op |-> "$elemMatch", where |-> {Test(N("x"), op, Num(2))}]}]}
          : op \in {"$gt", "$ne"}}

(* Two tests of a field.                                                   *)
Between == [field |-> N("a"), tests |-> {[op |-> "$gt", operand |-> Num(2)],
                                         [op |-> "$lte", operand |-> Num(10)]}]

Query0 == [where |-> {}, columns |-> {}, sort |-> <<>>, limit |-> {}, offset |-> 0, soft |-> FALSE]
Up(field)   == [field |-> field, desc |-> FALSE]
Down(field) == [field |-> field, desc |-> TRUE]

Sorts  == {<<>>, <<Up(N("a"))>>, <<Down(N("a"))>>, <<Up(N("s"))>>, <<Up(N("d"))>>, <<Down(N("d"))>>,
           <<Up(N("s")), Down(N("d"))>>, <<Down(OX)>>}
Lookups == {[Query0 EXCEPT !.where = w] : w \in Wheres}
Walks   == {[Query0 EXCEPT !.where = w, !.sort = s, !.limit = l, !.offset = o, !.soft = soft] :
              w \in {{}, {S2}, {Between}}, s \in Sorts, l \in {{}, {1}, {2}}, o \in 0..1,
              soft \in BOOLEAN}
Hybrid  == {[Query0 EXCEPT !.columns = {[field |-> N("d"), equals |-> Num(10)]}, !.where = w] :
              w \in {{}, {[values |-> {[field |-> N("d"), equals |-> Num(3)]}]},
                     {[columns |-> {[field |-> N("e"), equals |-> Num(3)]}]}}}
MCQueries == Lookups \cup Walks \cup Hybrid

(* A limit of none.                                                        *)
ZeroLimit == {[Query0 EXCEPT !.limit = {0}]}

-----------------------------------------------------------------------------
(* The sort keys of a field are of a type, and numbers are not in a        *)
(* document on postgres and mysql; nulls come first, save on postgres.     *)
PortableSort(b, t, q) ==
  \A spec \in ToSet(parseSort(t, q)) :
    LET v(k) == Stored(t.rows[k], spec.path)
        keys == {k \in Selected(b, t, q) : v(k) \notin {Missing, Null}}
    IN  /\ \A k, l \in keys : Scalar(v(k)) /\ SameType(v(k), v(l))
        /\ \A k \in keys : Is(v(k), "num") => Plain(spec.path) \/ b \notin {"postgres", "mysql"}
        /\ keys # Selected(b, t, q) =>
             /\ b # "postgres"
             /\ \A k \in Selected(b, t, q) : v(k) = Null => NullIsNull(b, spec.path, Null)

PortableQuery(b, t, q) ==
  /\ \A k \in DOMAIN t.rows : Portable(b, parsed(t, q), t.rows[k], FALSE)
  /\ PortableSort(b, t, q)

(* On every backend a portable query finds the rows the evaluator finds.   *)
BackendsAgree ==
  \A k \in DOMAIN table.rows :
    LET node == parsed(table, query)
        row  == table.rows[k]
    IN  Portable(backend, node, row, FALSE) =>
          ((Answer(backend, node, row) = "true") <=> Evaluated(node, row))

(* If the order tells the rows apart, the pages of a portable query have   *)
(* them on every backend in the order that the evaluator finds.            *)
FindAgrees ==
  state = "done" /\ Unfiltered(query)
    /\ PortableQuery(backend, table, query) /\ Distinct("redis", table, query)
    => seen \in find("redis", table, [query EXCEPT !.limit = {}], query.offset)

-----------------------------------------------------------------------------
(* What does not hold of every query.                                      *)

(* "100% semantic fidelity" (src/query/evaluator.ts).                      *)
Fidelity ==
  \A k \in DOMAIN table.rows :
    LET node == parsed(table, query)
        row  == table.rows[k]
    IN  Answer(backend, node, row) # "error" =>
          ((Answer(backend, node, row) = "true") <=> Evaluated(node, row))

(* "numeric sorting [...] rather than lexical" (drivers/mysql/dialect.ts).*)
NumericSort ==
  \A i, j \in DOMAIN seen, spec \in ToSet(parseSort(table, query)) :
    LET v(n) == Stored(table.rows[seen[n]], spec.path)
    IN  i < j /\ Len(query.sort) = 1 /\ Is(v(i), "num") /\ Is(v(j), "num") =>
          IF spec.desc THEN v(i).num >= v(j).num ELSE v(i).num <= v(j).num

=============================================================================
