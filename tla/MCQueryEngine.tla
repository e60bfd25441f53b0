---------------------------- MODULE MCQueryEngine ----------------------------
EXTENDS QueryEngine

(* A relation from its rows; attributes and row ids start at 0. *)
Relation(rows) ==
  [rows   |-> Len(rows),
   column |-> [a \in 0 .. Len(rows[1]) - 1 |->
                [id \in 0 .. Len(rows) - 1 |-> rows[id + 1][a + 1]]]]

Database(r0, r1, r2) ==
  (0 :> Relation(r0)) @@ (1 :> Relation(r1)) @@ (2 :> Relation(r2))

End(r, a) == [key |-> r, payload |-> a]
On(r, a, op, value) == [left |-> End(r, a), op |-> op, right |-> End(value, Constant)]
Eq(r, a, s, b) == [left |-> End(r, a), op |-> "=", right |-> End(s, b)]
Query(predicates, projections) == [preds |-> predicates, projs |-> projections]

(* Keys that repeat, keys that match nothing, orders that sorting changes; *)
(* rows that match by either of two attributes, but none by both.          *)
Unsorted  == << <<3, 1>>, <<1, 2>>, <<2, 2>> >>
Repeated  == << <<2, 1>>, <<1, 3>>, <<2, 2>>, <<1, 1>> >>
Crossed   == << <<1, 2>>, <<2, 1>>, <<3, 3>>, <<4, 1>> >>
Pairs     == << <<1, 1>>, <<2, 2>>, <<3, 1>>, <<4, 1>>, <<4, 2>> >>
Few       == << <<1, 5>>, <<3, 1>>, <<1, 7>> >>
Lone      == << <<2, 2>> >>
Strangers == << <<8, 9>>, <<9, 8>> >>
Shifted   == << <<2, 1>>, <<1, 3>>, <<3, 2>> >>

SmallDatabases ==
  {Database(Unsorted, Repeated, Few), Database(Crossed, Pairs, Few),
   Database(Repeated, Unsorted, Lone), Database(Unsorted, Strangers, Few),
   Database(Lone, Repeated, Unsorted), Database(Unsorted, Shifted, Repeated)}

Sums == <<End(0, 0), End(1, 1), End(2, 1)>>

(* Every shape of query over three relations: a chain, a star from each    *)
(* end, parallel joins and a triangle; without filters, with filters that  *)
(* keep some, all or no rows, on one or on several relations.  Predicates  *)
(* are listed as query_init leaves them, filters in front.                 *)
Joins ==
  {<<Eq(0, 0, 1, 0), Eq(1, 0, 2, 0)>>,
   <<Eq(1, 0, 2, 0), Eq(0, 1, 1, 1)>>,
   <<Eq(0, 1, 2, 0), Eq(0, 0, 1, 0)>>,
   <<Eq(2, 0, 1, 1), Eq(1, 0, 0, 0)>>,
   <<Eq(0, 0, 1, 0), Eq(0, 1, 1, 1), Eq(1, 1, 2, 0)>>,
   <<Eq(0, 0, 1, 0), Eq(1, 0, 2, 0), Eq(2, 0, 0, 0)>>,
   <<Eq(0, 0, 1, 0), Eq(0, 1, 1, 1), Eq(1, 0, 2, 0)>>,
   <<Eq(0, 0, 1, 0), Eq(0, 1, 1, 1), Eq(0, 1, 1, 0), Eq(2, 0, 0, 1)>>}

Filters ==
  {<<>>, <<On(0, 0, ">", 1)>>, <<On(0, 1, "<", 9)>>, <<On(1, 0, "=", 2)>>,
   <<On(0, 0, ">", 9)>>, <<On(2, 0, "<", 3)>>,
   <<On(1, 0, "<", 3), On(0, 1, ">", 1)>>, <<On(0, 1, "<", 3), On(0, 0, ">", 1)>>}

AllQueries == {Query(f \o j, Sums) : f \in Filters, j \in Joins}

(* Two attributes of one relation, as a filter and as a join. *)
SelfQueries ==
  {Query(<<Eq(0, 0, 0, 1), Eq(0, 0, 1, 0), Eq(1, 1, 2, 1)>>, Sums),
   Query(<<On(1, 0, ">", 0), Eq(0, 0, 0, 1), Eq(0, 1, 1, 0), Eq(1, 1, 2, 1)>>, Sums),
   Query(<<Eq(0, 1, 1, 0), Eq(0, 0, 0, 1), Eq(1, 1, 2, 1)>>, Sums)}

(* A relation in no predicate, and one in a filter only. *)
NarrowQueries ==
  {Query(<<Eq(0, 0, 1, 0)>>, Sums), Query(<<On(2, 0, "<", 3), Eq(0, 1, 1, 1)>>, Sums)}

ManyQueries == AllQueries \cup SelfQueries \cup NarrowQueries

(* A query that filters a relation twice, and one that joins a relation on *)
(* two of its attributes, like the first of workloads/small/small.work.    *)
SomeDatabase == {Database(Crossed, Pairs, << <<1, 5>>, <<1, 7>>, <<2, 9>> >>)}
TwoFilters == {Query(<<On(0, 1, "<", 3), On(0, 0, ">", 1), Eq(0, 0, 1, 0), Eq(1, 1, 2, 0)>>, Sums)}
TwoColumns == {Query(<<On(0, 0, ">", 0), Eq(0, 0, 1, 0), Eq(0, 1, 2, 0)>>, Sums)}
=============================================================================
