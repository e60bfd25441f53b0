----------------------------- MODULE QueryEngine -----------------------------
(***************************************************************************)
(* query_exec: one query from its predicates to its sums.  The filters run *)
(* first, in the order of the list; the joins that remain are sorted and   *)
(* run one after the other; each extends, sorts or thins out the matrix of *)
(* row ids; finally every projection sums a column over the matrix.  Every *)
(* predicate, the sorting of the joins, matrix_finalize and every sum is   *)
(* one step.                                                               *)
(*                                                                         *)
(* A relation is [rows |-> n, column |-> a function of attribute and row   *)
(* id].  Predicates are those of PredicateOrder.                           *)
(*                                                                         *)
(* Ties: the sorts of the program are not stable, so equal keys may end up *)
(* in any order.                                                           *)
(***************************************************************************)
EXTENDS Matrix, PredicateOrder, FiniteSetsExt, Functions

CONSTANTS
  Databases,  \* contents of the relations: functions from Columns
  Queries     \* records [preds, projs]: lists as query_init leaves them

VARIABLES
  rels,       \* the relations of the query (never written)
  query,      \* the query (never written)
  preds,      \* predicates still to run
  matrix,     \* the intermediate result
  empty,      \* the local variable empty of query_exec
  phase,      \* "filters", "joins", "project", "done"
  sums,       \* results of query_projection so far
  ran,        \* history: the predicates executed
  irregular   \* history: what the engine should not have met, see Forgotten

vars == <<rels, query, preds, matrix, empty, phase, sums, ran, irregular>>

(* Every relation has the rows its header states in every column, and      *)
(* their numbers count from 0.                                             *)
IsDatabase(d) ==
  /\ DOMAIN d = Columns
  /\ \A c \in Columns :
       /\ d[c].rows \in Nat
       /\ DOMAIN d[c].column = 0 .. Cardinality(DOMAIN d[c].column) - 1
       /\ \A a \in DOMAIN d[c].column : d[c].column[a] \in [0 .. d[c].rows - 1 -> Nat]

IsEnd(end) ==
  end.key \in Columns /\ \A d \in Databases : end.payload \in DOMAIN d[end.key].column

IsConstant(end) == end.payload = Constant /\ end.key \in Nat

IsPredicate(p) ==
  /\ IsEnd(p.left)
  /\ p.op \in {"<", ">", "="}
  /\ IsConstant(p.right) \/ (p.op = "=" /\ IsEnd(p.right))

(* Predicates with a constant are in front, as query_init lists them.      *)
IsQuery(q) ==
  /\ q.preds \in Seq(ToSet(q.preds)) /\ q.projs \in Seq(ToSet(q.projs))
  /\ \A p \in ToSet(q.preds) : IsPredicate(p)
  /\ \A k \in 1 .. Len(q.preds) : IsConstant(q.preds[k].right) =>
       \A i \in 1 .. k : IsConstant(q.preds[i].right)
  /\ \A end \in ToSet(q.projs) : IsEnd(end)

ASSUME EngineAssumption ==
  /\ IsFiniteSet(Columns) /\ Columns \subseteq Nat
  /\ MatrixInitialCapacity \in Nat
  /\ \A d \in Databases : IsDatabase(d)
  /\ \A q \in Queries : IsQuery(q)

-----------------------------------------------------------------------------
(* Predicates *)

filter_pass(left, right, op) ==
  CASE op = "<" -> left < right
    [] op = ">" -> left > right
    [] OTHER    -> left = right

(* col[id].  Of the missing id UINT64_MAX it is the word in front of the   *)
(* column: the end of the column before, or the number of columns that the *)
(* file's header states.                                                   *)
Value(end, id) ==
  LET column == rels[end.key].column
  IN  IF id # Empty.id THEN column[end.payload][id]
      ELSE IF end.payload = 0 THEN Cardinality(DOMAIN column)
      ELSE column[end.payload - 1][rels[end.key].rows - 1]

(* The right-hand side of a filter for a row of its relation. *)
pred_value(p, id) == IF p.right.payload = Constant THEN p.right.key ELSE Value(p.right, id)

RowIds(r) == 0 .. rels[r].rows - 1

-----------------------------------------------------------------------------
(* Filters *)

(* Tuples of an attribute for row ids in a sequence. *)
Tuples(end, ids) == [i \in 1 .. Len(ids) |-> [key |-> Value(end, ids[i]), id |-> ids[i]]]

(* The numbers of a set as a loop upwards meets them. *)
InOrder(S) ==
  [i \in 1 .. Cardinality(S) |-> CHOOSE x \in S : Cardinality({y \in S : y < x}) = i - 1]

query_filter_all(p) ==
  LET passing == {id \in RowIds(p.left.key) :
                    filter_pass(Value(p.left, id), pred_value(p, id), p.op)}
  IN  SetColumn(matrix, p.left.key, Tuples(p.left, InOrder(passing)))

(* query_filter_existing goes through the whole relation again and takes   *)
(* the product of what passes with the rows of the matrix, whether or not  *)
(* they already hold rows of this relation.                                *)
query_filter_existing(p) ==
  LET passing == {id \in RowIds(p.left.key) :
                    filter_pass(Value(p.left, id), p.right.key, p.op)}
      tuples == Tuples(p.left, InOrder(passing))
      used == Used(matrix)
  IN  Replace(matrix, [n \in 1 .. Len(tuples) * used |->
                         [matrix.data[((n - 1) % used) + 1]
                            EXCEPT ![p.left.key] = tuples[((n - 1) \div used) + 1]]])

-----------------------------------------------------------------------------
(* Joins *)

(* query_join_existing moves the rows that pass to the front and marks the *)
(* others empty; their number does not change.                             *)
JoinsRow(p, row) ==
  filter_pass(Value(p.left, row[p.left.key].id), Value(p.right, row[p.right.key].id), p.op)

RowsJoined(p) == InOrder({i \in 1 .. Used(matrix) : JoinsRow(p, matrix.data[i])})

(* Mutant: the rows that do not pass are left where they are. *)
JoinExistingKeepingRest(p) ==
  LET kept == RowsJoined(p)
  IN  [matrix EXCEPT !.data = [i \in 1 .. Len(@) |-> @[IF i <= Len(kept) THEN kept[i] ELSE i]]]

(* Mutant: the first column of the rows is not marked empty. *)
JoinExistingKeepingColumn(p) ==
  LET kept == RowsJoined(p)
      first == Min(Columns)
  IN  [matrix EXCEPT !.data = [i \in 1 .. Len(@) |->
         IF i <= Len(kept) THEN @[kept[i]] ELSE [EmptyRow EXCEPT ![first] = matrix.data[i][first]]]]

query_join_existing(p) ==
  LET kept == RowsJoined(p)
  IN  [matrix EXCEPT !.data = [i \in 1 .. Len(@) |->
         IF i <= Len(kept) THEN @[kept[i]] ELSE EmptyRow]]

(* Rows in use in which an id it reads is missing. *)
ReadsMissingId(p) ==
  \E i \in 1 .. Used(matrix) :
    matrix.data[i][p.left.key] = Empty \/ matrix.data[i][p.right.key] = Empty

(* Mutant: row ids loaded for another attribute keep their keys. *)
LoadExistingOnce(m, end) ==
  IF Loaded(m, end.key) THEN m
  ELSE SetColumn(m, end.key,
         Tuples(end, InOrder(RowIds(end.key))))

(* load_matrix_full, or load_matrix_col_from_rel when the column holds row *)
(* ids loaded for another attribute.                                       *)
LoadExisting(m, end) ==
  IF ~Loaded(m, end.key)
    THEN SetColumn(m, end.key,
           Tuples(end, InOrder(RowIds(end.key))))
  ELSE IF m.col_map[end.key].attr # end.payload
    THEN SetColumn(m, end.key,
           Tuples(end, [i \in 1 .. matrix_col_size(m, end.key) |->
                          m.data[i][end.key].id]))
  ELSE m

(* Mutant: a column that is sorted by any attribute is not sorted again. *)
NeedsFirstSort(m, end) == ~m.col_map[end.key].sorted

NeedsSort(m, end) == m.col_map[end.key] # [attr |-> end.payload, sorted |-> TRUE]

Marked(m, end) ==
  [m EXCEPT !.col_map[end.key] = [attr |-> end.payload, sorted |-> TRUE]]

(* mx_radix: trailing empty rows go, and the one column is sorted. *)
SortExisting(m, end) ==
  IF NeedsSort(m, end)
    THEN {Marked(SetColumn(matrix_finalize(m), end.key, s), end) :
            s \in Sortings(Column(m, end.key))}
    ELSE {m}

(* load_table and table_sort_wrapper of the other relation. *)
SortedTables(end) == Sortings(Tuples(end, InOrder(RowIds(end.key))))

-----------------------------------------------------------------------------
(* What the engine's shortcuts rely on not to happen:                      *)
(*   refiltered  a filter on a relation that is in the matrix already;     *)
(*   torn        sorting one column moved row ids between rows that hold   *)
(*               other relations too;                                      *)
(*   ragged      a whole relation was loaded into a column beside others;  *)
(*   forgotten   an intermediate result without rows was taken for one     *)
(*               that was never loaded;                                    *)
(*   selfcompared  two attributes of one relation were compared as a filter*)
(*               of rows that exist or as a join with itself.              *)
(* The word in front of a column was read if a row id is "missing".        *)
Forgotten == IF ran # {} /\ Used(matrix) = 0 THEN {"forgotten"} ELSE {}

Refiltered(p) == IF Loaded(matrix, p.left.key) THEN {"refiltered"} ELSE {}

Ragged(end) ==
  IF ~Loaded(matrix, end.key) /\ Used(matrix) > 0 THEN {"ragged"} ELSE {}

SelfCompared(p) ==
  IF p.right.payload # Constant /\ p.left.key = p.right.key THEN {"selfcompared"} ELSE {}

Missing(p) == IF ReadsMissingId(p) THEN {"missing"} ELSE {}

Ids(m, c) == [i \in 1 .. matrix_col_size(m, c) |-> m.data[i][c].id]

Torn(before, after, c) ==
  IF Ids(before, c) # Ids(after, c) /\ \E d \in Columns \ {c} : Loaded(before, d)
    THEN {"torn"} ELSE {}

-----------------------------------------------------------------------------
Init ==
  /\ rels \in Databases
  /\ query \in Queries
  /\ preds = query.preds
  /\ matrix = matrix_init
  /\ empty = FALSE
  /\ phase = "filters"
  /\ sums = <<>>
  /\ ran = {}
  /\ irregular = {}

Executed(p) == preds' = Tail(preds) /\ ran' = ran \cup {p}

Filter ==
  /\ phase = "filters" /\ ~empty
  /\ preds # <<>> /\ ~is_pred_join(Head(preds))
  /\ LET p == Head(preds) IN
       /\ IF matrix_isempty(matrix) \/ IsEmptyRow(matrix.data[1])
            THEN /\ matrix' = query_filter_all(p)
                 /\ empty' = matrix_isempty(matrix')
                 /\ irregular' = irregular \cup Forgotten
            ELSE /\ matrix' = query_filter_existing(p)
                 /\ empty' = FALSE
                 /\ irregular' = irregular \cup Refiltered(p) \cup SelfCompared(p)
       /\ Executed(p)
  /\ UNCHANGED <<rels, query, phase, sums>>

(* An empty result ends the query; otherwise the joins are put in order. *)
SortJoins ==
  /\ phase = "filters"
  /\ empty \/ preds = <<>> \/ is_pred_join(Head(preds))
  /\ preds' = IF empty THEN preds ELSE nodelist_mergesort(preds)
  /\ phase' = IF empty THEN "project" ELSE "joins"
  /\ UNCHANGED <<rels, query, matrix, empty, sums, ran, irregular>>

Joining(p) ==
  /\ phase = "joins" /\ ~empty
  /\ preds # <<>> /\ p = Head(preds)
  /\ Executed(p)
  /\ UNCHANGED <<rels, query, phase, sums>>

BothLoaded(p) == Loaded(matrix, p.left.key) /\ Loaded(matrix, p.right.key)

JoinExisting(p) ==
  /\ BothLoaded(p)
  /\ matrix' = query_join_existing(p)
  /\ irregular' = irregular \cup Forgotten \cup Missing(p)

(* One relation stays in or is loaded into the matrix, the other into a    *)
(* table; the marks of both columns say "sorted" from then on.             *)
Existing(p) == IF Loaded(matrix, p.right.key) THEN p.right ELSE p.left

Other(p) == IF Loaded(matrix, p.right.key) THEN p.left ELSE p.right

JoinOther(p) ==
  LET existing == Existing(p)
      other    == Other(p)
      loaded   == LoadExisting(matrix, existing)
  IN  /\ ~BothLoaded(p)
      /\ \E sorted \in SortExisting(loaded, existing), table \in SortedTables(other) :
           /\ matrix' = mx_join(Marked(sorted, other), existing.key, table, other.key)
           /\ irregular' = irregular \cup Forgotten \cup Ragged(existing)
                             \cup SelfCompared(p) \cup Torn(loaded, sorted, existing.key)

Join ==
  \E p \in ToSet(query.preds) :
    /\ Joining(p)
    /\ JoinExisting(p) \/ JoinOther(p)
    /\ empty' = matrix_isempty(matrix')

Finalize ==
  /\ phase = "joins"
  /\ empty \/ preds = <<>>
  /\ matrix' = IF empty THEN matrix ELSE matrix_finalize(matrix)
  /\ phase' = "project"
  /\ UNCHANGED <<rels, query, preds, empty, sums, ran, irregular>>

(* query_projection; a sum of 0 is printed as NULL, like no rows at all. *)
SumOf(end) ==
  LET n == matrix_col_size(matrix, end.key)
  IN  SumFunction([i \in 1 .. n |-> Value(end, matrix.data[i][end.key].id)])

Projection ==
  /\ phase = "project"
  /\ Len(sums) < Len(query.projs)
  /\ sums' = Append(sums, SumOf(query.projs[Len(sums) + 1]))
  /\ phase' = IF Len(sums') = Len(query.projs) THEN "done" ELSE phase
  /\ UNCHANGED <<rels, query, preds, matrix, empty, ran, irregular>>

Next == Filter \/ SortJoins \/ Join \/ Finalize \/ Projection

Spec == Init /\ [][Next]_vars

-----------------------------------------------------------------------------
TypeOK ==
  /\ ToSet(preds) \subseteq ToSet(query.preds)
  /\ \A i \in 1 .. Rows(matrix), c \in Columns :
       LET t == matrix.data[i][c]
       IN  t = Empty \/ t.id \in RowIds(c)
  /\ \A c \in Columns : matrix.col_map[c].attr \in DOMAIN rels[c].column \cup {NoAttribute}
  /\ empty \in BOOLEAN
  /\ phase \in {"filters", "joins", "project", "done"}
  /\ Len(sums) <= Len(query.projs)
  /\ ran \subseteq ToSet(query.preds)
  /\ irregular \subseteq {"refiltered", "torn", "ragged", "forgotten", "selfcompared", "missing"}

(* What SQL says: the combinations of row ids of the relations in a set    *)
(* that satisfy the predicates in another.                                 *)
Ends(p) == IF p.right.payload = Constant THEN {p.left.key} ELSE {p.left.key, p.right.key}

Satisfies(f, p) ==
  filter_pass(Value(p.left, f[p.left.key]),
              IF p.right.payload = Constant THEN p.right.key
              ELSE Value(p.right, f[p.right.key]), p.op)

Answer(relations, predicates) ==
  {f \in [relations -> UNION {RowIds(r) : r \in relations}] :
     /\ \A r \in relations : f[r] \in RowIds(r)
     /\ \A p \in predicates : Satisfies(f, p)}

(* IntermediateExact: as long as nothing irregular happened, the rows of   *)
(* the matrix are, each once, the combinations of row ids that satisfy the *)
(* predicates executed so far.                                             *)
IntermediateExact ==
  irregular = {} /\ ran # {} =>
    LET joined == UNION {Ends(p) : p \in ran}
        ids(i) == [r \in joined |-> matrix.data[i][r].id]
    IN  /\ {ids(i) : i \in 1 .. Used(matrix)} = Answer(joined, ran)
        /\ \A i, k \in 1 .. Used(matrix) : ids(i) = ids(k) => i = k

(* ResultIsSQL: the sums printed are the ones SQL defines for the query,   *)
(* as workloads/small/small.work.sql states them.                          *)
ResultIsSQL ==
  phase = "done" =>
    LET answer == Answer(Columns, ToSet(query.preds))
    IN  \A i \in 1 .. Len(query.projs) :
          LET end == query.projs[i]
          IN  sums[i] = SumFunction([f \in answer |-> Value(end, f[end.key])])

(* Every relation of the query is in one of its predicates.  The engine    *)
(* loads the others never: it prints 0 for them and counts no product.     *)
AllMentioned == Columns = UNION {Ends(p) : p \in ToSet(query.preds)}

(* RegularResult: the sums are right unless something irregular happened:  *)
(* what Forgotten and its neighbours name, and a relation that no          *)
(* predicate mentions, are the only ways to a wrong one.                   *)
RegularResult == irregular = {} /\ AllMentioned => ResultIsSQL

(* The column of m holds the values of an attribute for its row ids, in    *)
(* the order of the values.                                                *)
HoldsInOrder(m, end) ==
  LET column == Column(m, end.key)
  IN  /\ \A i \in 1 .. Len(column) : column[i].key = Value(end, column[i].id)
      /\ \A i, k \in 1 .. Len(column) : i <= k => column[i].key <= column[k].key

(* MarksTruthful: a column that col_map calls sorted by an attribute holds *)
(* that attribute's values as keys, in order, whatever filters and joins   *)
(* have done to the rows since.                                            *)
MarksTruthful ==
  \A c \in Columns : matrix.col_map[c].sorted =>
    HoldsInOrder(matrix, [key |-> c, payload |-> matrix.col_map[c].attr])

(* The mark says that a column is in the order of an attribute, but the    *)
(* rows it was set for are gone.                                           *)
StaleMark(end) ==
  /\ ~Loaded(matrix, end.key)
  /\ matrix.col_map[end.key] = [attr |-> end.payload, sorted |-> TRUE]

(* MergesInOrder: load_all skips the loading and the sorting on the        *)
(* strength of the mark.  What it hands to mx_join has the attribute of    *)
(* the join in order all the same, be it loaded now or for another join    *)
(* before, with one exception: the mark is not taken back with the rows.   *)
(* When a join left no row, the relation is loaded anew and, with the old  *)
(* mark, merged unsorted (master.c:956-964).  That takes an intermediate   *)
(* result that was forgotten, or a ragged one whose rows lost the column.  *)
MergesInOrder ==
  phase = "joins" /\ ~empty /\ preds # <<>> =>
    LET p   == Head(preds)
        end == Existing(p)
    IN  ~BothLoaded(p) =>
          \/ \A sorted \in SortExisting(LoadExisting(matrix, end), end) :
               HoldsInOrder(sorted, end)
          \/ /\ StaleMark(end)
             /\ {"forgotten", "ragged"} \cap (irregular \cup Forgotten) # {}

(* MissingIdsOnlyIfRagged: a row in use that lacks an id is met, and the   *)
(* word in front of a column read, only after a whole relation was loaded  *)
(* beside others.                                                          *)
MissingIdsOnlyIfRagged == "missing" \in irregular => "ragged" \in irregular

(* RefilterOnlyRemoves: a filter on a relation that was filtered before    *)
(* keeps "just the remaining part" (master.c:1453): it adds no row.        *)
RefilterOnlyRemoves ==
  [][\A p \in ran' \ ran :
       (~is_pred_join(p) /\ Loaded(matrix, p.left.key)) => Used(matrix') <= Used(matrix)]_vars
=============================================================================
