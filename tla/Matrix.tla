------------------------------- MODULE Matrix -------------------------------
(***************************************************************************)
(* matrix_t: the intermediate result of a query.  Row i of the C array is  *)
(* data[i + 1]; a row gives one tuple per relation of the query, the key   *)
(* being a value of the attribute the column was loaded for and id the row *)
(* of the relation.  Rows are allocated in powers of two, so the ones in   *)
(* use are followed by rows of Empty tuples; a matrix without rows is the  *)
(* only one matrix_isempty calls empty.                                    *)
(***************************************************************************)
EXTENDS Integers, Sequences, SequencesExt, FiniteSets

CONSTANT
  Columns,                \* indexes of the relations of a query
  MatrixInitialCapacity   \* MATRIX_INITIAL_CAPACITY

Empty == [key |-> -1, id |-> -1]   \* both words UINT64_MAX

EmptyRow == [c \in Columns |-> Empty]

NoAttribute == -1

(* matrix_init: no rows; col_map says of no column what it holds. *)
matrix_init ==
  [data    |-> <<>>,
   col_map |-> [c \in Columns |-> [attr |-> NoAttribute, sorted |-> FALSE]]]

Rows(m) == Len(m.data)

matrix_isempty(m) == Rows(m) = 0

IsEmptyRow(row) == \A c \in Columns : row[c] = Empty

(* The rows before the first empty one, over which the engine iterates. *)
Used(m) == SelectInSeq(m.data \o <<EmptyRow>>, IsEmptyRow) - 1

(* matrix_col_size: the tuples of a column before its first empty one. *)
matrix_col_size(m, c) ==
  SelectInSeq(m.data \o <<EmptyRow>>, LAMBDA row : row[c] = Empty) - 1

Loaded(m, c) == ~matrix_isempty(m) /\ m.data[1][c] # Empty

(* nearest_power_of2: the least power of two that is not below n. *)
nearest_power_of2(n) ==
  LET power[e \in 0 .. n] == IF e = 0 THEN 1 ELSE 2 * power[e - 1]
  IN  power[CHOOSE e \in 0 .. n : power[e] >= n /\ \A d \in 0 .. e - 1 : power[d] < n]

(* matrix_create_space for the rows 1 to n in turn. *)
matrix_create_space(m, n) ==
  LET required == IF n = 0 THEN 0
                  ELSE IF n <= MatrixInitialCapacity /\ matrix_isempty(m)
                       THEN MatrixInitialCapacity ELSE nearest_power_of2(n)
      missing  == IF required > Rows(m) THEN required - Rows(m) ELSE 0
  IN  [m EXCEPT !.data = @ \o [i \in 1 .. missing |-> EmptyRow]]

(* matrix_set of a column, from the first row on. *)
SetColumn(m, c, tuples) ==
  LET g == matrix_create_space(m, Len(tuples))
  IN  [g EXCEPT !.data = [i \in 1 .. Len(g.data) |->
         IF i <= Len(tuples) THEN [g.data[i] EXCEPT ![c] = tuples[i]]
         ELSE g.data[i]]]

(* A fresh matrix filled with rows by matrix_setrow and swapped for m      *)
(* (matrix_content_swap): the data is replaced, col_map is not.            *)
Replace(m, rows) ==
  LET g == matrix_create_space([m EXCEPT !.data = <<>>], Len(rows))
  IN  [g EXCEPT !.data = [i \in 1 .. Len(g.data) |->
         IF i <= Len(rows) THEN rows[i] ELSE EmptyRow]]

(* matrix_finalize releases the empty rows at the bottom; when every row   *)
(* is empty its unsigned index wraps around and nothing is released.       *)
matrix_finalize(m) ==
  LET last == SelectLastInSeq(m.data, LAMBDA row : ~IsEmptyRow(row))
  IN  IF last = 0 THEN m ELSE [m EXCEPT !.data = SubSeq(@, 1, last)]

(* The tuples of a column, as far as it is filled. *)
Column(m, c) == [i \in 1 .. matrix_col_size(m, c) |-> m.data[i][c]]

(* The orders that sorting may leave a sequence of tuples in: by key, ties *)
(* in any order (the radix passes and quick sort are not stable).          *)
Sortings(tuples) ==
  LET insertions(s, t) ==
        {InsertAt(s, k, t) : k \in {k \in 1 .. Len(s) + 1 :
           /\ \A i \in 1 .. k - 1 : s[i].key <= t.key
           /\ \A i \in k .. Len(s) : s[i].key >= t.key}}
      orders[n \in 0 .. Len(tuples)] ==
        IF n = 0 THEN {<<>>}
        ELSE UNION {insertions(s, tuples[n]) : s \in orders[n - 1]}
  IN  orders[Len(tuples)]

(* Mutant: every tuple is a run of its own. *)
RunOfOne(tuples, i) == i + 1

(* One past the last tuple of the run of equal keys that starts at i. *)
RunEnd(tuples, i) ==
  CHOOSE k \in i + 1 .. Len(tuples) + 1 :
    /\ \A n \in i .. k - 1 : tuples[n].key = tuples[i].key
    /\ k <= Len(tuples) => tuples[k].key # tuples[i].key

(* The positions of equal keys in two sorted sequences of tuples, in the   *)
(* order in which mx_join comes to them: where two runs of keys meet, each *)
(* position of the one with each of the other.                             *)
Matches(left, table) ==
  LET product(a, b) ==
        LET na == RunEnd(left, a) - a
            nb == RunEnd(table, b) - b
        IN  [n \in 1 .. na * nb |-> <<a + ((n - 1) \div nb), b + ((n - 1) % nb)>>]
      merge[ab \in (1 .. Len(left) + 1) \X (1 .. Len(table) + 1)] ==
        LET a == ab[1]
            b == ab[2]
        IN  IF a > Len(left) \/ b > Len(table) THEN <<>>
            ELSE IF left[a].key = table[b].key
              THEN product(a, b) \o merge[<<RunEnd(left, a), RunEnd(table, b)>>]
            ELSE IF left[a].key < table[b].key
              THEN merge[<<RunEnd(left, a), b>>]
              ELSE merge[<<a, RunEnd(table, b)>>]
  IN  merge[<<1, 1>>]

(* mx_join: a column of the matrix is merged with a sorted table, and a    *)
(* row that matches a tuple is extended by it.                             *)
MergeRows(m, c, table, other) ==
  LET matches == Matches(Column(m, c), table)
  IN  [n \in 1 .. Len(matches) |->
         [m.data[matches[n][1]] EXCEPT ![other] = table[matches[n][2]]]]

(* Mutant: the tuples of the table overwrite the column joined. *)
JoinOverwriting(m, c, table, other) == Replace(m, MergeRows(m, c, table, c))

mx_join(m, c, table, other) == Replace(m, MergeRows(m, c, table, other))
=============================================================================
