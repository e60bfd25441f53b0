------------------------------ MODULE MergeJoin ------------------------------
(***************************************************************************)
(* The merge of two sorted inputs, the loop of join and of mx_join.  join  *)
(* reads two tables, mx_join a column of a matrix and a table; both pair   *)
(* every tuple of a run of equal keys on the left with every tuple of the  *)
(* run of that key on the right.  The pairs go to the end of the last      *)
(* table of a list (join), to the next row of a new matrix (mx_join):      *)
(* result is their sequence.                                               *)
(***************************************************************************)
EXTENDS Integers, Sequences

VARIABLES
  table_a, table_b,   \* the inputs: functions from 0 .. size - 1
  size_a, size_b,     \* next of a table, matrix_col_size of the column
  i_a, e_a,           \* i_a[0] and i_a[1] of the code
  i_b, e_b,           \* i_b[0] and i_b[1]
  i, j,               \* the indexes of the product
  pc,
  result

vars == <<table_a, table_b, size_a, size_b, i_a, e_a, i_b, e_b, i, j, pc, result>>

inputs == <<table_a, table_b, size_a, size_b>>

Tuple == [key : Nat, payload : Nat]

(* The tuples of a relation in the order of their keys; load_table and     *)
(* load_matrix_full have made the row of a tuple its payload.              *)
SortedTable(f, n) ==
  /\ n \in Nat
  /\ f \in [0 .. n - 1 -> Tuple]
  /\ \A x, y \in 0 .. n - 1 : x <= y => f[x].key <= f[y].key
  /\ \A x, y \in 0 .. n - 1 : f[x].payload = f[y].payload => x = y

Start ==
  /\ i_a = 0 /\ e_a = 0
  /\ i_b = 0 /\ e_b = 0
  /\ i = 0 /\ j = 0
  /\ result = <<>>

Init ==
  /\ SortedTable(table_a, size_a)
  /\ SortedTable(table_b, size_b)
  /\ Start
  /\ pc = "loop"

key_a(x) == table_a[x].key

key_b(y) == table_b[y].key

Loop ==
  /\ pc = "loop"
  /\ i_a < size_a /\ i_b < size_b
  /\ e_a' = i_a + 1 /\ e_b' = i_b + 1
  /\ pc' = "runs"
  /\ UNCHANGED <<inputs, i_a, i_b, i, j, result>>

(* One of the inputs is used up. *)
Finish ==
  /\ pc = "loop"
  /\ i_a >= size_a \/ i_b >= size_b
  /\ pc' = "done"
  /\ UNCHANGED <<inputs, i_a, e_a, i_b, e_b, i, j, result>>

(* Mutant: the last tuple is never part of the run before it. *)
MoreAButLast == e_a < size_a - 1 /\ key_a(i_a) = key_a(e_a)

MoreA == e_a < size_a /\ key_a(i_a) = key_a(e_a)

MoreB == e_b < size_b /\ key_b(i_b) = key_b(e_b)

ExtendA ==
  /\ pc = "runs" /\ MoreA
  /\ e_a' = e_a + 1
  /\ UNCHANGED <<inputs, i_a, i_b, e_b, i, j, pc, result>>

ExtendB ==
  /\ pc = "runs" /\ ~MoreA /\ MoreB
  /\ e_b' = e_b + 1
  /\ UNCHANGED <<inputs, i_a, e_a, i_b, i, j, pc, result>>

Match ==
  /\ pc = "runs" /\ ~MoreA /\ ~MoreB
  /\ key_a(i_a) = key_b(i_b)
  /\ i' = i_a /\ j' = i_b
  /\ pc' = "product"
  /\ UNCHANGED <<inputs, i_a, e_a, i_b, e_b, result>>

(* The run with the smaller key has no partner. *)
Skip ==
  /\ pc = "runs" /\ ~MoreA /\ ~MoreB
  /\ \/ key_a(i_a) < key_b(i_b) /\ i_a' = e_a /\ UNCHANGED i_b
     \/ key_a(i_a) > key_b(i_b) /\ i_b' = e_b /\ UNCHANGED i_a
  /\ pc' = "loop"
  /\ UNCHANGED <<inputs, e_a, e_b, i, j, result>>

(* The next iteration of the inner loop, or of the outer one. *)
Emit ==
  /\ pc = "product" /\ i < e_a /\ j < e_b
  /\ result' = Append(result, <<table_a[i].payload, table_b[j].payload>>)
  /\ IF j + 1 < e_b THEN j' = j + 1 /\ UNCHANGED i
     ELSE j' = i_b /\ i' = i + 1
  /\ UNCHANGED <<inputs, i_a, e_a, i_b, e_b, pc>>

Advance ==
  /\ pc = "product" /\ i >= e_a
  /\ i_a' = e_a /\ i_b' = e_b
  /\ pc' = "loop"
  /\ UNCHANGED <<inputs, e_a, e_b, i, j, result>>

Next ==
  Loop \/ Finish \/ ExtendA \/ ExtendB \/ Match \/ Skip \/ Emit \/ Advance

Spec == Init /\ [][Next]_vars

-----------------------------------------------------------------------------
Pairs == {result[k] : k \in DOMAIN result}

(* The rows of equal keys. *)
Matches ==
  {<<table_a[m[1]].payload, table_b[m[2]].payload>> :
     m \in {p \in (0 .. size_a - 1) \X (0 .. size_b - 1) : key_a(p[1]) = key_b(p[2])}}

(* MergeExact: the result of a finished merge has every pair of rows with  *)
(* equal keys once, and no other pair; the two indexes that delimit a run  *)
(* on either side have neither missed a tuple nor gone over a run twice.   *)
MergeExact ==
  pc = "done" =>
    /\ Pairs = Matches
    /\ \A k, l \in DOMAIN result : result[k] = result[l] => k = l
=============================================================================
