---------------------------- MODULE SortMergeJoin ----------------------------
(***************************************************************************)
(* A sort-merge join from the columns of two relations to the pairs of     *)
(* rows: the composition of the two radix sorts, the quick sort under them *)
(* and the merge.  The route "join" is that of the test programs, two      *)
(* tables that table_sort_wrapper sorts; the route "mx_join" that of       *)
(* load_all, which sorts the left column in the matrix and the right one   *)
(* in a table.                                                             *)
(***************************************************************************)
EXTENDS RadixSort

CONSTANTS
  Lefts, Rights   \* the columns joined: functions from 0 .. rows - 1

(* The rows of a column are numbered from 0 on, a payload is the row of its *)
(* key, and the chunks hold all bits of a key.                             *)
ASSUME ColumnAssumption ==
  \A f \in Lefts \cup Rights :
    /\ IsFiniteSet(DOMAIN f)
    /\ f \in [0 .. Cardinality(DOMAIN f) - 1 -> Quick!Tuple]
    /\ \A x \in DOMAIN f : f[x].payload = x /\ Shifted(f[x].key, FirstChunk + 1) = 0

VARIABLES
  route, left, right,
  phase,   \* "load_left", "sort_left", "load_right", "sort_right",
           \* "merge" or, on an assertion, "aborted"
  table_a, table_b, size_a, size_b, i_a, e_a, i_b, e_b, i, j, pc, result
           \* see MergeJoin

merge == <<i_a, e_a, i_b, e_b, i, j, pc, result>>

sorted == <<table_a, table_b, size_a, size_b>>

sorting == <<tuples, calls, scan, asked, original, other, next, frames>>

vars == <<sorting, route, left, right, phase, sorted, merge>>

Merge == INSTANCE MergeJoin

Size(f) == Cardinality(DOMAIN f)

Init ==
  /\ route \in {"join", "mx_join"}
  /\ left \in Lefts /\ right \in Rights
  /\ phase = "load_left"
  /\ tuples = <<>> /\ other = <<>>
  /\ next = [tuples |-> 0, other |-> 0]
  /\ calls = <<>> /\ frames = <<>>
  /\ scan = Quick!Idle /\ asked = Extent(0, 0) /\ original = <<>>
  /\ table_a = <<>> /\ table_b = <<>> /\ size_a = 0 /\ size_b = 0
  /\ Merge!Start /\ pc = "loop"

Begin(column) == frames' = <<Call(FirstChunk, Extent(0, Size(column)))>>

Zeroes(column) == [x \in DOMAIN column |-> [key |-> 0, payload |-> 0]]

(* load_table and table_sort_wrapper: a clone is distributed over the      *)
(* table; table_sort asserts that there is something to sort.              *)
LoadTable(column, sort) ==
  /\ UNCHANGED quick
  /\ \/ /\ Size(column) > 0
        /\ tuples' = column /\ other' = column
        /\ next' = [tuples |-> Size(column), other |-> Size(column)]
        /\ Begin(column)
        /\ phase' = sort
     \/ /\ Size(column) = 0
        /\ phase' = "aborted"
        /\ UNCHANGED <<tuples, other, next, frames>>

(* load_matrix_full and mx_radix, with a table of zeroes as storage. *)
LoadMatrix(column, sort) ==
  /\ tuples' = column /\ other' = Zeroes(column)
  /\ next' = [tuples |-> Size(column), other |-> Size(column)]
  /\ Begin(column)
  /\ phase' = sort
  /\ UNCHANGED quick

LoadLeft ==
  /\ phase = "load_left"
  /\ IF route = "join" THEN LoadTable(left, "sort_left")
     ELSE LoadMatrix(left, "sort_left")
  /\ UNCHANGED <<route, left, right, sorted, merge>>

LoadRight ==
  /\ phase = "load_right"
  /\ LoadTable(right, "sort_right")
  /\ UNCHANGED <<route, left, right, sorted, merge>>

InMatrix == phase = "sort_left" /\ route = "mx_join"

Sort ==
  /\ phase \in {"sort_left", "sort_right"}
  /\ IF InMatrix THEN MatrixSortStep ELSE TableSortStep
  /\ UNCHANGED <<route, left, right, phase, sorted, merge>>

SortBucket ==
  /\ phase \in {"sort_left", "sort_right"}
  /\ QuickSortStep
  /\ UNCHANGED <<route, left, right, phase, sorted, merge>>

Sorted == frames = <<>> /\ calls = <<>>

SortedLeft ==
  /\ phase = "sort_left" /\ Sorted
  /\ table_a' = tuples
  /\ size_a' = IF InMatrix THEN Size(tuples) ELSE next.tuples
  /\ phase' = "load_right"
  /\ UNCHANGED <<sorting, route, left, right, table_b, size_b, merge>>

SortedRight ==
  /\ phase = "sort_right" /\ Sorted
  /\ table_b' = tuples /\ size_b' = next.tuples
  /\ phase' = "merge"
  /\ UNCHANGED <<sorting, route, left, right, table_a, size_a, merge>>

Join ==
  /\ phase = "merge"
  /\ Merge!Next
  /\ UNCHANGED <<sorting, route, left, right, phase>>

Next ==
  LoadLeft \/ LoadRight \/ Sort \/ SortBucket \/ SortedLeft \/ SortedRight \/ Join

Ended == phase = "aborted" \/ pc = "done"

(* The caller goes on to the next statement until the join has ended.      *)
Spec == Init /\ [][Next]_vars /\ WF_vars(Next)

-----------------------------------------------------------------------------
Column == IF phase = "sort_left" THEN left ELSE right

Values(f) == {f[x] : x \in DOMAIN f}

(* TypeOK: the type of every variable. *)
TypeOK ==
  /\ phase \in {"load_left", "sort_left", "load_right", "sort_right",
                "merge", "aborted"}
  /\ pc \in {"loop", "runs", "product", "done"}
  /\ DOMAIN tuples = DOMAIN other
  /\ \A f \in {tuples, other, table_a, table_b} : \A x \in DOMAIN f :
       f[x].key \in Nat /\ f[x].payload \in Nat
  /\ \A k \in DOMAIN calls : Within(calls[k]) \subseteq DOMAIN tuples
  /\ scan.i \in Nat /\ scan.j \in Nat /\ scan.running \in BOOLEAN
  /\ \A k \in DOMAIN frames :
       /\ frames[k].chunk \in 0 .. FirstChunk
       /\ Within(frames[k].range) \subseteq DOMAIN tuples
       /\ frames[k].prefix \in 0 .. Radix
       /\ frames[k].step \in {"pass", "split", "bucket", "called"}
  /\ next.tuples \in Nat /\ next.other \in Nat
  /\ size_a \in Nat /\ size_b \in Nat
  /\ {i_a, e_a, i_b, e_b, i, j} \subseteq Nat

(* BucketSorted: when quick sort returns, the bucket it was called for is  *)
(* in order, and nothing else in the array has changed.                    *)
BucketSorted == [][SortBucket => Quick!RangeSorted']_vars

(* The bits of a key above a chunk: the prefixes of the calls around it.   *)
Above(key, chunk) == Shifted(key, chunk + 1)

(* BucketComplete: when a call of table_sort or matrix_sort starts, the    *)
(* array it reads holds in its range all the tuples of the column that     *)
(* agree with one another in every chunk above, and nothing else.  The two *)
(* arrays exchange roles with every chunk: a bucket that was not copied    *)
(* back to the array its caller reads is stale there.                      *)
BucketComplete ==
  At("pass") =>
    LET src == IF InMatrix /\ Odd(Frame.chunk) THEN tuples ELSE other
        in  == {src[x] : x \in Within(Frame.range)}
    IN  /\ Cardinality(in) = Frame.range.end - Frame.range.start
        /\ \A t \in in :
             in = {u \in Values(Column) : Above(u.key, Frame.chunk)
                                            = Above(t.key, Frame.chunk)}

OrderOf(f, size, column) ==
  /\ size = Size(column)
  /\ Quick!Ordered(f, Extent(0, size))
  /\ Values(f) = Values(column)

(* InOrder: what a radix sort leaves is the column it was given, in the    *)
(* order of its keys, and next, which the sorts of buckets have changed on *)
(* both tables, is its size again.                                         *)
InOrder ==
  /\ phase \in {"load_right", "sort_right", "merge"} => OrderOf(table_a, size_a, left)
  /\ phase = "merge" => OrderOf(table_b, size_b, right)

(* JoinExact: the rows of equal keys, each pair once.  The sorts and the   *)
(* merge agree on where a column ends.                                     *)
JoinExact ==
  pc = "done" =>
    /\ Merge!Pairs =
         {<<ab[1].payload, ab[2].payload>> :
            ab \in {ab \in Values(left) \X Values(right) : ab[1].key = ab[2].key}}
    /\ Len(result) = Cardinality(Merge!Pairs)

(* JoinEnds: every join ends with a result, or on the assertion of         *)
(* table_sort when a relation it sorts in a table has no rows.             *)
JoinEnds ==
  <>(IF Size(right) = 0 \/ (route = "join" /\ Size(left) = 0)
       THEN phase = "aborted" ELSE pc = "done")
=============================================================================
