------------------------------ MODULE QuickSort ------------------------------
(***************************************************************************)
(* table_quick_sort and matrix_qsort: the same algorithm, once on the      *)
(* tuples of a table and once on a column of a matrix.  Every call and     *)
(* every iteration of the loop of table_partition is a step.  A tuple is   *)
(* [key, payload]; sorting looks at keys only.                             *)
(*                                                                         *)
(* calls holds the ranges [start, end) that calls of table_quick_sort have *)
(* yet to sort, the one that runs first in front: the call for the part    *)
(* left of the pivot returns before the one for the right part is made.    *)
(***************************************************************************)
EXTENDS Integers, Sequences, FiniteSets, Functions

VARIABLES
  tuples,    \* table->tuples: a function from 0 .. n - 1
  calls,     \* ranges that calls have yet to sort
  scan,      \* the loop of table_partition: [running, i, j]
  asked,     \* history: the range of the first call
  original   \* history: the tuples at the first call

vars == <<tuples, calls, scan, asked, original>>

Extent(start, end) == [start |-> start, end |-> end]

Within(r) == r.start .. r.end - 1

Idle == [running |-> FALSE, i |-> 0, j |-> 0]

Tuple == [key : Nat, payload : Nat]

Tables == UNION {[0 .. n - 1 -> Tuple] : n \in Nat}

(* tuple_swap *)
Swapped(f, i, j) == [f EXCEPT ![i] = f[j], ![j] = f[i]]

(* Any table and any range of it. *)
Init ==
  /\ tuples \in Tables
  /\ \E start, end \in Nat :
       /\ start <= end /\ Within(Extent(start, end)) \subseteq DOMAIN tuples
       /\ asked = Extent(start, end)
  /\ original = tuples
  /\ calls = <<asked>>
  /\ scan = Idle

(* A range of no or of one tuple is sorted. *)
Trivial(r) == r.end < 1 \/ r.start >= r.end - 1

Return ==
  /\ calls # <<>> /\ ~scan.running
  /\ Trivial(Head(calls))
  /\ calls' = Tail(calls)
  /\ UNCHANGED <<tuples, scan, asked, original>>

Partition ==
  /\ calls # <<>> /\ ~scan.running
  /\ ~Trivial(Head(calls))
  /\ scan' = [running |-> TRUE, i |-> Head(calls).start, j |-> Head(calls).start]
  /\ UNCHANGED <<tuples, calls, asked, original>>

Last == Head(calls).end - 1

(* Mutant: a tuple that stays where it is is looked at again. *)
ScanForever ==
  /\ calls # <<>> /\ scan.running /\ scan.j < Last
  /\ IF tuples[scan.j].key < tuples[Last].key
       THEN /\ tuples' = Swapped(tuples, scan.i, scan.j)
            /\ scan' = [scan EXCEPT !.i = @ + 1, !.j = @ + 1]
       ELSE UNCHANGED <<tuples, scan>>
  /\ UNCHANGED <<calls, asked, original>>

(* One iteration: a tuple below the pivot, the last of the range, changes  *)
(* places with the first one that is not.                                  *)
Scan ==
  /\ calls # <<>> /\ scan.running /\ scan.j < Last
  /\ IF tuples[scan.j].key < tuples[Last].key
       THEN /\ tuples' = Swapped(tuples, scan.i, scan.j)
            /\ scan' = [scan EXCEPT !.i = @ + 1, !.j = @ + 1]
       ELSE /\ scan' = [scan EXCEPT !.j = @ + 1]
            /\ UNCHANGED tuples
  /\ UNCHANGED <<calls, asked, original>>

(* Mutant: the pivot stays at the end of the range. *)
PlaceNothing ==
  /\ calls # <<>> /\ scan.running /\ scan.j >= Last
  /\ calls' = <<Extent(Head(calls).start, scan.i),
                Extent(scan.i + 1, Head(calls).end)>> \o Tail(calls)
  /\ scan' = Idle
  /\ UNCHANGED <<tuples, asked, original>>

(* The pivot goes to tuples[i]; a call each sorts what is left and right   *)
(* of it.                                                                  *)
Place ==
  /\ calls # <<>> /\ scan.running /\ scan.j >= Last
  /\ tuples' = Swapped(tuples, scan.i, Last)
  /\ calls' = <<Extent(Head(calls).start, scan.i),
                Extent(scan.i + 1, Head(calls).end)>> \o Tail(calls)
  /\ scan' = Idle
  /\ UNCHANGED <<asked, original>>

Next == Return \/ Partition \/ Scan \/ Place

Spec == Init /\ [][Next]_vars

-----------------------------------------------------------------------------
Ordered(f, r) == \A a, b \in Within(r) : a <= b => f[a].key <= f[b].key

Occurrences(f, t) == Cardinality({i \in DOMAIN f : f[i] = t})

(* f holds the tuples of g, in some order. *)
Reordered(f, g) ==
  /\ DOMAIN f = DOMAIN g
  /\ \A t \in Range(f) \cup Range(g) : Occurrences(f, t) = Occurrences(g, t)

(* RangeSorted: when table_quick_sort returns, the range it was called for *)
(* is in order and holds the tuples it held before, and no tuple outside   *)
(* the range has moved: the radix sort calls it on one bucket of a table.  *)
RangeSorted ==
  calls = <<>> =>
    /\ Ordered(tuples, asked)
    /\ Reordered(tuples, original)
    /\ \A i \in DOMAIN tuples \ Within(asked) : tuples[i] = original[i]
=============================================================================
