--------------------------- MODULE QuickSortProofs ---------------------------
(***************************************************************************)
(* Quick sort of any range of a table of any size.                         *)
(*                                                                         *)
(* The argument does not follow the recursion.  Two tuples of the range    *)
(* are in order unless one call that is still pending has them both, and   *)
(* no two pending calls share a tuple.  A swap inside the range of one     *)
(* call cannot disturb the order with what is outside of it; a partition   *)
(* gives up only the pairs it has put in order.                            *)
(***************************************************************************)
EXTENDS QuickSort, FiniteSetTheorems, FunctionTheorems, TLAPS

Ranges == [start : Nat, end : Nat]

Apart(r, s) == r.end <= s.start \/ s.end <= r.start

TypeInv ==
  /\ \E n \in Nat : tuples \in [0 .. n - 1 -> Tuple]
  /\ calls \in Seq(Ranges)
  /\ asked \in Ranges
  /\ scan \in [running : BOOLEAN, i : Nat, j : Nat]

(* The pending calls share no tuple and stay within the range asked for.   *)
CallsInv ==
  /\ Within(asked) \subseteq DOMAIN tuples
  /\ \A k \in DOMAIN calls :
       /\ calls[k].start <= calls[k].end
       /\ asked.start <= calls[k].start /\ calls[k].end <= asked.end
  /\ \A k, l \in DOMAIN calls : k # l => Apart(calls[k], calls[l])

(* The loop of table_partition: below the pivot up to i, not below from i  *)
(* to j.                                                                   *)
ScanInv ==
  scan.running =>
    /\ calls # <<>> /\ ~Trivial(calls[1])
    /\ calls[1].start <= scan.i /\ scan.i <= scan.j /\ scan.j < calls[1].end
    /\ \A x \in DOMAIN tuples :
         /\ calls[1].start <= x /\ x < scan.i => tuples[x].key < tuples[calls[1].end - 1].key
         /\ scan.i <= x /\ x < scan.j => tuples[x].key >= tuples[calls[1].end - 1].key

(* What no pending call has to put in order is in order. *)
Together(a, b) == \E k \in DOMAIN calls : a \in Within(calls[k]) /\ b \in Within(calls[k])

OrderInv ==
  \A a, b \in Within(asked) : a < b => tuples[a].key <= tuples[b].key \/ Together(a, b)

KeepInv ==
  /\ DOMAIN tuples = DOMAIN original
  /\ \A t : Occurrences(tuples, t) = Occurrences(original, t)
  /\ \A x \in DOMAIN tuples \ Within(asked) : tuples[x] = original[x]

IInv == TypeInv /\ CallsInv /\ ScanInv /\ OrderInv /\ KeepInv

-----------------------------------------------------------------------------
(* A swap exchanges two tuples and leaves no tuple more or less often in   *)
(* the table.                                                              *)
LEMMA SwappedTuples ==
  ASSUME NEW S, IsFiniteSet(S), NEW T, NEW f \in [S -> T], NEW x \in S, NEW y \in S
  PROVE  /\ Swapped(f, x, y) \in [S -> T]
         /\ Swapped(f, x, y)[x] = f[y] /\ Swapped(f, x, y)[y] = f[x]
         /\ \A z \in S \ {x, y} : Swapped(f, x, y)[z] = f[z]
         /\ \A t : Occurrences(Swapped(f, x, y), t) = Occurrences(f, t)
<1> DEFINE h == Swapped(f, x, y)
<1>1. /\ h \in [S -> T]
      /\ h[x] = f[y] /\ h[y] = f[x]
      /\ \A z \in S \ {x, y} : h[z] = f[z]
  BY DEF Swapped
<1> HIDE DEF h
<1>2. ASSUME NEW t PROVE Occurrences(h, t) = Occurrences(f, t)
  <2> DEFINE A == {z \in S : f[z] = t}
             B == {z \in S : h[z] = t}
             p == [z \in A |-> IF z = x THEN y ELSE IF z = y THEN x ELSE z]
  <2>1. IsFiniteSet(A)
    BY FS_Subset
  <2>2. p \in [A -> B]
    BY <1>1
  <2>3. \A z, w \in A : p[z] = p[w] => z = w
    OBVIOUS
  <2>4. ASSUME NEW w \in B PROVE \E z \in A : p[z] = w
    <3>1. CASE w = x
      BY <1>1, <3>1
    <3>2. CASE w = y
      BY <1>1, <3>2
    <3>3. CASE w \notin {x, y}
      BY <1>1, <3>3
    <3> QED
      BY <3>1, <3>2, <3>3
  <2> HIDE DEF p
  <2>5. p \in Bijection(A, B)
    BY <2>2, <2>3, <2>4, Fun_IsBij
  <2>6. Cardinality(B) = Cardinality(A)
    BY <2>1, <2>5, FS_Bijection DEF ExistsBijection
  <2> QED
    BY <1>1, <2>6 DEF Occurrences
<1> QED
  BY <1>1, <1>2 DEF h

LEMMA Positions ==
  ASSUME TypeInv
  PROVE  /\ IsFiniteSet(DOMAIN tuples) /\ DOMAIN tuples \subseteq Nat
         /\ tuples \in [DOMAIN tuples -> Tuple]
         /\ \A x \in DOMAIN tuples : tuples[x].key \in Nat
<1>1. PICK n \in Nat : tuples \in [0 .. n - 1 -> Tuple]
  BY DEF TypeInv
<1>2. IsFiniteSet(0 .. n - 1)
  BY FS_Interval
<1> QED
  BY <1>1, <1>2 DEF Tuple

(* The start satisfies the invariant. *)
LEMMA InitIInv == Init => IInv
<1> SUFFICES ASSUME Init PROVE IInv
  OBVIOUS
<1>1. PICK start, end \in Nat :
        start <= end /\ Within(Extent(start, end)) \subseteq DOMAIN tuples /\ asked = Extent(start, end)
  BY DEF Init
<1>2. calls = <<asked>> /\ scan = Idle /\ tuples \in Tables /\ original = tuples
  BY DEF Init
<1>3. TypeInv
  BY <1>1, <1>2 DEF TypeInv, Tables, Ranges, Extent, Idle
<1>4. CallsInv
  BY <1>1, <1>2 DEF CallsInv, Extent
<1>5. ScanInv
  BY <1>2 DEF ScanInv, Idle
<1>6. OrderInv
  BY <1>2 DEF OrderInv, Together
<1>7. KeepInv
  BY <1>2 DEF KeepInv
<1> QED
  BY <1>3, <1>4, <1>5, <1>6, <1>7 DEF IInv

-----------------------------------------------------------------------------
(* The call that runs, and those behind it. *)
LEMMA FirstCall ==
  ASSUME TypeInv, CallsInv, calls # <<>>
  PROVE  /\ Len(calls) \in Nat /\ DOMAIN calls = 1 .. Len(calls) /\ 1 \in DOMAIN calls
         /\ Head(calls) = calls[1]
         /\ Tail(calls) \in Seq(Ranges)
         /\ DOMAIN Tail(calls) = 1 .. Len(calls) - 1
         /\ \A k \in DOMAIN Tail(calls) : k + 1 \in DOMAIN calls /\ Tail(calls)[k] = calls[k + 1]
         /\ \A k \in DOMAIN calls : calls[k].start \in Nat /\ calls[k].end \in Nat
         /\ asked.start \in Nat /\ asked.end \in Nat
         /\ Within(calls[1]) \subseteq Within(asked) /\ Within(asked) \subseteq DOMAIN tuples
<1>1. calls \in Seq(Ranges) /\ Len(calls) > 0
  BY DEF TypeInv
<1>2. \A k \in DOMAIN calls : calls[k] \in Ranges
  BY <1>1
<1>3. /\ \A k \in DOMAIN calls : calls[k].start \in Nat /\ calls[k].end \in Nat
      /\ asked.start \in Nat /\ asked.end \in Nat
  BY <1>2 DEF TypeInv, Ranges
<1>4. Within(calls[1]) \subseteq Within(asked) /\ Within(asked) \subseteq DOMAIN tuples
  BY <1>1, <1>3 DEF CallsInv, Within
<1> QED
  BY <1>1, <1>3, <1>4

(* A tuple of the first call and one of the range outside of it are in     *)
(* order: no call has both.                                                *)
LEMMA Separate ==
  ASSUME TypeInv, CallsInv, OrderInv, calls # <<>>,
         NEW z \in Within(calls[1]), NEW b \in Within(asked) \ Within(calls[1])
  PROVE  /\ z < b => tuples[z].key <= tuples[b].key
         /\ b < z => tuples[b].key <= tuples[z].key
<1>1. ASSUME NEW k \in DOMAIN calls, z \in Within(calls[k]), b \in Within(calls[k])
      PROVE  FALSE
  <2>1. k # 1
    BY <1>1
  <2>2. Apart(calls[1], calls[k])
    BY <2>1, FirstCall DEF CallsInv
  <2> QED
    BY <1>1, <2>2, FirstCall DEF Apart, Within
<1> QED
  BY <1>1, FirstCall DEF OrderInv, Together

(* A swap inside the first call keeps the order with the rest. *)
LEMMA SwapInside ==
  ASSUME TypeInv, CallsInv, OrderInv, KeepInv, calls # <<>>,
         NEW x \in Within(calls[1]), NEW y \in Within(calls[1]),
         tuples' = Swapped(tuples, x, y), UNCHANGED <<asked, original>>
  PROVE  /\ tuples' \in [DOMAIN tuples -> Tuple]
         /\ tuples'[x] = tuples[y] /\ tuples'[y] = tuples[x]
         /\ \A z \in DOMAIN tuples \ {x, y} : tuples'[z] = tuples[z]
         /\ \A a, b \in Within(asked) :
              a < b => tuples'[a].key <= tuples'[b].key \/ Together(a, b)
         /\ KeepInv'
<1>1. x \in DOMAIN tuples /\ y \in DOMAIN tuples /\ Within(calls[1]) \subseteq DOMAIN tuples
  BY FirstCall
<1>2. /\ tuples' \in [DOMAIN tuples -> Tuple]
      /\ tuples'[x] = tuples[y] /\ tuples'[y] = tuples[x]
      /\ \A z \in DOMAIN tuples \ {x, y} : tuples'[z] = tuples[z]
      /\ \A t : Occurrences(tuples', t) = Occurrences(tuples, t)
  <2> DEFINE S == DOMAIN tuples
  <2>1. IsFiniteSet(S) /\ tuples \in [S -> Tuple] /\ x \in S /\ y \in S
    BY <1>1, Positions
  <2> HIDE DEF S
  <2>2. /\ tuples' \in [S -> Tuple]
        /\ tuples'[x] = tuples[y] /\ tuples'[y] = tuples[x]
        /\ \A z \in S \ {x, y} : tuples'[z] = tuples[z]
        /\ \A t : Occurrences(tuples', t) = Occurrences(tuples, t)
    BY <2>1, SwappedTuples
  <2> QED
    BY <2>2 DEF S
<1>3. ASSUME NEW a \in Within(asked), NEW b \in Within(asked), a < b
      PROVE  tuples'[a].key <= tuples'[b].key \/ Together(a, b)
  <2>1. ASSUME NEW z \in Within(calls[1])
        PROVE  \E w \in Within(calls[1]) : tuples'[z] = tuples[w]
    BY <1>1, <1>2
  <2>2. ASSUME NEW z \in Within(asked), z \notin Within(calls[1])
        PROVE  tuples'[z] = tuples[z]
    BY <1>2, <2>2, FirstCall
  <2>3. CASE a \in Within(calls[1]) /\ b \in Within(calls[1])
    BY <2>3, FirstCall DEF Together
  <2>4. CASE a \in Within(calls[1]) /\ b \notin Within(calls[1])
    <3>1. PICK w \in Within(calls[1]) : tuples'[a] = tuples[w]
      BY <2>1, <2>4
    <3>2. w < b
      BY <1>3, <2>4, FirstCall DEF Within
    <3> QED
      BY <2>2, <2>4, <3>1, <3>2, Separate
  <2>5. CASE a \notin Within(calls[1]) /\ b \in Within(calls[1])
    <3>1. PICK w \in Within(calls[1]) : tuples'[b] = tuples[w]
      BY <2>1, <2>5
    <3>2. a < w
      BY <1>3, <2>5, FirstCall DEF Within
    <3> QED
      BY <2>2, <2>5, <3>1, <3>2, Separate
  <2>6. CASE a \notin Within(calls[1]) /\ b \notin Within(calls[1])
    BY <1>3, <2>2, <2>6 DEF OrderInv
  <2> QED
    BY <2>3, <2>4, <2>5, <2>6
<1>4. KeepInv'
  <2>1. ASSUME NEW z \in DOMAIN tuples, z \notin Within(asked) PROVE tuples'[z] = original[z]
    BY <1>2, <2>1, FirstCall DEF KeepInv
  <2>2. DOMAIN tuples' = DOMAIN tuples /\ Within(asked)' = Within(asked)
    BY <1>2 DEF Within
  <2> QED
    BY <1>2, <2>1, <2>2 DEF KeepInv
<1> QED
  BY <1>2, <1>3, <1>4

-----------------------------------------------------------------------------
(* A range of at most one tuple has no pair to put in order. *)
LEMMA ReturnStep == ASSUME IInv, Return PROVE IInv'
<1> USE DEF IInv
<1>1. /\ calls # <<>> /\ ~scan.running /\ Trivial(calls[1]) /\ calls' = Tail(calls)
      /\ UNCHANGED <<tuples, scan, asked, original>>
  BY FirstCall DEF Return
<1>2. TypeInv'
  BY <1>1, FirstCall DEF TypeInv
<1>3. CallsInv'
  <2>1. /\ \A k \in DOMAIN calls' :
             /\ calls'[k].start <= calls'[k].end
             /\ asked.start <= calls'[k].start /\ calls'[k].end <= asked.end
        /\ \A k, l \in DOMAIN calls' : k # l => Apart(calls'[k], calls'[l])
    BY <1>1, FirstCall DEF CallsInv
  <2> QED
    BY <1>1, <2>1 DEF CallsInv, Within, Apart
<1>4. ScanInv'
  BY <1>1 DEF ScanInv
<1>5. OrderInv'
  <2>1. ASSUME NEW a \in Within(asked), NEW b \in Within(asked), a < b
        PROVE  tuples[a].key <= tuples[b].key
                 \/ \E k \in DOMAIN calls' : a \in Within(calls'[k]) /\ b \in Within(calls'[k])
    <3>1. ASSUME NEW k \in DOMAIN calls, a \in Within(calls[k]), b \in Within(calls[k])
          PROVE  k # 1 /\ k - 1 \in DOMAIN calls' /\ calls'[k - 1] = calls[k]
      <4>1. k # 1
        BY <1>1, <2>1, <3>1, FirstCall DEF Trivial, Within
      <4> QED
        BY <1>1, <4>1, FirstCall
    <3> QED
      BY <2>1, <3>1 DEF OrderInv, Together
  <2> QED
    BY <1>1, <2>1 DEF OrderInv, Together, Within
<1>6. KeepInv'
  BY <1>1 DEF KeepInv, Within
<1> QED
  BY <1>2, <1>3, <1>4, <1>5, <1>6

LEMMA PartitionStep == ASSUME IInv, Partition PROVE IInv'
<1> USE DEF IInv
<1>1. /\ calls # <<>> /\ ~Trivial(calls[1])
      /\ scan' = [running |-> TRUE, i |-> calls[1].start, j |-> calls[1].start]
      /\ UNCHANGED <<tuples, calls, asked, original>>
  BY FirstCall DEF Partition
<1>2. TypeInv'
  BY <1>1, FirstCall DEF TypeInv
<1>3. ScanInv'
  BY <1>1, FirstCall, Positions DEF ScanInv, Trivial
<1>4. CallsInv' /\ OrderInv' /\ KeepInv'
  BY <1>1 DEF CallsInv, OrderInv, Together, KeepInv, Within, Apart
<1> QED
  BY <1>2, <1>3, <1>4

(* The positions the loop of table_partition looks at. *)
LEMMA ScanPositions ==
  ASSUME TypeInv, CallsInv, ScanInv, calls # <<>>, scan.running
  PROVE  /\ scan.i \in Within(calls[1]) /\ scan.j \in Within(calls[1])
         /\ calls[1].end - 1 \in Within(calls[1])
         /\ Last = calls[1].end - 1
         /\ Within(calls[1]) \subseteq DOMAIN tuples
<1>1. scan.i \in Nat /\ scan.j \in Nat /\ calls[1].start \in Nat /\ calls[1].end \in Nat
  BY FirstCall DEF TypeInv
<1>2. calls[1].start <= scan.i /\ scan.i <= scan.j /\ scan.j < calls[1].end
  BY DEF ScanInv
<1>3. Last = calls[1].end - 1
  BY FirstCall DEF Last
<1>4. Within(calls[1]) \subseteq DOMAIN tuples
  BY FirstCall
<1> QED
  BY <1>1, <1>2, <1>3, <1>4 DEF Within

LEMMA ScanStep == ASSUME IInv, Scan PROVE IInv'
<1> USE DEF IInv
<1>1. /\ calls # <<>> /\ scan.running /\ scan.j < Last
      /\ UNCHANGED <<calls, asked, original>>
  BY DEF Scan
<1>2. /\ scan.i \in Nat /\ scan.j \in Nat
      /\ scan \in [running : BOOLEAN, i : Nat, j : Nat]
  BY DEF TypeInv
<1>3. CASE tuples[scan.j].key < tuples[Last].key
  <2>1. /\ tuples' = Swapped(tuples, scan.i, scan.j)
        /\ scan' = [scan EXCEPT !.i = @ + 1, !.j = @ + 1]
    BY <1>3 DEF Scan
  <2>2. /\ tuples' \in [DOMAIN tuples -> Tuple]
        /\ tuples'[scan.i] = tuples[scan.j] /\ tuples'[scan.j] = tuples[scan.i]
        /\ \A z \in DOMAIN tuples \ {scan.i, scan.j} : tuples'[z] = tuples[z]
        /\ \A a, b \in Within(asked) :
             a < b => tuples'[a].key <= tuples'[b].key \/ Together(a, b)
        /\ KeepInv'
    BY <1>1, <2>1, ScanPositions, SwapInside
  <2>3. TypeInv'
    <3>1. scan' \in [running : BOOLEAN, i : Nat, j : Nat]
      <4>1. scan' = [running |-> scan.running, i |-> scan.i + 1, j |-> scan.j + 1]
        BY <1>2, <2>1
      <4> QED
        BY <1>2, <4>1
    <3>2. PICK n \in Nat : DOMAIN tuples = 0 .. n - 1
      BY DEF TypeInv
    <3> QED
      BY <1>1, <2>2, <3>1, <3>2 DEF TypeInv
  <2>4. CallsInv' /\ OrderInv'
    BY <1>1, <2>2 DEF CallsInv, OrderInv, Together, Within, Apart
  <2>5. ScanInv'
    <3> DEFINE e == calls[1].end - 1
    <3>1. scan'.i = scan.i + 1 /\ scan'.j = scan.j + 1 /\ scan'.running
      BY <1>1, <1>2, <2>1
    <3>2. scan.j < e /\ e \in DOMAIN tuples /\ tuples'[e] = tuples[e]
      BY <1>1, <1>2, <2>2, ScanPositions, FirstCall DEF ScanInv
    <3>3. ASSUME NEW x \in DOMAIN tuples, calls[1].start <= x, x < scan.i + 1
          PROVE  tuples'[x].key < tuples'[e].key
      <4>1. CASE x = scan.i
        BY <1>1, <1>3, <2>2, <3>2, <4>1, ScanPositions
      <4>2. CASE x < scan.i
        <5>1. x # scan.j
          BY <1>1, <1>2, <4>2, Positions DEF ScanInv
        <5> QED
          BY <1>1, <1>2, <2>2, <3>2, <3>3, <4>2, <5>1, Positions DEF ScanInv
      <4> QED
        BY <1>2, <3>3, <4>1, <4>2, Positions
    <3>4. ASSUME NEW x \in DOMAIN tuples, scan.i + 1 <= x, x < scan.j + 1
          PROVE  tuples'[x].key >= tuples'[e].key
      <4>1. x \in Nat /\ x # scan.i
        BY <1>2, <3>4, Positions
      <4>2. CASE x = scan.j
        <5>1. scan.i < scan.j /\ scan.i \in DOMAIN tuples
          BY <1>1, <1>2, <3>4, <4>2, ScanPositions
        <5> QED
          BY <1>1, <1>2, <2>2, <3>2, <4>2, <5>1 DEF ScanInv
      <4>3. CASE x # scan.j
        <5>1. scan.i <= x /\ x < scan.j
          BY <1>2, <3>4, <4>1, <4>3
        <5> QED
          BY <1>1, <2>2, <3>2, <4>1, <4>3, <5>1 DEF ScanInv
      <4> QED
        BY <4>2, <4>3
    <3>5. DOMAIN tuples' = DOMAIN tuples
      BY <2>2
    <3>6. /\ calls[1].start <= scan.i + 1 /\ scan.i + 1 <= scan.j + 1
          /\ scan.j + 1 < calls[1].end /\ ~Trivial(calls[1])
      BY <1>1, <1>2, <3>2, FirstCall DEF ScanInv
    <3> QED
      BY <1>1, <3>1, <3>3, <3>4, <3>5, <3>6 DEF ScanInv, Trivial
  <2> QED
    BY <2>2, <2>3, <2>4, <2>5
<1>4. CASE ~(tuples[scan.j].key < tuples[Last].key)
  <2>1. scan' = [scan EXCEPT !.j = @ + 1] /\ UNCHANGED tuples
    BY <1>4 DEF Scan
  <2>2. scan'.i = scan.i /\ scan'.j = scan.j + 1
    BY <1>2, <2>1
  <2>3. TypeInv'
    BY <1>1, <1>2, <2>1 DEF TypeInv
  <2>4. CallsInv' /\ OrderInv' /\ KeepInv'
    BY <1>1, <2>1 DEF CallsInv, OrderInv, Together, KeepInv, Within, Apart
  <2>5. tuples[scan.j].key >= tuples[calls[1].end - 1].key
    BY <1>1, <1>4, ScanPositions, Positions
  <2>6. \A x \in DOMAIN tuples :
          scan.i <= x /\ x < scan.j + 1 => tuples[x].key >= tuples[calls[1].end - 1].key
    BY <1>1, <1>2, <2>5, Positions DEF ScanInv
  <2>7. scan.i <= scan.j + 1 /\ scan.j + 1 < calls[1].end
    BY <1>1, <1>2, ScanPositions, FirstCall DEF ScanInv
  <2>8. ScanInv'
    BY <1>1, <2>1, <2>2, <2>6, <2>7 DEF ScanInv, Trivial
  <2> QED
    BY <2>3, <2>4, <2>8
<1> QED
  BY <1>3, <1>4

(* The pivot is where it belongs: the calls that replace the one that      *)
(* partitioned have to look at either side of it only.                     *)
LEMMA PlaceStep == ASSUME IInv, Place PROVE IInv'
<1> USE DEF IInv
<1> DEFINE left  == Extent(calls[1].start, scan.i)
           right == Extent(scan.i + 1, calls[1].end)
           pivot == calls[1].end - 1
<1>1. /\ calls # <<>> /\ scan.running /\ scan.j >= Last
      /\ tuples' = Swapped(tuples, scan.i, Last)
      /\ calls' = <<left, right>> \o Tail(calls)
      /\ scan' = Idle
      /\ UNCHANGED <<asked, original>>
  BY FirstCall DEF Place
<1>2. /\ scan.i \in Nat /\ scan.j \in Nat
      /\ calls[1].start \in Nat /\ calls[1].end \in Nat
      /\ calls[1].start <= scan.i /\ scan.i <= pivot /\ scan.j = pivot
      /\ pivot \in DOMAIN tuples /\ scan.i \in DOMAIN tuples
  <2>1. scan.i \in Nat /\ scan.j \in Nat
    BY DEF TypeInv
  <2>2. calls[1].start \in Nat /\ calls[1].end \in Nat /\ Last = pivot
    BY <1>1, FirstCall, ScanPositions
  <2>3. calls[1].start <= scan.i /\ scan.i <= scan.j /\ scan.j < calls[1].end
    BY <1>1 DEF ScanInv
  <2> QED
    BY <1>1, <2>1, <2>2, <2>3, ScanPositions
<1>3. /\ tuples' \in [DOMAIN tuples -> Tuple]
      /\ tuples'[scan.i] = tuples[pivot] /\ tuples'[pivot] = tuples[scan.i]
      /\ \A z \in DOMAIN tuples \ {scan.i, pivot} : tuples'[z] = tuples[z]
      /\ \A a, b \in Within(asked) :
           a < b => tuples'[a].key <= tuples'[b].key \/ Together(a, b)
      /\ KeepInv'
  BY <1>1, ScanPositions, SwapInside
<1>4. /\ left \in Ranges /\ right \in Ranges
      /\ calls' \in Seq(Ranges)
      /\ DOMAIN calls' = 1 .. Len(calls) + 1
      /\ calls'[1] = left /\ calls'[2] = right
      /\ \A k \in DOMAIN calls' \ {1, 2} : k - 1 \in DOMAIN calls \ {1} /\ calls'[k] = calls[k - 1]
      /\ \A k \in DOMAIN calls \ {1} : k + 1 \in DOMAIN calls' \ {1, 2} /\ calls'[k + 1] = calls[k]
  <2>1. left \in Ranges /\ right \in Ranges
    BY <1>2 DEF Ranges, Extent
  <2> HIDE DEF left, right
  <2> QED
    BY <1>1, <2>1, FirstCall
<1>5. TypeInv'
  <2>1. PICK n \in Nat : DOMAIN tuples = 0 .. n - 1
    BY DEF TypeInv
  <2> QED
    BY <1>1, <1>3, <1>4, <2>1 DEF TypeInv, Idle
<1>6. /\ left.start = calls[1].start /\ left.end = scan.i
      /\ right.start = scan.i + 1 /\ right.end = calls[1].end
  BY DEF Extent
<1> HIDE DEF left, right
<1>7. CallsInv'
  <2>1. ASSUME NEW k \in DOMAIN calls'
        PROVE  /\ calls'[k].start <= calls'[k].end
               /\ asked.start <= calls'[k].start /\ calls'[k].end <= asked.end
    <3>1. CASE k \in {1, 2}
      <4>1. /\ asked.start \in Nat /\ asked.end \in Nat
            /\ asked.start <= calls[1].start /\ calls[1].end <= asked.end
        BY <1>1, FirstCall DEF CallsInv
      <4>2. scan.i + 1 <= calls[1].end
        BY <1>2
      <4>3. CASE k = 1
        BY <1>2, <1>4, <1>6, <4>1, <4>2, <4>3
      <4>4. CASE k = 2
        BY <1>2, <1>4, <1>6, <4>1, <4>2, <4>4
      <4> QED
        BY <3>1, <4>3, <4>4
    <3>2. CASE k \notin {1, 2}
      BY <1>4, <3>2 DEF CallsInv
    <3> QED
      BY <3>1, <3>2
  <2>2. ASSUME NEW k \in DOMAIN calls' \ {1, 2}
        PROVE  /\ Apart(left, calls'[k]) /\ Apart(calls'[k], left)
               /\ Apart(right, calls'[k]) /\ Apart(calls'[k], right)
    <3> DEFINE s == calls[k - 1]
    <3>1. Apart(calls[1], s) /\ calls'[k] = s /\ s.start \in Nat /\ s.end \in Nat
      BY <1>1, <1>4, FirstCall DEF CallsInv
    <3> HIDE DEF s
    <3> QED
      BY <1>2, <1>6, <3>1 DEF Apart
  <2>3. Apart(left, right) /\ Apart(right, left)
    BY <1>2, <1>6 DEF Apart
  <2>4. ASSUME NEW k \in DOMAIN calls', NEW l \in DOMAIN calls', k # l
        PROVE  Apart(calls'[k], calls'[l])
    <3>1. CASE k \in {1, 2} /\ l \in {1, 2}
      BY <1>4, <2>3, <2>4, <3>1
    <3>2. CASE k \in {1, 2} /\ l \notin {1, 2}
      BY <1>4, <2>2, <3>2
    <3>3. CASE k \notin {1, 2} /\ l \in {1, 2}
      BY <1>4, <2>2, <3>3
    <3>4. CASE k \notin {1, 2} /\ l \notin {1, 2}
      <4>1. k - 1 # l - 1
        BY <1>4, <2>4, FirstCall, <1>1
      <4> QED
        BY <1>4, <3>4, <4>1 DEF CallsInv
    <3> QED
      BY <3>1, <3>2, <3>3, <3>4
  <2>5. Within(asked)' \subseteq DOMAIN tuples'
    BY <1>1, <1>3 DEF CallsInv, Within
  <2> QED
    BY <1>1, <2>1, <2>4, <2>5 DEF CallsInv, Apart
<1>8. ScanInv'
  BY <1>1 DEF ScanInv, Idle
<1>9. ASSUME NEW x \in Within(calls[1])
      PROVE  /\ (x <= scan.i => tuples'[x].key <= tuples[pivot].key)
             /\ (scan.i <= x => tuples[pivot].key <= tuples'[x].key)
  <2>1. x \in DOMAIN tuples /\ x \in Nat /\ calls[1].start <= x /\ x <= pivot
    BY <1>1, <1>2, FirstCall, Positions DEF Within
  <2>2. tuples[x].key \in Nat /\ tuples[pivot].key \in Nat /\ tuples[scan.i].key \in Nat
    BY <1>2, <2>1, Positions
  <2>3. CASE x = scan.i
    BY <1>2, <1>3, <2>1, <2>2, <2>3
  <2>4. CASE x < scan.i
    <3>1. tuples[x].key < tuples[pivot].key /\ tuples'[x] = tuples[x]
      BY <1>1, <1>2, <1>3, <2>1, <2>4 DEF ScanInv
    <3> QED
      BY <1>2, <2>1, <2>2, <2>4, <3>1
  <2>5. CASE scan.i < x /\ x < pivot
    <3>1. tuples[x].key >= tuples[pivot].key /\ tuples'[x] = tuples[x]
      BY <1>1, <1>2, <1>3, <2>1, <2>5 DEF ScanInv
    <3> QED
      BY <1>2, <2>1, <2>2, <2>5, <3>1
  <2>6. CASE scan.i < x /\ x = pivot
    <3>1. tuples[scan.i].key >= tuples[pivot].key
      BY <1>1, <1>2, <2>6 DEF ScanInv
    <3> QED
      BY <1>2, <1>3, <2>1, <2>2, <2>6, <3>1
  <2>7. x = scan.i \/ x < scan.i \/ (scan.i < x /\ x < pivot) \/ (scan.i < x /\ x = pivot)
    BY <1>2, <2>1
  <2> HIDE DEF pivot
  <2> QED
    BY <2>3, <2>4, <2>5, <2>6, <2>7
<1>10. ASSUME NEW a \in Within(asked), NEW b \in Within(asked), a < b
       PROVE  tuples'[a].key <= tuples'[b].key
                \/ \E k \in DOMAIN calls' : a \in Within(calls'[k]) /\ b \in Within(calls'[k])
  <2>1. a \in Nat /\ b \in Nat /\ tuples'[a].key \in Nat /\ tuples'[b].key \in Nat
    BY <1>1, <1>3, FirstCall, Positions DEF Tuple
  <2>2. CASE tuples'[a].key <= tuples'[b].key
    BY <2>2
  <2>3. ASSUME NEW k \in DOMAIN calls \ {1}, a \in Within(calls[k]), b \in Within(calls[k])
        PROVE  \E l \in DOMAIN calls' : a \in Within(calls'[l]) /\ b \in Within(calls'[l])
    BY <1>4, <2>3
  <2>4. CASE a \in Within(calls[1]) /\ b \in Within(calls[1])
    <3>1. CASE b < scan.i
      <4>1. a \in Within(left) /\ b \in Within(left)
        BY <1>2, <1>6, <1>10, <2>1, <2>4, <3>1 DEF Within
      <4>2. 1 \in DOMAIN calls'
        BY <1>1, <1>4, FirstCall
      <4> QED
        BY <1>4, <4>1, <4>2
    <3>2. CASE scan.i < a
      <4>1. a \in Within(right) /\ b \in Within(right)
        BY <1>2, <1>6, <1>10, <2>1, <2>4, <3>2 DEF Within
      <4>2. 2 \in DOMAIN calls'
        BY <1>1, <1>4, FirstCall
      <4> QED
        BY <1>4, <4>1, <4>2
    <3>3. CASE a <= scan.i /\ scan.i <= b
      <4>1. tuples'[a].key <= tuples[pivot].key /\ tuples[pivot].key <= tuples'[b].key
        BY <1>9, <2>4, <3>3
      <4> QED
        BY <1>2, <2>1, <4>1, Positions
    <3> QED
      BY <1>2, <2>1, <3>1, <3>2, <3>3
  <2> QED
    BY <1>3, <1>10, <2>3, <2>4 DEF Together
<1>11. OrderInv'
  BY <1>1, <1>10 DEF OrderInv, Together, Within
<1> QED
  BY <1>3, <1>5, <1>7, <1>8, <1>11

-----------------------------------------------------------------------------
(* Invariance: every state of quick sort satisfies IInv. *)
THEOREM Invariance == Spec => []IInv
<1>1. IInv /\ [Next]_vars => IInv'
  <2>1. ASSUME IInv, UNCHANGED vars PROVE IInv'
    <3>1. UNCHANGED <<tuples, calls, scan, asked, original>>
      BY <2>1 DEF vars
    <3>2. TypeInv' /\ CallsInv' /\ ScanInv'
      BY <2>1, <3>1 DEF IInv, TypeInv, CallsInv, ScanInv, Trivial, Within, Apart
    <3>3. OrderInv' /\ KeepInv'
      BY <2>1, <3>1 DEF IInv, OrderInv, KeepInv, Together, Within
    <3> QED
      BY <3>2, <3>3 DEF IInv
  <2> QED
    BY <2>1, ReturnStep, PartitionStep, ScanStep, PlaceStep DEF Next
<1> QED
  BY <1>1, InitIInv, PTL DEF Spec

(* SortedWhenDone: when no call is pending, all pairs are in order.        *)
LEMMA SortedWhenDone == ASSUME IInv PROVE RangeSorted
<1> USE DEF IInv
<1>1. SUFFICES ASSUME calls = <<>>
               PROVE  /\ Ordered(tuples, asked)
                      /\ Reordered(tuples, original)
                      /\ \A x \in DOMAIN tuples \ Within(asked) : tuples[x] = original[x]
  BY DEF RangeSorted
<1>2. ASSUME NEW a \in Within(asked), NEW b \in Within(asked), a <= b
      PROVE  tuples[a].key <= tuples[b].key
  <2>1. a \in DOMAIN tuples /\ b \in DOMAIN tuples
    BY DEF CallsInv
  <2>2. a \in Nat /\ b \in Nat /\ tuples[a].key \in Nat
    BY <2>1, Positions
  <2>3. CASE a = b
    BY <2>2, <2>3
  <2>4. CASE a < b
    BY <1>1, <2>4 DEF OrderInv, Together
  <2> QED
    BY <1>2, <2>2, <2>3, <2>4
<1> QED
  BY <1>2 DEF Ordered, Reordered, KeepInv

(* QuickSortCorrect: table_quick_sort and matrix_qsort leave the range of  *)
(* a table of any size in the order of its keys, with the tuples it had,   *)
(* and touch nothing outside of it (RangeSorted).                          *)
THEOREM QuickSortCorrect == Spec => []RangeSorted
  BY SortedWhenDone, Invariance, PTL

(* SwapsInside: a step of quick sort leaves the tuples alone or has two of *)
(* the range it was asked for change places.                               *)
LEMMA SwapsInside ==
  ASSUME IInv, Next
  PROVE  \/ tuples' = tuples
         \/ \E x, y \in Within(asked) : tuples' = Swapped(tuples, x, y)
<1> USE DEF IInv
<1>1. ASSUME calls # <<>>, NEW z \in Within(calls[1]) PROVE z \in Within(asked)
  <2>1. 1 \in DOMAIN calls /\ calls[1] \in Ranges /\ asked \in Ranges
    BY <1>1, FirstCall DEF TypeInv
  <2> QED
    BY <1>1, <2>1 DEF CallsInv, Within, Ranges
<1>2. CASE Return \/ Partition
  BY <1>2 DEF Return, Partition
<1>3. CASE Scan
  <2>1. scan.i \in Within(asked) /\ scan.j \in Within(asked)
    BY <1>1, <1>3, ScanPositions DEF Scan
  <2> QED
    BY <1>3, <2>1 DEF Scan
<1>4. CASE Place
  <2>1. scan.i \in Within(asked) /\ Last \in Within(asked)
    BY <1>1, <1>4, ScanPositions DEF Place
  <2> QED
    BY <1>4, <2>1 DEF Place
<1> QED
  BY <1>2, <1>3, <1>4 DEF Next
=============================================================================
