-------------------------- MODULE QueryEngineProofs --------------------------
(***************************************************************************)
(* One query, for any relations, predicates and projections.               *)
(*                                                                         *)
(* What the operators of Matrix do is said by the cells: Cell(m, i, c) is  *)
(* the tuple of row i in column c, and rows there are not have none.  The  *)
(* invariant EngineInv has the predicates left and those executed in two   *)
(* parts of the query, matrices without holes in a column, whose marks are *)
(* true, and rows without an id only after a ragged load.  On top of it    *)
(* ExactInv has the rows of the matrix as the choices of row ids that      *)
(* satisfy the predicates executed, and SumsInv the sums of SQL.           *)
(***************************************************************************)
EXTENDS QueryEngine, ListSortProofs

AnyTuple == {Empty} \cup [key : Nat, id : Nat]

Row == [Columns -> AnyTuple]

Mark == [attr : Int, sorted : BOOLEAN]

Matrices == [data : Seq(Row), col_map : [Columns -> Mark]]

(* The tuple of row i in column c; rows there are not have none.           *)
Cell(m, i, c) == IF i \in 1 .. Rows(m) THEN m.data[i][c] ELSE Empty

(* A column has no gaps.                                                   *)
Packed(m) ==
  \A c \in Columns : \A i, k \in Nat \ {0} : i < k /\ Cell(m, i, c) = Empty => Cell(m, k, c) = Empty

(* PowerIs: a power of two that is large enough.                           *)
LEMMA PowerIs ==
  ASSUME NEW n \in Nat
  PROVE  nearest_power_of2(n) \in Nat /\ nearest_power_of2(n) >= n
<1> DEFINE Doubles(f) == f = [e \in 0 .. n |-> IF e = 0 THEN 1 ELSE 2 * f[e - 1]]
           power == CHOOSE f : Doubles(f)
           e == CHOOSE e \in 0 .. n : power[e] >= n /\ \A d \in 0 .. e - 1 : power[d] < n
<1>1. nearest_power_of2(n) = power[e]
  BY DEF nearest_power_of2
<1> DEFINE P == 0 .. n
           size == [k \in P |-> k]
           step == [xh \in P \X [P -> Nat] |-> IF xh[1] = 0 THEN 1 ELSE 2 * xh[2][xh[1] - 1]]
<1>2. Descends(P, Nat, size, step)
  <2>1. size \in [P -> Nat]
    OBVIOUS
  <2>2. step \in [P \X [P -> Nat] -> Nat]
    OBVIOUS
  <2>3. ASSUME NEW x \in P, NEW h \in [P -> Nat], NEW k \in [P -> Nat],
               \A y \in P : size[y] < size[x] => h[y] = k[y]
        PROVE  step[<<x, h>>] = step[<<x, k>>]
    <3>1. step[<<x, h>>] = (IF x = 0 THEN 1 ELSE 2 * h[x - 1])
          /\ step[<<x, k>>] = (IF x = 0 THEN 1 ELSE 2 * k[x - 1])
      OBVIOUS
    <3>2. x # 0 => x - 1 \in P /\ size[x - 1] < size[x]
      OBVIOUS
    <3> QED
      BY <2>3, <3>1, <3>2
  <2> HIDE DEF P, size, step
  <2> QED
    BY <2>1, <2>2, <2>3 DEF Descends
<1>3. PICK f : Solves(f, P, Nat, step)
  <2> HIDE DEF P, size, step
  <2>1. Nat # {}
    OBVIOUS
  <2> QED
    BY <1>2, <2>1, Recursion
<1>4. Doubles(f)
  <2>1. f \in [P -> Nat] /\ \A x \in P : f[x] = step[<<x, f>>]
    BY <1>3 DEF Solves
  <2>2. \A x \in P : f[x] = IF x = 0 THEN 1 ELSE 2 * f[x - 1]
    BY <2>1
  <2>3. f = [x \in P |-> f[x]]
    BY <2>1
  <2> QED
    BY <2>2, <2>3
<1>5. Doubles(power)
  <2> HIDE DEF Doubles
  <2> QED
    BY <1>4
<1>6. power[0] = 1 /\ \A k \in 1 .. n : power[k] = 2 * power[k - 1]
  <2> HIDE DEF power
  <2>1. power = [k \in 0 .. n |-> IF k = 0 THEN 1 ELSE 2 * power[k - 1]]
    BY <1>5
  <2>2. PICK g : g = power
    OBVIOUS
  <2>3. \A k \in 0 .. n : power[k] = IF k = 0 THEN 1 ELSE 2 * g[k - 1]
    BY <2>1, <2>2
  <2> QED
    BY <2>2, <2>3
<1> HIDE DEF power, Doubles
<1> DEFINE T == {k \in Nat : k <= n => power[k] \in Nat /\ power[k] > k}
<1>7. 0 \in T
  BY <1>6
<1>8. ASSUME NEW k \in Nat, k \in T PROVE k + 1 \in T
  <2>1. ASSUME k + 1 <= n PROVE power[k + 1] \in Nat /\ power[k + 1] > k + 1
    <3>1. power[k] \in Nat /\ power[k] > k
      BY <1>8, <2>1
    <3>2. power[k + 1] = 2 * power[k]
      BY <1>6, <2>1
    <3> QED
      BY <3>1, <3>2
  <2> QED
    BY <2>1
<1> HIDE DEF T
<1>9. Nat \subseteq T
  BY <1>7, <1>8, NatSetInduction
<1>10. \A k \in 0 .. n : power[k] \in Nat /\ power[k] > k
  BY <1>9 DEF T
<1> DEFINE I == {k \in 0 .. n : power[k] >= n}
<1>11. PICK k \in I : \A d \in I : k <= d
  <2>1. n \in I
    BY <1>10
  <2>2. I \in SUBSET Nat /\ I # {}
    BY <2>1
  <2> HIDE DEF I
  <2> QED
    BY <2>2, Least
<1>12. \E x \in 0 .. n : power[x] >= n /\ \A d \in 0 .. x - 1 : power[d] < n
  <2>1. ASSUME NEW d \in 0 .. k - 1 PROVE power[d] < n
    <3>1. d \in 0 .. n /\ d < k
      BY <1>11
    <3> QED
      BY <1>10, <1>11, <3>1
  <2> QED
    BY <1>11, <2>1
<1>13. e \in 0 .. n /\ power[e] >= n
  BY <1>12
<1> HIDE DEF e
<1> QED
  BY <1>1, <1>10, <1>13

(* SpaceIs: matrix_create_space appends empty rows.                        *)
LEMMA SpaceIs ==
  ASSUME MatrixInitialCapacity \in Nat, NEW m \in Matrices, NEW n \in Nat
  PROVE  LET g == matrix_create_space(m, n)
         IN  /\ g \in Matrices /\ g.col_map = m.col_map
             /\ Rows(g) >= n /\ Rows(g) >= Rows(m)
             /\ \A i \in 1 .. Rows(m) : g.data[i] = m.data[i]
             /\ \A i \in Rows(m) + 1 .. Rows(g) : g.data[i] = EmptyRow
<1> DEFINE required == IF n = 0 THEN 0
                       ELSE IF n <= MatrixInitialCapacity /\ matrix_isempty(m)
                            THEN MatrixInitialCapacity ELSE nearest_power_of2(n)
           missing  == IF required > Rows(m) THEN required - Rows(m) ELSE 0
           added == [i \in 1 .. missing |-> EmptyRow]
           data == m.data \o added
           g == matrix_create_space(m, n)
<1>1. required \in Nat /\ required >= n
  BY PowerIs
<1> HIDE DEF required
<1>2. m.data \in Seq(Row) /\ Rows(m) = Len(m.data) /\ Rows(m) \in Nat
  BY DEF Matrices, Rows
<1>3. missing \in Nat /\ Rows(m) + missing >= n
  <2>1. PICK r : r = required
    OBVIOUS
  <2>2. PICK k : k = Rows(m)
    OBVIOUS
  <2>3. missing = IF r > k THEN r - k ELSE 0
    BY <2>1, <2>2
  <2>4. r \in Nat /\ r >= n /\ k \in Nat
    BY <1>1, <1>2, <2>1, <2>2
  <2> HIDE DEF missing
  <2> QED
    BY <2>2, <2>3, <2>4
<1>4. g = [m EXCEPT !.data = data]
  BY DEF matrix_create_space, required
<1> HIDE DEF missing
<1>5. EmptyRow \in Row
  BY DEF EmptyRow, Row, AnyTuple
<1>6. added \in Seq(Row) /\ Len(added) = missing
  BY <1>3, <1>5, FunctionIsSeq
<1>7. /\ data \in Seq(Row) /\ Len(data) = Rows(m) + missing
      /\ \A i \in 1 .. Rows(m) : data[i] = m.data[i]
      /\ \A i \in Rows(m) + 1 .. Len(data) : data[i] = added[i - Rows(m)]
  <2> HIDE DEF added
  <2> QED
    BY <1>2, <1>6, <1>3
<1> HIDE DEF data
<1>8. \A i \in Rows(m) + 1 .. Len(data) : data[i] = EmptyRow
  BY <1>2, <1>3, <1>7
<1>9. g \in Matrices /\ g.data = data /\ g.col_map = m.col_map
  BY <1>4, <1>7 DEF Matrices
<1> HIDE DEF g
<1>10. Rows(g) = Len(data)
  BY <1>9 DEF Rows
<1>11. Rows(g) >= n /\ Rows(g) >= Rows(m)
  BY <1>2, <1>3, <1>7, <1>10
<1> QED
  BY <1>7, <1>8, <1>9, <1>10, <1>11 DEF g

(* CellTyped: a cell is a tuple or empty, and rows are made of cells.      *)
LEMMA CellTyped ==
  ASSUME NEW m \in Matrices, NEW c \in Columns
  PROVE  /\ \A i : Cell(m, i, c) \in AnyTuple
         /\ \A i \in 1 .. Rows(m) : m.data[i] \in Row /\ m.data[i][c] = Cell(m, i, c)
         /\ \A i : i \notin 1 .. Rows(m) => Cell(m, i, c) = Empty
<1>1. m.data \in Seq(Row) /\ Rows(m) = Len(m.data)
  BY DEF Matrices, Rows
<1>2. \A i \in 1 .. Rows(m) : m.data[i] \in Row
  BY <1>1
<1>3. \A i \in 1 .. Rows(m) : m.data[i][c] \in AnyTuple
  BY <1>2 DEF Row
<1> QED
  BY <1>2, <1>3 DEF Cell, AnyTuple

(* SetColumnIs: matrix_set of a column changes its cells, as far as there  *)
(* are tuples.                                                             *)
LEMMA SetColumnIs ==
  ASSUME NEW m \in Matrices, NEW c \in Columns, NEW ts \in Seq(AnyTuple)
  PROVE  LET r == SetColumn(m, c, ts)
         IN  /\ r \in Matrices /\ r.col_map = m.col_map
             /\ \A i \in Nat \ {0} : \A d \in Columns :
                  Cell(r, i, d) = IF d = c /\ i <= Len(ts) THEN ts[i] ELSE Cell(m, i, d)
<1> DEFINE g == matrix_create_space(m, Len(ts))
           row(i) == IF i <= Len(ts) THEN [g.data[i] EXCEPT ![c] = ts[i]] ELSE g.data[i]
           data == [i \in 1 .. Len(g.data) |-> row(i)]
           r == SetColumn(m, c, ts)
<1>1. /\ g \in Matrices /\ g.col_map = m.col_map
      /\ Rows(g) >= Len(ts) /\ Rows(g) >= Rows(m)
      /\ \A i \in 1 .. Rows(m) : g.data[i] = m.data[i]
      /\ \A i \in Rows(m) + 1 .. Rows(g) : g.data[i] = EmptyRow
  BY SpaceIs, EngineAssumption
<1>2. r = [g EXCEPT !.data = data]
  BY DEF SetColumn
<1> HIDE DEF g
<1>3. g.data \in Seq(Row) /\ Rows(g) = Len(g.data) /\ Rows(g) \in Nat /\ Rows(m) \in Nat
  BY <1>1 DEF Matrices, Rows
<1>4. \A i \in 1 .. Rows(g) : g.data[i] \in Row
  BY <1>3
<1>5. \A i \in 1 .. Len(ts) : ts[i] \in AnyTuple
  OBVIOUS
<1>6. \A i \in 1 .. Rows(g) : row(i) \in Row
  BY <1>4, <1>5 DEF Row
<1>7. \A i \in 1 .. Rows(g) : \A d \in Columns :
        row(i)[d] = IF d = c /\ i <= Len(ts) THEN ts[i] ELSE g.data[i][d]
  BY <1>4 DEF Row
<1> HIDE DEF row
<1>8. data \in Seq(Row) /\ Len(data) = Rows(g) /\ \A i \in 1 .. Rows(g) : data[i] = row(i)
  BY <1>3, <1>6
<1> HIDE DEF data
<1>9. r \in Matrices /\ r.data = data /\ r.col_map = m.col_map
  BY <1>1, <1>2, <1>8 DEF Matrices
<1> HIDE DEF r
<1>10. Rows(r) = Rows(g)
  BY <1>8, <1>9 DEF Rows
<1>11. \A d \in Columns : EmptyRow[d] = Empty
  BY DEF EmptyRow
<1>12. ASSUME NEW i \in Nat \ {0}, NEW d \in Columns
       PROVE  Cell(r, i, d) = IF d = c /\ i <= Len(ts) THEN ts[i] ELSE Cell(m, i, d)
  <2>1. CASE i \in 1 .. Rows(m)
    <3>1. i \in 1 .. Rows(g) /\ g.data[i] = m.data[i]
      BY <1>1, <1>3, <2>1
    <3>2. Cell(r, i, d) = row(i)[d] /\ Cell(m, i, d) = m.data[i][d]
      BY <1>8, <1>9, <1>10, <2>1, <3>1 DEF Cell
    <3> QED
      BY <1>7, <3>1, <3>2
  <2>2. CASE i \in Rows(m) + 1 .. Rows(g)
    <3>1. i \in 1 .. Rows(g) /\ g.data[i] = EmptyRow /\ i \notin 1 .. Rows(m)
      BY <1>1, <1>3, <2>2
    <3>2. Cell(r, i, d) = row(i)[d] /\ Cell(m, i, d) = Empty
      BY <1>8, <1>9, <1>10, <3>1 DEF Cell
    <3> QED
      BY <1>7, <1>11, <3>1, <3>2
  <2>3. CASE i > Rows(g)
    <3>1. i \notin 1 .. Rows(g) /\ i \notin 1 .. Rows(m) /\ ~ (i <= Len(ts))
      BY <1>1, <1>3, <2>3
    <3> QED
      BY <1>10, <3>1 DEF Cell
  <2> QED
    BY <1>3, <2>1, <2>2, <2>3
<1> QED
  BY <1>9, <1>12 DEF r

(* ReplaceIs: a matrix that is swapped for m has the rows written to it.   *)
LEMMA ReplaceIs ==
  ASSUME NEW m \in Matrices, NEW rows \in Seq(Row)
  PROVE  LET r == Replace(m, rows)
         IN  /\ r \in Matrices /\ r.col_map = m.col_map
             /\ \A i \in Nat \ {0} : \A d \in Columns :
                  Cell(r, i, d) = IF i <= Len(rows) THEN rows[i][d] ELSE Empty
<1> DEFINE n == [m EXCEPT !.data = <<>>]
           g == matrix_create_space(n, Len(rows))
           row(i) == IF i <= Len(rows) THEN rows[i] ELSE EmptyRow
           data == [i \in 1 .. Len(g.data) |-> row(i)]
           r == Replace(m, rows)
<1>1. n \in Matrices /\ n.col_map = m.col_map
  <2>0. <<>> \in Seq(Row)
    OBVIOUS
  <2>1. PICK e : e = <<>> /\ e \in Seq(Row)
    BY <2>0
  <2>2. n = [m EXCEPT !.data = e]
    BY <2>1
  <2> HIDE DEF n
  <2> QED
    BY <2>1, <2>2 DEF Matrices
<1>2. r = [g EXCEPT !.data = data]
  BY DEF Replace
<1> HIDE DEF n
<1>3. g \in Matrices /\ g.col_map = n.col_map /\ Rows(g) >= Len(rows)
  BY <1>1, SpaceIs, EngineAssumption
<1> HIDE DEF g
<1>4. Rows(g) = Len(g.data) /\ Rows(g) \in Nat
  BY <1>3 DEF Matrices, Rows
<1>5. EmptyRow \in Row /\ \A d \in Columns : EmptyRow[d] = Empty
  BY DEF EmptyRow, Row, AnyTuple
<1>6. \A i \in 1 .. Rows(g) : row(i) \in Row
  BY <1>5
<1> HIDE DEF row
<1>8. data \in Seq(Row) /\ Len(data) = Rows(g) /\ \A i \in 1 .. Rows(g) : data[i] = row(i)
  BY <1>4, <1>6
<1> HIDE DEF data
<1>9. r \in Matrices /\ r.data = data /\ r.col_map = m.col_map
  BY <1>1, <1>2, <1>3, <1>8 DEF Matrices
<1> HIDE DEF r
<1>10. Rows(r) = Rows(g)
  BY <1>8, <1>9 DEF Rows
<1>12. ASSUME NEW i \in Nat \ {0}, NEW d \in Columns
       PROVE  Cell(r, i, d) = IF i <= Len(rows) THEN rows[i][d] ELSE Empty
  <2>1. CASE i \in 1 .. Rows(g)
    BY <1>5, <1>8, <1>9, <1>10, <2>1 DEF Cell, row
  <2>2. CASE i \notin 1 .. Rows(g)
    <3>1. ~ (i <= Len(rows))
      BY <1>3, <1>4, <2>2
    <3> QED
      BY <1>10, <2>2, <3>1 DEF Cell
  <2> QED
    BY <2>1, <2>2
<1> QED
  BY <1>9, <1>12 DEF r

(* FinalizeIs: matrix_finalize takes away rows that are empty.             *)
LEMMA FinalizeIs ==
  ASSUME NEW m \in Matrices
  PROVE  LET r == matrix_finalize(m)
         IN  /\ r \in Matrices /\ r.col_map = m.col_map
             /\ \A i \in Nat \ {0} : \A d \in Columns : Cell(r, i, d) = Cell(m, i, d)
<1> DEFINE I == {i \in 1 .. Len(m.data) : ~IsEmptyRow(m.data[i])}
           last == IF I # {} THEN Max(I) ELSE 0
           data == SubSeq(m.data, 1, last)
           r == matrix_finalize(m)
<1>1. r = IF last = 0 THEN m ELSE [m EXCEPT !.data = data]
  BY DEF matrix_finalize, SelectLastInSeq
<1>2. m.data \in Seq(Row) /\ Rows(m) = Len(m.data) /\ Rows(m) \in Nat
  BY DEF Matrices, Rows
<1>3. last \in 0 .. Rows(m) /\ \A i \in 1 .. Rows(m) : i > last => IsEmptyRow(m.data[i])
  <2>1. CASE I = {}
    BY <1>2, <2>1
  <2>2. CASE I # {}
    <3>1. I \in SUBSET (1 .. Rows(m))
      BY <1>2
    <3> HIDE DEF I
    <3>2. Max(I) \in I /\ \A x \in I : Max(I) >= x
      BY <1>2, <2>2, <3>1, MaxOf
    <3>3. PICK k : k = Max(I)
      OBVIOUS
    <3>4. k \in I /\ last = k /\ \A x \in I : k >= x
      BY <2>2, <3>2, <3>3
    <3>5. k \in 1 .. Rows(m) /\ \A i \in 1 .. Rows(m) : i > k => i \notin I
      BY <1>2, <3>1, <3>4
    <3> HIDE DEF last
    <3> QED
      BY <1>2, <3>4, <3>5 DEF I
  <2> QED
    BY <2>1, <2>2
<1> HIDE DEF last
<1>4. CASE last = 0
  <2>1. r = m
    BY <1>1, <1>4
  <2> QED
    BY <2>1
<1>5. CASE last # 0
  <2>1. last \in 1 .. Len(m.data) /\ last \in Nat
    BY <1>2, <1>3, <1>5
  <2>2. data \in Seq(Row) /\ Len(data) = last /\ \A i \in 1 .. last : data[i] = m.data[i]
    <3>1. 1 \in 1 .. Len(m.data) + 1 /\ last \in 0 .. Len(m.data)
      BY <2>1
    <3> QED
      BY <1>2, <2>1, <3>1, SubSeqProperties
  <2> HIDE DEF data
  <2>3. r \in Matrices /\ r.data = data /\ r.col_map = m.col_map
    BY <1>1, <1>5, <2>2 DEF Matrices
  <2> HIDE DEF r
  <2>4. Rows(r) = last
    BY <2>2, <2>3 DEF Rows
  <2>5. ASSUME NEW i \in Nat \ {0}, NEW d \in Columns PROVE Cell(r, i, d) = Cell(m, i, d)
    <3>1. CASE i <= last
      <4>1. i \in 1 .. last /\ i \in 1 .. Rows(m)
        BY <1>2, <2>1, <3>1
      <4> QED
        BY <2>2, <2>3, <2>4, <4>1 DEF Cell
    <3>2. CASE i > last /\ i \in 1 .. Rows(m)
      <4>1. IsEmptyRow(m.data[i]) /\ i \notin 1 .. last
        BY <1>3, <2>1, <3>2
      <4>2. m.data[i][d] = Empty
        BY <4>1 DEF IsEmptyRow
      <4> QED
        BY <2>4, <3>2, <4>1, <4>2 DEF Cell
    <3>3. CASE i > last /\ i \notin 1 .. Rows(m)
      <4>1. i \notin 1 .. last
        BY <2>1, <3>3
      <4> QED
        BY <2>4, <3>3, <4>1 DEF Cell
    <3> QED
      BY <2>1, <3>1, <3>2, <3>3
  <2> QED
    BY <2>3, <2>5 DEF r
<1> QED
  BY <1>4, <1>5

-----------------------------------------------------------------------------
(* Sizes *)

(* SizeIs: matrix_col_size counts the tuples before the first empty one.   *)
LEMMA SizeIs ==
  ASSUME NEW m \in Matrices, NEW c \in Columns
  PROVE  LET n == matrix_col_size(m, c)
         IN  /\ n \in 0 .. Rows(m)
             /\ \A i \in 1 .. n : Cell(m, i, c) # Empty
             /\ Cell(m, n + 1, c) = Empty
             /\ Packed(m) => \A i \in Nat \ {0} : Cell(m, i, c) # Empty <=> i <= n
<1> DEFINE D == m.data \o <<EmptyRow>>
           I == {i \in 1 .. Len(D) : D[i][c] = Empty}
           n == matrix_col_size(m, c)
<1>1. n = (IF I # {} THEN Min(I) ELSE 0) - 1
  BY DEF matrix_col_size, SelectInSeq
<1>2. m.data \in Seq(Row) /\ Rows(m) = Len(m.data) /\ Rows(m) \in Nat
  BY DEF Matrices, Rows
<1>3. EmptyRow \in Row /\ EmptyRow[c] = Empty
  BY DEF EmptyRow, Row, AnyTuple
<1>4. /\ Len(D) = Rows(m) + 1
      /\ \A i \in 1 .. Rows(m) : D[i] = m.data[i]
      /\ D[Rows(m) + 1] = EmptyRow
  BY <1>2, <1>3
<1> HIDE DEF D
<1>5. \A i \in 1 .. Rows(m) + 1 : i \in I <=> Cell(m, i, c) = Empty
  BY <1>2, <1>3, <1>4 DEF Cell
<1>6. Rows(m) + 1 \in I
  BY <1>2, <1>3, <1>4
<1>7. I \in SUBSET (1 .. Rows(m) + 1) /\ I \in SUBSET Nat /\ I # {}
  BY <1>2, <1>4, <1>6
<1> HIDE DEF I
<1>8. Min(I) \in I /\ \A x \in I : Min(I) <= x
  BY <1>7, MinOf
<1>9. PICK k : k = Min(I)
  OBVIOUS
<1>10. k \in 1 .. Rows(m) + 1 /\ n = k - 1 /\ k \in I /\ \A x \in I : k <= x
  BY <1>1, <1>7, <1>8, <1>9
<1> HIDE DEF n
<1>11. n \in 0 .. Rows(m) /\ k = n + 1
  BY <1>2, <1>10
<1>12. \A i \in 1 .. n : Cell(m, i, c) # Empty
  <2>1. ASSUME NEW i \in 1 .. n PROVE Cell(m, i, c) # Empty
    <3>1. i \in 1 .. Rows(m) + 1 /\ ~ (k <= i)
      BY <1>2, <1>11
    <3> QED
      BY <1>5, <1>10, <3>1
  <2> QED
    BY <2>1
<1>13. Cell(m, n + 1, c) = Empty
  BY <1>5, <1>10, <1>11
<1>14. ASSUME Packed(m), NEW i \in Nat \ {0} PROVE Cell(m, i, c) # Empty <=> i <= n
  <2>1. CASE i <= n
    BY <1>11, <1>12, <2>1
  <2>2. CASE i = n + 1
    BY <1>11, <1>13, <2>2
  <2>3. CASE i > n + 1
    <3>1. n + 1 \in Nat \ {0} /\ n + 1 < i
      BY <1>11, <2>3
    <3>2. \A x, y \in Nat \ {0} : x < y /\ Cell(m, x, c) = Empty => Cell(m, y, c) = Empty
      BY <1>14 DEF Packed
    <3>3. Cell(m, i, c) = Empty /\ ~ (i <= n)
      BY <1>11, <1>13, <2>3, <3>1, <3>2
    <3> QED
      BY <3>3
  <2> QED
    BY <1>11, <2>1, <2>2, <2>3
<1> QED
  BY <1>11, <1>12, <1>13, <1>14 DEF n

(* UsedIs: the engine iterates over the rows that hold a tuple.            *)
LEMMA UsedIs ==
  ASSUME NEW m \in Matrices, Packed(m)
  PROVE  /\ Used(m) \in 0 .. Rows(m)
         /\ \A i \in Nat \ {0} : i <= Used(m) <=> \E c \in Columns : Cell(m, i, c) # Empty
<1> DEFINE D == m.data \o <<EmptyRow>>
           I == {i \in 1 .. Len(D) : IsEmptyRow(D[i])}
           n == Used(m)
<1>1. n = (IF I # {} THEN Min(I) ELSE 0) - 1
  BY DEF Used, SelectInSeq
<1>2. m.data \in Seq(Row) /\ Rows(m) = Len(m.data) /\ Rows(m) \in Nat
  BY DEF Matrices, Rows
<1>3. EmptyRow \in Row /\ IsEmptyRow(EmptyRow)
  BY DEF EmptyRow, Row, AnyTuple, IsEmptyRow
<1>4. /\ Len(D) = Rows(m) + 1
      /\ \A i \in 1 .. Rows(m) : D[i] = m.data[i]
      /\ D[Rows(m) + 1] = EmptyRow
  BY <1>2, <1>3
<1> HIDE DEF D
<1>5. \A i \in 1 .. Rows(m) + 1 : i \in I <=> \A c \in Columns : Cell(m, i, c) = Empty
  <2>1. ASSUME NEW i \in 1 .. Rows(m) PROVE i \in I <=> \A c \in Columns : Cell(m, i, c) = Empty
    <3>1. i \in I <=> IsEmptyRow(m.data[i])
      BY <1>2, <1>4
    <3>2. \A c \in Columns : Cell(m, i, c) = m.data[i][c]
      BY DEF Cell
    <3> QED
      BY <3>1, <3>2 DEF IsEmptyRow
  <2>2. Rows(m) + 1 \in I
    BY <1>2, <1>3, <1>4
  <2>3. \A c : Cell(m, Rows(m) + 1, c) = Empty
    BY <1>2 DEF Cell
  <2> QED
    BY <1>2, <2>1, <2>2, <2>3
<1>6. Rows(m) + 1 \in I
  BY <1>2, <1>3, <1>4
<1>7. I \in SUBSET (1 .. Rows(m) + 1) /\ I \in SUBSET Nat /\ I # {}
  BY <1>2, <1>4, <1>6
<1> HIDE DEF I
<1>8. Min(I) \in I /\ \A x \in I : Min(I) <= x
  BY <1>7, MinOf
<1>9. PICK k : k = Min(I)
  OBVIOUS
<1>10. k \in 1 .. Rows(m) + 1 /\ n = k - 1 /\ k \in I /\ \A x \in I : k <= x
  BY <1>1, <1>7, <1>8, <1>9
<1> HIDE DEF n
<1>11. n \in 0 .. Rows(m) /\ k = n + 1
  BY <1>2, <1>10
<1>12. ASSUME NEW i \in Nat \ {0} PROVE i <= n <=> \E c \in Columns : Cell(m, i, c) # Empty
  <2>1. CASE i <= n
    <3>1. i \in 1 .. Rows(m) + 1 /\ ~ (k <= i)
      BY <1>2, <1>11, <2>1
    <3> QED
      BY <1>5, <1>10, <2>1, <3>1
  <2>2. CASE i = n + 1
    <3>1. \A c \in Columns : Cell(m, i, c) = Empty
      BY <1>5, <1>10, <1>11, <2>2
    <3>2. ~ (i <= n)
      BY <1>11, <2>2
    <3> QED
      BY <3>1, <3>2
  <2>3. CASE i > n + 1
    <3>1. \A c \in Columns : Cell(m, n + 1, c) = Empty
      BY <1>5, <1>10, <1>11
    <3>2. n + 1 \in Nat \ {0} /\ n + 1 < i /\ ~ (i <= n)
      BY <1>11, <2>3
    <3>3. \A c \in Columns : Cell(m, i, c) = Empty
      BY <3>1, <3>2 DEF Packed
    <3> QED
      BY <3>2, <3>3
  <2> QED
    BY <1>11, <2>1, <2>2, <2>3
<1> QED
  BY <1>11, <1>12 DEF n

(* LoadedIs: a column counts as loaded by its first row.                   *)
LEMMA LoadedIs ==
  ASSUME NEW m \in Matrices, NEW c \in Columns
  PROVE  Loaded(m, c) <=> Cell(m, 1, c) # Empty
<1>1. Rows(m) \in Nat
  BY DEF Matrices, Rows
<1>2. 1 \in 1 .. Rows(m) <=> Rows(m) # 0
  BY <1>1
<1> QED
  BY <1>2 DEF Loaded, matrix_isempty, Cell

(* ColumnIs: the tuples of a column.                                       *)
LEMMA ColumnIs ==
  ASSUME NEW m \in Matrices, NEW c \in Columns
  PROVE  /\ Column(m, c) \in Seq([key : Nat, id : Nat])
         /\ Len(Column(m, c)) = matrix_col_size(m, c)
         /\ \A i \in 1 .. matrix_col_size(m, c) : Column(m, c)[i] = Cell(m, i, c)
<1>1. PICK n : n = matrix_col_size(m, c)
  OBVIOUS
<1>2. n \in 0 .. Rows(m) /\ \A i \in 1 .. n : Cell(m, i, c) # Empty
  BY <1>1, SizeIs
<1>3. Rows(m) \in Nat
  BY DEF Matrices, Rows
<1> DEFINE s == [i \in 1 .. n |-> m.data[i][c]]
<1>4. \A i \in 1 .. n : s[i] = Cell(m, i, c) /\ s[i] \in [key : Nat, id : Nat]
  <2>1. ASSUME NEW i \in 1 .. n PROVE s[i] = Cell(m, i, c) /\ s[i] \in [key : Nat, id : Nat]
    <3>1. i \in 1 .. Rows(m)
      BY <1>2, <1>3
    <3>2. s[i] = Cell(m, i, c) /\ Cell(m, i, c) \in AnyTuple /\ Cell(m, i, c) # Empty
      BY <1>2, <3>1, CellTyped
    <3> QED
      BY <3>2 DEF AnyTuple
  <2> QED
    BY <2>1
<1>5. Column(m, c) = s
  BY <1>1 DEF Column
<1>6. n \in Nat /\ s \in [1 .. n -> [key : Nat, id : Nat]]
  BY <1>2, <1>4
<1> HIDE DEF s
<1>7. s \in Seq([key : Nat, id : Nat]) /\ Len(s) = n
  BY <1>6, FunctionIsSeq
<1> QED
  BY <1>1, <1>4, <1>5, <1>7

-----------------------------------------------------------------------------
(* Numbers *)

(* s goes through the numbers in S upwards.                                *)
Enumerates(s, S) ==
  /\ s \in Seq(S)
  /\ \A x \in S : \E i \in 1 .. Len(s) : s[i] = x
  /\ \A i, k \in 1 .. Len(s) : i < k => s[i] < s[k]

(* InOrderIs: a loop upwards meets every number of a set once.             *)
LEMMA InOrderIs ==
  ASSUME NEW n \in Nat, NEW S \in SUBSET (0 .. n)
  PROVE  Enumerates(InOrder(S), S)
<1> DEFINE below(x) == {y \in S : y < x}
           rank(x) == Cardinality(below(x))
           k == Cardinality(S)
           s == InOrder(S)
           I == 0 .. k - 1
<1>1. IsFiniteSet(S) /\ k \in Nat
  <2>1. IsFiniteSet(0 .. n)
    BY FS_Interval
  <2>2. IsFiniteSet(S)
    BY <2>1, FS_Subset
  <2> QED
    BY <2>2, FS_CardinalityType
<1>0. \A x \in S : x \in Nat
  OBVIOUS
<1>2. \A x \in S : rank(x) \in I
  <2>1. ASSUME NEW x \in S PROVE rank(x) \in I
    <3>1. below(x) \in SUBSET S /\ x \notin below(x)
      BY <1>0
    <3> HIDE DEF below
    <3>2. IsFiniteSet(below(x)) /\ rank(x) <= k /\ (k = rank(x) => S = below(x))
      BY <1>1, <3>1, FS_Subset
    <3>3. rank(x) \in Nat /\ rank(x) # k
      BY <2>1, <3>1, <3>2, FS_CardinalityType
    <3> HIDE DEF rank, k
    <3> QED
      BY <1>1, <3>2, <3>3
  <2> QED
    BY <2>1
<1>3. \A x, y \in S : x < y => rank(x) < rank(y)
  <2>1. ASSUME NEW x \in S, NEW y \in S, x < y PROVE rank(x) < rank(y)
    <3>a. \A z \in below(x) : z \in below(y)
      <4>1. x \in Nat /\ y \in Nat /\ \A z \in below(x) : z \in S /\ z \in Nat /\ z < x
        BY <1>0
      <4>2. \A z \in below(x) : z < y
        BY <2>1, <4>1
      <4> QED
        BY <4>1, <4>2
    <3>b. x \notin below(x) /\ x \in below(y)
      BY <1>0, <2>1
    <3>1. below(x) \in SUBSET below(y) /\ x \notin below(x) /\ x \in below(y) /\ below(y) \in SUBSET S
      BY <3>a, <3>b
    <3> HIDE DEF below
    <3>2. IsFiniteSet(below(y))
      BY <1>1, <3>1, FS_Subset
    <3>3. rank(x) <= rank(y) /\ (rank(y) = rank(x) => below(y) = below(x))
      BY <3>1, <3>2, FS_Subset
    <3>4. rank(x) # rank(y)
      BY <3>1, <3>3
    <3>5. rank(x) \in Int /\ rank(y) \in Int
      BY <1>2
    <3> HIDE DEF rank
    <3> QED
      BY <3>3, <3>4, <3>5
  <2> QED
    BY <2>1
<1> HIDE DEF rank
<1>4. \A x, y \in S : rank(x) = rank(y) => x = y
  <2>1. ASSUME NEW x \in S, NEW y \in S, rank(x) = rank(y), x # y PROVE FALSE
    <3>1. x < y \/ y < x
      BY <1>0, <2>1
    <3>2. rank(x) < rank(y) \/ rank(y) < rank(x)
      BY <1>3, <3>1
    <3>3. rank(x) \in Int
      BY <1>2
    <3> QED
      BY <2>1, <3>2, <3>3
  <2> QED
    BY <2>1
<1>5. \A i \in I : \E x \in S : rank(x) = i
  <2> DEFINE f == [x \in S |-> rank(x)]
  <2>1. f \in Injection(S, I)
    BY <1>2, <1>4 DEF Injection, IsInjective
  <2>2. IsFiniteSet(I) /\ Cardinality(I) = k
    <3>1. Cardinality(I) = IF 0 > k - 1 THEN 0 ELSE (k - 1) - 0 + 1
      BY <1>1, FS_Interval
    <3>2. IsFiniteSet(I)
      BY <1>1, FS_Interval
    <3> HIDE DEF I, k
    <3> QED
      BY <1>1, <3>1, <3>2
  <2>3. f \in Surjection(S, I)
    <3> HIDE DEF f, I
    <3> QED
      BY <2>1, <2>2, FS_Injection
  <2> HIDE DEF I
  <2>4. \A i \in I : \E x \in S : f[x] = i
    BY <2>3 DEF Surjection
  <2> QED
    BY <2>4
<1> DEFINE at(i) == CHOOSE x \in S : rank(x) = i - 1
<1>6. s = [i \in 1 .. k |-> at(i)]
  BY DEF InOrder, rank
<1>7. \A i \in 1 .. k : at(i) \in S /\ rank(at(i)) = i - 1
  <2>1. ASSUME NEW i \in 1 .. k PROVE at(i) \in S /\ rank(at(i)) = i - 1
    <3>1. i - 1 \in I
      BY <1>1
    <3>2. \E x \in S : rank(x) = i - 1
      BY <1>5, <3>1
    <3> QED
      BY <3>2
  <2> QED
    BY <2>1
<1> HIDE DEF at, k
<1>8. s \in Seq(S) /\ Len(s) = k /\ \A i \in 1 .. k : s[i] = at(i)
  BY <1>1, <1>6, <1>7
<1> HIDE DEF s
<1>9. ASSUME NEW x \in S PROVE \E i \in 1 .. Len(s) : s[i] = x
  <2>1. rank(x) + 1 \in 1 .. k
    BY <1>1, <1>2
  <2>2. rank(at(rank(x) + 1)) = (rank(x) + 1) - 1 /\ at(rank(x) + 1) \in S
    BY <1>7, <2>1
  <2>3. (rank(x) + 1) - 1 = rank(x)
    BY <1>2
  <2>4. at(rank(x) + 1) = x
    BY <1>4, <2>2, <2>3
  <2> QED
    BY <1>8, <2>1, <2>4
<1>10. ASSUME NEW i \in 1 .. Len(s), NEW j \in 1 .. Len(s), i < j PROVE s[i] < s[j]
  <2>1. i \in 1 .. k /\ j \in 1 .. k
    BY <1>8
  <2>2. s[i] \in S /\ s[j] \in S /\ rank(s[i]) = i - 1 /\ rank(s[j]) = j - 1
    BY <1>7, <1>8, <2>1
  <2>3. ~ (s[j] < s[i]) /\ s[i] # s[j]
    <3>1. ~ (j - 1 < i - 1) /\ i - 1 # j - 1
      BY <1>1, <1>10, <2>1
    <3> QED
      BY <1>3, <2>2, <3>1
  <2>4. s[i] \in Nat /\ s[j] \in Nat
    BY <1>0, <2>2
  <2> QED
    BY <2>3, <2>4
<1> QED
  BY <1>8, <1>9, <1>10 DEF Enumerates, s

(* DivIs: quotient and remainder.                                          *)
LEMMA DivIs ==
  ASSUME NEW n \in Nat, NEW d \in Nat \ {0}
  PROVE  n \div d \in Nat /\ n % d \in 0 .. d - 1 /\ n = d * (n \div d) + (n % d)
OBVIOUS

(* TimesMore: products grow.                                               *)
LEMMA TimesMore ==
  ASSUME NEW d \in Nat, NEW x \in Nat, NEW y \in Nat, x <= y
  PROVE  d * x \in Nat /\ d * y \in Nat /\ d * x <= d * y
OBVIOUS

(* PairOf: the n-th of a times b pairs, the second number changing fastest.*)
LEMMA PairOf ==
  ASSUME NEW a \in Nat, NEW b \in Nat, NEW n \in 1 .. a * b
  PROVE  (n - 1) \div b \in 0 .. a - 1 /\ (n - 1) % b \in 0 .. b - 1
<1>1. b # 0 /\ n - 1 \in Nat
  BY TimesMore
<1>2. PICK q : q = (n - 1) \div b
  OBVIOUS
<1>3. q \in Nat /\ (n - 1) % b \in 0 .. b - 1 /\ n - 1 = b * q + ((n - 1) % b)
  BY <1>1, <1>2, DivIs
<1>4. ~ (a <= q)
  <2> SUFFICES ASSUME a <= q PROVE FALSE
    OBVIOUS
  <2>1. b * a \in Nat /\ b * q \in Nat /\ b * a <= b * q
    BY <1>3, TimesMore
  <2>2. b * a = a * b
    OBVIOUS
  <2> QED
    BY <1>1, <1>3, <2>1, <2>2
<1> QED
  BY <1>2, <1>3, <1>4

(* PairAt: every pair is at one place.                                     *)
LEMMA PairAt ==
  ASSUME NEW a \in Nat, NEW b \in Nat, NEW q \in 0 .. a - 1, NEW r \in 0 .. b - 1
  PROVE  /\ b * q + r + 1 \in 1 .. a * b
         /\ ((b * q + r + 1) - 1) \div b = q
         /\ ((b * q + r + 1) - 1) % b = r
<1>1. q + 1 \in Nat /\ q + 1 <= a /\ b \in Nat \ {0} /\ r \in Nat /\ r < b /\ q \in Nat
  OBVIOUS
<1>2. b * (q + 1) <= b * a /\ b * q \in Nat
  BY <1>1, TimesMore
<1>3. b * (q + 1) = b * q + b /\ b * a = a * b
  BY <1>1
<1>4. a * b \in Nat
  OBVIOUS
<1>5. b * q + r + 1 \in 1 .. a * b
  <2>1. PICK x : x = b * q
    OBVIOUS
  <2>2. PICK y : y = a * b
    OBVIOUS
  <2> QED
    BY <1>1, <1>2, <1>3, <1>4, <2>1, <2>2
<1>6. (b * q + r + 1) - 1 = b * q + r
  BY <1>1, <1>2
<1>7. (b * q + r) \div b = q /\ (b * q + r) % b = r
  BY <1>1
<1> QED
  BY <1>5, <1>6, <1>7

(* PairOnce: no pair is at two places.                                     *)
LEMMA PairOnce ==
  ASSUME NEW a \in Nat, NEW b \in Nat, NEW n \in 1 .. a * b, NEW k \in 1 .. a * b,
         (n - 1) \div b = (k - 1) \div b, (n - 1) % b = (k - 1) % b
  PROVE  n = k
<1>1. b # 0 /\ n - 1 \in Nat /\ k - 1 \in Nat
  BY TimesMore
<1>2. n - 1 = b * ((n - 1) \div b) + ((n - 1) % b) /\ k - 1 = b * ((k - 1) \div b) + ((k - 1) % b)
  BY <1>1, DivIs
<1>3. n - 1 = k - 1
  BY <1>2
<1> QED
  BY <1>1, <1>3

(* PairsUp: the first number of the pairs does not fall.                   *)
LEMMA PairsUp ==
  ASSUME NEW a \in Nat, NEW b \in Nat, NEW n \in 1 .. a * b, NEW k \in 1 .. a * b, n <= k
  PROVE  (n - 1) \div b <= (k - 1) \div b
<1>1. b # 0 /\ n - 1 \in Nat /\ k - 1 \in Nat
  BY TimesMore
<1>2. PICK x : x = (n - 1) \div b
  OBVIOUS
<1>3. PICK y : y = (k - 1) \div b
  OBVIOUS
<1>4. /\ x \in Nat /\ y \in Nat
      /\ (n - 1) % b \in 0 .. b - 1 /\ n - 1 = b * x + ((n - 1) % b)
      /\ (k - 1) % b \in 0 .. b - 1 /\ k - 1 = b * y + ((k - 1) % b)
  BY <1>1, <1>2, <1>3, DivIs
<1>5. ~ (y + 1 <= x)
  <2> SUFFICES ASSUME y + 1 <= x PROVE FALSE
    OBVIOUS
  <2>1. b * (y + 1) <= b * x /\ b * x \in Nat /\ b * y \in Nat
    BY <1>4, TimesMore
  <2>2. b * (y + 1) = b * y + b
    BY <1>4
  <2> QED
    BY <1>1, <1>4, <2>1, <2>2
<1> QED
  BY <1>2, <1>3, <1>4, <1>5

-----------------------------------------------------------------------------
(* The merge *)

FullTuple == [key : Nat, id : Nat]

AscendingKeys(ts) == \A i, k \in 1 .. Len(ts) : i <= k => ts[i].key <= ts[k].key

(* RunEndIs: where a run of equal keys ends.                               *)
LEMMA RunEndIs ==
  ASSUME NEW ts \in Seq(FullTuple), NEW i \in 1 .. Len(ts)
  PROVE  /\ RunEnd(ts, i) \in i + 1 .. Len(ts) + 1
         /\ \A n \in i .. RunEnd(ts, i) - 1 : ts[n].key = ts[i].key
         /\ RunEnd(ts, i) <= Len(ts) => ts[RunEnd(ts, i)].key # ts[i].key
<1> DEFINE n == Len(ts)
           T == {k \in i + 1 .. n + 1 : k <= n => ts[k].key # ts[i].key}
           Run(k) == /\ \A j \in i .. k - 1 : ts[j].key = ts[i].key
                     /\ k <= n => ts[k].key # ts[i].key
<1>1. n \in Nat /\ i \in 1 .. n
  OBVIOUS
<1> HIDE DEF n
<1>2. n + 1 \in T /\ T \in SUBSET Nat
  BY <1>1
<1>3. PICK k \in T : \A x \in T : k <= x
  <2> HIDE DEF T
  <2> QED
    BY <1>2, Least
<1>4. k \in i + 1 .. n + 1 /\ (k <= n => ts[k].key # ts[i].key)
  BY <1>3
<1>5. ASSUME NEW j \in i .. k - 1 PROVE ts[j].key = ts[i].key
  <2>1. CASE j = i
    BY <2>1
  <2>2. CASE j # i
    <3>1. j \in i + 1 .. n + 1 /\ j < k /\ j <= n
      BY <1>1, <1>4, <2>2
    <3>2. j \notin T
      BY <1>3, <3>1
    <3> QED
      BY <3>1, <3>2
  <2> QED
    BY <2>1, <2>2
<1>6. \E x \in i + 1 .. n + 1 : Run(x)
  BY <1>4, <1>5
<1>7. RunEnd(ts, i) = CHOOSE x \in i + 1 .. n + 1 : Run(x)
  BY DEF RunEnd, n
<1> HIDE DEF Run
<1>8. RunEnd(ts, i) \in i + 1 .. n + 1 /\ Run(RunEnd(ts, i))
  BY <1>6, <1>7
<1> QED
  BY <1>8 DEF Run, n

IndexPair == Nat \X Nat

(* The pairs of positions of two runs.                                     *)
Product(a, na, b, nb) ==
  [n \in 1 .. na * nb |-> <<a + ((n - 1) \div nb), b + ((n - 1) % nb)>>]

(* P goes through the positions from a to before c with each of those      *)
(* from b to before d.                                                     *)
Covers(P, a, c, b, d) ==
  /\ P \in Seq(IndexPair)
  /\ \A n \in 1 .. Len(P) : P[n][1] \in a .. c - 1 /\ P[n][2] \in b .. d - 1
  /\ \A x \in a .. c - 1, y \in b .. d - 1 : \E n \in 1 .. Len(P) : P[n] = <<x, y>>
  /\ \A n, k \in 1 .. Len(P) : P[n] = P[k] => n = k
  /\ \A n, k \in 1 .. Len(P) : n <= k => P[n][1] <= P[k][1]

(* ProductIs: every pair of positions once, those of the first run in order.*)
LEMMA ProductIs ==
  ASSUME NEW a \in Nat, NEW na \in Nat, NEW b \in Nat, NEW nb \in Nat
  PROVE  Covers(Product(a, na, b, nb), a, a + na, b, b + nb)
<1> DEFINE P == Product(a, na, b, nb)
<1> DEFINE q(n) == (n - 1) \div nb
           r(n) == (n - 1) % nb
           N == 1 .. na * nb
<1>0. na * nb \in Nat
  BY TimesMore
<1>1. \A n \in N : q(n) \in 0 .. na - 1 /\ r(n) \in 0 .. nb - 1
  BY PairOf
<1>2. \A n, k \in N : q(n) = q(k) /\ r(n) = r(k) => n = k
  BY PairOnce
<1>3. \A n, k \in N : n <= k => q(n) <= q(k)
  BY PairsUp
<1>4. \A x \in 0 .. na - 1, y \in 0 .. nb - 1 : \E n \in N : q(n) = x /\ r(n) = y
  <2>1. ASSUME NEW x \in 0 .. na - 1, NEW y \in 0 .. nb - 1
        PROVE  \E n \in N : q(n) = x /\ r(n) = y
    <3>1. nb * x + y + 1 \in N /\ q(nb * x + y + 1) = x /\ r(nb * x + y + 1) = y
      BY PairAt
    <3> HIDE DEF q, r, N
    <3> QED
      BY <3>1
  <2> QED
    BY <2>1
<1>5. P = [n \in N |-> <<a + q(n), b + r(n)>>]
  BY DEF Product
<1> HIDE DEF q, r, P
<1>6. \A n \in N : a + q(n) \in Nat /\ b + r(n) \in Nat
  BY <1>1
<1>7. P \in Seq(IndexPair) /\ Len(P) = na * nb
  <2>1. P \in [1 .. na * nb -> IndexPair]
    BY <1>5, <1>6 DEF IndexPair
  <2>2. PICK l : l = na * nb
    OBVIOUS
  <2>3. l \in Nat /\ P \in [1 .. l -> IndexPair]
    BY <1>0, <2>1, <2>2
  <2> HIDE DEF IndexPair
  <2> QED
    BY <2>2, <2>3, FunctionIsSeq
<1>8. \A n \in N : P[n] = <<a + q(n), b + r(n)>>
  BY <1>5
<1>9. 1 .. Len(P) = N
  BY <1>7
<1> HIDE DEF N
<1>10. \A n \in N : P[n][1] = a + q(n) /\ P[n][2] = b + r(n)
  BY <1>8
<1>11. ASSUME NEW n \in N
       PROVE  P[n][1] \in a .. a + na - 1 /\ P[n][2] \in b .. b + nb - 1
  <2>1. q(n) \in 0 .. na - 1 /\ r(n) \in 0 .. nb - 1
    BY <1>1
  <2> QED
    BY <1>10, <2>1
<1>12. ASSUME NEW x \in a .. a + na - 1, NEW y \in b .. b + nb - 1
       PROVE  \E n \in N : P[n] = <<x, y>>
  <2>1. x - a \in 0 .. na - 1 /\ y - b \in 0 .. nb - 1 /\ a + (x - a) = x /\ b + (y - b) = y
    OBVIOUS
  <2>2. PICK n \in N : q(n) = x - a /\ r(n) = y - b
    BY <1>4, <2>1
  <2>3. P[n] = <<x, y>>
    BY <1>8, <2>1, <2>2
  <2> QED
    BY <2>3
<1>13. ASSUME NEW n \in N, NEW k \in N, P[n] = P[k] PROVE n = k
  <2>1. a + q(n) = a + q(k) /\ b + r(n) = b + r(k)
    BY <1>10, <1>13
  <2>2. q(n) \in Nat /\ q(k) \in Nat /\ r(n) \in Nat /\ r(k) \in Nat
    BY <1>1
  <2>3. q(n) = q(k) /\ r(n) = r(k)
    BY <2>1, <2>2
  <2> QED
    BY <1>2, <2>3
<1>14. ASSUME NEW n \in N, NEW k \in N, n <= k PROVE P[n][1] <= P[k][1]
  <2>1. q(n) <= q(k) /\ q(n) \in Nat /\ q(k) \in Nat
    BY <1>1, <1>3, <1>14
  <2> QED
    BY <1>10, <2>1
<1> QED
  <2>1. \A n \in 1 .. Len(P) : P[n][1] \in a .. a + na - 1 /\ P[n][2] \in b .. b + nb - 1
    BY <1>9, <1>11
  <2>2. \A x \in a .. a + na - 1, y \in b .. b + nb - 1 : \E n \in 1 .. Len(P) : P[n] = <<x, y>>
    BY <1>9, <1>12
  <2>3. /\ \A n, k \in 1 .. Len(P) : P[n] = P[k] => n = k
        /\ \A n, k \in 1 .. Len(P) : n <= k => P[n][1] <= P[k][1]
    BY <1>9, <1>13, <1>14
  <2>4. PICK c : c = a + na
    OBVIOUS
  <2>5. PICK d : d = b + nb
    OBVIOUS
  <2>10. a + na - 1 = c - 1 /\ b + nb - 1 = d - 1
    BY <2>4, <2>5
  <2>7. P \in Seq(IndexPair)
    BY <1>7
  <2>8. \A n \in 1 .. Len(P) : P[n][1] \in a .. c - 1 /\ P[n][2] \in b .. d - 1
    BY <2>1, <2>10, Zenon
  <2>9. \A x \in a .. c - 1, y \in b .. d - 1 : \E n \in 1 .. Len(P) : P[n] = <<x, y>>
    BY <2>2, <2>10, Zenon
  <2>6. Covers(P, a, c, b, d)
    BY <2>3, <2>7, <2>8, <2>9, Zenon DEF Covers
  <2> QED
    BY <2>4, <2>5, <2>6 DEF P

(* What mx_join finds from two positions on, with f for the positions      *)
(* behind them.                                                            *)
MatchStep(f, left, table, a, b) ==
  IF a > Len(left) \/ b > Len(table) THEN <<>>
  ELSE IF left[a].key = table[b].key
    THEN Product(a, RunEnd(left, a) - a, b, RunEnd(table, b) - b)
           \o f[<<RunEnd(left, a), RunEnd(table, b)>>]
  ELSE IF left[a].key < table[b].key
    THEN f[<<RunEnd(left, a), b>>]
    ELSE f[<<a, RunEnd(table, b)>>]

Positions(left, table) == (1 .. Len(left) + 1) \X (1 .. Len(table) + 1)

IsMatcher(f, left, table) ==
  f = [ab \in Positions(left, table) |-> MatchStep(f, left, table, ab[1], ab[2])]

(* What is left of both sides.                                             *)
Rest(left, table, a, b) == (Len(left) + 1 - a) + (Len(table) + 1 - b)

(* NextPositions: the positions a step goes on to.                         *)
LEMMA NextPositions ==
  ASSUME NEW left, left \in Seq(FullTuple), NEW table, table \in Seq(FullTuple),
         NEW a \in 1 .. Len(left), NEW b \in 1 .. Len(table)
  PROVE  /\ RunEnd(left, a) \in 1 .. Len(left) + 1 /\ RunEnd(left, a) > a
         /\ RunEnd(table, b) \in 1 .. Len(table) + 1 /\ RunEnd(table, b) > b
         /\ Rest(left, table, RunEnd(left, a), RunEnd(table, b)) < Rest(left, table, a, b)
         /\ Rest(left, table, RunEnd(left, a), b) < Rest(left, table, a, b)
         /\ Rest(left, table, a, RunEnd(table, b)) < Rest(left, table, a, b)
<1>1. RunEnd(left, a) \in a + 1 .. Len(left) + 1
  BY RunEndIs
<1>2. RunEnd(table, b) \in b + 1 .. Len(table) + 1
  BY RunEndIs
<1>3. PICK x : x = RunEnd(left, a)
  OBVIOUS
<1>4. PICK y : y = RunEnd(table, b)
  OBVIOUS
<1>5. PICK n : n = Len(left) /\ n \in Nat
  OBVIOUS
<1>6. PICK k : k = Len(table) /\ k \in Nat
  OBVIOUS
<1>7. x \in a + 1 .. n + 1 /\ y \in b + 1 .. k + 1 /\ a \in 1 .. n /\ b \in 1 .. k
  BY <1>1, <1>2, <1>3, <1>4, <1>5, <1>6
<1>8. /\ (n + 1 - x) + (k + 1 - y) < (n + 1 - a) + (k + 1 - b)
      /\ (n + 1 - x) + (k + 1 - b) < (n + 1 - a) + (k + 1 - b)
      /\ (n + 1 - a) + (k + 1 - y) < (n + 1 - a) + (k + 1 - b)
  BY <1>5, <1>6, <1>7
<1>9. x \in 1 .. n + 1 /\ x > a /\ y \in 1 .. k + 1 /\ y > b
  BY <1>5, <1>6, <1>7
<1> QED
  BY <1>3, <1>4, <1>5, <1>6, <1>8, <1>9 DEF Rest

(* MatchStepTyped: what a step finds is a sequence of pairs.               *)
LEMMA MatchStepTyped ==
  ASSUME NEW left, left \in Seq(FullTuple), NEW table, table \in Seq(FullTuple),
         NEW f, NEW a \in 1 .. Len(left) + 1, NEW b \in 1 .. Len(table) + 1,
         \A x \in 1 .. Len(left) + 1, y \in 1 .. Len(table) + 1 :
           Rest(left, table, x, y) < Rest(left, table, a, b) => f[<<x, y>>] \in Seq(IndexPair)
  PROVE  MatchStep(f, left, table, a, b) \in Seq(IndexPair)
<1>1. CASE a > Len(left) \/ b > Len(table)
  BY <1>1 DEF MatchStep
<1>2. CASE ~ (a > Len(left) \/ b > Len(table))
  <2>1. a \in 1 .. Len(left) /\ b \in 1 .. Len(table)
    BY <1>2
  <2>2. /\ RunEnd(left, a) \in 1 .. Len(left) + 1 /\ RunEnd(left, a) > a
        /\ RunEnd(table, b) \in 1 .. Len(table) + 1 /\ RunEnd(table, b) > b
        /\ Rest(left, table, RunEnd(left, a), RunEnd(table, b)) < Rest(left, table, a, b)
        /\ Rest(left, table, RunEnd(left, a), b) < Rest(left, table, a, b)
        /\ Rest(left, table, a, RunEnd(table, b)) < Rest(left, table, a, b)
    BY <2>1, NextPositions
  <2>3. /\ f[<<RunEnd(left, a), RunEnd(table, b)>>] \in Seq(IndexPair)
        /\ f[<<RunEnd(left, a), b>>] \in Seq(IndexPair)
        /\ f[<<a, RunEnd(table, b)>>] \in Seq(IndexPair)
    BY <2>2
  <2>4. Product(a, RunEnd(left, a) - a, b, RunEnd(table, b) - b) \in Seq(IndexPair)
    <3>1. PICK n : n = RunEnd(left, a) - a
      OBVIOUS
    <3>2. PICK k : k = RunEnd(table, b) - b
      OBVIOUS
    <3>3. n \in Nat /\ k \in Nat /\ a \in Nat /\ b \in Nat
      BY <2>1, <2>2, <3>1, <3>2
    <3>4. Covers(Product(a, n, b, k), a, a + n, b, b + k)
      BY <3>3, ProductIs
    <3> QED
      BY <3>1, <3>2, <3>4 DEF Covers
  <2>5. ASSUME NEW s \in Seq(IndexPair), NEW t \in Seq(IndexPair) PROVE s \o t \in Seq(IndexPair)
    BY ConcatProperties
  <2> QED
    BY <1>2, <2>3, <2>4, <2>5 DEF MatchStep
<1> QED
  BY <1>1, <1>2

(* f and h agree behind two positions.                                     *)
Agree(f, h, left, table, a, b) ==
  \A x \in 1 .. Len(left) + 1, y \in 1 .. Len(table) + 1 :
    Rest(left, table, x, y) < Rest(left, table, a, b) => f[<<x, y>>] = h[<<x, y>>]

(* MatchStepSame: a step looks at positions behind its own only.           *)
LEMMA MatchStepSame ==
  ASSUME NEW left, left \in Seq(FullTuple), NEW table, table \in Seq(FullTuple),
         NEW f, NEW h, NEW a \in 1 .. Len(left) + 1, NEW b \in 1 .. Len(table) + 1,
         Agree(f, h, left, table, a, b)
  PROVE  MatchStep(f, left, table, a, b) = MatchStep(h, left, table, a, b)
<1>1. CASE a > Len(left) \/ b > Len(table)
  BY <1>1 DEF MatchStep
<1>2. CASE ~ (a > Len(left) \/ b > Len(table))
  <2>1. a \in 1 .. Len(left) /\ b \in 1 .. Len(table)
    BY <1>2
  <2>2. /\ RunEnd(left, a) \in 1 .. Len(left) + 1 /\ RunEnd(left, a) > a
        /\ RunEnd(table, b) \in 1 .. Len(table) + 1 /\ RunEnd(table, b) > b
        /\ Rest(left, table, RunEnd(left, a), RunEnd(table, b)) < Rest(left, table, a, b)
        /\ Rest(left, table, RunEnd(left, a), b) < Rest(left, table, a, b)
        /\ Rest(left, table, a, RunEnd(table, b)) < Rest(left, table, a, b)
    BY <2>1, NextPositions
  <2>3. /\ f[<<RunEnd(left, a), RunEnd(table, b)>>] = h[<<RunEnd(left, a), RunEnd(table, b)>>]
        /\ f[<<RunEnd(left, a), b>>] = h[<<RunEnd(left, a), b>>]
        /\ f[<<a, RunEnd(table, b)>>] = h[<<a, RunEnd(table, b)>>]
    BY <2>1, <2>2 DEF Agree
  <2> QED
    BY <1>2, <2>3 DEF MatchStep
<1> QED
  BY <1>1, <1>2

(* MatcherExists: the matches from any two positions on are a function of  *)
(* them.                                                                   *)
LEMMA MatcherExists ==
  ASSUME NEW left, left \in Seq(FullTuple), NEW table, table \in Seq(FullTuple)
  PROVE  \E f : IsMatcher(f, left, table)
<1> DEFINE P    == Positions(left, table)
           V    == Seq(IndexPair)
           size == [x \in P |-> Rest(left, table, x[1], x[2])]
           step == [xh \in P \X [P -> V] |-> MatchStep(xh[2], left, table, xh[1][1], xh[1][2])]
<1>0. \A x \in P : /\ x = <<x[1], x[2]>>
                   /\ x[1] \in 1 .. Len(left) + 1 /\ x[2] \in 1 .. Len(table) + 1
                   /\ Rest(left, table, x[1], x[2]) \in Nat
  <2>1. Len(left) \in Nat /\ Len(table) \in Nat
    OBVIOUS
  <2> QED
    BY <2>1 DEF Positions, Rest
<1>1. <<>> \in V /\ size \in [P -> Nat]
  BY <1>0
<1>2. \A x \in 1 .. Len(left) + 1, y \in 1 .. Len(table) + 1 : <<x, y>> \in P
  BY DEF Positions
<1>3. step \in [P \X [P -> V] -> V]
  <2>1. ASSUME NEW x \in P, NEW h \in [P -> V] PROVE MatchStep(h, left, table, x[1], x[2]) \in V
    <3>1. \A u \in 1 .. Len(left) + 1, v \in 1 .. Len(table) + 1 : h[<<u, v>>] \in V
      <4> HIDE DEF P, V
      <4> QED
        BY <1>2
    <3>2. x[1] \in 1 .. Len(left) + 1 /\ x[2] \in 1 .. Len(table) + 1
      BY <1>0
    <3> QED
      BY <3>1, <3>2, MatchStepTyped
  <2> HIDE DEF P, V
  <2> QED
    BY <2>1
<1>4. ASSUME NEW x \in P, NEW h \in [P -> V], NEW k \in [P -> V],
             \A y \in P : size[y] < size[x] => h[y] = k[y]
      PROVE  step[<<x, h>>] = step[<<x, k>>]
  <2>1. x[1] \in 1 .. Len(left) + 1 /\ x[2] \in 1 .. Len(table) + 1
    BY <1>0
  <2>2. ASSUME NEW u \in 1 .. Len(left) + 1, NEW v \in 1 .. Len(table) + 1,
               Rest(left, table, u, v) < Rest(left, table, x[1], x[2])
        PROVE  h[<<u, v>>] = k[<<u, v>>]
    <3>1. <<u, v>> \in P
      BY <1>2
    <3>2. size[<<u, v>>] = Rest(left, table, u, v) /\ size[x] = Rest(left, table, x[1], x[2])
      BY <3>1
    <3> HIDE DEF size, P
    <3> QED
      BY <1>4, <2>2, <3>1, <3>2
  <2>3. MatchStep(h, left, table, x[1], x[2]) = MatchStep(k, left, table, x[1], x[2])
    <3>1. PICK a \in 1 .. Len(left) + 1 : a = x[1]
      BY <2>1
    <3>2. PICK b \in 1 .. Len(table) + 1 : b = x[2]
      BY <2>1
    <3>3. Agree(h, k, left, table, a, b)
      BY <2>2, <3>1, <3>2 DEF Agree
    <3> HIDE DEF P, V, size, step
    <3>4. MatchStep(h, left, table, a, b) = MatchStep(k, left, table, a, b)
      BY <3>3, MatchStepSame
    <3> QED
      BY <3>1, <3>2, <3>4
  <2>4. \A g \in [P -> V] : step[<<x, g>>] = MatchStep(g, left, table, x[1], x[2])
    <3> HIDE DEF P, V
    <3> QED
      OBVIOUS
  <2> HIDE DEF step, P, V
  <2> QED
    BY <2>3, <2>4
<1>5. Descends(P, V, size, step)
  <2> HIDE DEF P, V, size, step
  <2> QED
    BY <1>1, <1>3, <1>4 DEF Descends
<1>6. PICK f : Solves(f, P, V, step)
  <2> HIDE DEF P, V, size, step
  <2>1. V # {}
    BY <1>1
  <2> QED
    BY <1>5, <2>1, Recursion
<1>7. f \in [P -> V] /\ \A x \in P : f[x] = MatchStep(f, left, table, x[1], x[2])
  <2>1. f \in [P -> V] /\ \A x \in P : f[x] = step[<<x, f>>]
    <3> HIDE DEF P, V, step
    <3> QED
      BY <1>6 DEF Solves
  <2>2. \A x \in P : step[<<x, f>>] = MatchStep(f, left, table, x[1], x[2])
    <3> HIDE DEF P, V
    <3> QED
      BY <2>1
  <2> HIDE DEF P, V, step
  <2> QED
    BY <2>1, <2>2
<1>8. f = [x \in P |-> MatchStep(f, left, table, x[1], x[2])]
  <2>1. f = [x \in P |-> f[x]]
    BY <1>7
  <2> HIDE DEF P, V
  <2> QED
    BY <1>7, <2>1
<1> QED
  BY <1>8 DEF IsMatcher

(* MatcherIs: what it says of positions.                                   *)
LEMMA MatcherIs ==
  ASSUME NEW left, NEW table, NEW f, IsMatcher(f, left, table),
         NEW a \in 1 .. Len(left) + 1, NEW b \in 1 .. Len(table) + 1
  PROVE  f[<<a, b>>] = MatchStep(f, left, table, a, b)
<1>1. PICK g : g = f
  OBVIOUS
<1>2. f = [ab \in Positions(left, table) |-> MatchStep(g, left, table, ab[1], ab[2])]
  BY <1>1 DEF IsMatcher
<1>3. <<a, b>> \in Positions(left, table)
  BY DEF Positions
<1> QED
  BY <1>1, <1>2, <1>3

(* ConcatAt: the elements of a concatenation.                              *)
LEMMA ConcatAt ==
  ASSUME NEW S, NEW s, s \in Seq(S), NEW t, t \in Seq(S), NEW r, r = s \o t
  PROVE  /\ r \in Seq(S) /\ Len(r) = Len(s) + Len(t)
         /\ \A n \in 1 .. Len(s) : n \in 1 .. Len(r) /\ r[n] = s[n]
         /\ \A n \in 1 .. Len(t) : Len(s) + n \in 1 .. Len(r) /\ r[Len(s) + n] = t[n]
         /\ \A n \in 1 .. Len(r) : n > Len(s) =>
              n - Len(s) \in 1 .. Len(t) /\ r[n] = t[n - Len(s)]
<1>1. /\ r \in Seq(S) /\ Len(r) = Len(s) + Len(t)
      /\ \A p \in 1 .. Len(s) : r[p] = s[p]
      /\ \A p \in 1 .. Len(t) : r[Len(s) + p] = t[p]
  BY ConcatIs
<1>2. Len(s) \in Nat /\ Len(t) \in Nat
  OBVIOUS
<1>3. ASSUME NEW n \in 1 .. Len(r), n > Len(s)
      PROVE  n - Len(s) \in 1 .. Len(t) /\ r[n] = t[n - Len(s)]
  <2>1. n - Len(s) \in 1 .. Len(t) /\ Len(s) + (n - Len(s)) = n
    BY <1>1, <1>2, <1>3
  <2>2. r[Len(s) + (n - Len(s))] = t[n - Len(s)]
    BY <1>1, <2>1
  <2> QED
    BY <2>1, <2>2
<1>4. /\ \A n \in 1 .. Len(s) : n \in 1 .. Len(r)
      /\ \A n \in 1 .. Len(t) : Len(s) + n \in 1 .. Len(r)
  BY <1>1, <1>2
<1> QED
  BY <1>1, <1>3, <1>4

(* The keys of the table that R points to do not fall.                     *)
InStep(R, table) ==
  \A n, k \in 1 .. Len(R) : n <= k => table[R[n][2]].key <= table[R[k][2]].key

(* R is what mx_join finds from two positions on: pairs of positions with  *)
(* equal keys, each once, in the order of the first, and of the keys if the*)
(* table is in order; all there are if both sides are.                     *)
Finds(R, left, table, a, b) ==
  /\ R \in Seq(IndexPair)
  /\ \A n \in 1 .. Len(R) : /\ R[n][1] \in a .. Len(left) /\ R[n][2] \in b .. Len(table)
                            /\ left[R[n][1]].key = table[R[n][2]].key
  /\ \A n, k \in 1 .. Len(R) : R[n] = R[k] => n = k
  /\ \A n, k \in 1 .. Len(R) : n <= k => R[n][1] <= R[k][1]
  /\ AscendingKeys(table) => InStep(R, table)
  /\ AscendingKeys(left) /\ AscendingKeys(table) =>
       \A x \in a .. Len(left), y \in b .. Len(table) :
         left[x].key = table[y].key => \E n \in 1 .. Len(R) : R[n] = <<x, y>>

(* RunsMeet: every position of one run with each of another.               *)
LEMMA RunsMeet ==
  ASSUME NEW a \in Nat, NEW b \in Nat, NEW c \in Nat, NEW d \in Nat, a < c, b < d
  PROVE  Covers(Product(a, c - a, b, d - b), a, c, b, d)
<1>1. PICK g \in Nat : g = c - a
  OBVIOUS
<1>2. PICK h \in Nat : h = d - b
  OBVIOUS
<1>3. Covers(Product(a, g, b, h), a, a + g, b, b + h)
  BY ProductIs
<1>4. a + g = c /\ b + h = d
  BY <1>1, <1>2
<1> QED
  BY <1>1, <1>2, <1>3, <1>4

(* FindsBoth: two runs that meet, and what comes behind them.              *)
LEMMA FindsBoth ==
  ASSUME NEW left, left \in Seq(FullTuple), NEW table, table \in Seq(FullTuple),
         NEW a \in 1 .. Len(left), NEW b \in 1 .. Len(table),
         left[a].key = table[b].key,
         NEW R, Finds(R, left, table, RunEnd(left, a), RunEnd(table, b))
  PROVE  Finds(Product(a, RunEnd(left, a) - a, b, RunEnd(table, b) - b) \o R, left, table, a, b)
<1>19. PICK c : c = RunEnd(left, a)
  OBVIOUS
<1>20. PICK d : d = RunEnd(table, b)
  OBVIOUS
<1> DEFINE P == Product(a, c - a, b, d - b)
           Q == P \o R
<1>0. PICK u \in Nat : u = Len(left)
  OBVIOUS
<1>3. PICK v \in Nat : v = Len(table)
  OBVIOUS
<1>16. a \in 1 .. u /\ b \in 1 .. v
  BY <1>0, <1>3
<1>1. c \in a + 1 .. u + 1
  BY <1>0, <1>19, RunEndIs
<1>2. d \in b + 1 .. v + 1
  BY <1>3, <1>20, RunEndIs
<1>17. /\ \A n \in a .. c - 1 : left[n].key = left[a].key
       /\ c <= u => left[c].key # left[a].key
  BY <1>0, <1>19, RunEndIs
<1>18. /\ \A n \in b .. d - 1 : table[n].key = table[b].key
       /\ d <= v => table[d].key # table[b].key
  BY <1>3, <1>20, RunEndIs
<1>4. c - a \in Nat /\ d - b \in Nat /\ a \in Nat /\ b \in Nat
      /\ a + (c - a) - 1 = c - 1 /\ b + (d - b) - 1 = d - 1
  BY <1>1, <1>2, <1>16
<1>5. /\ P \in Seq(IndexPair)
      /\ \A n \in 1 .. Len(P) : P[n][1] \in a .. c - 1 /\ P[n][2] \in b .. d - 1
      /\ \A x \in a .. c - 1, y \in b .. d - 1 : \E n \in 1 .. Len(P) : P[n] = <<x, y>>
      /\ \A n, k \in 1 .. Len(P) : P[n] = P[k] => n = k
      /\ \A n, k \in 1 .. Len(P) : n <= k => P[n][1] <= P[k][1]
  <2>1. a \in Nat /\ b \in Nat /\ c \in Nat /\ d \in Nat /\ a < c /\ b < d
    BY <1>1, <1>2, <1>16
  <2>2. P = Product(a, c - a, b, d - b)
    OBVIOUS
  <2>3. Covers(Product(a, c - a, b, d - b), a, c, b, d)
    BY <2>1, RunsMeet
  <2> HIDE DEF P
  <2> QED
    BY <2>2, <2>3 DEF Covers
<1> HIDE DEF P
<1>6. /\ R \in Seq(IndexPair)
      /\ \A n \in 1 .. Len(R) : /\ R[n][1] \in c .. u /\ R[n][2] \in d .. v
                                /\ left[R[n][1]].key = table[R[n][2]].key
      /\ \A n, k \in 1 .. Len(R) : R[n] = R[k] => n = k
      /\ \A n, k \in 1 .. Len(R) : n <= k => R[n][1] <= R[k][1]
  BY <1>0, <1>3, <1>19, <1>20 DEF Finds
<1>7. AscendingKeys(left) /\ AscendingKeys(table) =>
       \A x \in c .. u, y \in d .. v :
         left[x].key = table[y].key => \E n \in 1 .. Len(R) : R[n] = <<x, y>>
  BY <1>0, <1>3, <1>19, <1>20 DEF Finds
<1>8. /\ Q \in Seq(IndexPair) /\ Len(Q) = Len(P) + Len(R)
      /\ \A n \in 1 .. Len(P) : n \in 1 .. Len(Q) /\ Q[n] = P[n]
      /\ \A n \in 1 .. Len(R) : Len(P) + n \in 1 .. Len(Q) /\ Q[Len(P) + n] = R[n]
      /\ \A n \in 1 .. Len(Q) : n > Len(P) => n - Len(P) \in 1 .. Len(R) /\ Q[n] = R[n - Len(P)]
  BY <1>5, <1>6, ConcatAt
<1> HIDE DEF Q
<1>9. Len(P) \in Nat /\ Len(R) \in Nat
  BY <1>5, <1>6
<1>10. ASSUME NEW n \in 1 .. Len(Q)
       PROVE  \/ n \in 1 .. Len(P) /\ Q[n] = P[n]
              \/ n > Len(P) /\ n - Len(P) \in 1 .. Len(R) /\ Q[n] = R[n - Len(P)]
  BY <1>8, <1>9
<1>11. ASSUME NEW n \in 1 .. Len(Q)
       PROVE  /\ Q[n][1] \in a .. u /\ Q[n][2] \in b .. v
              /\ left[Q[n][1]].key = table[Q[n][2]].key
  <2>1. CASE n \in 1 .. Len(P) /\ Q[n] = P[n]
    <3>1. Q[n][1] \in a .. c - 1 /\ Q[n][2] \in b .. d - 1
      BY <1>5, <2>1
    <3>2. left[Q[n][1]].key = left[a].key /\ table[Q[n][2]].key = table[b].key
      BY <1>17, <1>18, <3>1
    <3>3. PICK x : x = Q[n][1]
      OBVIOUS
    <3>4. PICK y : y = Q[n][2]
      OBVIOUS
    <3>5. x \in a .. c - 1 /\ y \in b .. d - 1
      BY <3>1, <3>3, <3>4
    <3>6. x \in a .. u
      BY <1>1, <1>16, <3>5
    <3>7. y \in b .. v
      BY <1>2, <1>3, <1>16, <3>5
    <3> QED
      BY <3>2, <3>3, <3>4, <3>6, <3>7
  <2>2. CASE n > Len(P) /\ n - Len(P) \in 1 .. Len(R) /\ Q[n] = R[n - Len(P)]
    <3>1. /\ Q[n][1] \in c .. u /\ Q[n][2] \in d .. v
          /\ left[Q[n][1]].key = table[Q[n][2]].key
      BY <1>6, <2>2
    <3> QED
      BY <1>1, <1>2, <1>3, <1>16, <3>1, SMTT(20)
  <2> QED
    BY <1>10, <2>1, <2>2
<1>12. ASSUME NEW n \in 1 .. Len(P), NEW k \in 1 .. Len(R) PROVE P[n][1] < R[k][1] /\ P[n] # R[k]
  <2>1. P[n][1] \in a .. c - 1 /\ R[k][1] \in c .. u
    BY <1>5, <1>6
  <2>2. P[n][1] < R[k][1]
    <3>1. PICK x : x = P[n][1]
      OBVIOUS
    <3>2. PICK y : y = R[k][1]
      OBVIOUS
    <3>3. x < y
      BY <1>1, <1>3, <1>16, <2>1, <3>1, <3>2
    <3> QED
      BY <3>1, <3>2, <3>3
  <2> QED
    BY <2>1, <2>2
<1>13. ASSUME NEW n \in 1 .. Len(Q), NEW k \in 1 .. Len(Q), Q[n] = Q[k] PROVE n = k
  <2>1. CASE n \in 1 .. Len(P) /\ Q[n] = P[n]
    <3>1. CASE k \in 1 .. Len(P) /\ Q[k] = P[k]
      BY <1>5, <1>13, <2>1, <3>1
    <3>2. CASE k > Len(P) /\ k - Len(P) \in 1 .. Len(R) /\ Q[k] = R[k - Len(P)]
      BY <1>12, <1>13, <2>1, <3>2
    <3> QED
      BY <1>10, <3>1, <3>2
  <2>2. CASE n > Len(P) /\ n - Len(P) \in 1 .. Len(R) /\ Q[n] = R[n - Len(P)]
    <3>1. CASE k \in 1 .. Len(P) /\ Q[k] = P[k]
      BY <1>12, <1>13, <2>2, <3>1
    <3>2. CASE k > Len(P) /\ k - Len(P) \in 1 .. Len(R) /\ Q[k] = R[k - Len(P)]
      <4>1. n - Len(P) = k - Len(P)
        BY <1>6, <1>13, <2>2, <3>2
      <4> QED
        BY <1>9, <4>1
    <3> QED
      BY <1>10, <3>1, <3>2
  <2> QED
    BY <1>10, <2>1, <2>2
<1>14. ASSUME NEW n \in 1 .. Len(Q), NEW k \in 1 .. Len(Q), n <= k PROVE Q[n][1] <= Q[k][1]
  <2>1. CASE n \in 1 .. Len(P) /\ Q[n] = P[n]
    <3>1. CASE k \in 1 .. Len(P) /\ Q[k] = P[k]
      BY <1>5, <1>14, <2>1, <3>1
    <3>2. CASE k > Len(P) /\ k - Len(P) \in 1 .. Len(R) /\ Q[k] = R[k - Len(P)]
      <4>1. Q[n][1] < Q[k][1]
        BY <1>12, <2>1, <3>2
      <4> QED
        BY <1>11, <4>1
    <3> QED
      BY <1>10, <3>1, <3>2
  <2>2. CASE n > Len(P) /\ n - Len(P) \in 1 .. Len(R) /\ Q[n] = R[n - Len(P)]
    <3>1. CASE k \in 1 .. Len(P) /\ Q[k] = P[k]
      BY <1>9, <1>14, <2>2, <3>1
    <3>2. CASE k > Len(P) /\ k - Len(P) \in 1 .. Len(R) /\ Q[k] = R[k - Len(P)]
      <4>1. n - Len(P) <= k - Len(P)
        BY <1>9, <1>14
      <4> QED
        BY <1>6, <2>2, <3>2, <4>1
    <3> QED
      BY <1>10, <3>1, <3>2
  <2> QED
    BY <1>10, <2>1, <2>2
<1>15. ASSUME AscendingKeys(left), AscendingKeys(table),
              NEW x \in a .. u, NEW y \in b .. v, left[x].key = table[y].key
       PROVE  \E n \in 1 .. Len(Q) : Q[n] = <<x, y>>
  <2>0. /\ \A i, k \in 1 .. u : i <= k => left[i].key <= left[k].key
        /\ \A i, k \in 1 .. v : i <= k => table[i].key <= table[k].key
        /\ \A i \in 1 .. u : left[i].key \in Nat
        /\ \A i \in 1 .. v : table[i].key \in Nat
    <3>1. /\ \A i, k \in 1 .. u : i <= k => left[i].key <= left[k].key
          /\ \A i, k \in 1 .. v : i <= k => table[i].key <= table[k].key
      BY <1>0, <1>3, <1>15 DEF AscendingKeys
    <3>2. \A i \in 1 .. u : left[i] \in FullTuple
      BY <1>0
    <3>3. \A i \in 1 .. v : table[i] \in FullTuple
      BY <1>3
    <3> QED
      BY <3>1, <3>2, <3>3 DEF FullTuple
  <2>1. CASE x < c /\ y < d
    <3>1. x \in a .. c - 1 /\ y \in b .. d - 1
      BY <1>1, <1>2, <2>1
    <3>2. PICK n \in 1 .. Len(P) : P[n] = <<x, y>>
      BY <1>5, <3>1
    <3> QED
      BY <1>8, <3>2
  <2>2. CASE x < c /\ y >= d
    <3>1. x \in a .. c - 1 /\ d \in 1 .. v /\ y \in 1 .. v /\ d <= y /\ b <= d
      BY <1>1, <1>2, <1>3, <1>16, <2>2
    <3>2. left[x].key = left[a].key /\ table[d].key # table[b].key
      BY <1>3, <1>17, <1>18, <3>1
    <3>3. table[b].key <= table[d].key /\ table[d].key <= table[y].key
      BY <1>16, <2>0, <3>1
    <3> QED
      BY <1>15, <2>0, <3>1, <3>2, <3>3
  <2>3. CASE x >= c /\ y < d
    <3>1. y \in b .. d - 1 /\ c \in 1 .. u /\ x \in 1 .. u /\ c <= x /\ a <= c
      BY <1>1, <1>2, <1>3, <1>16, <2>3
    <3>2. table[y].key = table[b].key /\ left[c].key # left[a].key
      BY <1>17, <1>18, <3>1
    <3>3. left[a].key <= left[c].key /\ left[c].key <= left[x].key
      BY <1>16, <2>0, <3>1
    <3> QED
      BY <1>15, <2>0, <3>1, <3>2, <3>3
  <2>4. CASE x >= c /\ y >= d
    <3>1. x \in c .. u /\ y \in d .. v
      BY <1>1, <1>2, <1>3, <1>16, <2>4
    <3>2. PICK n \in 1 .. Len(R) : R[n] = <<x, y>>
      BY <1>7, <1>15, <3>1
    <3> QED
      BY <1>8, <3>2
  <2>5. x \in Int /\ y \in Int /\ c \in Int /\ d \in Int
    BY <1>1, <1>2, <1>3, <1>16
  <2> QED
    BY <2>1, <2>2, <2>3, <2>4, <2>5
<1>21. ASSUME AscendingKeys(table) PROVE InStep(Q, table)
  <2>1. \A i, k \in 1 .. v : i <= k => table[i].key <= table[k].key
    BY <1>3, <1>21 DEF AscendingKeys
  <2>2. \A i \in 1 .. v : table[i].key \in Nat
    <3>1. \A i \in 1 .. v : table[i] \in FullTuple
      BY <1>3
    <3> QED
      BY <3>1 DEF FullTuple
  <2>3. InStep(R, table)
    BY <1>21 DEF Finds
  <2>4. ASSUME NEW n \in 1 .. Len(P) PROVE table[P[n][2]].key = table[b].key
    BY <1>5, <1>18
  <2>5. ASSUME NEW n \in 1 .. Len(R) PROVE table[b].key <= table[R[n][2]].key
    <3>1. R[n][2] \in d .. v
      BY <1>6
    <3>2. PICK y : y = R[n][2]
      OBVIOUS
    <3>3. y \in 1 .. v /\ b <= y
      BY <1>2, <1>3, <1>16, <3>1, <3>2
    <3> QED
      BY <1>16, <2>1, <3>2, <3>3
  <2>6. table[b].key <= table[b].key
    BY <1>16, <2>2
  <2>7. ASSUME NEW n \in 1 .. Len(Q), NEW k \in 1 .. Len(Q), n <= k
        PROVE  table[Q[n][2]].key <= table[Q[k][2]].key
    <3>1. CASE n \in 1 .. Len(P) /\ Q[n] = P[n]
      <4>1. CASE k \in 1 .. Len(P) /\ Q[k] = P[k]
        BY <2>4, <2>6, <3>1, <4>1
      <4>2. CASE k > Len(P) /\ k - Len(P) \in 1 .. Len(R) /\ Q[k] = R[k - Len(P)]
        BY <2>4, <2>5, <3>1, <4>2
      <4> QED
        BY <1>10, <4>1, <4>2
    <3>2. CASE n > Len(P) /\ n - Len(P) \in 1 .. Len(R) /\ Q[n] = R[n - Len(P)]
      <4>1. CASE k \in 1 .. Len(P) /\ Q[k] = P[k]
        BY <1>9, <2>7, <3>2, <4>1
      <4>2. CASE k > Len(P) /\ k - Len(P) \in 1 .. Len(R) /\ Q[k] = R[k - Len(P)]
        <5>1. n - Len(P) <= k - Len(P)
          BY <1>9, <2>7
        <5> QED
          BY <2>3, <3>2, <4>2, <5>1 DEF InStep
      <4> QED
        BY <1>10, <4>1, <4>2
    <3> QED
      BY <1>10, <3>1, <3>2
  <2> QED
    BY <2>7 DEF InStep
<1> QED
  <2>1. Finds(Q, left, table, a, b)
    BY <1>8, <1>11, <1>13, <1>14, <1>15, <1>21, <1>0, <1>3 DEF Finds
  <2> QED
    BY <1>19, <1>20, <2>1 DEF Q, P

(* FindsLeft: a run of the left side that the table has passed.            *)
LEMMA FindsLeft ==
  ASSUME NEW left, left \in Seq(FullTuple), NEW table, table \in Seq(FullTuple),
         NEW a \in 1 .. Len(left), NEW b \in 1 .. Len(table),
         left[a].key < table[b].key,
         NEW R, Finds(R, left, table, RunEnd(left, a), b)
  PROVE  Finds(R, left, table, a, b)
<1>0. PICK u \in Nat : u = Len(left)
  OBVIOUS
<1>3. PICK v \in Nat : v = Len(table)
  OBVIOUS
<1>7. a \in 1 .. u /\ b \in 1 .. v
  BY <1>0, <1>3
<1>8. /\ \A i \in 1 .. u : left[i].key \in Nat
      /\ \A i \in 1 .. v : table[i].key \in Nat
  <2>1. \A i \in 1 .. u : left[i] \in FullTuple
    BY <1>0
  <2>2. \A i \in 1 .. v : table[i] \in FullTuple
    BY <1>3
  <2> QED
    BY <2>1, <2>2 DEF FullTuple
<1>1. PICK c : c = RunEnd(left, a)
  OBVIOUS
<1>2. c \in a + 1 .. u + 1
  BY <1>0, <1>1, <1>3, RunEndIs
<1>9. \A n \in a .. c - 1 : left[n].key = left[a].key
  BY <1>0, <1>1, <1>3, RunEndIs
<1>4. /\ R \in Seq(IndexPair)
      /\ \A n \in 1 .. Len(R) : /\ R[n][1] \in c .. u /\ R[n][2] \in b .. v
                                /\ left[R[n][1]].key = table[R[n][2]].key
      /\ \A n, k \in 1 .. Len(R) : R[n] = R[k] => n = k
      /\ \A n, k \in 1 .. Len(R) : n <= k => R[n][1] <= R[k][1]
  BY <1>0, <1>1, <1>3 DEF Finds
<1>5. \A n \in 1 .. Len(R) : R[n][1] \in a .. u
  BY <1>2, <1>3, <1>7, <1>4
<1>10. AscendingKeys(table) => InStep(R, table)
  BY DEF Finds
<1>6. ASSUME AscendingKeys(left), AscendingKeys(table),
             NEW x \in a .. u, NEW y \in b .. v, left[x].key = table[y].key
      PROVE  \E n \in 1 .. Len(R) : R[n] = <<x, y>>
  <2>1. CASE x < c
    <3>1. x \in a .. c - 1 /\ x \in 1 .. u /\ y \in 1 .. v /\ b <= y
      BY <1>2, <1>3, <1>7, <2>1
    <3>2. left[x].key = left[a].key /\ table[b].key <= table[y].key
      BY <1>0, <1>2, <1>3, <1>6, <1>7, <1>9, <3>1 DEF AscendingKeys
    <3>3. left[a].key \in Nat /\ table[b].key \in Nat /\ table[y].key \in Nat
      BY <1>7, <1>8, <3>1
    <3> QED
      BY <1>6, <3>2, <3>3
  <2>2. CASE x >= c
    <3>1. x \in c .. u
      BY <1>2, <1>3, <1>7, <2>2
    <3> QED
      BY <1>0, <1>1, <1>3, <1>6, <3>1 DEF Finds
  <2> QED
    BY <1>2, <1>3, <1>7, <2>1, <2>2
<1> QED
  BY <1>0, <1>3, <1>4, <1>5, <1>6, <1>10 DEF Finds

(* FindsTable: a run of the table that the left side has passed.           *)
LEMMA FindsTable ==
  ASSUME NEW left, left \in Seq(FullTuple), NEW table, table \in Seq(FullTuple),
         NEW a \in 1 .. Len(left), NEW b \in 1 .. Len(table),
         table[b].key < left[a].key,
         NEW R, Finds(R, left, table, a, RunEnd(table, b))
  PROVE  Finds(R, left, table, a, b)
<1>0. PICK u \in Nat : u = Len(left)
  OBVIOUS
<1>3. PICK v \in Nat : v = Len(table)
  OBVIOUS
<1>7. a \in 1 .. u /\ b \in 1 .. v
  BY <1>0, <1>3
<1>8. /\ \A i \in 1 .. u : left[i].key \in Nat
      /\ \A i \in 1 .. v : table[i].key \in Nat
  <2>1. \A i \in 1 .. u : left[i] \in FullTuple
    BY <1>0
  <2>2. \A i \in 1 .. v : table[i] \in FullTuple
    BY <1>3
  <2> QED
    BY <2>1, <2>2 DEF FullTuple
<1>1. PICK d : d = RunEnd(table, b)
  OBVIOUS
<1>2. d \in b + 1 .. v + 1
  BY <1>0, <1>1, <1>3, RunEndIs
<1>9. \A n \in b .. d - 1 : table[n].key = table[b].key
  BY <1>0, <1>1, <1>3, RunEndIs
<1>4. /\ R \in Seq(IndexPair)
      /\ \A n \in 1 .. Len(R) : /\ R[n][1] \in a .. u /\ R[n][2] \in d .. v
                                /\ left[R[n][1]].key = table[R[n][2]].key
      /\ \A n, k \in 1 .. Len(R) : R[n] = R[k] => n = k
      /\ \A n, k \in 1 .. Len(R) : n <= k => R[n][1] <= R[k][1]
  BY <1>0, <1>1, <1>3 DEF Finds
<1>5. \A n \in 1 .. Len(R) : R[n][2] \in b .. v
  BY <1>2, <1>3, <1>7, <1>4
<1>10. AscendingKeys(table) => InStep(R, table)
  BY DEF Finds
<1>6. ASSUME AscendingKeys(left), AscendingKeys(table),
             NEW x \in a .. u, NEW y \in b .. v, left[x].key = table[y].key
      PROVE  \E n \in 1 .. Len(R) : R[n] = <<x, y>>
  <2>1. CASE y < d
    <3>1. y \in b .. d - 1 /\ x \in 1 .. u /\ a <= x
      BY <1>2, <1>3, <1>7, <2>1
    <3>2. table[y].key = table[b].key /\ left[a].key <= left[x].key
      BY <1>0, <1>2, <1>3, <1>6, <1>7, <1>9, <3>1 DEF AscendingKeys
    <3>3. left[a].key \in Nat /\ table[b].key \in Nat /\ left[x].key \in Nat
      BY <1>7, <1>8, <3>1
    <3> QED
      BY <1>6, <3>2, <3>3
  <2>2. CASE y >= d
    <3>1. y \in d .. v
      BY <1>2, <1>3, <1>7, <2>2
    <3> QED
      BY <1>0, <1>1, <1>3, <1>6, <3>1 DEF Finds
  <2>3. y \in Int /\ d \in Int
    BY <1>2, <1>3, <1>7
  <2> QED
    BY <2>1, <2>2, <2>3
<1> QED
  BY <1>0, <1>3, <1>4, <1>5, <1>6, <1>10 DEF Finds

(* FindsNone: nothing is left on one side.                                 *)
LEMMA FindsNone ==
  ASSUME NEW left, left \in Seq(FullTuple), NEW table, table \in Seq(FullTuple),
         NEW a \in Nat, NEW b \in Nat, a > Len(left) \/ b > Len(table)
  PROVE  Finds(<<>>, left, table, a, b)
<1>1. <<>> \in Seq(IndexPair) /\ Len(<<>>) = 0
  OBVIOUS
<1>2. a .. Len(left) = {} \/ b .. Len(table) = {}
  OBVIOUS
<1>3. InStep(<<>>, table)
  BY <1>1 DEF InStep
<1> QED
  BY <1>1, <1>2, <1>3 DEF Finds

(* MatchesIs: what mx_join finds.                                          *)
LEMMA MatchesIs ==
  ASSUME NEW left, left \in Seq(FullTuple), NEW table, table \in Seq(FullTuple)
  PROVE  Finds(Matches(left, table), left, table, 1, 1)
<1>1. PICK f : f = CHOOSE x : IsMatcher(x, left, table)
  OBVIOUS
<1>2. Matches(left, table) = f[<<1, 1>>]
  BY <1>1 DEF Matches, IsMatcher, MatchStep, Positions, Product
<1>3. IsMatcher(f, left, table)
  BY <1>1, MatcherExists
<1> DEFINE T == {n \in Nat : \A a \in 1 .. Len(left) + 1, b \in 1 .. Len(table) + 1 :
                   Rest(left, table, a, b) <= n => Finds(f[<<a, b>>], left, table, a, b)}
<1>4. Len(left) \in Nat /\ Len(table) \in Nat
  OBVIOUS
<1>5. \A a \in 1 .. Len(left) + 1, b \in 1 .. Len(table) + 1 : Rest(left, table, a, b) \in Nat
  BY <1>4 DEF Rest
<1>6. ASSUME NEW a \in 1 .. Len(left) + 1, NEW b \in 1 .. Len(table) + 1,
             \A x \in 1 .. Len(left) + 1, y \in 1 .. Len(table) + 1 :
               Rest(left, table, x, y) < Rest(left, table, a, b) =>
                 Finds(f[<<x, y>>], left, table, x, y)
      PROVE  Finds(f[<<a, b>>], left, table, a, b)
  <2>1. f[<<a, b>>] = MatchStep(f, left, table, a, b)
    BY <1>3, MatcherIs
  <2>2. CASE a > Len(left) \/ b > Len(table)
    <3>1. f[<<a, b>>] = <<>>
      BY <2>1, <2>2 DEF MatchStep
    <3> QED
      BY <2>2, <3>1, FindsNone
  <2>3. CASE ~ (a > Len(left) \/ b > Len(table))
    <3>1. a \in 1 .. Len(left) /\ b \in 1 .. Len(table)
      BY <2>3
    <3>2. PICK c : c = RunEnd(left, a)
      OBVIOUS
    <3>3. PICK d : d = RunEnd(table, b)
      OBVIOUS
    <3>4. /\ c \in 1 .. Len(left) + 1 /\ d \in 1 .. Len(table) + 1
          /\ Rest(left, table, c, d) < Rest(left, table, a, b)
          /\ Rest(left, table, c, b) < Rest(left, table, a, b)
          /\ Rest(left, table, a, d) < Rest(left, table, a, b)
      BY <3>1, <3>2, <3>3, NextPositions
    <3>8. left[a].key \in Nat /\ table[b].key \in Nat
      <4>1. left[a] \in FullTuple /\ table[b] \in FullTuple
        BY <3>1
      <4> QED
        BY <4>1 DEF FullTuple
    <3>5. CASE left[a].key = table[b].key
      <4>1. f[<<a, b>>] = Product(a, c - a, b, d - b) \o f[<<c, d>>]
        BY <2>1, <2>3, <3>2, <3>3, <3>5 DEF MatchStep
      <4>2. PICK R : R = f[<<c, d>>]
        OBVIOUS
      <4>3. Finds(R, left, table, c, d)
        BY <1>6, <3>4, <4>2
      <4> QED
        BY <3>1, <3>2, <3>3, <3>5, <4>1, <4>2, <4>3, FindsBoth
    <3>6. CASE left[a].key < table[b].key
      <4>1. left[a].key # table[b].key
        BY <3>6, <3>8
      <4>2. f[<<a, b>>] = f[<<c, b>>]
        BY <2>1, <2>3, <3>2, <3>6, <4>1 DEF MatchStep
      <4>3. PICK R : R = f[<<c, b>>]
        OBVIOUS
      <4>4. Finds(R, left, table, c, b)
        BY <1>6, <3>4, <4>3
      <4> QED
        BY <3>1, <3>2, <3>6, <4>2, <4>3, <4>4, FindsLeft
    <3>7. CASE table[b].key < left[a].key
      <4>1. left[a].key # table[b].key /\ ~ (left[a].key < table[b].key)
        BY <3>7, <3>8
      <4>2. f[<<a, b>>] = f[<<a, d>>]
        BY <2>1, <2>3, <3>3, <4>1 DEF MatchStep
      <4>3. PICK R : R = f[<<a, d>>]
        OBVIOUS
      <4>4. Finds(R, left, table, a, d)
        BY <1>6, <3>4, <4>3
      <4> QED
        BY <3>1, <3>3, <3>7, <4>2, <4>3, <4>4, FindsTable
    <3> QED
      BY <3>5, <3>6, <3>7, <3>8
  <2> QED
    BY <2>2, <2>3
<1>7. 0 \in T
  <2>1. ASSUME NEW a \in 1 .. Len(left) + 1, NEW b \in 1 .. Len(table) + 1, Rest(left, table, a, b) <= 0
        PROVE  Finds(f[<<a, b>>], left, table, a, b)
    BY <1>5, <1>6, <2>1
  <2> QED
    BY <2>1
<1>8. ASSUME NEW n \in Nat, n \in T PROVE n + 1 \in T
  <2>1. ASSUME NEW a \in 1 .. Len(left) + 1, NEW b \in 1 .. Len(table) + 1,
               Rest(left, table, a, b) <= n + 1
        PROVE  Finds(f[<<a, b>>], left, table, a, b)
    <3>1. \A x \in 1 .. Len(left) + 1, y \in 1 .. Len(table) + 1 :
            Rest(left, table, x, y) < Rest(left, table, a, b) => Rest(left, table, x, y) <= n
      BY <1>5, <2>1
    <3>2. \A x \in 1 .. Len(left) + 1, y \in 1 .. Len(table) + 1 :
            Rest(left, table, x, y) < Rest(left, table, a, b) => Finds(f[<<x, y>>], left, table, x, y)
      BY <1>8, <3>1
    <3> QED
      BY <1>6, <3>2
  <2> QED
    BY <2>1
<1>9. Nat \subseteq T
  <2> HIDE DEF T
  <2> QED
    BY <1>7, <1>8, NatSetInduction
<1>10. 1 \in 1 .. Len(left) + 1 /\ 1 \in 1 .. Len(table) + 1
  BY <1>4
<1>11. Finds(f[<<1, 1>>], left, table, 1, 1)
  BY <1>5, <1>9, <1>10
<1> QED
  BY <1>2, <1>11

-----------------------------------------------------------------------------
(* Sorting *)

(* r is s with t at position k.                                            *)
Inserted(r, s, k, t) ==
  /\ r \in Seq(FullTuple) /\ Len(r) = Len(s) + 1
  /\ \A i \in 1 .. Len(r) : r[i] = IF i < k THEN s[i] ELSE IF i = k THEN t ELSE s[i - 1]

(* InsertAtIs: what InsertAt does.                                         *)
LEMMA InsertAtIs ==
  ASSUME NEW s, s \in Seq(FullTuple), NEW t \in FullTuple, NEW k \in 1 .. Len(s) + 1
  PROVE  Inserted(InsertAt(s, k, t), s, k, t)
<1> DEFINE front == SubSeq(s, 1, k - 1)
           back  == SubSeq(s, k, Len(s))
           r     == InsertAt(s, k, t)
<1>1. PICK n \in Nat : n = Len(s)
  OBVIOUS
<1>2. k \in 1 .. n + 1
  BY <1>1
<1>3. /\ front \in Seq(FullTuple) /\ Len(front) = k - 1
      /\ \A p \in 1 .. k - 1 : front[p] = s[p]
  <2>1. 1 \in 1 .. Len(s) + 1 /\ k - 1 \in 1 - 1 .. Len(s) /\ (k - 1) - 1 + 1 = k - 1
    BY <1>1, <1>2
  <2>2. /\ front \in Seq(FullTuple)
        /\ Len(front) = (k - 1) - 1 + 1
        /\ \A p \in 1 .. (k - 1) - 1 + 1 : front[p] = s[1 + p - 1]
    BY <2>1, SubSeqIs
  <2>3. \A p \in 1 .. k - 1 : 1 + p - 1 = p
    BY <1>2
  <2> HIDE DEF front
  <2> QED
    BY <2>1, <2>2, <2>3
<1>4. /\ back \in Seq(FullTuple) /\ Len(back) = n + 1 - k
      /\ \A p \in 1 .. n + 1 - k : back[p] = s[k + p - 1]
  <2>1. k \in 1 .. Len(s) + 1 /\ Len(s) \in k - 1 .. Len(s) /\ Len(s) - k + 1 = n + 1 - k
    BY <1>1, <1>2
  <2>2. /\ back \in Seq(FullTuple)
        /\ Len(back) = Len(s) - k + 1
        /\ \A p \in 1 .. Len(s) - k + 1 : back[p] = s[k + p - 1]
    BY <2>1, SubSeqIs
  <2> HIDE DEF back
  <2> QED
    BY <2>1, <2>2
<1>5. r = (front \o <<t>>) \o back
  BY DEF InsertAt
<1> HIDE DEF front, back, r
<1>6. <<t>> \in Seq(FullTuple) /\ Len(<<t>>) = 1 /\ <<t>>[1] = t
  OBVIOUS
<1>7. PICK w : w = front \o <<t>>
  OBVIOUS
<1>8. /\ w \in Seq(FullTuple) /\ Len(w) = k
      /\ \A p \in 1 .. k - 1 : w[p] = s[p]
      /\ w[k] = t
  <2>1. PICK e : e = <<t>>
    OBVIOUS
  <2>2. /\ w \in Seq(FullTuple) /\ Len(w) = Len(front) + Len(e)
        /\ \A p \in 1 .. Len(front) : w[p] = front[p]
        /\ \A p \in 1 .. Len(e) : w[Len(front) + p] = e[p]
    BY <1>3, <1>6, <1>7, <2>1, ConcatIs
  <2>3. Len(e) = 1 /\ e[1] = t
    BY <1>6, <2>1
  <2>4. (k - 1) + 1 = k
    BY <1>2
  <2>5. 1 \in 1 .. Len(e)
    BY <2>3
  <2>6. w[Len(front) + 1] = e[1]
    BY <2>2, <2>5
  <2> QED
    BY <1>3, <2>2, <2>3, <2>4, <2>6
<1>9. /\ r \in Seq(FullTuple) /\ Len(r) = k + (n + 1 - k)
      /\ \A p \in 1 .. k : r[p] = w[p]
      /\ \A p \in 1 .. n + 1 - k : r[k + p] = back[p]
  <2>1. r = w \o back
    BY <1>5, <1>7
  <2>2. /\ r \in Seq(FullTuple) /\ Len(r) = Len(w) + Len(back)
        /\ \A p \in 1 .. Len(w) : r[p] = w[p]
        /\ \A p \in 1 .. Len(back) : r[Len(w) + p] = back[p]
    <3>1. w \in Seq(FullTuple) /\ back \in Seq(FullTuple)
      BY <1>4, <1>8
    <3> QED
      BY <2>1, <3>1, ConcatIs
  <2> QED
    BY <1>4, <1>8, <2>2
<1>10. ASSUME NEW i \in 1 .. n + 1
       PROVE  r[i] = IF i < k THEN s[i] ELSE IF i = k THEN t ELSE s[i - 1]
  <2>1. CASE i < k
    <3>1. i \in 1 .. k - 1 /\ i \in 1 .. k
      BY <1>2, <2>1
    <3> QED
      BY <1>8, <1>9, <2>1, <3>1
  <2>2. CASE i = k
    <3>1. k \in 1 .. k /\ ~ (i < k)
      BY <1>2, <2>2
    <3> QED
      BY <1>8, <1>9, <2>2, <3>1
  <2>3. CASE i > k
    <3>1. i - k \in 1 .. n + 1 - k /\ k + (i - k) = i /\ k + (i - k) - 1 = i - 1 /\ ~ (i < k) /\ i # k
      BY <1>2, <2>3
    <3>2. r[k + (i - k)] = back[i - k] /\ back[i - k] = s[k + (i - k) - 1]
      BY <1>4, <1>9, <3>1
    <3> QED
      BY <3>1, <3>2
  <2> QED
    BY <1>2, <2>1, <2>2, <2>3
<1>11. Len(r) = n + 1
  BY <1>2, <1>9
<1> QED
  BY <1>1, <1>9, <1>10, <1>11 DEF Inserted, r

(* The places for a tuple in a sequence in order.                          *)
Insertions(s, t) ==
  {InsertAt(s, k, t) : k \in {k \in 1 .. Len(s) + 1 :
     /\ \A i \in 1 .. k - 1 : s[i].key <= t.key
     /\ \A i \in k .. Len(s) : s[i].key >= t.key}}

(* InsertionIs: a tuple goes between smaller and larger ones.              *)
LEMMA InsertionIs ==
  ASSUME NEW s, s \in Seq(FullTuple), NEW t \in FullTuple, NEW r \in Insertions(s, t)
  PROVE  /\ \E k \in 1 .. Len(s) + 1 : Inserted(r, s, k, t)
         /\ AscendingKeys(s) => AscendingKeys(r)
<1>1. PICK n \in Nat : n = Len(s)
  OBVIOUS
<1>2. PICK k \in 1 .. n + 1 : /\ r = InsertAt(s, k, t)
                              /\ \A i \in 1 .. k - 1 : s[i].key <= t.key
                              /\ \A i \in k .. n : s[i].key >= t.key
  BY <1>1 DEF Insertions
<1>3. Inserted(r, s, k, t)
  BY <1>1, <1>2, InsertAtIs
<1>4. ASSUME AscendingKeys(s) PROVE AscendingKeys(r)
  <2>1. \A i \in 1 .. n + 1 : r[i] = IF i < k THEN s[i] ELSE IF i = k THEN t ELSE s[i - 1]
    BY <1>1, <1>3 DEF Inserted
  <2>2. Len(r) = n + 1
    BY <1>1, <1>3 DEF Inserted
  <2>3. t.key \in Nat
    BY DEF FullTuple
  <2>4. \A i \in 1 .. n : s[i].key \in Nat
    <3>1. \A i \in 1 .. n : s[i] \in FullTuple
      BY <1>1
    <3> QED
      BY <3>1 DEF FullTuple
  <2>5. \A i, j \in 1 .. n : i <= j => s[i].key <= s[j].key
    BY <1>1, <1>4 DEF AscendingKeys
  <2>6. ASSUME NEW i \in 1 .. n + 1, NEW j \in 1 .. n + 1, i < j PROVE r[i].key <= r[j].key
    <3>1. CASE j < k
      <4>1. r[i] = s[i] /\ r[j] = s[j] /\ i \in 1 .. n /\ j \in 1 .. n
        BY <1>2, <2>1, <2>6, <3>1
      <4> QED
        BY <2>5, <2>6, <4>1
    <3>2. CASE j = k
      <4>1. r[i] = s[i] /\ r[j] = t /\ i \in 1 .. k - 1
        BY <1>2, <2>1, <2>6, <3>2
      <4> QED
        BY <1>2, <4>1
    <3>3. CASE j > k
      <4>1. r[j] = s[j - 1] /\ j - 1 \in k .. n /\ j - 1 \in 1 .. n
        BY <1>2, <2>1, <3>3
      <4>2. CASE i < k
        <5>1. r[i] = s[i] /\ i \in 1 .. n /\ i <= j - 1
          BY <1>2, <2>1, <2>6, <4>2
        <5> QED
          BY <2>5, <4>1, <5>1
      <4>3. CASE i = k
        <5>1. r[i] = t
          BY <1>2, <2>1, <4>3
        <5> QED
          BY <1>2, <2>3, <2>4, <4>1, <5>1
      <4>4. CASE i > k
        <5>1. r[i] = s[i - 1] /\ i - 1 \in 1 .. n /\ i - 1 <= j - 1
          BY <1>2, <2>1, <2>6, <4>4
        <5> QED
          BY <2>5, <4>1, <5>1
      <4> QED
        BY <1>2, <4>2, <4>3, <4>4
    <3> QED
      BY <1>2, <3>1, <3>2, <3>3
  <2>7. \A i \in 1 .. n + 1 : r[i].key <= r[i].key
    <3>1. \A i \in 1 .. n + 1 : r[i] \in FullTuple
      <4>1. r \in Seq(FullTuple)
        BY <1>3 DEF Inserted
      <4> QED
        BY <2>2, <4>1
    <3> QED
      BY <3>1 DEF FullTuple
  <2>8. \A i, j \in 1 .. n + 1 : i <= j => r[i].key <= r[j].key
    BY <2>6, <2>7
  <2> QED
    BY <2>2, <2>8 DEF AscendingKeys
<1> QED
  BY <1>1, <1>3, <1>4

(* p puts the positions 1 to n in another order.                           *)
Permutes(p, n) ==
  /\ p \in [1 .. n -> 1 .. n]
  /\ \A i, k \in 1 .. n : p[i] = p[k] => i = k
  /\ \A j \in 1 .. n : \E i \in 1 .. n : p[i] = j

(* s has the first n tuples of ts, in order.                               *)
Orders(s, ts, n) ==
  /\ s \in Seq(FullTuple) /\ Len(s) = n /\ AscendingKeys(s)
  /\ \E p : Permutes(p, n) /\ \A i \in 1 .. n : s[i] = ts[p[i]]

(* OrdersMore: the next tuple is inserted.                                 *)
LEMMA OrdersMore ==
  ASSUME NEW ts, ts \in Seq(FullTuple), NEW n \in 1 .. Len(ts),
         NEW s, Orders(s, ts, n - 1), NEW r \in Insertions(s, ts[n])
  PROVE  Orders(r, ts, n)
<1>1. PICK m \in Nat : m = n - 1
  OBVIOUS
<1>2. n = m + 1 /\ n \in Nat
  BY <1>1
<1>3. s \in Seq(FullTuple) /\ Len(s) = m /\ AscendingKeys(s)
  BY <1>1 DEF Orders
<1>4. PICK p : Permutes(p, m) /\ \A i \in 1 .. m : s[i] = ts[p[i]]
  BY <1>1 DEF Orders
<1>5. ts[n] \in FullTuple
  OBVIOUS
<1>6. (\E k \in 1 .. Len(s) + 1 : Inserted(r, s, k, ts[n])) /\ AscendingKeys(r)
  <2>1. PICK t \in FullTuple : t = ts[n]
    BY <1>5
  <2>2. r \in Insertions(s, t)
    BY <2>1
  <2> QED
    BY <1>3, <2>1, <2>2, InsertionIs
<1>7. PICK k \in 1 .. n : Inserted(r, s, k, ts[n])
  BY <1>2, <1>3, <1>6
<1>8. /\ r \in Seq(FullTuple) /\ Len(r) = n
      /\ \A i \in 1 .. n : r[i] = IF i < k THEN s[i] ELSE IF i = k THEN ts[n] ELSE s[i - 1]
  BY <1>2, <1>3, <1>7 DEF Inserted
<1> DEFINE q == [i \in 1 .. n |-> IF i < k THEN p[i] ELSE IF i = k THEN n ELSE p[i - 1]]
<1>9. /\ p \in [1 .. m -> 1 .. m]
      /\ \A i, j \in 1 .. m : p[i] = p[j] => i = j
      /\ \A j \in 1 .. m : \E i \in 1 .. m : p[i] = j
  BY <1>4 DEF Permutes
<1>10. ASSUME NEW i \in 1 .. n
       PROVE  \/ i < k /\ i \in 1 .. m /\ q[i] = p[i] /\ p[i] \in 1 .. m /\ r[i] = s[i]
              \/ i = k /\ q[i] = n /\ r[i] = ts[n]
              \/ i > k /\ i - 1 \in 1 .. m /\ q[i] = p[i - 1] /\ p[i - 1] \in 1 .. m /\ r[i] = s[i - 1]
  <2>1. CASE i < k
    <3>1. i \in 1 .. m
      BY <1>2, <2>1
    <3> QED
      BY <1>8, <1>9, <2>1, <3>1
  <2>2. CASE i = k
    BY <1>8, <2>2
  <2>3. CASE i > k
    <3>1. i - 1 \in 1 .. m /\ ~ (i < k) /\ i # k
      BY <1>2, <2>3
    <3> QED
      BY <1>8, <1>9, <2>3, <3>1
  <2> QED
    BY <2>1, <2>2, <2>3
<1>11. q \in [1 .. n -> 1 .. n]
  <2>1. ASSUME NEW i \in 1 .. n PROVE q[i] \in 1 .. n
    <3>1. n \in 1 .. n /\ \A x \in 1 .. m : x \in 1 .. n
      BY <1>2
    <3> HIDE DEF q
    <3> QED
      BY <1>10, <3>1
  <2> QED
    BY <2>1
<1>12. \A i \in 1 .. n : r[i] = ts[q[i]]
  <2> HIDE DEF q
  <2> QED
    BY <1>4, <1>10
<1>13. ASSUME NEW i \in 1 .. n, NEW j \in 1 .. n, i < j PROVE q[i] # q[j]
  <2> HIDE DEF q
  <2>1. n \notin 1 .. m
    BY <1>2
  <2>2. CASE i < k
    <3>1. i \in 1 .. m /\ q[i] = p[i] /\ p[i] \in 1 .. m
      BY <1>10, <2>2
    <3>2. CASE j < k
      <4>1. j \in 1 .. m /\ q[j] = p[j]
        BY <1>10, <3>2
      <4> QED
        BY <1>9, <1>13, <3>1, <4>1
    <3>3. CASE j = k
      BY <1>10, <2>1, <3>1, <3>3
    <3>4. CASE j > k
      <4>1. j - 1 \in 1 .. m /\ q[j] = p[j - 1] /\ i # j - 1
        BY <1>10, <2>2, <3>4
      <4> QED
        BY <1>9, <3>1, <4>1
    <3> QED
      BY <3>2, <3>3, <3>4
  <2>3. CASE i = k
    <3>1. q[i] = n
      BY <1>10, <2>3
    <3>2. j > k /\ j # k /\ ~ (j < k)
      BY <1>13, <2>3
    <3>3. q[j] \in 1 .. m
      BY <1>10, <3>2
    <3> QED
      BY <2>1, <3>1, <3>3
  <2>4. CASE i > k
    <3>1. /\ i - 1 \in 1 .. m /\ q[i] = p[i - 1]
          /\ j - 1 \in 1 .. m /\ q[j] = p[j - 1] /\ i - 1 # j - 1
      BY <1>10, <1>13, <2>4
    <3> QED
      BY <1>9, <3>1
  <2> QED
    BY <2>2, <2>3, <2>4
<1>14. \A i, j \in 1 .. n : q[i] = q[j] => i = j
  <2> HIDE DEF q
  <2>1. \A i, j \in 1 .. n : i < j \/ j < i \/ i = j
    OBVIOUS
  <2> QED
    BY <1>13, <2>1
<1>15. ASSUME NEW j \in 1 .. n PROVE \E i \in 1 .. n : q[i] = j
  <2>1. CASE j = n
    <3>1. q[k] = n
      OBVIOUS
    <3> QED
      BY <2>1, <3>1
  <2>2. CASE j # n
    <3>1. j \in 1 .. m
      BY <1>2, <2>2
    <3>2. PICK i \in 1 .. m : p[i] = j
      BY <1>9, <3>1
    <3>3. CASE i < k
      <4>1. i \in 1 .. n
        BY <1>2
      <4>2. q[i] = p[i]
        BY <3>3, <4>1
      <4> QED
        BY <3>2, <4>1, <4>2
    <3>4. CASE i >= k
      <4>1. i + 1 \in 1 .. n /\ ~ (i + 1 < k) /\ i + 1 # k /\ (i + 1) - 1 = i
        BY <1>2, <3>4
      <4>2. q[i + 1] = p[i]
        BY <4>1
      <4> HIDE DEF q
      <4> QED
        BY <3>2, <4>1, <4>2
    <3> QED
      BY <1>2, <3>3, <3>4
  <2> QED
    BY <2>1, <2>2
<1> HIDE DEF q
<1>16. Permutes(q, n)
  BY <1>11, <1>14, <1>15 DEF Permutes
<1> QED
  BY <1>6, <1>8, <1>12, <1>16 DEF Orders

(* f says of every number how that many tuples may be ordered.             *)
IsOrders(f, ts) ==
  f = [n \in 0 .. Len(ts) |-> IF n = 0 THEN {<<>>}
                              ELSE UNION {Insertions(s, ts[n]) : s \in f[n - 1]}]

(* OrdersExists: there is such a function.                                 *)
LEMMA OrdersExists ==
  ASSUME NEW ts, ts \in Seq(FullTuple)
  PROVE  \E f : IsOrders(f, ts)
<1>1. PICK l \in Nat : l = Len(ts)
  OBVIOUS
<1> DEFINE P == 0 .. l
           V == SUBSET Seq(FullTuple)
           size == [x \in P |-> x]
           More(S, n) == UNION {Insertions(s, ts[n]) : s \in S}
           Step(h, x) == IF x = 0 THEN {<<>>} ELSE More(h[x - 1], x)
           step == [xh \in P \X [P -> V] |-> Step(xh[2], xh[1])]
<1>2. ASSUME NEW x \in P, NEW h \in [P -> V] PROVE Step(h, x) \in V
  <2>1. CASE x = 0
    BY <2>1
  <2>2. CASE x # 0
    <3>1. x - 1 \in P /\ x \in 1 .. Len(ts)
      BY <1>1, <2>2
    <3>2. h[x - 1] \in V
      <4> HIDE DEF P, V
      <4> QED
        BY <3>1
    <3>3. ts[x] \in FullTuple
      BY <3>1
    <3>4. ASSUME NEW s \in h[x - 1], NEW r \in Insertions(s, ts[x]) PROVE r \in Seq(FullTuple)
      <4>1. s \in Seq(FullTuple)
        BY <3>2
      <4>2. PICK t \in FullTuple : t = ts[x]
        BY <3>3
      <4>3. \E k \in 1 .. Len(s) + 1 : Inserted(r, s, k, t)
        BY <3>4, <4>1, <4>2, InsertionIs
      <4> QED
        BY <4>3 DEF Inserted
    <3>5. More(h[x - 1], x) \in V
      BY <3>4
    <3> HIDE DEF More
    <3> QED
      BY <2>2, <3>5
  <2> QED
    BY <2>1, <2>2
<1>3. Descends(P, V, size, step)
  <2>1. size \in [P -> Nat]
    OBVIOUS
  <2>2. step \in [P \X [P -> V] -> V]
    <3> HIDE DEF P, V, Step
    <3> QED
      BY <1>2
  <2>3. ASSUME NEW x \in P, NEW h \in [P -> V], NEW k \in [P -> V],
               \A y \in P : size[y] < size[x] => h[y] = k[y]
        PROVE  step[<<x, h>>] = step[<<x, k>>]
    <3>1. step[<<x, h>>] = Step(h, x) /\ step[<<x, k>>] = Step(k, x)
      <4> HIDE DEF P, V, Step
      <4> QED
        OBVIOUS
    <3>2. x # 0 => x - 1 \in P /\ size[x - 1] < size[x]
      OBVIOUS
    <3>3. x # 0 => h[x - 1] = k[x - 1]
      BY <2>3, <3>2
    <3> HIDE DEF P, V, More, step
    <3> QED
      BY <3>1, <3>3
  <2> HIDE DEF P, V, size, step
  <2> QED
    BY <2>1, <2>2, <2>3 DEF Descends
<1>4. PICK f : Solves(f, P, V, step)
  <2>1. V # {}
    OBVIOUS
  <2> HIDE DEF P, V, size, step
  <2> QED
    BY <1>3, <2>1, Recursion
<1>5. f \in [P -> V] /\ \A x \in P : f[x] = Step(f, x)
  <2>1. f \in [P -> V] /\ \A x \in P : f[x] = step[<<x, f>>]
    <3> HIDE DEF P, V, step
    <3> QED
      BY <1>4 DEF Solves
  <2> HIDE DEF P, V, Step
  <2> QED
    BY <2>1
<1>6. f = [x \in P |-> Step(f, x)]
  <2> HIDE DEF P, V, Step
  <2> QED
    BY <1>5
<1> HIDE DEF V
<1> QED
  BY <1>1, <1>6 DEF IsOrders

(* SortingsIs: every order that sorting may leave tuples in has all of     *)
(* them, and in order.                                                     *)
LEMMA SortingsIs ==
  ASSUME NEW ts, ts \in Seq(FullTuple), NEW s \in Sortings(ts)
  PROVE  Orders(s, ts, Len(ts))
<1>1. PICK f : f = CHOOSE x : IsOrders(x, ts)
  OBVIOUS
<1>2. Sortings(ts) = f[Len(ts)]
  BY <1>1 DEF Sortings, IsOrders, Insertions
<1>3. IsOrders(f, ts)
  BY <1>1, OrdersExists
<1>4. PICK l \in Nat : l = Len(ts)
  OBVIOUS
<1>5. /\ f[0] = {<<>>}
      /\ \A n \in 1 .. l : f[n] = UNION {Insertions(x, ts[n]) : x \in f[n - 1]}
  <2>1. PICK g : g = f
    OBVIOUS
  <2>2. f = [n \in 0 .. l |-> IF n = 0 THEN {<<>>} ELSE UNION {Insertions(x, ts[n]) : x \in g[n - 1]}]
    BY <1>3, <1>4, <2>1 DEF IsOrders
  <2> DEFINE U(n) == UNION {Insertions(x, ts[n]) : x \in g[n - 1]}
             none == {<<>>}
  <2>3. \A n \in 0 .. l : f[n] = IF n = 0 THEN none ELSE U(n)
    BY <2>2
  <2>4. f[0] = none /\ \A n \in 1 .. l : f[n] = U(n)
    <3> HIDE DEF U, none
    <3>1. 0 \in 0 .. l /\ \A n \in 1 .. l : n \in 0 .. l /\ n # 0
      OBVIOUS
    <3> QED
      BY <2>3, <3>1
  <2> QED
    BY <2>1, <2>4, Zenon
<1> DEFINE T == {n \in Nat : n <= l => \A r \in f[n] : Orders(r, ts, n)}
<1>6. 0 \in T
  <2>1. Orders(<<>>, ts, 0)
    <3>1. PICK p : p = [i \in 1 .. 0 |-> i]
      OBVIOUS
    <3>2. Permutes(p, 0)
      BY <3>1 DEF Permutes
    <3>3. <<>> \in Seq(FullTuple) /\ Len(<<>>) = 0 /\ AscendingKeys(<<>>)
      BY DEF AscendingKeys
    <3>4. \A i \in 1 .. 0 : <<>>[i] = ts[p[i]]
      OBVIOUS
    <3> QED
      BY <3>2, <3>3, <3>4 DEF Orders
  <2> QED
    BY <1>5, <2>1
<1>7. ASSUME NEW n \in Nat, n \in T PROVE n + 1 \in T
  <2>1. ASSUME n + 1 <= l, NEW r \in f[n + 1] PROVE Orders(r, ts, n + 1)
    <3>1. n + 1 \in 1 .. l /\ (n + 1) - 1 = n
      BY <2>1
    <3>2. PICK x \in f[n] : r \in Insertions(x, ts[n + 1])
      BY <1>5, <2>1, <3>1
    <3>3. Orders(x, ts, n)
      BY <1>7, <3>1
    <3>4. PICK k : k = n + 1
      OBVIOUS
    <3>5. k \in 1 .. Len(ts) /\ Orders(x, ts, k - 1) /\ r \in Insertions(x, ts[k])
      BY <1>4, <3>1, <3>2, <3>3, <3>4
    <3>6. Orders(r, ts, k)
      BY <3>5, OrdersMore
    <3> QED
      BY <3>4, <3>6
  <2> QED
    BY <2>1
<1>8. Nat \subseteq T
  <2> HIDE DEF T
  <2> QED
    BY <1>6, <1>7, NatSetInduction
<1>9. \A r \in f[l] : Orders(r, ts, l)
  BY <1>8
<1> QED
  BY <1>2, <1>4, <1>9

-----------------------------------------------------------------------------
(* The order of the joins *)

Has(s, x) == \E k \in 1 .. Len(s) : s[k] = x

(* HasPrepended: what a list with one more in front has.                   *)
LEMMA HasPrepended ==
  ASSUME NEW D, NEW x \in D, NEW u \in Seq(D)
  PROVE  Has(<<x>> \o u, x) /\ \A y : Has(u, y) => Has(<<x>> \o u, y)
<1> DEFINE r == <<x>> \o u
<1>1. Len(u) \in Nat /\ Len(r) = Len(u) + 1 /\ r[1] = x /\ \A m \in 1 .. Len(u) : r[m + 1] = u[m]
  OBVIOUS
<1> HIDE DEF r
<1>2. Has(r, x)
  BY <1>1 DEF Has
<1>3. ASSUME NEW y, Has(u, y) PROVE Has(r, y)
  <2>1. PICK m \in 1 .. Len(u) : u[m] = y
    BY <1>3 DEF Has
  <2>2. m + 1 \in 1 .. Len(r) /\ r[m + 1] = y
    BY <1>1, <2>1
  <2> QED
    BY <2>2 DEF Has
<1> QED
  BY <1>2, <1>3 DEF r

(* HasTail: what a list has is its head or in its tail.                    *)
LEMMA HasTail ==
  ASSUME NEW D, NEW a \in Seq(D), a # <<>>, NEW y, Has(a, y)
  PROVE  y = Head(a) \/ Has(Tail(a), y)
<1>1. /\ Head(a) = a[1] /\ Len(Tail(a)) = Len(a) - 1
      /\ Len(a) \in Nat \ {0} /\ \A m \in 1 .. Len(a) - 1 : Tail(a)[m] = a[m + 1]
  OBVIOUS
<1>2. PICK m \in 1 .. Len(a) : a[m] = y
  BY DEF Has
<1>3. CASE m = 1
  BY <1>1, <1>2, <1>3
<1>4. CASE m # 1
  <2>1. m - 1 \in 1 .. Len(a) - 1 /\ (m - 1) + 1 = m
    BY <1>1, <1>4
  <2>2. Tail(a)[m - 1] = y /\ m - 1 \in 1 .. Len(Tail(a))
    BY <1>1, <1>2, <2>1
  <2> QED
    BY <2>2 DEF Has
<1> QED
  BY <1>3, <1>4

(* HasHalf: what a list has is in its first or in its second half.         *)
LEMMA HasHalf ==
  ASSUME NEW D, NEW t \in Seq(D), Len(t) > 2, NEW y, Has(t, y)
  PROVE  Has(SubSeq(t, 1, Half(t)), y) \/ Has(SubSeq(t, Half(t) + 1, Len(t)), y)
<1> DEFINE a == SubSeq(t, 1, Half(t))
           b == SubSeq(t, Half(t) + 1, Len(t))
<1>1. PICK n \in Nat : n = Len(t)
  OBVIOUS
<1>2. PICK h : h = Half(t)
  OBVIOUS
<1>3. h \in 1 .. n - 1
  BY <1>1, <1>2, Halves
<1>4. Len(a) = h /\ \A p \in 1 .. h : a[p] = t[p]
  <2>1. /\ 1 \in 1 .. Len(t) + 1 /\ h \in 1 - 1 .. Len(t) /\ h - 1 + 1 = h
        /\ \A p \in 1 .. h : 1 + p - 1 = p
    BY <1>1, <1>3
  <2>2. /\ Len(a) = h - 1 + 1 /\ \A p \in 1 .. h - 1 + 1 : a[p] = t[1 + p - 1]
    BY <1>2, <2>1, SubSeqIs
  <2> HIDE DEF a
  <2> QED
    BY <2>1, <2>2
<1>5. Len(b) = n - h /\ \A p \in 1 .. n - h : b[p] = t[h + p]
  <2>1. /\ h + 1 \in 1 .. Len(t) + 1 /\ Len(t) \in (h + 1) - 1 .. Len(t) /\ Len(t) - (h + 1) + 1 = n - h
        /\ \A p \in 1 .. n - h : h + 1 + p - 1 = h + p
    BY <1>1, <1>3
  <2>2. /\ Len(b) = Len(t) - (h + 1) + 1
        /\ \A p \in 1 .. Len(t) - (h + 1) + 1 : b[p] = t[h + 1 + p - 1]
    BY <1>2, <2>1, SubSeqIs
  <2> HIDE DEF b
  <2> QED
    BY <2>1, <2>2
<1> HIDE DEF a, b
<1>6. PICK m \in 1 .. n : t[m] = y
  BY <1>1 DEF Has
<1>7. CASE m <= h
  <2>1. m \in 1 .. h
    BY <1>3, <1>7
  <2> QED
    BY <1>4, <1>6, <2>1 DEF Has, a
<1>8. CASE m > h
  <2>1. m - h \in 1 .. n - h /\ h + (m - h) = m
    BY <1>3, <1>8
  <2>2. Has(b, y)
    BY <1>5, <1>6, <2>1 DEF Has
  <2> QED
    BY <2>2 DEF b
<1> QED
  BY <1>3, <1>7, <1>8

(* MergeHas: the merge loses nothing.                                      *)
LEMMA MergeHas ==
  ASSUME NEW D, NEW f, Merges(f, D), NEW x \in Seq(D), NEW y \in Seq(D),
         NEW v, Has(x, v) \/ Has(y, v)
  PROVE  Has(f[<<x, y>>], v)
<1> DEFINE L == Seq(D)
           Short(a, b, n) == Len(a) + Len(b) < n
           T == {n \in Nat : \A a, b \in L : Short(a, b, n) /\ (Has(a, v) \/ Has(b, v)) =>
                               Has(f[<<a, b>>], v)}
<1>0. \A a, b \in L : f[<<a, b>>] \in L /\ f[<<a, b>>] = MergeStep(f, a, b)
  <2>1. f \in [L \X L -> L]
    BY DEF Merges
  <2>2. \A a, b \in L : f[<<a, b>>] \in L
    <3> HIDE DEF L
    <3> QED
      BY <2>1
  <2> QED
    BY <2>2 DEF Merges
<1>1. 0 \in T
  <2>1. \A a, b \in L : ~ Short(a, b, 0)
    OBVIOUS
  <2> HIDE DEF Short, L
  <2> QED
    BY <2>1
<1>2. ASSUME NEW n \in Nat, n \in T PROVE n + 1 \in T
  <2>1. ASSUME NEW a \in L, NEW b \in L, Short(a, b, n + 1), Has(a, v) \/ Has(b, v)
        PROVE  Has(f[<<a, b>>], v)
    <3> DEFINE r == f[<<a, b>>]
    <3>1. CASE a = <<>> \/ b = <<>>
      <4>1. ~ Has(<<>>, v)
        BY DEF Has
      <4>2. (r = b /\ a = <<>>) \/ (r = a /\ b = <<>>)
        BY <1>0, <3>1 DEF MergeStep
      <4> QED
        BY <2>1, <4>1, <4>2
    <3>2. CASE a # <<>> /\ b # <<>>
      <4>1. /\ Head(a) \in D /\ Tail(a) \in L /\ Len(Tail(a)) = Len(a) - 1 /\ Len(a) \in Nat
            /\ Head(b) \in D /\ Tail(b) \in L /\ Len(Tail(b)) = Len(b) - 1 /\ Len(b) \in Nat
        BY <3>2
      <4>2. Short(Tail(a), b, n) /\ Short(a, Tail(b), n)
        BY <2>1, <4>1
      <4>3. Has(a, v) => v = Head(a) \/ Has(Tail(a), v)
        BY <3>2, HasTail
      <4>4. Has(b, v) => v = Head(b) \/ Has(Tail(b), v)
        BY <3>2, HasTail
      <4> DEFINE u == f[<<Tail(a), b>>]
                 w == f[<<a, Tail(b)>>]
      <4> HIDE DEF Short, L
      <4>5. (Has(Tail(a), v) \/ Has(b, v)) => Has(u, v)
        BY <1>2, <2>1, <4>1, <4>2
      <4>6. (Has(a, v) \/ Has(Tail(b), v)) => Has(w, v)
        BY <1>2, <2>1, <4>1, <4>2
      <4>7. u \in Seq(D) /\ w \in Seq(D)
        BY <1>0, <2>1, <4>1 DEF L
      <4>8. r = IF pred_cmp(Head(a), Head(b)) < 0 THEN <<Head(a)>> \o u ELSE <<Head(b)>> \o w
        BY <1>0, <2>1, <3>2 DEF MergeStep
      <4> HIDE DEF u, w
      <4>9. Has(<<Head(a)>> \o u, Head(a)) /\ (Has(u, v) => Has(<<Head(a)>> \o u, v))
        BY <4>1, <4>7, HasPrepended
      <4>10. Has(<<Head(b)>> \o w, Head(b)) /\ (Has(w, v) => Has(<<Head(b)>> \o w, v))
        BY <4>1, <4>7, HasPrepended
      <4> QED
        BY <2>1, <4>3, <4>4, <4>5, <4>6, <4>8, <4>9, <4>10
    <3> QED
      BY <3>1, <3>2
  <2> HIDE DEF Short, L
  <2> QED
    BY <2>1
<1> HIDE DEF T
<1>3. Nat \subseteq T
  BY <1>1, <1>2, NatSetInduction
<1>4. Len(x) + Len(y) + 1 \in T /\ Short(x, y, Len(x) + Len(y) + 1)
  BY <1>3
<1> QED
  <2> HIDE DEF Short
  <2> QED
    BY <1>4 DEF T

(* SortHas: nor does the sort.                                             *)
LEMMA SortHas ==
  ASSUME NEW D, NEW f, Merges(f, D), NEW g, Sorts(g, f, D), NEW s \in Seq(D),
         NEW v, Has(s, v)
  PROVE  Has(g[s], v)
<1> DEFINE L == Seq(D)
           Short(t, n) == Len(t) < n
           T == {n \in Nat : \A t \in L : Short(t, n) /\ Has(t, v) => Has(g[t], v)}
<1>0. \A t \in L : g[t] \in L /\ g[t] = SortStep(g, f, t)
  <2>1. g \in [L -> L]
    BY DEF Sorts
  <2>2. \A t \in L : g[t] \in L
    <3> HIDE DEF L
    <3> QED
      BY <2>1
  <2> QED
    BY <2>2 DEF Sorts
<1>1. 0 \in T
  <2>1. \A t \in L : ~ Short(t, 0)
    OBVIOUS
  <2> HIDE DEF Short, L
  <2> QED
    BY <2>1
<1>2. ASSUME NEW n \in Nat, n \in T PROVE n + 1 \in T
  <2>1. ASSUME NEW t \in L, Short(t, n + 1), Has(t, v) PROVE Has(g[t], v)
    <3>1. Len(t) \in Nat /\ Len(t) < n + 1
      BY <2>1
    <3>2. CASE Len(t) <= 1
      <4>1. g[t] = t
        BY <1>0, <3>2 DEF SortStep
      <4> QED
        BY <2>1, <4>1
    <3>3. CASE Len(t) = 2
      <4>2. g[t] = IF pred_cmp(t[1], t[2]) > 0 THEN <<t[2], t[1]>> ELSE t
        <5>1. ~ (Len(t) <= 1)
          BY <3>3
        <5> QED
          BY <1>0, <2>1, <3>3, <5>1 DEF SortStep
      <4>3. PICK m \in 1 .. 2 : t[m] = v
        BY <2>1, <3>3 DEF Has
      <4>4. Has(<<t[2], t[1]>>, v)
        <5>1. Len(<<t[2], t[1]>>) = 2 /\ <<t[2], t[1]>>[1] = t[2] /\ <<t[2], t[1]>>[2] = t[1]
          OBVIOUS
        <5>2. m = 1 \/ m = 2
          OBVIOUS
        <5>3. 1 \in 1 .. 2 /\ 2 \in 1 .. 2
          OBVIOUS
        <5> QED
          BY <4>3, <5>1, <5>2, <5>3 DEF Has
      <4> QED
        BY <2>1, <4>2, <4>4
    <3>4. CASE Len(t) > 2
      <4> DEFINE a == SubSeq(t, 1, Half(t))
                 b == SubSeq(t, Half(t) + 1, Len(t))
      <4>1. a \in L /\ b \in L /\ Len(a) \in 1 .. Len(t) - 1 /\ Len(b) \in 1 .. Len(t) - 1
        BY <3>4, Halves
      <4>2. Short(a, n) /\ Short(b, n)
        BY <3>1, <4>1
      <4>3. ~ (Len(t) <= 1) /\ Len(t) # 2
        BY <3>1, <3>4, OneTwoMore
      <4>4. g[t] = f[<<g[a], g[b]>>]
        BY <1>0, <2>1, <4>3 DEF SortStep, a, b
      <4>5. Has(a, v) \/ Has(b, v)
        BY <2>1, <3>4, HasHalf
      <4> HIDE DEF a, b, Short
      <4>6. (Has(g[a], v) \/ Has(g[b], v)) /\ g[a] \in L /\ g[b] \in L
        <5> HIDE DEF L
        <5> QED
          BY <1>0, <1>2, <4>1, <4>2, <4>5
      <4>7. Has(f[<<g[a], g[b]>>], v)
        BY <4>6, MergeHas
      <4> QED
        BY <4>4, <4>7
    <3> QED
      BY <3>1, <3>2, <3>3, <3>4, OneTwoMore
  <2> HIDE DEF L, Short
  <2> QED
    BY <2>1
<1> HIDE DEF T
<1>3. Nat \subseteq T
  BY <1>1, <1>2, NatSetInduction
<1>4. Len(s) + 1 \in T /\ Short(s, Len(s) + 1)
  BY <1>3
<1> QED
  BY <1>4 DEF T

(* SortKeepsAll: sorting the joins loses and adds none.                    *)
LEMMA SortKeepsAll ==
  ASSUME NEW E, NEW s, s \in Seq(E)
  PROVE  /\ nodelist_mergesort(s) \in Seq(ToSet(s))
         /\ ToSet(nodelist_mergesort(s)) = ToSet(s)
<1>1. PICK D : D = {s[k] : k \in DOMAIN s}
  OBVIOUS
<1>2. D = ToSet(s) /\ s \in Seq(D)
  BY <1>1 DEF ToSet
<1>3. PICK f : \E g : Merges(f, D) /\ Sorts(g, f, D) /\ nodelist_mergesort(s) = g[s]
  BY <1>1, MergesortIs
<1>4. PICK g : Merges(f, D) /\ Sorts(g, f, D) /\ nodelist_mergesort(s) = g[s]
  BY <1>3
<1>5. PICK r : r = nodelist_mergesort(s)
  OBVIOUS
<1>6. r \in Seq(D)
  <2>1. g \in [Seq(D) -> Seq(D)]
    BY <1>4 DEF Sorts
  <2> QED
    BY <1>2, <1>4, <1>5, <2>1
<1>7. ToSet(r) \subseteq D
  BY <1>6 DEF ToSet
<1>8. ASSUME NEW v \in D PROVE v \in ToSet(r)
  <2>1. Has(s, v)
    BY <1>1, <1>2 DEF Has
  <2>2. Has(r, v)
    BY <1>2, <1>4, <1>5, <2>1, SortHas
  <2> QED
    BY <1>6, <2>2 DEF Has, ToSet
<1> QED
  BY <1>2, <1>5, <1>6, <1>7, <1>8

-----------------------------------------------------------------------------
(* Values *)

(* Value and RowIds, of relations d.                                       *)
Val(d, end, id) ==
  LET column == d[end.key].column
  IN  IF id # Empty.id THEN column[end.payload][id]
      ELSE IF end.payload = 0 THEN Cardinality(DOMAIN column)
      ELSE column[end.payload - 1][d[end.key].rows - 1]

IdsIn(d, c) == 0 .. d[c].rows - 1

(* ValueIs: they are those of rels.                                        *)
LEMMA ValueIs ==
  /\ \A end, id : Value(end, id) = Val(rels, end, id)
  /\ \A c : RowIds(c) = IdsIn(rels, c)
BY DEF Value, Val, RowIds, IdsIn

(* ValIs: a row of a relation has a number in every column.                *)
LEMMA ValIs ==
  ASSUME NEW d \in Databases, NEW end, IsEnd(end), NEW id \in IdsIn(d, end.key)
  PROVE  Val(d, end, id) \in Nat /\ id \in Nat
<1>1. IsDatabase(d)
  BY EngineAssumption
<1>2. end.key \in Columns /\ end.payload \in DOMAIN d[end.key].column
  BY DEF IsEnd
<1>3. d[end.key].rows \in Nat /\ d[end.key].column[end.payload] \in [0 .. d[end.key].rows - 1 -> Nat]
  BY <1>1, <1>2 DEF IsDatabase
<1>4. id \in Nat /\ id # -1 /\ id \in 0 .. d[end.key].rows - 1
  BY <1>3 DEF IdsIn
<1>5. d[end.key].column[end.payload][id] \in Nat
  BY <1>3, <1>4
<1>6. Val(d, end, id) = d[end.key].column[end.payload][id]
  BY <1>4 DEF Val, Empty
<1> QED
  BY <1>4, <1>5, <1>6

(* IdsAre: the row ids of a relation.                                      *)
LEMMA IdsAre ==
  ASSUME NEW d \in Databases, NEW c \in Columns
  PROVE  d[c].rows \in Nat /\ IdsIn(d, c) \subseteq 0 .. d[c].rows /\ IdsIn(d, c) \subseteq Nat
<1>1. d[c].rows \in Nat
  BY EngineAssumption DEF IsDatabase
<1> QED
  BY <1>1 DEF IdsIn

(* TuplesIs: the tuples of an attribute for row ids.                       *)
LEMMA TuplesIs ==
  ASSUME NEW d \in Databases, d = rels, NEW end, IsEnd(end),
         NEW ids, ids \in Seq(IdsIn(d, end.key)), NEW ts, ts = Tuples(end, ids)
  PROVE  /\ ts \in Seq(FullTuple) /\ Len(ts) = Len(ids)
         /\ \A i \in 1 .. Len(ids) : ts[i].id = ids[i] /\ ts[i].key = Val(d, end, ids[i])
<1>1. PICK n \in Nat : n = Len(ids)
  OBVIOUS
<1>2. \A i \in 1 .. n : ids[i] \in IdsIn(d, end.key)
  BY <1>1
<1>3. \A i \in 1 .. n : Val(d, end, ids[i]) \in Nat /\ ids[i] \in Nat
  BY <1>2, ValIs
<1>4. ts = [i \in 1 .. n |-> [key |-> Val(d, end, ids[i]), id |-> ids[i]]]
  BY <1>1, ValueIs DEF Tuples
<1>5. ts \in [1 .. n -> FullTuple]
  BY <1>3, <1>4 DEF FullTuple
<1>6. ts \in Seq(FullTuple) /\ Len(ts) = n
  BY <1>5, FunctionIsSeq
<1>7. \A i \in 1 .. n : ts[i] = [key |-> Val(d, end, ids[i]), id |-> ids[i]]
  BY <1>4
<1>8. ASSUME NEW i \in 1 .. n PROVE ts[i].id = ids[i] /\ ts[i].key = Val(d, end, ids[i])
  <2>1. PICK v : v = Val(d, end, ids[i])
    OBVIOUS
  <2>2. ts[i] = [key |-> v, id |-> ids[i]]
    BY <1>7, <2>1
  <2> QED
    BY <2>1, <2>2
<1> QED
  BY <1>1, <1>6, <1>8

-----------------------------------------------------------------------------
(* Good matrices *)

(* m is a matrix without gaps, of row ids of the relations d.              *)
Good(d, m) ==
  /\ m \in Matrices /\ Packed(m)
  /\ \A c \in Columns : \A i \in Nat \ {0} : Cell(m, i, c) # Empty => Cell(m, i, c).id \in IdsIn(d, c)

(* A column that is loaded is filled in every row that holds anything.     *)
Rectangular(m) ==
  \A c, e \in Columns : \A i \in Nat \ {0} :
    Cell(m, 1, c) # Empty /\ Cell(m, i, e) # Empty => Cell(m, i, c) # Empty

(* A column holds the values of an attribute, in order.                    *)
Keyed(d, m, end) ==
  /\ \A i \in Nat \ {0} : Cell(m, i, end.key) # Empty =>
       Cell(m, i, end.key).key = Val(d, end, Cell(m, i, end.key).id)
  /\ \A i, k \in Nat \ {0} : i <= k /\ Cell(m, k, end.key) # Empty =>
       Cell(m, i, end.key).key <= Cell(m, k, end.key).key

(* No row holds anything.                                                  *)
Blank(m) == \A c \in Columns : Cell(m, 1, c) = Empty

(* CellFull: a cell that is not empty has a tuple of numbers.              *)
LEMMA CellFull ==
  ASSUME NEW m \in Matrices, NEW i, NEW c \in Columns, Cell(m, i, c) # Empty
  PROVE  Cell(m, i, c) \in FullTuple
BY CellTyped DEF AnyTuple, FullTuple

(* BlankIs: what the engine takes for an empty matrix.                     *)
LEMMA BlankIs ==
  ASSUME NEW d, NEW m, Good(d, m)
  PROVE  /\ Blank(m) <=> Used(m) = 0
         /\ Blank(m) <=> matrix_isempty(m) \/ IsEmptyRow(m.data[1])
         /\ Blank(m) => \A c \in Columns : \A i \in Nat \ {0} : Cell(m, i, c) = Empty
         /\ Blank(m) => \A c \in Columns : matrix_col_size(m, c) = 0
         /\ Used(m) \in Nat
<1>1. m \in Matrices /\ Packed(m)
  BY DEF Good
<1>2. Rows(m) \in Nat
  BY <1>1 DEF Matrices, Rows
<1>3. Used(m) \in Nat /\ \A i \in Nat \ {0} : i <= Used(m) <=> \E c \in Columns : Cell(m, i, c) # Empty
  BY <1>1, <1>2, UsedIs
<1>4. Blank(m) <=> ~ (1 <= Used(m))
  BY <1>3 DEF Blank
<1>5. Blank(m) <=> matrix_isempty(m) \/ IsEmptyRow(m.data[1])
  <2>1. CASE Rows(m) = 0
    BY <2>1 DEF Blank, Cell, matrix_isempty
  <2>2. CASE Rows(m) # 0
    <3>1. 1 \in 1 .. Rows(m)
      BY <1>2, <2>2
    <3> QED
      BY <2>2, <3>1 DEF Blank, Cell, matrix_isempty, IsEmptyRow
  <2> QED
    BY <2>1, <2>2
<1>6. ASSUME Blank(m), NEW c \in Columns, NEW i \in Nat \ {0} PROVE Cell(m, i, c) = Empty
  <2>1. ~ (i <= Used(m))
    BY <1>3, <1>4, <1>6
  <2> QED
    BY <1>3, <2>1
<1>7. ASSUME Blank(m), NEW c \in Columns PROVE matrix_col_size(m, c) = 0
  <2>1. PICK n : n = matrix_col_size(m, c)
    OBVIOUS
  <2>2. n \in 0 .. Rows(m) /\ \A i \in 1 .. n : Cell(m, i, c) # Empty
    BY <1>1, <2>1, SizeIs
  <2>3. ~ (1 \in 1 .. n)
    BY <1>7, <2>2 DEF Blank
  <2> QED
    BY <1>2, <2>1, <2>2, <2>3
<1> QED
  BY <1>3, <1>4, <1>5, <1>6, <1>7

(* GoodSize: the rows of a column.                                         *)
LEMMA GoodSize ==
  ASSUME NEW d, NEW m, Good(d, m), NEW c \in Columns, NEW n, n = matrix_col_size(m, c)
  PROVE  n \in Nat /\ \A i \in Nat \ {0} : Cell(m, i, c) # Empty <=> i <= n
<1>1. m \in Matrices /\ Packed(m)
  BY DEF Good
<1>2. Rows(m) \in Nat
  BY <1>1 DEF Matrices, Rows
<1> QED
  BY <1>1, <1>2, SizeIs

(* SetGood: a column is set to tuples of row ids, at least as many as there*)
(* were.                                                                   *)
LEMMA SetGood ==
  ASSUME NEW d, NEW m, Good(d, m), NEW c \in Columns,
         NEW ts, ts \in Seq(FullTuple), Len(ts) >= matrix_col_size(m, c),
         \A i \in 1 .. Len(ts) : ts[i].id \in IdsIn(d, c),
         NEW r, r = SetColumn(m, c, ts)
  PROVE  /\ Good(d, r) /\ r.col_map = m.col_map
         /\ \A i \in Nat \ {0} : Cell(r, i, c) = IF i <= Len(ts) THEN ts[i] ELSE Empty
         /\ \A i \in Nat \ {0} : \A e \in Columns \ {c} : Cell(r, i, e) = Cell(m, i, e)
<1>1. m \in Matrices /\ Packed(m)
  BY DEF Good
<1>2. ts \in Seq(AnyTuple)
  <2>1. FullTuple \subseteq AnyTuple
    BY DEF FullTuple, AnyTuple
  <2> QED
    BY <2>1
<1>3. /\ r \in Matrices /\ r.col_map = m.col_map
      /\ \A i \in Nat \ {0} : \A e \in Columns :
           Cell(r, i, e) = IF e = c /\ i <= Len(ts) THEN ts[i] ELSE Cell(m, i, e)
  BY <1>1, <1>2, SetColumnIs
<1>4. PICK n : n = matrix_col_size(m, c)
  OBVIOUS
<1>5. n \in Nat /\ \A i \in Nat \ {0} : Cell(m, i, c) # Empty <=> i <= n
  BY <1>4, GoodSize
<1>6. PICK l \in Nat : l = Len(ts) /\ l >= n
  BY <1>4
<1>7. \A i \in Nat \ {0} : Cell(r, i, c) = IF i <= l THEN ts[i] ELSE Empty
  <2>1. ASSUME NEW i \in Nat \ {0} PROVE Cell(r, i, c) = IF i <= l THEN ts[i] ELSE Empty
    <3>1. ~ (i <= l) => Cell(m, i, c) = Empty
      BY <1>5, <1>6
    <3> QED
      BY <1>3, <1>6, <3>1
  <2> QED
    BY <2>1
<1>8. \A i \in Nat \ {0} : \A e \in Columns \ {c} : Cell(r, i, e) = Cell(m, i, e)
  BY <1>3
<1>9. \A i \in 1 .. l : ts[i] # Empty
  <2>1. \A i \in 1 .. l : ts[i] \in FullTuple
    BY <1>6
  <2>2. Empty \notin FullTuple
    BY DEF Empty, FullTuple
  <2> QED
    BY <2>1, <2>2
<1>10. Packed(r)
  <2>1. ASSUME NEW e \in Columns, NEW i \in Nat \ {0}, NEW k \in Nat \ {0}, i < k, Cell(r, i, e) = Empty
        PROVE  Cell(r, k, e) = Empty
    <3>1. CASE e = c
      <4>1. ~ (i <= l)
        BY <1>7, <1>9, <2>1, <3>1
      <4>2. ~ (k <= l)
        BY <2>1, <4>1
      <4> QED
        BY <1>7, <3>1, <4>2
    <3>2. CASE e # c
      BY <1>1, <1>8, <2>1, <3>2 DEF Packed
    <3> QED
      BY <3>1, <3>2
  <2> QED
    BY <2>1 DEF Packed
<1>11. ASSUME NEW e \in Columns, NEW i \in Nat \ {0}, Cell(r, i, e) # Empty
       PROVE  Cell(r, i, e).id \in IdsIn(d, e)
  <2>1. CASE e = c
    <3>1. i \in 1 .. l
      BY <1>7, <1>11, <2>1
    <3> QED
      BY <1>6, <1>7, <2>1, <3>1
  <2>2. CASE e # c
    BY <1>8, <1>11, <2>2 DEF Good
  <2> QED
    BY <2>1, <2>2
<1>12. Good(d, r)
  BY <1>3, <1>10, <1>11 DEF Good
<1> QED
  BY <1>3, <1>6, <1>7, <1>8, <1>12

(* LoadedAtFirst: a column that holds anything holds something in its      *)
(* first row.                                                              *)
LEMMA LoadedAtFirst ==
  ASSUME NEW m, Packed(m), NEW c \in Columns, NEW i \in Nat \ {0}, Cell(m, i, c) # Empty
  PROVE  Cell(m, 1, c) # Empty
<1>1. i = 1 \/ 1 < i
  OBVIOUS
<1> QED
  BY <1>1 DEF Packed

(* r has n rows, each a row of m, in an order that does not fall, or one   *)
(* that is in use, with column c set.                                      *)
Extends(d, r, m, c, n, src, t) ==
  /\ n \in Nat
  /\ \A i \in 1 .. n : src[i] \in 1 .. Rows(m) /\ t[i] \in FullTuple /\ t[i].id \in IdsIn(d, c)
  /\ \/ \A i, k \in 1 .. n : i <= k => src[i] <= src[k]
     \/ Rectangular(m) /\ \A i \in 1 .. n : src[i] <= Used(m)
  /\ r = Replace(m, [i \in 1 .. n |-> [m.data[src[i]] EXCEPT ![c] = t[i]]])

(* ExtendGood: extending rows leaves a good matrix.                        *)
LEMMA ExtendGood ==
  ASSUME NEW d, NEW m, Good(d, m), NEW c \in Columns, NEW n, NEW src, NEW t, NEW r,
         Extends(d, r, m, c, n, src, t)
  PROVE  /\ Good(d, r) /\ r.col_map = m.col_map
         /\ \A i \in Nat \ {0} : Cell(r, i, c) = IF i <= n THEN t[i] ELSE Empty
         /\ \A i \in Nat \ {0} : \A e \in Columns \ {c} :
              Cell(r, i, e) = IF i <= n THEN Cell(m, src[i], e) ELSE Empty
         /\ Rectangular(m) /\ (\A i \in 1 .. n : src[i] <= Used(m)) => Rectangular(r)
<1>1. m \in Matrices /\ Packed(m)
  BY DEF Good
<1>2. Rows(m) \in Nat /\ \A i \in 1 .. Rows(m) : m.data[i] \in Row
  BY <1>1 DEF Matrices, Rows
<1>3. /\ n \in Nat
      /\ \A i \in 1 .. n : src[i] \in 1 .. Rows(m) /\ t[i] \in FullTuple /\ t[i].id \in IdsIn(d, c)
      /\ \/ \A i, k \in 1 .. n : i <= k => src[i] <= src[k]
         \/ Rectangular(m) /\ \A i \in 1 .. n : src[i] <= Used(m)
  BY DEF Extends
<1>4. Empty \notin FullTuple /\ FullTuple \subseteq AnyTuple
  BY DEF Empty, FullTuple, AnyTuple
<1> DEFINE row(i) == [m.data[src[i]] EXCEPT ![c] = t[i]]
           rows == [i \in 1 .. n |-> row(i)]
<1>5. ASSUME NEW i \in 1 .. n
      PROVE  /\ row(i) \in Row /\ row(i)[c] = t[i]
             /\ \A e \in Columns \ {c} : row(i)[e] = Cell(m, src[i], e)
  <2>1. PICK x : x = m.data[src[i]]
    OBVIOUS
  <2>2. x \in Row /\ t[i] \in AnyTuple
    BY <1>2, <1>3, <1>4, <2>1
  <2>3. [x EXCEPT ![c] = t[i]] \in Row /\ [x EXCEPT ![c] = t[i]][c] = t[i]
    BY <2>2 DEF Row
  <2>4. \A e \in Columns \ {c} : [x EXCEPT ![c] = t[i]][e] = x[e]
    BY <2>2 DEF Row
  <2>5. \A e \in Columns : Cell(m, src[i], e) = x[e]
    BY <1>3, <2>1 DEF Cell
  <2> QED
    BY <2>1, <2>3, <2>4, <2>5
<1>6. r = Replace(m, rows)
  BY DEF Extends
<1> HIDE DEF row
<1>7. rows \in Seq(Row) /\ Len(rows) = n /\ \A i \in 1 .. n : rows[i] = row(i)
  BY <1>3, <1>5
<1> HIDE DEF rows
<1>8. /\ r \in Matrices /\ r.col_map = m.col_map
      /\ \A i \in Nat \ {0} : \A e \in Columns :
           Cell(r, i, e) = IF i <= n THEN rows[i][e] ELSE Empty
  BY <1>1, <1>6, <1>7, ReplaceIs
<1>9. ASSUME NEW i \in Nat \ {0} PROVE i <= n <=> i \in 1 .. n
  BY <1>3
<1>10. \A i \in Nat \ {0} : Cell(r, i, c) = IF i <= n THEN t[i] ELSE Empty
  BY <1>5, <1>7, <1>8, <1>9
<1>11. \A i \in Nat \ {0} : \A e \in Columns \ {c} :
         Cell(r, i, e) = IF i <= n THEN Cell(m, src[i], e) ELSE Empty
  BY <1>5, <1>7, <1>8, <1>9
<1>12. \A i \in Nat \ {0} : i <= n => src[i] \in Nat \ {0} /\ src[i] \in 1 .. Rows(m)
  BY <1>2, <1>3, <1>9
<1>13. Used(m) \in Nat /\ \A i \in Nat \ {0} : i <= Used(m) <=> \E e \in Columns : Cell(m, i, e) # Empty
  BY <1>1, <1>2, UsedIs
<1>14. ASSUME Rectangular(m), \A i \in 1 .. n : src[i] <= Used(m),
              NEW e \in Columns \ {c}, NEW i \in Nat \ {0}, NEW k \in Nat \ {0}, i <= n, k <= n,
              Cell(m, src[k], e) # Empty
       PROVE  Cell(m, src[i], e) # Empty
  <2>1. src[i] \in Nat \ {0} /\ src[k] \in Nat \ {0} /\ src[i] <= Used(m)
    BY <1>9, <1>12, <1>14
  <2>2. Cell(m, 1, e) # Empty
    BY <1>1, <1>14, <2>1, LoadedAtFirst
  <2>3. \E y \in Columns : Cell(m, src[i], y) # Empty
    BY <1>13, <2>1
  <2> QED
    BY <1>14, <2>1, <2>2, <2>3 DEF Rectangular
<1>15. Packed(r)
  <2>1. ASSUME NEW e \in Columns, NEW i \in Nat \ {0}, NEW k \in Nat \ {0}, i < k, Cell(r, i, e) = Empty
        PROVE  Cell(r, k, e) = Empty
    <3>1. CASE ~ (k <= n)
      BY <1>8, <3>1
    <3>2. CASE k <= n
      <4>1. i <= n
        BY <1>3, <2>1, <3>2
      <4>2. e # c
        BY <1>3, <1>4, <1>9, <1>10, <2>1, <4>1
      <4>3. Cell(m, src[i], e) = Empty /\ Cell(r, k, e) = Cell(m, src[k], e)
        BY <1>11, <2>1, <3>2, <4>1, <4>2
      <4>4. CASE \A x, y \in 1 .. n : x <= y => src[x] <= src[y]
        <5>1. src[i] <= src[k]
          BY <1>9, <2>1, <3>2, <4>1, <4>4
        <5>2. src[i] = src[k] \/ src[i] < src[k]
          BY <1>12, <3>2, <4>1, <5>1
        <5> QED
          BY <1>1, <1>12, <3>2, <4>1, <4>3, <5>2 DEF Packed
      <4>5. CASE Rectangular(m) /\ \A x \in 1 .. n : src[x] <= Used(m)
        BY <1>14, <3>2, <4>1, <4>2, <4>3, <4>5
      <4> QED
        BY <1>3, <4>4, <4>5
    <3> QED
      BY <3>1, <3>2
  <2> QED
    BY <2>1 DEF Packed
<1>16. ASSUME NEW e \in Columns, NEW i \in Nat \ {0}, Cell(r, i, e) # Empty
       PROVE  Cell(r, i, e).id \in IdsIn(d, e)
  <2>1. i <= n
    BY <1>8, <1>16
  <2>2. CASE e = c
    BY <1>3, <1>9, <1>10, <2>1, <2>2
  <2>3. CASE e # c
    BY <1>11, <1>12, <1>16, <2>1, <2>3 DEF Good
  <2> QED
    BY <2>2, <2>3
<1>17. Good(d, r)
  BY <1>8, <1>15, <1>16 DEF Good
<1>18. ASSUME Rectangular(m), \A i \in 1 .. n : src[i] <= Used(m) PROVE Rectangular(r)
  <2>1. ASSUME NEW x \in Columns, NEW y \in Columns, NEW i \in Nat \ {0},
               Cell(r, 1, x) # Empty, Cell(r, i, y) # Empty
        PROVE  Cell(r, i, x) # Empty
    <3>1. i <= n /\ 1 <= n /\ 1 \in Nat \ {0}
      BY <1>8, <2>1
    <3>2. CASE x = c
      BY <1>3, <1>4, <1>9, <1>10, <3>1, <3>2
    <3>3. CASE x # c
      BY <1>11, <1>14, <1>18, <2>1, <3>1, <3>3
    <3> QED
      BY <3>2, <3>3
  <2> QED
    BY <2>1 DEF Rectangular
<1> QED
  BY <1>8, <1>10, <1>11, <1>17, <1>18

(* r has the first n of its rows from m, the others are empty.             *)
Takes(r, m, n, src) ==
  /\ n \in Nat
  /\ \A i \in 1 .. n : src[i] \in Nat \ {0}
  /\ \A i, k \in 1 .. n : i <= k => src[i] <= src[k]

(* KeyedFrom: a column of rows taken in order stays in order.              *)
LEMMA KeyedFrom ==
  ASSUME NEW d, NEW m, NEW r, NEW end, NEW n, NEW src, Takes(r, m, n, src),
         \A i \in Nat \ {0} :
           Cell(r, i, end.key) = IF i <= n THEN Cell(m, src[i], end.key) ELSE Empty,
         Keyed(d, m, end)
  PROVE  Keyed(d, r, end)
<1>1. ASSUME NEW i \in Nat \ {0}, i <= n
      PROVE  i \in 1 .. n /\ src[i] \in Nat \ {0} /\ Cell(r, i, end.key) = Cell(m, src[i], end.key)
  BY <1>1 DEF Takes
<1>2. ASSUME NEW i \in Nat \ {0}, Cell(r, i, end.key) # Empty PROVE i <= n
  BY <1>2
<1>3. ASSUME NEW i \in Nat \ {0}, Cell(r, i, end.key) # Empty
      PROVE  Cell(r, i, end.key).key = Val(d, end, Cell(r, i, end.key).id)
  BY <1>1, <1>2, <1>3 DEF Keyed
<1>4. ASSUME NEW i \in Nat \ {0}, NEW k \in Nat \ {0}, i <= k, Cell(r, k, end.key) # Empty
      PROVE  Cell(r, i, end.key).key <= Cell(r, k, end.key).key
  <2>1. k <= n
    BY <1>2, <1>4
  <2>2. i <= n
    BY <1>4, <2>1 DEF Takes
  <2>3. src[i] <= src[k]
    BY <1>1, <1>4, <2>1, <2>2 DEF Takes
  <2>4. Cell(m, src[k], end.key) # Empty
    BY <1>1, <1>4, <2>1
  <2>5. Cell(m, src[i], end.key).key <= Cell(m, src[k], end.key).key
    BY <1>1, <2>1, <2>2, <2>3, <2>4 DEF Keyed
  <2> QED
    BY <1>1, <2>1, <2>2, <2>5
<1> QED
  BY <1>3, <1>4 DEF Keyed

(* ClimbsAbove: numbers that rise from one on are not below their places.  *)
LEMMA ClimbsAbove ==
  ASSUME NEW n \in Nat, NEW s, \A i \in 1 .. n : s[i] \in Nat \ {0},
         \A i, k \in 1 .. n : i < k => s[i] < s[k]
  PROVE  \A i \in 1 .. n : i <= s[i]
<1> DEFINE T == {i \in Nat : i \in 1 .. n => i <= s[i]}
<1>1. 0 \in T
  OBVIOUS
<1>2. ASSUME NEW i \in Nat, i \in T PROVE i + 1 \in T
  <2>1. ASSUME i + 1 \in 1 .. n PROVE i + 1 <= s[i + 1]
    <3>1. CASE i = 0
      BY <2>1, <3>1
    <3>2. CASE i # 0
      <4>1. i \in 1 .. n /\ i < i + 1
        BY <2>1, <3>2
      <4>2. s[i] < s[i + 1] /\ i <= s[i] /\ s[i] \in Nat /\ s[i + 1] \in Nat
        BY <1>2, <2>1, <4>1
      <4> QED
        BY <4>2
    <3> QED
      BY <3>1, <3>2
  <2> QED
    BY <2>1
<1>3. Nat \subseteq T
  <2> HIDE DEF T
  <2> QED
    BY <1>1, <1>2, NatSetInduction
<1> QED
  BY <1>3

(* KeepGood: rows taken upwards leave a good matrix.                       *)
LEMMA KeepGood ==
  ASSUME NEW d, NEW m, Good(d, m), NEW kept, NEW S, S \in SUBSET (1 .. Used(m)), Enumerates(kept, S),
         NEW r, r = [m EXCEPT !.data = [i \in 1 .. Len(@) |->
                IF i <= Len(kept) THEN @[kept[i]] ELSE EmptyRow]]
  PROVE  /\ Good(d, r) /\ r.col_map = m.col_map
         /\ Takes(r, m, Len(kept), kept) /\ \A i \in 1 .. Len(kept) : kept[i] \in 1 .. Used(m)
         /\ \A i \in Nat \ {0} : \A e \in Columns :
              Cell(r, i, e) = IF i <= Len(kept) THEN Cell(m, kept[i], e) ELSE Empty
         /\ Rectangular(m) => Rectangular(r)
<1>1. m \in Matrices /\ Packed(m)
  BY DEF Good
<1>2. Rows(m) \in Nat /\ \A i \in 1 .. Rows(m) : m.data[i] \in Row
  BY <1>1 DEF Matrices, Rows
<1>3. Used(m) \in Nat /\ Used(m) <= Rows(m)
  <2>1. PICK h \in Nat : h = Rows(m)
    BY <1>2
  <2>2. Used(m) \in 0 .. h
    BY <1>1, <2>1, UsedIs
  <2>3. Used(m) \in Nat /\ Used(m) <= h
    BY <2>2
  <2> QED
    BY <2>1, <2>3
<1>4. PICK n \in Nat : n = Len(kept)
  <2>1. kept \in Seq(S)
    BY DEF Enumerates
  <2>2. Len(kept) \in Nat
    BY <2>1
  <2> QED
    BY <2>2, Zenon
<1>5. /\ \A i \in 1 .. n : kept[i] \in 1 .. Used(m)
      /\ \A i, k \in 1 .. n : i < k => kept[i] < kept[k]
  <2>1. \A i \in 1 .. n : kept[i] \in S
    BY <1>4 DEF Enumerates
  <2> QED
    BY <1>4, <2>1 DEF Enumerates
<1>6. \A i \in 1 .. n : kept[i] \in Nat \ {0} /\ kept[i] \in 1 .. Rows(m)
  BY <1>2, <1>3, <1>5
<1>7. n <= Rows(m)
  <2>1. \A i \in 1 .. n : i <= kept[i]
    BY <1>5, <1>6, ClimbsAbove
  <2>2. n # 0 => n \in 1 .. n
    OBVIOUS
  <2>3. n # 0 => n <= kept[n] /\ kept[n] \in 1 .. Rows(m)
    BY <1>6, <2>1, <2>2
  <2> QED
    BY <1>2, <2>3
<1> DEFINE row(i) == IF i <= n THEN m.data[kept[i]] ELSE EmptyRow
           data == [i \in 1 .. Rows(m) |-> row(i)]
<1>8. r = [m EXCEPT !.data = data]
  BY <1>4 DEF Rows
<1>9. EmptyRow \in Row /\ \A e \in Columns : EmptyRow[e] = Empty
  BY DEF EmptyRow, Row, AnyTuple
<1>10. \A i \in 1 .. Rows(m) : row(i) \in Row
  BY <1>2, <1>6, <1>9
<1>11. ASSUME NEW i \in 1 .. Rows(m), NEW e \in Columns
       PROVE  row(i)[e] = IF i <= n THEN Cell(m, kept[i], e) ELSE Empty
  BY <1>6, <1>9 DEF Cell
<1> HIDE DEF row
<1>12. data \in Seq(Row) /\ Len(data) = Rows(m) /\ \A i \in 1 .. Rows(m) : data[i] = row(i)
  BY <1>2, <1>10
<1> HIDE DEF data
<1>13. r \in Matrices /\ r.data = data /\ r.col_map = m.col_map
  BY <1>1, <1>8, <1>12 DEF Matrices
<1>14. Rows(r) = Rows(m)
  BY <1>12, <1>13 DEF Rows
<1>15. ASSUME NEW i \in Nat \ {0}, NEW e \in Columns
       PROVE  Cell(r, i, e) = IF i <= n THEN Cell(m, kept[i], e) ELSE Empty
  <2>1. CASE i \in 1 .. Rows(m)
    BY <1>11, <1>12, <1>13, <1>14, <2>1 DEF Cell
  <2>2. CASE i \notin 1 .. Rows(m)
    <3>1. ~ (i <= n)
      BY <1>2, <1>7, <2>2
    <3> QED
      BY <1>14, <2>2, <3>1 DEF Cell
  <2> QED
    BY <2>1, <2>2
<1>16. Takes(r, m, n, kept)
  <2>1. ASSUME NEW i \in 1 .. n, NEW k \in 1 .. n, i <= k PROVE kept[i] <= kept[k]
    <3>1. i = k \/ i < k
      BY <2>1
    <3> QED
      BY <1>5, <1>6, <3>1
  <2> QED
    BY <1>6, <2>1 DEF Takes
<1>17. Packed(r)
  <2>1. ASSUME NEW e \in Columns, NEW i \in Nat \ {0}, NEW k \in Nat \ {0}, i < k, Cell(r, i, e) = Empty
        PROVE  Cell(r, k, e) = Empty
    <3>1. CASE ~ (k <= n)
      BY <1>15, <3>1
    <3>2. CASE k <= n
      <4>1. i <= n /\ i \in 1 .. n /\ k \in 1 .. n
        BY <2>1, <3>2
      <4>2. kept[i] < kept[k] /\ kept[i] \in Nat \ {0} /\ kept[k] \in Nat \ {0}
        BY <1>5, <1>6, <2>1, <4>1
      <4>3. Cell(m, kept[i], e) = Empty /\ Cell(r, k, e) = Cell(m, kept[k], e)
        BY <1>15, <2>1, <3>2, <4>1
      <4> QED
        BY <1>1, <4>2, <4>3 DEF Packed
    <3> QED
      BY <3>1, <3>2
  <2> QED
    BY <2>1 DEF Packed
<1>18. ASSUME NEW e \in Columns, NEW i \in Nat \ {0}, Cell(r, i, e) # Empty
       PROVE  Cell(r, i, e).id \in IdsIn(d, e)
  <2>1. i <= n /\ i \in 1 .. n
    BY <1>15, <1>18
  <2>2. kept[i] \in Nat \ {0} /\ Cell(r, i, e) = Cell(m, kept[i], e)
    BY <1>6, <1>15, <2>1
  <2> QED
    BY <1>18, <2>2 DEF Good
<1>19. Good(d, r)
  BY <1>13, <1>17, <1>18 DEF Good
<1>20. ASSUME Rectangular(m) PROVE Rectangular(r)
  <2>1. ASSUME NEW x \in Columns, NEW y \in Columns, NEW i \in Nat \ {0},
               Cell(r, 1, x) # Empty, Cell(r, i, y) # Empty
        PROVE  Cell(r, i, x) # Empty
    <3>1. i <= n /\ 1 <= n /\ 1 \in Nat \ {0} /\ i \in 1 .. n /\ 1 \in 1 .. n
      BY <1>15, <2>1
    <3>2. /\ Cell(m, kept[1], x) # Empty /\ Cell(m, kept[i], y) # Empty
          /\ Cell(r, i, x) = Cell(m, kept[i], x)
          /\ kept[1] \in Nat \ {0} /\ kept[i] \in Nat \ {0}
      BY <1>6, <1>15, <2>1, <3>1
    <3>3. Cell(m, 1, x) # Empty
      BY <1>1, <3>2, LoadedAtFirst
    <3> QED
      BY <1>20, <3>2, <3>3 DEF Rectangular
  <2> QED
    BY <2>1 DEF Rectangular
<1> QED
  BY <1>4, <1>5, <1>13, <1>15, <1>16, <1>19, <1>20

-----------------------------------------------------------------------------
(* Filters *)

(* m has in column c the tuples ts and nothing beside.                     *)
Only(m, c, ts) ==
  \A i \in Nat \ {0} : \A e \in Columns :
    Cell(m, i, e) = IF e = c /\ i <= Len(ts) THEN ts[i] ELSE Empty

(* InRows: a row is within a sequence.                                     *)
LEMMA InRows ==
  ASSUME NEW n \in Nat, NEW i \in Nat \ {0}
  PROVE  i <= n <=> i \in 1 .. n
OBVIOUS

(* SetBlank: a column is set in a matrix that holds nothing.               *)
LEMMA SetBlank ==
  ASSUME NEW d, NEW m, Good(d, m), Blank(m), NEW c \in Columns,
         NEW ts, ts \in Seq(FullTuple),
         \A i \in 1 .. Len(ts) : ts[i].id \in IdsIn(d, c),
         NEW r, r = SetColumn(m, c, ts)
  PROVE  Good(d, r) /\ r.col_map = m.col_map /\ Only(r, c, ts) /\ Rectangular(r)
<1>1. \A e \in Columns : \A i \in Nat \ {0} : Cell(m, i, e) = Empty
  BY BlankIs
<1>2. PICK n \in Nat : n = Len(ts)
  OBVIOUS
<1>3. matrix_col_size(m, c) = 0
  BY BlankIs
<1>4. Len(ts) >= matrix_col_size(m, c)
  BY <1>2, <1>3
<1>5. /\ Good(d, r) /\ r.col_map = m.col_map
      /\ \A i \in Nat \ {0} : Cell(r, i, c) = IF i <= Len(ts) THEN ts[i] ELSE Empty
      /\ \A i \in Nat \ {0} : \A e \in Columns \ {c} : Cell(r, i, e) = Cell(m, i, e)
  BY <1>4, SetGood
<1>6. Only(r, c, ts)
  BY <1>1, <1>5 DEF Only
<1>7. Rectangular(r)
  <2>1. ASSUME NEW x \in Columns, NEW y \in Columns, NEW i \in Nat \ {0},
               Cell(r, 1, x) # Empty, Cell(r, i, y) # Empty
        PROVE  Cell(r, i, x) # Empty
    <3>1. x = c /\ y = c
      BY <1>6, <2>1 DEF Only
    <3> QED
      BY <2>1, <3>1
  <2> QED
    BY <2>1 DEF Rectangular
<1> QED
  BY <1>5, <1>6, <1>7

(* The row ids of a filter's relation that pass it.                        *)
Passing(d, p) ==
  {id \in IdsIn(d, p.left.key) :
     filter_pass(Val(d, p.left, id),
                 IF p.right.payload = Constant THEN p.right.key ELSE Val(d, p.right, id), p.op)}

(* PassingIs: what a filter makes of its relation.                         *)
LEMMA PassingIs ==
  ASSUME NEW d \in Databases, d = rels, NEW end, IsEnd(end),
         NEW S, S \in SUBSET IdsIn(d, end.key), NEW ts, ts = Tuples(end, InOrder(S))
  PROVE  /\ ts \in Seq(FullTuple)
         /\ \A i \in 1 .. Len(ts) : ts[i].id \in S /\ ts[i].key = Val(d, end, ts[i].id)
         /\ \A id \in S : \E i \in 1 .. Len(ts) : ts[i].id = id
         /\ \A i, k \in 1 .. Len(ts) : ts[i].id = ts[k].id => i = k
<1>1. end.key \in Columns
  BY DEF IsEnd
<1>2. PICK n \in Nat : IdsIn(d, end.key) \subseteq 0 .. n
  BY <1>1, IdsAre
<1>3. PICK ids : ids = InOrder(S)
  OBVIOUS
<1>4. Enumerates(ids, S)
  <2>1. S \in SUBSET (0 .. n)
    BY <1>2
  <2> QED
    BY <1>3, <2>1, InOrderIs
<1>5. PICK l \in Nat : l = Len(ids)
  BY <1>4 DEF Enumerates
<1>6. /\ ids \in Seq(IdsIn(d, end.key)) /\ \A i \in 1 .. l : ids[i] \in S /\ ids[i] \in Nat
  <2>1. ids \in Seq(S)
    BY <1>4 DEF Enumerates
  <2>2. \A i \in 1 .. l : ids[i] \in S
    BY <1>5, <2>1
  <2>3. S \subseteq Nat
    BY <1>2
  <2>4. \A i \in 1 .. l : ids[i] \in Nat
    BY <2>2, <2>3
  <2>5. \A i \in 1 .. l : ids[i] \in IdsIn(d, end.key)
    BY <2>2
  <2>6. ids \in Seq(IdsIn(d, end.key))
    BY <1>5, <2>1, <2>5
  <2> QED
    BY <2>2, <2>4, <2>6
<1>7. /\ ts \in Seq(FullTuple) /\ Len(ts) = l
      /\ \A i \in 1 .. l : ts[i].id = ids[i] /\ ts[i].key = Val(d, end, ids[i])
  BY <1>3, <1>5, <1>6, TuplesIs
<1>8. \A id \in S : \E i \in 1 .. l : ts[i].id = id
  BY <1>4, <1>5, <1>7 DEF Enumerates
<1>9. ASSUME NEW i \in 1 .. l, NEW k \in 1 .. l, ts[i].id = ts[k].id PROVE i = k
  <2>1. ids[i] = ids[k] /\ ids[i] \in Nat
    BY <1>6, <1>7, <1>9
  <2>2. ~ (i < k) /\ ~ (k < i)
    BY <1>4, <1>5, <2>1 DEF Enumerates
  <2> QED
    BY <2>2
<1> QED
  BY <1>6, <1>7, <1>8, <1>9

(* FilterAllIs: the first filter of a query.                               *)
LEMMA FilterAllIs ==
  ASSUME NEW d \in Databases, d = rels, Good(d, matrix), Blank(matrix), NEW p, IsPredicate(p),
         NEW r, r = query_filter_all(p)
  PROVE  /\ Good(d, r) /\ r.col_map = matrix.col_map /\ Rectangular(r)
         /\ \E ts : ts = Tuples(p.left, InOrder(Passing(d, p))) /\ Only(r, p.left.key, ts)
<1>1. PICK S : S = Passing(d, p)
  OBVIOUS
<1>2. S = {id \in RowIds(p.left.key) : filter_pass(Value(p.left, id), pred_value(p, id), p.op)}
  BY <1>1, ValueIs DEF Passing, pred_value
<1>3. PICK ts : ts = Tuples(p.left, InOrder(S))
  OBVIOUS
<1>4. r = SetColumn(matrix, p.left.key, ts)
  BY <1>2, <1>3 DEF query_filter_all
<1>5. IsEnd(p.left) /\ p.left.key \in Columns
  BY DEF IsPredicate, IsEnd
<1>6. S \in SUBSET IdsIn(d, p.left.key)
  BY <1>1 DEF Passing
<1>7. /\ ts \in Seq(FullTuple)
      /\ \A i \in 1 .. Len(ts) : ts[i].id \in IdsIn(d, p.left.key)
  <2>1. /\ ts \in Seq(FullTuple) /\ \A i \in 1 .. Len(ts) : ts[i].id \in S
    BY <1>3, <1>5, <1>6, PassingIs
  <2> QED
    BY <1>6, <2>1
<1>8. Good(d, r) /\ r.col_map = matrix.col_map /\ Only(r, p.left.key, ts) /\ Rectangular(r)
  BY <1>4, <1>5, <1>7, SetBlank
<1> QED
  BY <1>1, <1>3, <1>8

(* r has every row in use of m with every tuple of ts in column c.         *)
Multiplies(r, m, c, ts) ==
  LET used == Used(m)
  IN  /\ \A i \in Nat \ {0} : Cell(r, i, c) =
           IF i <= Len(ts) * used THEN ts[((i - 1) \div used) + 1] ELSE Empty
      /\ \A i \in Nat \ {0} : \A e \in Columns \ {c} : Cell(r, i, e) =
           IF i <= Len(ts) * used THEN Cell(m, ((i - 1) % used) + 1, e) ELSE Empty

(* FilterExistingIs: a further filter.                                     *)
LEMMA FilterExistingIs ==
  ASSUME NEW d \in Databases, d = rels, Good(d, matrix), Rectangular(matrix),
         NEW p, IsPredicate(p), IsConstant(p.right) \/ p.right.key = p.left.key,
         NEW r, r = query_filter_existing(p)
  PROVE  /\ Good(d, r) /\ r.col_map = matrix.col_map /\ Rectangular(r)
         /\ \E S, ts : /\ S \in SUBSET IdsIn(d, p.left.key)
                       /\ IsConstant(p.right) => S = Passing(d, p)
                       /\ ts = Tuples(p.left, InOrder(S))
                       /\ Multiplies(r, matrix, p.left.key, ts)
<1>1. PICK S : S = {id \in IdsIn(d, p.left.key) : filter_pass(Val(d, p.left, id), p.right.key, p.op)}
  OBVIOUS
<1>2. S = {id \in RowIds(p.left.key) : filter_pass(Value(p.left, id), p.right.key, p.op)}
  BY <1>1, ValueIs
<1>3. PICK ts : ts = Tuples(p.left, InOrder(S))
  OBVIOUS
<1>4. PICK u : u = Used(matrix)
  OBVIOUS
<1>5. r = Replace(matrix, [n \in 1 .. Len(ts) * u |->
                             [matrix.data[((n - 1) % u) + 1]
                                EXCEPT ![p.left.key] = ts[((n - 1) \div u) + 1]]])
  BY <1>2, <1>3, <1>4 DEF query_filter_existing
<1>6. IsEnd(p.left) /\ p.left.key \in Columns
  BY DEF IsPredicate, IsEnd
<1>7. S \in SUBSET IdsIn(d, p.left.key)
  BY <1>1
<1>8. /\ ts \in Seq(FullTuple)
      /\ \A i \in 1 .. Len(ts) : ts[i].id \in IdsIn(d, p.left.key)
  <2>1. /\ ts \in Seq(FullTuple) /\ \A i \in 1 .. Len(ts) : ts[i].id \in S
    BY <1>3, <1>6, <1>7, PassingIs
  <2> QED
    BY <1>7, <2>1
<1>9. PICK l \in Nat : l = Len(ts)
  BY <1>8
<1>10. u \in 0 .. Rows(matrix) /\ Rows(matrix) \in Nat
  <2>1. matrix \in Matrices /\ Packed(matrix)
    BY DEF Good
  <2> QED
    BY <1>4, <2>1, UsedIs DEF Matrices, Rows
<1>11. PICK k \in Nat : k = l * u
  BY <1>10, TimesMore
<1> DEFINE src == [n \in 1 .. k |-> ((n - 1) % u) + 1]
           t   == [n \in 1 .. k |-> ts[((n - 1) \div u) + 1]]
<1>12. ASSUME NEW n \in 1 .. k
       PROVE  /\ ((n - 1) % u) + 1 \in 1 .. u /\ ((n - 1) \div u) + 1 \in 1 .. l
  <2>1. (n - 1) \div u \in 0 .. l - 1 /\ (n - 1) % u \in 0 .. u - 1
    BY <1>10, <1>11, PairOf
  <2> QED
    BY <1>10, <2>1
<1>13. Extends(d, r, matrix, p.left.key, k, src, t)
  <2>1. \A n \in 1 .. k : src[n] = ((n - 1) % u) + 1 /\ t[n] = ts[((n - 1) \div u) + 1]
    OBVIOUS
  <2>2. \A n \in 1 .. k : src[n] \in 1 .. u /\ t[n] \in FullTuple /\ t[n].id \in IdsIn(d, p.left.key)
    BY <1>8, <1>9, <1>12, <2>1
  <2>3. [n \in 1 .. k |-> [matrix.data[((n - 1) % u) + 1]
                                EXCEPT ![p.left.key] = ts[((n - 1) \div u) + 1]]]
        = [n \in 1 .. k |-> [matrix.data[src[n]] EXCEPT ![p.left.key] = t[n]]]
    OBVIOUS
  <2>4. r = Replace(matrix, [n \in 1 .. k |-> [matrix.data[src[n]] EXCEPT ![p.left.key] = t[n]]])
    BY <1>5, <1>9, <1>11, <2>3
  <2> HIDE DEF src, t
  <2>5. \A n \in 1 .. k : src[n] \in 1 .. Rows(matrix) /\ src[n] <= Used(matrix)
    BY <1>4, <1>10, <2>2
  <2> QED
    BY <2>2, <2>4, <2>5 DEF Extends
<1>14. \A n \in 1 .. k : src[n] <= Used(matrix)
  BY <1>4, <1>10, <1>12
<1>15. \A i \in Nat \ {0} : i <= k =>
         src[i] = ((i - 1) % u) + 1 /\ t[i] = ts[((i - 1) \div u) + 1]
  BY InRows
<1> HIDE DEF src, t
<1>16. /\ Good(d, r) /\ r.col_map = matrix.col_map
       /\ \A i \in Nat \ {0} : Cell(r, i, p.left.key) = IF i <= k THEN t[i] ELSE Empty
       /\ \A i \in Nat \ {0} : \A e \in Columns \ {p.left.key} :
            Cell(r, i, e) = IF i <= k THEN Cell(matrix, src[i], e) ELSE Empty
       /\ Rectangular(r)
  BY <1>6, <1>13, <1>14, ExtendGood
<1>17. Multiplies(r, matrix, p.left.key, ts)
  <2>1. k = Len(ts) * u
    BY <1>9, <1>11
  <2>2. \A i \in Nat \ {0} : Cell(r, i, p.left.key) = IF i <= k THEN ts[((i - 1) \div u) + 1] ELSE Empty
    BY <1>15, <1>16
  <2>3. \A i \in Nat \ {0} : \A e \in Columns \ {p.left.key} :
          Cell(r, i, e) = IF i <= k THEN Cell(matrix, ((i - 1) % u) + 1, e) ELSE Empty
    BY <1>15, <1>16
  <2> QED
    BY <1>4, <2>1, <2>2, <2>3 DEF Multiplies
<1>18. IsConstant(p.right) => S = Passing(d, p)
  BY <1>1 DEF Passing, IsConstant
<1> QED
  BY <1>3, <1>7, <1>16, <1>17, <1>18

-----------------------------------------------------------------------------
(* Joins *)

(* r has the rows of m that are kept.                                      *)
Thins(d, r, m, kept) ==
  /\ Good(d, r) /\ r.col_map = m.col_map
  /\ Takes(r, m, Len(kept), kept)
  /\ \A i \in 1 .. Len(kept) : kept[i] \in 1 .. Used(m)
  /\ \A i \in Nat \ {0} : \A e \in Columns :
       Cell(r, i, e) = IF i <= Len(kept) THEN Cell(m, kept[i], e) ELSE Empty
  /\ Rectangular(m) => Rectangular(r)

(* The rows that a join of two relations in the matrix keeps.              *)
RowsThatJoin(p) == {i \in 1 .. Used(matrix) : JoinsRow(p, matrix.data[i])}

(* JoinExistingIs: a join of two relations that are in the matrix.         *)
LEMMA JoinExistingIs ==
  ASSUME NEW d, Good(d, matrix), NEW p, NEW r, r = query_join_existing(p)
  PROVE  \E kept : Enumerates(kept, RowsThatJoin(p)) /\ Thins(d, r, matrix, kept)
<1>1. PICK S : S = {i \in 1 .. Used(matrix) : JoinsRow(p, matrix.data[i])}
  OBVIOUS
<1>2. PICK kept : kept = InOrder(S)
  OBVIOUS
<1>3. PICK u \in Nat : u = Used(matrix)
  BY BlankIs
<1>4. S \in SUBSET (1 .. Used(matrix)) /\ S \in SUBSET (0 .. u)
  BY <1>1, <1>3
<1>5. Enumerates(kept, S)
  BY <1>2, <1>4, InOrderIs
<1>6. r = [matrix EXCEPT !.data = [i \in 1 .. Len(@) |->
                IF i <= Len(kept) THEN @[kept[i]] ELSE EmptyRow]]
  BY <1>1, <1>2 DEF query_join_existing, RowsJoined
<1>7. /\ Good(d, r) /\ r.col_map = matrix.col_map
      /\ Takes(r, matrix, Len(kept), kept) /\ \A i \in 1 .. Len(kept) : kept[i] \in 1 .. Used(matrix)
      /\ \A i \in Nat \ {0} : \A e \in Columns :
           Cell(r, i, e) = IF i <= Len(kept) THEN Cell(matrix, kept[i], e) ELSE Empty
      /\ Rectangular(matrix) => Rectangular(r)
  BY <1>4, <1>5, <1>6, KeepGood
<1>8. Thins(d, r, matrix, kept)
  BY <1>7 DEF Thins
<1>9. Enumerates(kept, RowsThatJoin(p))
  BY <1>1, <1>5 DEF RowsThatJoin
<1> QED
  BY <1>8, <1>9

(* MarkedIs: a mark changes no tuple.                                      *)
LEMMA MarkedIs ==
  ASSUME NEW d, NEW m, Good(d, m), NEW end, end.key \in Columns, end.payload \in Int,
         NEW r, r = Marked(m, end)
  PROVE  /\ Good(d, r) /\ r.data = m.data
         /\ r.col_map = [m.col_map EXCEPT ![end.key] = [attr |-> end.payload, sorted |-> TRUE]]
         /\ \A i, c : Cell(r, i, c) = Cell(m, i, c)
         /\ Rectangular(m) => Rectangular(r)
<1>1. m \in Matrices /\ Packed(m)
  BY DEF Good
<1>2. PICK mark \in Mark : mark = [attr |-> end.payload, sorted |-> TRUE]
  BY DEF Mark
<1>3. r = [m EXCEPT !.col_map = [m.col_map EXCEPT ![end.key] = mark]]
  BY <1>1, <1>2 DEF Marked, Matrices
<1>4. [m.col_map EXCEPT ![end.key] = mark] \in [Columns -> Mark]
  BY <1>1, <1>2 DEF Matrices
<1>5. /\ r \in Matrices /\ r.data = m.data
      /\ r.col_map = [m.col_map EXCEPT ![end.key] = mark]
  BY <1>1, <1>3, <1>4 DEF Matrices
<1>6. \A i, c : Cell(r, i, c) = Cell(m, i, c)
  BY <1>5 DEF Cell, Rows
<1>7. Packed(r)
  BY <1>1, <1>6 DEF Packed
<1>8. Good(d, r)
  BY <1>5, <1>6, <1>7 DEF Good
<1>9. Rectangular(m) => Rectangular(r)
  BY <1>6 DEF Rectangular
<1> QED
  BY <1>2, <1>5, <1>6, <1>8, <1>9

(* The keys of a column are the values of an attribute.                    *)
Labelled(d, m, end) ==
  \A i \in Nat \ {0} : Cell(m, i, end.key) # Empty =>
    Cell(m, i, end.key).key = Val(d, end, Cell(m, i, end.key).id)

(* The keys of a column do not fall.                                       *)
Rising(m, c) ==
  \A i, k \in Nat \ {0} : i <= k /\ Cell(m, k, c) # Empty => Cell(m, i, c).key <= Cell(m, k, c).key

(* KeyedIs: a column holds the values of an attribute in order if it holds *)
(* them and is in order.                                                   *)
LEMMA KeyedIs ==
  ASSUME NEW d, NEW m, NEW end
  PROVE  Keyed(d, m, end) <=> Labelled(d, m, end) /\ Rising(m, end.key)
BY DEF Keyed, Labelled, Rising

(* A column that calls itself that of an attribute is.                     *)
Marks(d, m) ==
  \A c \in Columns :
    \/ m.col_map[c] = [attr |-> NoAttribute, sorted |-> FALSE]
    \/ /\ m.col_map[c].attr \in DOMAIN d[c].column
       /\ m.col_map[c].sorted = TRUE
       /\ Keyed(d, m, [key |-> c, payload |-> m.col_map[c].attr])

(* KeyedSame: ends are what their fields are.                              *)
LEMMA KeyedSame ==
  ASSUME NEW d, NEW m, NEW x, NEW y, x.key = y.key, x.payload = y.payload
  PROVE  Keyed(d, m, x) <=> Keyed(d, m, y)
<1>1. \A id : Val(d, x, id) = Val(d, y, id)
  BY DEF Val
<1> QED
  BY <1>1 DEF Keyed

(* AttributeIs: attributes are numbers from 0 on.                          *)
LEMMA AttributeIs ==
  ASSUME NEW d \in Databases, NEW end, IsEnd(end)
  PROVE  end.key \in Columns /\ end.payload \in DOMAIN d[end.key].column /\ end.payload \in Nat
<1>1. end.key \in Columns /\ end.payload \in DOMAIN d[end.key].column
  BY DEF IsEnd
<1>2. IsDatabase(d)
  BY EngineAssumption
<1>3. PICK n : n = Cardinality(DOMAIN d[end.key].column) - 1
  OBVIOUS
<1>4. DOMAIN d[end.key].column = 0 .. n
  BY <1>1, <1>2, <1>3 DEF IsDatabase
<1>5. end.payload \in 0 .. n
  BY <1>1, <1>4
<1> QED
  BY <1>1, <1>5

(* MarkedKeyed: a column marked with an attribute holds it.                *)
LEMMA MarkedKeyed ==
  ASSUME NEW d \in Databases, NEW m, Marks(d, m), NEW end, IsEnd(end),
         m.col_map[end.key].attr = end.payload
  PROVE  Keyed(d, m, end)
<1>1. end.key \in Columns /\ end.payload \in Nat
  BY AttributeIs
<1>2. m.col_map[end.key] # [attr |-> NoAttribute, sorted |-> FALSE]
  BY <1>1 DEF NoAttribute
<1>3. Keyed(d, m, [key |-> end.key, payload |-> m.col_map[end.key].attr])
  BY <1>1, <1>2 DEF Marks
<1> QED
  BY <1>3, KeyedSame

(* Every row of a relation is in column c once.                            *)
Fresh(d, m, c) ==
  /\ \A id \in IdsIn(d, c) : \E i \in Nat \ {0} : Cell(m, i, c) # Empty /\ Cell(m, i, c).id = id
  /\ \A i, k \in Nat \ {0} : Cell(m, i, c) # Empty /\ Cell(m, k, c) # Empty
                               /\ Cell(m, i, c).id = Cell(m, k, c).id => i = k

(* Columns c of l and m have the same row ids.                             *)
SameIds(l, m, c) ==
  \A i \in Nat \ {0} : /\ Cell(l, i, c) # Empty <=> Cell(m, i, c) # Empty
                       /\ Cell(m, i, c) # Empty => Cell(l, i, c).id = Cell(m, i, c).id

(* l and m differ in column c only.                                        *)
SameBeside(l, m, c) ==
  \A i \in Nat \ {0} : \A e \in Columns \ {c} : Cell(l, i, e) = Cell(m, i, e)

(* LoadWhole: a relation that is not in the matrix is loaded.              *)
LEMMA LoadWhole ==
  ASSUME NEW d \in Databases, d = rels, NEW m, Good(d, m), NEW end, IsEnd(end),
         Cell(m, 1, end.key) = Empty,
         NEW l, l = SetColumn(m, end.key, Tuples(end, InOrder(RowIds(end.key))))
  PROVE  /\ Good(d, l) /\ l.col_map = m.col_map /\ SameBeside(l, m, end.key)
         /\ Labelled(d, l, end) /\ Fresh(d, l, end.key)
<1>1. end.key \in Columns
  BY AttributeIs
<1>2. PICK S : S = IdsIn(d, end.key)
  OBVIOUS
<1>3. PICK ts : ts = Tuples(end, InOrder(S))
  OBVIOUS
<1>4. l = SetColumn(m, end.key, ts)
  BY <1>2, <1>3, ValueIs
<1>5. /\ ts \in Seq(FullTuple)
      /\ \A i \in 1 .. Len(ts) : ts[i].id \in S /\ ts[i].key = Val(d, end, ts[i].id)
      /\ \A id \in S : \E i \in 1 .. Len(ts) : ts[i].id = id
      /\ \A i, k \in 1 .. Len(ts) : ts[i].id = ts[k].id => i = k
  <2>1. S \in SUBSET IdsIn(d, end.key)
    BY <1>2
  <2> QED
    BY <1>3, <2>1, PassingIs
<1>6. PICK n \in Nat : n = Len(ts)
  BY <1>5
<1>7. Len(ts) >= matrix_col_size(m, end.key)
  <2>1. PICK k : k = matrix_col_size(m, end.key)
    OBVIOUS
  <2>2. k \in Nat /\ (Cell(m, 1, end.key) # Empty <=> 1 <= k)
    BY <1>1, <2>1, GoodSize
  <2>3. n >= k
    BY <1>6, <2>2
  <2> QED
    BY <1>6, <2>1, <2>3
<1>8. \A i \in 1 .. Len(ts) : ts[i].id \in IdsIn(d, end.key)
  BY <1>2, <1>5
<1>9. /\ Good(d, l) /\ l.col_map = m.col_map
      /\ \A i \in Nat \ {0} : Cell(l, i, end.key) = IF i <= Len(ts) THEN ts[i] ELSE Empty
      /\ \A i \in Nat \ {0} : \A e \in Columns \ {end.key} : Cell(l, i, e) = Cell(m, i, e)
  BY <1>1, <1>4, <1>5, <1>7, <1>8, SetGood
<1>10. \A i \in Nat \ {0} : Cell(l, i, end.key) # Empty => i \in 1 .. n /\ Cell(l, i, end.key) = ts[i]
  BY <1>6, <1>9
<1>11. \A i \in 1 .. n : i \in Nat \ {0} /\ Cell(l, i, end.key) = ts[i] /\ ts[i] # Empty
  <2>1. \A i \in 1 .. n : ts[i] \in FullTuple
    BY <1>5, <1>6
  <2>2. Empty \notin FullTuple
    BY DEF Empty, FullTuple
  <2>3. \A i \in 1 .. n : i \in Nat \ {0} /\ Cell(l, i, end.key) = ts[i]
    BY <1>6, <1>9
  <2> QED
    BY <2>1, <2>2, <2>3
<1>12. Labelled(d, l, end)
  BY <1>5, <1>6, <1>10 DEF Labelled
<1>13. Fresh(d, l, end.key)
  <2>1. \A id \in IdsIn(d, end.key) : \E i \in Nat \ {0} :
          Cell(l, i, end.key) # Empty /\ Cell(l, i, end.key).id = id
    BY <1>2, <1>5, <1>6, <1>11
  <2>2. \A i, k \in Nat \ {0} : Cell(l, i, end.key) # Empty /\ Cell(l, k, end.key) # Empty
          /\ Cell(l, i, end.key).id = Cell(l, k, end.key).id => i = k
    BY <1>5, <1>6, <1>10
  <2> QED
    BY <2>1, <2>2 DEF Fresh
<1> QED
  BY <1>9, <1>12, <1>13 DEF SameBeside

(* AgainTuples: the tuples for the row ids that a column has.              *)
LEMMA AgainTuples ==
  ASSUME NEW d \in Databases, d = rels, NEW m, Good(d, m), NEW end, IsEnd(end)
  PROVE  \E ts : /\ ts = Tuples(end, [i \in 1 .. matrix_col_size(m, end.key) |-> m.data[i][end.key].id])
                 /\ ts \in Seq(FullTuple) /\ Len(ts) = matrix_col_size(m, end.key)
                 /\ \A i \in 1 .. Len(ts) : /\ ts[i].id = Cell(m, i, end.key).id
                                            /\ ts[i].key = Val(d, end, ts[i].id)
                                            /\ ts[i].id \in IdsIn(d, end.key)
<1>1. end.key \in Columns /\ m \in Matrices
  BY AttributeIs DEF Good
<1>2. PICK n : n = matrix_col_size(m, end.key)
  OBVIOUS
<1>3. n \in Nat /\ \A i \in Nat \ {0} : Cell(m, i, end.key) # Empty <=> i <= n
  BY <1>1, <1>2, GoodSize
<1>4. PICK ids : ids = [i \in 1 .. n |-> m.data[i][end.key].id]
  OBVIOUS
<1>5. ASSUME NEW i \in 1 .. n PROVE ids[i] = Cell(m, i, end.key).id /\ ids[i] \in IdsIn(d, end.key)
  <2>1. i \in Nat \ {0} /\ Cell(m, i, end.key) # Empty
    BY <1>3
  <2>2. Cell(m, i, end.key) = m.data[i][end.key]
    BY <2>1 DEF Cell
  <2>3. Cell(m, i, end.key).id \in IdsIn(d, end.key)
    BY <1>1, <2>1 DEF Good
  <2> QED
    BY <1>4, <2>2, <2>3
<1>6. ids \in Seq(IdsIn(d, end.key)) /\ Len(ids) = n
  <2>1. ids \in [1 .. n -> IdsIn(d, end.key)]
    BY <1>4, <1>5
  <2> QED
    BY <1>3, <1>4, <2>1, FunctionIsSeq
<1>7. PICK ts : ts = Tuples(end, ids)
  OBVIOUS
<1>8. /\ ts \in Seq(FullTuple) /\ Len(ts) = Len(ids)
      /\ \A i \in 1 .. Len(ids) : ts[i].id = ids[i] /\ ts[i].key = Val(d, end, ids[i])
  BY <1>6, <1>7, TuplesIs
<1>9. /\ ts \in Seq(FullTuple) /\ Len(ts) = n
      /\ \A i \in 1 .. Len(ts) : /\ ts[i].id = Cell(m, i, end.key).id
                                 /\ ts[i].key = Val(d, end, ts[i].id)
                                 /\ ts[i].id \in IdsIn(d, end.key)
  BY <1>5, <1>6, <1>8
<1> QED
  BY <1>2, <1>4, <1>7, <1>9

(* LoadAgain: the row ids of a column get the keys of another attribute.   *)
LEMMA LoadAgain ==
  ASSUME NEW d, NEW m, Good(d, m), NEW end, end.key \in Columns,
         NEW ts, ts \in Seq(FullTuple), Len(ts) = matrix_col_size(m, end.key),
         \A i \in 1 .. Len(ts) : /\ ts[i].id = Cell(m, i, end.key).id
                                 /\ ts[i].key = Val(d, end, ts[i].id)
                                 /\ ts[i].id \in IdsIn(d, end.key),
         NEW l, l = SetColumn(m, end.key, ts)
  PROVE  /\ Good(d, l) /\ l.col_map = m.col_map /\ SameBeside(l, m, end.key)
         /\ Labelled(d, l, end) /\ SameIds(l, m, end.key)
<1>2. PICK n : n = matrix_col_size(m, end.key)
  OBVIOUS
<1>3. n \in Nat /\ \A i \in Nat \ {0} : Cell(m, i, end.key) # Empty <=> i <= n
  BY <1>2, GoodSize
<1>10. Len(ts) = n
  BY <1>2
<1>1. Len(ts) >= matrix_col_size(m, end.key)
  BY <1>2, <1>3
<1>11. \A i \in 1 .. Len(ts) : ts[i].id \in IdsIn(d, end.key)
  OBVIOUS
<1>12. /\ Good(d, l) /\ l.col_map = m.col_map
       /\ \A i \in Nat \ {0} : Cell(l, i, end.key) = IF i <= Len(ts) THEN ts[i] ELSE Empty
       /\ \A i \in Nat \ {0} : \A e \in Columns \ {end.key} : Cell(l, i, e) = Cell(m, i, e)
  BY <1>1, <1>11, SetGood
<1>13. \A i \in Nat \ {0} : Cell(l, i, end.key) # Empty => i \in 1 .. n
  BY <1>3, <1>10, <1>12
<1>14. \A i \in 1 .. n : i \in Nat \ {0} /\ Cell(l, i, end.key) = ts[i] /\ ts[i] # Empty
  <2>1. \A i \in 1 .. n : ts[i] \in FullTuple
    BY <1>10
  <2>2. Empty \notin FullTuple
    BY DEF Empty, FullTuple
  <2>3. \A i \in 1 .. n : i \in Nat \ {0} /\ Cell(l, i, end.key) = ts[i]
    BY <1>3, <1>10, <1>12
  <2> QED
    BY <2>1, <2>2, <2>3
<1>15. Labelled(d, l, end)
  BY <1>10, <1>13, <1>14 DEF Labelled
<1>16. SameIds(l, m, end.key)
  <2>1. ASSUME NEW i \in Nat \ {0}
        PROVE  /\ Cell(l, i, end.key) # Empty <=> Cell(m, i, end.key) # Empty
               /\ Cell(m, i, end.key) # Empty => Cell(l, i, end.key).id = Cell(m, i, end.key).id
    <3>1. i <= n <=> i \in 1 .. n
      BY <1>3
    <3>2. Cell(l, i, end.key) # Empty <=> i <= n
      BY <1>13, <1>14, <3>1
    <3>3. i \in 1 .. n => Cell(l, i, end.key).id = Cell(m, i, end.key).id
      BY <1>10, <1>14
    <3> QED
      BY <1>3, <3>1, <3>2, <3>3
  <2> QED
    BY <2>1 DEF SameIds
<1> QED
  BY <1>12, <1>15, <1>16 DEF SameBeside

(* What load_matrix_full or load_matrix_col_from_rel makes of m.           *)
Loads(d, l, m, end) ==
  /\ Good(d, l) /\ l.col_map = m.col_map /\ SameBeside(l, m, end.key)
  /\ Labelled(d, l, end)
  /\ Cell(m, 1, end.key) = Empty => Fresh(d, l, end.key)
  /\ Cell(m, 1, end.key) # Empty => SameIds(l, m, end.key)
  /\ Cell(m, 1, end.key) # Empty /\ m.col_map[end.key].attr = end.payload => Keyed(d, l, end)

(* LoadExistingIs: the column joined has the values of the attribute.      *)
LEMMA LoadExistingIs ==
  ASSUME NEW d \in Databases, d = rels, NEW m, Good(d, m), Marks(d, m), NEW end, IsEnd(end),
         NEW l, l = LoadExisting(m, end)
  PROVE  Loads(d, l, m, end)
<1>1. end.key \in Columns /\ m \in Matrices
  BY AttributeIs DEF Good
<1>2. Loaded(m, end.key) <=> Cell(m, 1, end.key) # Empty
  BY <1>1, LoadedIs
<1>3. CASE ~Loaded(m, end.key)
  <2>1. l = SetColumn(m, end.key, Tuples(end, InOrder(RowIds(end.key))))
    BY <1>3 DEF LoadExisting
  <2>2. Cell(m, 1, end.key) = Empty
    BY <1>2, <1>3
  <2>3. /\ Good(d, l) /\ l.col_map = m.col_map /\ SameBeside(l, m, end.key)
        /\ Labelled(d, l, end) /\ Fresh(d, l, end.key)
    BY <2>1, <2>2, LoadWhole
  <2> QED
    BY <2>2, <2>3 DEF Loads
<1>4. CASE Loaded(m, end.key) /\ m.col_map[end.key].attr # end.payload
  <2>1. l = SetColumn(m, end.key,
              Tuples(end, [i \in 1 .. matrix_col_size(m, end.key) |-> m.data[i][end.key].id]))
    BY <1>4 DEF LoadExisting
  <2>2. Cell(m, 1, end.key) # Empty
    BY <1>2, <1>4
  <2>3. PICK ts :
          /\ ts = Tuples(end, [i \in 1 .. matrix_col_size(m, end.key) |-> m.data[i][end.key].id])
          /\ ts \in Seq(FullTuple) /\ Len(ts) = matrix_col_size(m, end.key)
          /\ \A i \in 1 .. Len(ts) : /\ ts[i].id = Cell(m, i, end.key).id
                                     /\ ts[i].key = Val(d, end, ts[i].id)
                                     /\ ts[i].id \in IdsIn(d, end.key)
    BY AgainTuples
  <2>4. l = SetColumn(m, end.key, ts)
    BY <2>1, <2>3
  <2>5. /\ ts \in Seq(FullTuple) /\ Len(ts) = matrix_col_size(m, end.key)
        /\ \A i \in 1 .. Len(ts) : /\ ts[i].id = Cell(m, i, end.key).id
                                   /\ ts[i].key = Val(d, end, ts[i].id)
                                   /\ ts[i].id \in IdsIn(d, end.key)
    BY <2>3
  <2>6. /\ Good(d, l) /\ l.col_map = m.col_map /\ SameBeside(l, m, end.key)
        /\ Labelled(d, l, end) /\ SameIds(l, m, end.key)
    BY <1>1, <2>4, <2>5, LoadAgain
  <2> QED
    BY <1>4, <2>2, <2>6 DEF Loads
<1>5. CASE Loaded(m, end.key) /\ m.col_map[end.key].attr = end.payload
  <2>1. l = m
    BY <1>5 DEF LoadExisting
  <2>2. Cell(m, 1, end.key) # Empty
    BY <1>2, <1>5
  <2>3. Keyed(d, m, end)
    BY <1>5, MarkedKeyed
  <2>4. Labelled(d, m, end)
    BY <2>3, KeyedIs
  <2>5. SameIds(m, m, end.key) /\ SameBeside(m, m, end.key)
    BY DEF SameIds, SameBeside
  <2> QED
    BY <2>1, <2>2, <2>3, <2>4, <2>5 DEF Loads
<1> QED
  BY <1>3, <1>4, <1>5

(* Column c of s is that of l in another order.                            *)
Shuffled(s, l, c) ==
  \E p : /\ Permutes(p, matrix_col_size(l, c))
         /\ \A i \in 1 .. matrix_col_size(l, c) : Cell(s, i, c) = Cell(l, p[i], c)
         /\ \A i \in Nat \ {0} : Cell(s, i, c) # Empty <=> i <= matrix_col_size(l, c)

(* FinalizeGood: matrix_finalize leaves a good matrix with the same tuples.*)
LEMMA FinalizeGood ==
  ASSUME NEW d, NEW m, Good(d, m), NEW f, f = matrix_finalize(m)
  PROVE  /\ Good(d, f) /\ f.col_map = m.col_map
         /\ \A i \in Nat \ {0} : \A e \in Columns : Cell(f, i, e) = Cell(m, i, e)
         /\ Rectangular(m) => Rectangular(f)
<1>1. m \in Matrices /\ Packed(m)
  BY DEF Good
<1>2. /\ f \in Matrices /\ f.col_map = m.col_map
      /\ \A i \in Nat \ {0} : \A e \in Columns : Cell(f, i, e) = Cell(m, i, e)
  BY <1>1, FinalizeIs
<1>3. Packed(f)
  BY <1>1, <1>2 DEF Packed
<1>4. Good(d, f)
  BY <1>2, <1>3 DEF Good
<1>5. Rectangular(m) => Rectangular(f)
  BY <1>2 DEF Rectangular
<1> QED
  BY <1>2, <1>4, <1>5

(* SetShuffled: a column is replaced by its tuples in order.               *)
LEMMA SetShuffled ==
  ASSUME NEW d, NEW m, Good(d, m), NEW f, Good(d, f), NEW c \in Columns,
         \A i \in Nat \ {0} : \A e \in Columns : Cell(f, i, e) = Cell(m, i, e),
         NEW t, Orders(t, Column(m, c), Len(Column(m, c))),
         NEW r, r = SetColumn(f, c, t)
  PROVE  /\ Good(d, r) /\ r.col_map = f.col_map /\ SameBeside(r, m, c)
         /\ Shuffled(r, m, c) /\ Rising(r, c)
<1>1. m \in Matrices
  BY DEF Good
<1>2. PICK n : n = matrix_col_size(m, c)
  OBVIOUS
<1>3. n \in Nat /\ \A i \in Nat \ {0} : Cell(m, i, c) # Empty <=> i <= n
  BY <1>2, GoodSize
<1>4. PICK k : k = matrix_col_size(f, c)
  OBVIOUS
<1>5. k \in Nat /\ \A i \in Nat \ {0} : Cell(f, i, c) # Empty <=> i <= k
  BY <1>4, GoodSize
<1>6. n >= k
  <2>1. k # 0 => Cell(f, k, c) # Empty
    BY <1>5
  <2>2. k # 0 => Cell(m, k, c) # Empty
    BY <1>5, <2>1
  <2> QED
    BY <1>3, <1>5, <2>2
<1>7. PICK u : u = Column(m, c)
  OBVIOUS
<1>8. u \in Seq(FullTuple) /\ Len(u) = n /\ \A i \in 1 .. n : u[i] = Cell(m, i, c)
  BY <1>1, <1>2, <1>7, ColumnIs DEF FullTuple
<1>9. t \in Seq(FullTuple) /\ Len(t) = n /\ AscendingKeys(t)
  BY <1>7, <1>8 DEF Orders
<1>10. PICK p : Permutes(p, n) /\ \A i \in 1 .. n : t[i] = u[p[i]]
  BY <1>7, <1>8 DEF Orders
<1>11. \A i \in 1 .. n : p[i] \in 1 .. n /\ t[i] = Cell(m, p[i], c)
  BY <1>8, <1>10 DEF Permutes
<1>12. \A i \in 1 .. Len(t) : t[i].id \in IdsIn(d, c)
  <2>1. ASSUME NEW i \in 1 .. n PROVE t[i].id \in IdsIn(d, c)
    <3>1. PICK j : j = p[i]
      OBVIOUS
    <3>2. j \in Nat \ {0} /\ j <= n /\ t[i] = Cell(m, j, c)
      BY <1>11, <3>1
    <3>3. Cell(m, j, c) # Empty
      BY <1>3, <3>2
    <3> QED
      BY <3>2, <3>3 DEF Good
  <2> QED
    BY <1>9, <2>1
<1>13. Len(t) >= matrix_col_size(f, c) /\ t \in Seq(FullTuple)
  BY <1>4, <1>6, <1>9
<1>14. /\ Good(d, r) /\ r.col_map = f.col_map
       /\ \A i \in Nat \ {0} : Cell(r, i, c) = IF i <= Len(t) THEN t[i] ELSE Empty
       /\ \A i \in Nat \ {0} : \A e \in Columns \ {c} : Cell(r, i, e) = Cell(f, i, e)
  BY <1>12, <1>13, SetGood
<1>15. \A i \in Nat \ {0} : Cell(r, i, c) = IF i <= n THEN t[i] ELSE Empty
  BY <1>9, <1>14
<1>16. \A i \in Nat \ {0} : i <= n => t[i] \in FullTuple /\ t[i] # Empty
  <2>1. Empty \notin FullTuple
    BY DEF Empty, FullTuple
  <2>2. \A i \in 1 .. n : t[i] \in FullTuple
    BY <1>9
  <2> QED
    BY <1>3, <2>1, <2>2
<1>17. \A i \in Nat \ {0} : Cell(r, i, c) # Empty <=> i <= n
  BY <1>15, <1>16
<1>18. \A i \in 1 .. n : Cell(r, i, c) = Cell(m, p[i], c)
  BY <1>3, <1>11, <1>15
<1>19. Shuffled(r, m, c)
  BY <1>2, <1>10, <1>17, <1>18 DEF Shuffled
<1>20. Rising(r, c)
  <2>1. ASSUME NEW i \in Nat \ {0}, NEW j \in Nat \ {0}, i <= j, Cell(r, j, c) # Empty
        PROVE  Cell(r, i, c).key <= Cell(r, j, c).key
    <3>1. i \in 1 .. n /\ j \in 1 .. n
      BY <1>3, <1>17, <2>1
    <3>2. Cell(r, i, c) = t[i] /\ Cell(r, j, c) = t[j]
      BY <1>15, <3>1
    <3>3. t[i].key <= t[j].key
      BY <1>9, <2>1, <3>1 DEF AscendingKeys
    <3> QED
      BY <3>2, <3>3
  <2> QED
    BY <2>1 DEF Rising
<1>21. SameBeside(r, m, c)
  BY <1>14 DEF SameBeside
<1> QED
  BY <1>14, <1>19, <1>20, <1>21

(* ShuffledLabels: tuples keep their keys.                                 *)
LEMMA ShuffledLabels ==
  ASSUME NEW d, NEW l, Good(d, l), NEW s, NEW end, end.key \in Columns,
         Shuffled(s, l, end.key), Labelled(d, l, end)
  PROVE  Labelled(d, s, end)
<1>1. PICK n : n = matrix_col_size(l, end.key)
  OBVIOUS
<1>2. n \in Nat /\ \A i \in Nat \ {0} : Cell(l, i, end.key) # Empty <=> i <= n
  BY <1>1, GoodSize
<1>3. PICK p : /\ Permutes(p, n)
               /\ \A i \in 1 .. n : Cell(s, i, end.key) = Cell(l, p[i], end.key)
               /\ \A i \in Nat \ {0} : Cell(s, i, end.key) # Empty <=> i <= n
  BY <1>1 DEF Shuffled
<1>4. ASSUME NEW i \in Nat \ {0}, Cell(s, i, end.key) # Empty
      PROVE  Cell(s, i, end.key).key = Val(d, end, Cell(s, i, end.key).id)
  <2>1. i \in 1 .. n
    BY <1>2, <1>3, <1>4
  <2>2. PICK j : j = p[i]
    OBVIOUS
  <2>3. j \in 1 .. n
    BY <1>3, <2>1, <2>2 DEF Permutes
  <2>4. j \in Nat \ {0} /\ j <= n
    BY <1>2, <2>3
  <2>5. Cell(s, i, end.key) = Cell(l, j, end.key)
    BY <1>3, <2>1, <2>2
  <2>6. Cell(l, j, end.key) # Empty
    BY <1>2, <2>4
  <2> QED
    BY <2>4, <2>5, <2>6 DEF Labelled
<1> QED
  BY <1>4 DEF Labelled

(* What mx_radix makes of l, or load_all without it.                       *)
SortsColumn(d, s, l, end) ==
  /\ Good(d, s) /\ SameBeside(s, l, end.key) /\ Shuffled(s, l, end.key)
  /\ s.col_map = [l.col_map EXCEPT ![end.key] = [attr |-> end.payload, sorted |-> TRUE]]
  /\ Labelled(d, s, end)
  /\ \/ l.col_map[end.key] # [attr |-> end.payload, sorted |-> TRUE]
     \/ Keyed(d, l, end)
     => Keyed(d, s, end)

(* SortExistingIs: the column joined is sorted, unless it claims to be.    *)
LEMMA SortExistingIs ==
  ASSUME NEW d \in Databases, NEW l, Good(d, l), NEW end, IsEnd(end), Labelled(d, l, end),
         NEW s \in SortExisting(l, end)
  PROVE  SortsColumn(d, s, l, end)
<1>1. end.key \in Columns /\ end.payload \in Int /\ l \in Matrices
  BY AttributeIs DEF Good
<1>2. CASE NeedsSort(l, end)
  <2>1. PICK f : f = matrix_finalize(l)
    OBVIOUS
  <2>2. PICK t \in Sortings(Column(l, end.key)) : s = Marked(SetColumn(f, end.key, t), end)
    BY <1>2, <2>1 DEF SortExisting
  <2>3. PICK r : r = SetColumn(f, end.key, t)
    OBVIOUS
  <2>4. s = Marked(r, end)
    BY <2>2, <2>3
  <2>5. /\ Good(d, f) /\ f.col_map = l.col_map
        /\ \A i \in Nat \ {0} : \A e \in Columns : Cell(f, i, e) = Cell(l, i, e)
    BY <2>1, FinalizeGood
  <2>6. Orders(t, Column(l, end.key), Len(Column(l, end.key)))
    <3>1. Column(l, end.key) \in Seq(FullTuple)
      BY <1>1, ColumnIs DEF FullTuple
    <3> QED
      BY <2>2, <3>1, SortingsIs
  <2>7. /\ Good(d, r) /\ r.col_map = f.col_map /\ SameBeside(r, l, end.key)
        /\ Shuffled(r, l, end.key) /\ Rising(r, end.key)
    BY <1>1, <2>3, <2>5, <2>6, SetShuffled
  <2>8. /\ Good(d, s)
        /\ s.col_map = [r.col_map EXCEPT ![end.key] = [attr |-> end.payload, sorted |-> TRUE]]
        /\ \A i, c : Cell(s, i, c) = Cell(r, i, c)
    BY <1>1, <2>4, <2>7, MarkedIs
  <2>9. SameBeside(s, l, end.key)
    BY <2>7, <2>8 DEF SameBeside
  <2>10. Shuffled(s, l, end.key)
    BY <2>7, <2>8 DEF Shuffled
  <2>11. Labelled(d, s, end)
    BY <1>1, <2>10, ShuffledLabels
  <2>12. Rising(s, end.key)
    BY <2>7, <2>8 DEF Rising
  <2>13. Keyed(d, s, end)
    BY <2>11, <2>12, KeyedIs
  <2> QED
    BY <2>5, <2>7, <2>8, <2>9, <2>10, <2>11, <2>13 DEF SortsColumn
<1>3. CASE ~NeedsSort(l, end)
  <2>1. s = l
    BY <1>3 DEF SortExisting
  <2>2. l.col_map[end.key] = [attr |-> end.payload, sorted |-> TRUE]
    BY <1>3 DEF NeedsSort
  <2>3. l.col_map = [l.col_map EXCEPT ![end.key] = [attr |-> end.payload, sorted |-> TRUE]]
    <3>1. l.col_map \in [Columns -> Mark]
      BY <1>1 DEF Matrices
    <3> QED
      BY <2>2, <3>1
  <2>4. SameBeside(l, l, end.key)
    BY DEF SameBeside
  <2>5. Shuffled(l, l, end.key)
    <3>1. PICK n : n = matrix_col_size(l, end.key)
      OBVIOUS
    <3>2. n \in Nat /\ \A i \in Nat \ {0} : Cell(l, i, end.key) # Empty <=> i <= n
      BY <1>1, <3>1, GoodSize
    <3>3. PICK p : p = [i \in 1 .. n |-> i]
      OBVIOUS
    <3>4. Permutes(p, n) /\ \A i \in 1 .. n : p[i] = i
      BY <3>3 DEF Permutes
    <3>5. \A i \in 1 .. n : Cell(l, i, end.key) = Cell(l, p[i], end.key)
      BY <3>4
    <3> QED
      BY <3>1, <3>2, <3>4, <3>5 DEF Shuffled
  <2> QED
    BY <2>1, <2>2, <2>3, <2>4, <2>5 DEF SortsColumn
<1> QED
  BY <1>2, <1>3

(* t is the table of an end: every row of its relation once, in the order  *)
(* of the attribute.                                                       *)
IsTable(d, t, o) ==
  /\ t \in Seq(FullTuple) /\ AscendingKeys(t)
  /\ \A i \in 1 .. Len(t) : t[i].id \in IdsIn(d, o.key) /\ t[i].key = Val(d, o, t[i].id)
  /\ \A id \in IdsIn(d, o.key) : \E i \in 1 .. Len(t) : t[i].id = id
  /\ \A i, k \in 1 .. Len(t) : t[i].id = t[k].id => i = k

(* TableIs: the other relation of a join, sorted.                          *)
LEMMA TableIs ==
  ASSUME NEW d \in Databases, d = rels, NEW end, IsEnd(end), NEW t \in SortedTables(end)
  PROVE  IsTable(d, t, end)
<1>1. PICK S : S = IdsIn(d, end.key)
  OBVIOUS
<1>2. PICK ts : ts = Tuples(end, InOrder(S))
  OBVIOUS
<1>3. t \in Sortings(ts)
  BY <1>1, <1>2, ValueIs DEF SortedTables
<1>4. /\ ts \in Seq(FullTuple)
      /\ \A i \in 1 .. Len(ts) : ts[i].id \in S /\ ts[i].key = Val(d, end, ts[i].id)
      /\ \A id \in S : \E i \in 1 .. Len(ts) : ts[i].id = id
      /\ \A i, k \in 1 .. Len(ts) : ts[i].id = ts[k].id => i = k
  <2>1. S \in SUBSET IdsIn(d, end.key)
    BY <1>1
  <2> QED
    BY <1>2, <2>1, PassingIs
<1>5. Orders(t, ts, Len(ts))
  BY <1>3, <1>4, SortingsIs
<1>6. PICK n \in Nat : n = Len(ts)
  BY <1>4
<1>7. t \in Seq(FullTuple) /\ Len(t) = n /\ AscendingKeys(t)
  BY <1>5, <1>6 DEF Orders
<1>8. PICK p : Permutes(p, n) /\ \A i \in 1 .. n : t[i] = ts[p[i]]
  BY <1>5, <1>6 DEF Orders
<1>9. /\ \A i \in 1 .. n : p[i] \in 1 .. n /\ t[i] = ts[p[i]]
      /\ \A i, k \in 1 .. n : p[i] = p[k] => i = k
      /\ \A j \in 1 .. n : \E i \in 1 .. n : p[i] = j
  BY <1>8 DEF Permutes
<1>10. ASSUME NEW i \in 1 .. n PROVE t[i].id \in S /\ t[i].key = Val(d, end, t[i].id)
  <2>1. PICK j \in 1 .. n : j = p[i]
    BY <1>9
  <2>2. t[i] = ts[j] /\ j \in 1 .. Len(ts)
    BY <1>6, <1>9, <2>1
  <2> QED
    BY <1>4, <2>2
<1>11. ASSUME NEW id \in S PROVE \E i \in 1 .. n : t[i].id = id
  <2>1. PICK j \in 1 .. n : ts[j].id = id
    BY <1>4, <1>6
  <2>2. PICK i \in 1 .. n : p[i] = j
    BY <1>9
  <2> QED
    BY <1>9, <2>1, <2>2
<1>12. ASSUME NEW i \in 1 .. n, NEW k \in 1 .. n, t[i].id = t[k].id PROVE i = k
  <2>1. p[i] \in 1 .. n /\ p[k] \in 1 .. n /\ ts[p[i]].id = ts[p[k]].id
    BY <1>9, <1>12
  <2>2. p[i] = p[k]
    BY <1>4, <1>6, <2>1
  <2> QED
    BY <1>9, <2>2
<1>13. \A i \in 1 .. Len(t) : t[i].id \in IdsIn(d, end.key) /\ t[i].key = Val(d, end, t[i].id)
  BY <1>1, <1>7, <1>10
<1>14. \A id \in IdsIn(d, end.key) : \E i \in 1 .. Len(t) : t[i].id = id
  BY <1>1, <1>7, <1>11
<1>15. \A i, k \in 1 .. Len(t) : t[i].id = t[k].id => i = k
  BY <1>7, <1>12
<1> QED
  BY <1>7, <1>13, <1>14, <1>15 DEF IsTable

(* ms are the matches of column c of m with a table.                       *)
Matched(ms, m, c, table) ==
  /\ ms \in Seq(IndexPair)
  /\ \A n \in 1 .. Len(ms) :
       /\ ms[n][1] \in Nat \ {0} /\ Cell(m, ms[n][1], c) # Empty /\ ms[n][2] \in 1 .. Len(table)
       /\ Cell(m, ms[n][1], c).key = table[ms[n][2]].key
  /\ \A n, k \in 1 .. Len(ms) : ms[n] = ms[k] => n = k
  /\ \A n, k \in 1 .. Len(ms) : n <= k => ms[n][1] <= ms[k][1]
  /\ AscendingKeys(table) => InStep(ms, table)
  /\ Rising(m, c) /\ AscendingKeys(table) =>
       \A x \in Nat \ {0}, y \in 1 .. Len(table) :
         Cell(m, x, c) # Empty /\ Cell(m, x, c).key = table[y].key =>
           \E n \in 1 .. Len(ms) : ms[n] = <<x, y>>

(* MatchedIs: mx_join finds the matches.                                   *)
LEMMA MatchedIs ==
  ASSUME NEW d, NEW m, Good(d, m), NEW c \in Columns, NEW table, table \in Seq(FullTuple)
  PROVE  Matched(Matches(Column(m, c), table), m, c, table)
<1>1. m \in Matrices
  BY DEF Good
<1>2. PICK n : n = matrix_col_size(m, c)
  OBVIOUS
<1>3. n \in Nat /\ \A i \in Nat \ {0} : Cell(m, i, c) # Empty <=> i <= n
  BY <1>2, GoodSize
<1>4. PICK u : u = Column(m, c)
  OBVIOUS
<1>5. u \in Seq(FullTuple) /\ Len(u) = n /\ \A i \in 1 .. n : u[i] = Cell(m, i, c)
  BY <1>1, <1>2, <1>4, ColumnIs DEF FullTuple
<1>6. PICK ms : ms = Matches(u, table)
  OBVIOUS
<1>7. Finds(ms, u, table, 1, 1)
  BY <1>5, <1>6, MatchesIs
<1>8. /\ ms \in Seq(IndexPair)
      /\ \A k \in 1 .. Len(ms) : /\ ms[k][1] \in 1 .. n /\ ms[k][2] \in 1 .. Len(table)
                                 /\ u[ms[k][1]].key = table[ms[k][2]].key
      /\ \A j, k \in 1 .. Len(ms) : ms[j] = ms[k] => j = k
      /\ \A j, k \in 1 .. Len(ms) : j <= k => ms[j][1] <= ms[k][1]
      /\ AscendingKeys(table) => InStep(ms, table)
  BY <1>5, <1>7 DEF Finds
<1>9. \A i \in 1 .. n : i \in Nat \ {0} /\ Cell(m, i, c) # Empty
  BY <1>3
<1>10. ASSUME NEW k \in 1 .. Len(ms)
       PROVE  /\ ms[k][1] \in Nat \ {0} /\ Cell(m, ms[k][1], c) # Empty /\ ms[k][2] \in 1 .. Len(table)
              /\ Cell(m, ms[k][1], c).key = table[ms[k][2]].key
  <2>1. PICK x \in 1 .. n : x = ms[k][1]
    BY <1>8
  <2>2. u[x] = Cell(m, x, c)
    BY <1>5
  <2>3. u[x].key = table[ms[k][2]].key /\ ms[k][2] \in 1 .. Len(table)
    BY <1>8, <2>1
  <2> QED
    BY <1>9, <2>1, <2>2, <2>3
<1>11. ASSUME Rising(m, c), AscendingKeys(table), NEW x \in Nat \ {0}, NEW y \in 1 .. Len(table),
              Cell(m, x, c) # Empty, Cell(m, x, c).key = table[y].key
       PROVE  \E k \in 1 .. Len(ms) : ms[k] = <<x, y>>
  <2>1. AscendingKeys(u)
    <3>1. ASSUME NEW i \in 1 .. n, NEW j \in 1 .. n, i <= j PROVE u[i].key <= u[j].key
      <4>1. Cell(m, i, c).key <= Cell(m, j, c).key
        BY <1>9, <1>11, <3>1 DEF Rising
      <4> QED
        BY <1>5, <4>1
    <3> QED
      BY <1>5, <3>1 DEF AscendingKeys
  <2>2. x \in 1 .. n
    BY <1>3, <1>11
  <2>3. u[x].key = table[y].key
    BY <1>5, <1>11, <2>2
  <2>4. x \in 1 .. Len(u)
    BY <1>5, <2>2
  <2> QED
    BY <1>7, <1>11, <2>1, <2>3, <2>4 DEF Finds
<1>12. Matched(ms, m, c, table)
  BY <1>8, <1>10, <1>11 DEF Matched
<1> QED
  BY <1>4, <1>6, <1>12

(* r has a row for every match: the row of m with the tuple of the table.  *)
JoinsUp(r, m, table, o, ms) ==
  /\ \A i \in Nat \ {0} : Cell(r, i, o) = IF i <= Len(ms) THEN table[ms[i][2]] ELSE Empty
  /\ \A i \in Nat \ {0} : \A e \in Columns \ {o} :
       Cell(r, i, e) = IF i <= Len(ms) THEN Cell(m, ms[i][1], e) ELSE Empty

(* MxJoinIs: what mx_join makes of a matrix.                               *)
LEMMA MxJoinIs ==
  ASSUME NEW d, NEW m, Good(d, m), NEW c \in Columns, NEW o \in Columns,
         NEW table, table \in Seq(FullTuple),
         \A i \in 1 .. Len(table) : table[i].id \in IdsIn(d, o),
         NEW r, r = mx_join(m, c, table, o)
  PROVE  /\ Good(d, r) /\ r.col_map = m.col_map
         /\ Rectangular(m) => Rectangular(r)
         /\ \E ms : Matched(ms, m, c, table) /\ JoinsUp(r, m, table, o, ms)
<1>1. m \in Matrices /\ Packed(m)
  BY DEF Good
<1>2. PICK ms : ms = Matches(Column(m, c), table)
  OBVIOUS
<1>3. Matched(ms, m, c, table)
  BY <1>2, MatchedIs
<1>4. PICK n \in Nat : n = Len(ms)
  <2>1. ms \in Seq(IndexPair)
    BY <1>3 DEF Matched
  <2> QED
    BY <2>1
<1>5. PICK h \in Nat : h = Rows(m)
  BY <1>1 DEF Matrices, Rows
<1>6. PICK u : u = Used(m)
  OBVIOUS
<1>7. u \in 0 .. h /\ \A i \in Nat \ {0} : i <= u <=> \E e \in Columns : Cell(m, i, e) # Empty
  BY <1>1, <1>5, <1>6, UsedIs
<1>8. ASSUME NEW i \in 1 .. n
      PROVE  /\ ms[i][1] \in Nat \ {0} /\ ms[i][1] <= u
             /\ ms[i][2] \in 1 .. Len(table)
  <2>1. ms[i][1] \in Nat \ {0} /\ Cell(m, ms[i][1], c) # Empty /\ ms[i][2] \in 1 .. Len(table)
    BY <1>3, <1>4 DEF Matched
  <2> QED
    BY <1>7, <2>1
<1>9. \A i \in 1 .. n : ms[i][1] \in 1 .. h
  <2>1. ASSUME NEW i \in 1 .. n PROVE ms[i][1] \in 1 .. h
    <3>1. PICK x \in Nat \ {0} : x = ms[i][1] /\ x <= u
      BY <1>8
    <3>2. x \in 1 .. h
      BY <1>7, <3>1
    <3> QED
      BY <3>1, <3>2
  <2> QED
    BY <2>1
<1>10. \A i, k \in 1 .. n : i <= k => ms[i][1] <= ms[k][1]
  BY <1>3, <1>4 DEF Matched
<1>11. PICK src : src = [i \in 1 .. n |-> ms[i][1]]
  OBVIOUS
<1>12. PICK t : t = [i \in 1 .. n |-> table[ms[i][2]]]
  OBVIOUS
<1>13. r = Replace(m, [i \in 1 .. n |-> [m.data[src[i]] EXCEPT ![o] = t[i]]])
  <2>1. [i \in 1 .. n |-> [m.data[ms[i][1]] EXCEPT ![o] = table[ms[i][2]]]]
        = [i \in 1 .. n |-> [m.data[src[i]] EXCEPT ![o] = t[i]]]
    BY <1>11, <1>12
  <2>2. r = Replace(m, [i \in 1 .. n |-> [m.data[ms[i][1]] EXCEPT ![o] = table[ms[i][2]]]])
    BY <1>2, <1>4 DEF mx_join, MergeRows
  <2> QED
    BY <2>1, <2>2
<1>14. \A i \in 1 .. n : src[i] = ms[i][1] /\ t[i] = table[ms[i][2]]
  BY <1>11, <1>12
<1>15. Extends(d, r, m, o, n, src, t)
  <2>1. \A i \in 1 .. n : src[i] \in 1 .. Rows(m)
    BY <1>5, <1>9, <1>14
  <2>2. ASSUME NEW i \in 1 .. n PROVE t[i] \in FullTuple /\ t[i].id \in IdsIn(d, o)
    <3>1. PICK y \in 1 .. Len(table) : t[i] = table[y]
      BY <1>8, <1>14
    <3> QED
      BY <3>1
  <2>3. \A i, k \in 1 .. n : i <= k => src[i] <= src[k]
    BY <1>10, <1>14
  <2> QED
    BY <1>13, <2>1, <2>2, <2>3 DEF Extends
<1>16. /\ Good(d, r) /\ r.col_map = m.col_map
       /\ \A i \in Nat \ {0} : Cell(r, i, o) = IF i <= n THEN t[i] ELSE Empty
       /\ \A i \in Nat \ {0} : \A e \in Columns \ {o} :
            Cell(r, i, e) = IF i <= n THEN Cell(m, src[i], e) ELSE Empty
       /\ Rectangular(m) /\ (\A i \in 1 .. n : src[i] <= Used(m)) => Rectangular(r)
  BY <1>15, ExtendGood
<1>17. \A i \in 1 .. n : src[i] <= Used(m)
  BY <1>6, <1>8, <1>14
<1>18. JoinsUp(r, m, table, o, ms)
  <2>1. \A i \in Nat \ {0} : i <= n => src[i] = ms[i][1] /\ t[i] = table[ms[i][2]]
    BY <1>14
  <2> QED
    BY <1>4, <1>16, <2>1 DEF JoinsUp
<1> QED
  BY <1>3, <1>16, <1>17, <1>18

(* The same cells are filled.                                              *)
SameShape(l, m) ==
  \A i \in Nat \ {0} : \A e \in Columns : Cell(l, i, e) # Empty <=> Cell(m, i, e) # Empty

(* ShapeRectangular: being rectangular is a matter of shape.               *)
LEMMA ShapeRectangular ==
  ASSUME NEW l, NEW m, SameShape(l, m), Rectangular(m)
  PROVE  Rectangular(l)
<1>1. 1 \in Nat \ {0}
  OBVIOUS
<1> QED
  BY <1>1 DEF SameShape, Rectangular

(* ShuffledShape: sorting a column changes no shape.                       *)
LEMMA ShuffledShape ==
  ASSUME NEW d, NEW l, Good(d, l), NEW s, NEW c \in Columns, SameBeside(s, l, c), Shuffled(s, l, c)
  PROVE  SameShape(s, l)
<1>1. PICK n : n = matrix_col_size(l, c)
  OBVIOUS
<1>2. n \in Nat /\ \A i \in Nat \ {0} : Cell(l, i, c) # Empty <=> i <= n
  BY <1>1, GoodSize
<1>3. \A i \in Nat \ {0} : Cell(s, i, c) # Empty <=> i <= n
  BY <1>1 DEF Shuffled
<1>4. ASSUME NEW i \in Nat \ {0}, NEW e \in Columns
      PROVE  Cell(s, i, e) # Empty <=> Cell(l, i, e) # Empty
  <2>1. CASE e = c
    BY <1>2, <1>3, <2>1
  <2>2. CASE e # c
    BY <2>2 DEF SameBeside
  <2> QED
    BY <2>1, <2>2
<1> QED
  BY <1>4 DEF SameShape

(* LoadedShape: loading a column again changes no shape.                   *)
LEMMA LoadedShape ==
  ASSUME NEW l, NEW m, NEW c \in Columns, SameBeside(l, m, c), SameIds(l, m, c)
  PROVE  SameShape(l, m)
<1>1. ASSUME NEW i \in Nat \ {0}, NEW e \in Columns
      PROVE  Cell(l, i, e) # Empty <=> Cell(m, i, e) # Empty
  <2>1. CASE e = c
    BY <2>1 DEF SameIds
  <2>2. CASE e # c
    BY <2>2 DEF SameBeside
  <2> QED
    BY <2>1, <2>2
<1> QED
  BY <1>1 DEF SameShape

(* k is l with the column of x in order, and r is k joined with a table.   *)
JoinSteps(d, l, k, t, ms, r, x, o) ==
  /\ Good(d, k) /\ SameBeside(k, l, x.key) /\ Shuffled(k, l, x.key) /\ Labelled(d, k, x)
  /\ \/ l.col_map[x.key] # [attr |-> x.payload, sorted |-> TRUE]
     \/ Keyed(d, l, x)
     => Keyed(d, k, x)
  /\ IsTable(d, t, o)
  /\ Matched(ms, k, x.key, t) /\ JoinsUp(r, k, t, o.key, ms)
  /\ Good(d, r)
  /\ \A c \in Columns :
       r.col_map[c] = IF c = o.key THEN [attr |-> o.payload, sorted |-> TRUE]
                      ELSE IF c = x.key THEN [attr |-> x.payload, sorted |-> TRUE]
                      ELSE l.col_map[c]
  /\ Rectangular(l) => Rectangular(r)

(* JoinStepsAre: a relation in the matrix is joined with another.          *)
LEMMA JoinStepsAre ==
  ASSUME NEW d \in Databases, d = rels, NEW x, IsEnd(x), NEW o, IsEnd(o),
         NEW l, Good(d, l), Labelled(d, l, x),
         NEW s \in SortExisting(l, x), NEW t \in SortedTables(o),
         NEW r, r = mx_join(Marked(s, o), x.key, t, o.key)
  PROVE  \E k, ms : JoinSteps(d, l, k, t, ms, r, x, o) /\ \A i, c : Cell(k, i, c) = Cell(s, i, c)
<1>1. /\ x.key \in Columns /\ x.payload \in Int /\ o.key \in Columns /\ o.payload \in Int
      /\ l \in Matrices
  BY AttributeIs DEF Good
<1>2. SortsColumn(d, s, l, x)
  BY SortExistingIs
<1>3. IsTable(d, t, o)
  BY TableIs
<1>4. PICK k : k = Marked(s, o)
  OBVIOUS
<1>5. /\ Good(d, k)
      /\ k.col_map = [s.col_map EXCEPT ![o.key] = [attr |-> o.payload, sorted |-> TRUE]]
      /\ \A i, c : Cell(k, i, c) = Cell(s, i, c)
      /\ Rectangular(s) => Rectangular(k)
  <2>1. Good(d, s)
    BY <1>2 DEF SortsColumn
  <2> QED
    BY <1>1, <1>4, <2>1, MarkedIs
<1>6. SameBeside(k, l, x.key)
  BY <1>2, <1>5 DEF SortsColumn, SameBeside
<1>7. Shuffled(k, l, x.key)
  BY <1>2, <1>5 DEF SortsColumn, Shuffled
<1>8. Labelled(d, k, x)
  BY <1>2, <1>5 DEF SortsColumn, Labelled
<1>9. Keyed(d, s, x) => Keyed(d, k, x)
  BY <1>5 DEF Keyed
<1>10. \/ l.col_map[x.key] # [attr |-> x.payload, sorted |-> TRUE]
       \/ Keyed(d, l, x)
       => Keyed(d, k, x)
  BY <1>2, <1>9 DEF SortsColumn
<1>11. /\ Good(d, r) /\ r.col_map = k.col_map
       /\ Rectangular(k) => Rectangular(r)
       /\ \E ms : Matched(ms, k, x.key, t) /\ JoinsUp(r, k, t, o.key, ms)
  <2>1. t \in Seq(FullTuple) /\ \A i \in 1 .. Len(t) : t[i].id \in IdsIn(d, o.key)
    BY <1>3 DEF IsTable
  <2>2. r = mx_join(k, x.key, t, o.key)
    BY <1>4
  <2> QED
    BY <1>1, <1>5, <2>1, <2>2, MxJoinIs
<1>12. Rectangular(l) => Rectangular(r)
  <2>1. SameShape(k, l)
    BY <1>1, <1>6, <1>7, ShuffledShape
  <2> QED
    BY <1>11, <2>1, ShapeRectangular
<1>13. ASSUME NEW c \in Columns
       PROVE  r.col_map[c] = IF c = o.key THEN [attr |-> o.payload, sorted |-> TRUE]
                             ELSE IF c = x.key THEN [attr |-> x.payload, sorted |-> TRUE]
                             ELSE l.col_map[c]
  <2>1. PICK xm : xm = [attr |-> x.payload, sorted |-> TRUE]
    OBVIOUS
  <2>2. PICK om : om = [attr |-> o.payload, sorted |-> TRUE]
    OBVIOUS
  <2>3. s.col_map = [l.col_map EXCEPT ![x.key] = xm]
    BY <1>2, <2>1 DEF SortsColumn
  <2>4. r.col_map = [s.col_map EXCEPT ![o.key] = om]
    BY <1>5, <1>11, <2>2
  <2>5. l.col_map \in [Columns -> Mark]
    BY <1>1 DEF Matrices
  <2>6. r.col_map[c] = IF c = o.key THEN om ELSE IF c = x.key THEN xm ELSE l.col_map[c]
    BY <2>3, <2>4, <2>5
  <2> QED
    BY <2>1, <2>2, <2>6
<1>14. PICK ms : Matched(ms, k, x.key, t) /\ JoinsUp(r, k, t, o.key, ms)
  BY <1>11
<1>15. Good(d, r)
  BY <1>11
<1>16. JoinSteps(d, l, k, t, ms, r, x, o)
  BY <1>3, <1>5, <1>6, <1>7, <1>8, <1>10, <1>12, <1>13, <1>14, <1>15 DEF JoinSteps
<1> QED
  BY <1>5, <1>16

(* JoinMarks: after a join the marks are true again: both columns joined   *)
(* are in the order of the table, the others in the order they had.        *)
LEMMA JoinMarks ==
  ASSUME NEW d \in Databases, NEW x, IsEnd(x), NEW o, IsEnd(o),
         NEW m, Marks(d, m), NEW l, SameBeside(l, m, x.key), l.col_map = m.col_map,
         NEW k, NEW t, NEW ms, NEW r, JoinSteps(d, l, k, t, ms, r, x, o)
  PROVE  Marks(d, r)
<1>1. /\ x.key \in Columns /\ x.payload \in DOMAIN d[x.key].column
      /\ o.key \in Columns /\ o.payload \in DOMAIN d[o.key].column
  BY AttributeIs
<1>2. PICK n \in Nat : n = Len(ms)
  <2>1. ms \in Seq(IndexPair)
    BY DEF JoinSteps, Matched
  <2> QED
    BY <2>1
<1>3. /\ \A i \in 1 .. n :
           /\ ms[i][1] \in Nat \ {0} /\ ms[i][2] \in 1 .. Len(t)
           /\ Cell(k, ms[i][1], x.key).key = t[ms[i][2]].key
           /\ Cell(k, ms[i][1], x.key) # Empty
      /\ \A i, j \in 1 .. n : i <= j => ms[i][1] <= ms[j][1]
      /\ \A i, j \in 1 .. n : i <= j => t[ms[i][2]].key <= t[ms[j][2]].key
  <2>1. Matched(ms, k, x.key, t) /\ AscendingKeys(t)
    BY DEF JoinSteps, IsTable
  <2>2. InStep(ms, t)
    BY <2>1 DEF Matched
  <2>3. \A i, j \in 1 .. n : i <= j => t[ms[i][2]].key <= t[ms[j][2]].key
    BY <1>2, <2>2 DEF InStep
  <2> QED
    BY <1>2, <2>1, <2>3 DEF Matched
<1>4. /\ \A i \in Nat \ {0} : Cell(r, i, o.key) = IF i <= n THEN t[ms[i][2]] ELSE Empty
      /\ \A i \in Nat \ {0} : \A e \in Columns \ {o.key} :
           Cell(r, i, e) = IF i <= n THEN Cell(k, ms[i][1], e) ELSE Empty
  <2>1. JoinsUp(r, k, t, o.key, ms)
    BY DEF JoinSteps
  <2> QED
    BY <1>2, <2>1 DEF JoinsUp
<1>5. \A i \in Nat \ {0} : i <= n => i \in 1 .. n
  OBVIOUS
<1>6. Keyed(d, r, o)
  <2>1. ASSUME NEW i \in Nat \ {0}, Cell(r, i, o.key) # Empty
        PROVE  i \in 1 .. n /\ Cell(r, i, o.key) = t[ms[i][2]]
    BY <1>4, <1>5, <2>1
  <2>2. ASSUME NEW i \in Nat \ {0}, Cell(r, i, o.key) # Empty
        PROVE  Cell(r, i, o.key).key = Val(d, o, Cell(r, i, o.key).id)
    <3>1. PICK y \in 1 .. Len(t) : y = ms[i][2]
      BY <1>3, <2>1, <2>2
    <3>2. t[y].key = Val(d, o, t[y].id)
      BY DEF JoinSteps, IsTable
    <3> QED
      BY <2>1, <2>2, <3>1, <3>2
  <2>3. ASSUME NEW i \in Nat \ {0}, NEW j \in Nat \ {0}, i <= j, Cell(r, j, o.key) # Empty
        PROVE  Cell(r, i, o.key).key <= Cell(r, j, o.key).key
    <3>1. j \in 1 .. n /\ Cell(r, j, o.key) = t[ms[j][2]]
      BY <2>1, <2>3
    <3>2. i \in 1 .. n /\ i <= n
      BY <1>2, <2>3, <3>1
    <3>3. Cell(r, i, o.key) = t[ms[i][2]]
      BY <1>4, <3>2
    <3> QED
      BY <1>3, <2>3, <3>1, <3>2, <3>3
  <2> QED
    BY <2>2, <2>3 DEF Keyed
<1>7. ASSUME x.key # o.key PROVE Keyed(d, r, x)
  <2>1. ASSUME NEW i \in Nat \ {0}, Cell(r, i, x.key) # Empty
        PROVE  i \in 1 .. n /\ Cell(r, i, x.key) = Cell(k, ms[i][1], x.key)
    BY <1>1, <1>4, <1>5, <1>7, <2>1
  <2>2. ASSUME NEW i \in Nat \ {0}, Cell(r, i, x.key) # Empty
        PROVE  Cell(r, i, x.key).key = Val(d, x, Cell(r, i, x.key).id)
    <3>1. PICK y \in Nat \ {0} : y = ms[i][1]
      BY <1>3, <2>1, <2>2
    <3>2. Cell(k, y, x.key) # Empty /\ Cell(r, i, x.key) = Cell(k, y, x.key)
      BY <2>1, <2>2, <3>1
    <3>3. Labelled(d, k, x)
      BY DEF JoinSteps
    <3> QED
      BY <3>2, <3>3 DEF Labelled
  <2>3. ASSUME NEW i \in Nat \ {0}, NEW j \in Nat \ {0}, i <= j, Cell(r, j, x.key) # Empty
        PROVE  Cell(r, i, x.key).key <= Cell(r, j, x.key).key
    <3>1. j \in 1 .. n /\ Cell(r, j, x.key) = Cell(k, ms[j][1], x.key)
      BY <2>1, <2>3
    <3>2. i \in 1 .. n /\ i <= n
      BY <1>2, <2>3, <3>1
    <3>3. Cell(r, i, x.key) = Cell(k, ms[i][1], x.key)
      BY <1>1, <1>4, <1>7, <3>2
    <3>4. Cell(r, i, x.key).key = t[ms[i][2]].key /\ Cell(r, j, x.key).key = t[ms[j][2]].key
      BY <1>3, <3>1, <3>2, <3>3
    <3> QED
      BY <1>3, <2>3, <3>1, <3>2, <3>4
  <2> QED
    BY <2>2, <2>3 DEF Keyed
<1>8. ASSUME NEW end, end.key \in Columns, end.key # o.key, end.key # x.key, Keyed(d, m, end)
      PROVE  Keyed(d, r, end)
  <2>1. \A i \in Nat \ {0} : Cell(k, i, end.key) = Cell(m, i, end.key)
    <3>1. SameBeside(k, l, x.key)
      BY DEF JoinSteps
    <3> QED
      BY <1>8, <3>1 DEF SameBeside
  <2>2. Keyed(d, k, end)
    BY <1>8, <2>1 DEF Keyed
  <2>3. PICK src : src = [i \in 1 .. n |-> ms[i][1]]
    OBVIOUS
  <2>4. \A i \in 1 .. n : src[i] = ms[i][1]
    BY <2>3
  <2>5. Takes(r, k, n, src)
    BY <1>3, <2>4 DEF Takes
  <2>6. \A i \in Nat \ {0} : Cell(r, i, end.key) = IF i <= n THEN Cell(k, src[i], end.key) ELSE Empty
    BY <1>4, <1>5, <1>8, <2>4
  <2> QED
    BY <2>2, <2>5, <2>6, KeyedFrom
<1>9. ASSUME NEW c \in Columns
      PROVE  \/ r.col_map[c] = [attr |-> NoAttribute, sorted |-> FALSE]
             \/ /\ r.col_map[c].attr \in DOMAIN d[c].column
                /\ r.col_map[c].sorted = TRUE
                /\ Keyed(d, r, [key |-> c, payload |-> r.col_map[c].attr])
  <2>1. CASE c = o.key
    <3>1. r.col_map[c] = [attr |-> o.payload, sorted |-> TRUE]
      BY <2>1 DEF JoinSteps
    <3>2. Keyed(d, r, [key |-> c, payload |-> o.payload])
      BY <1>6, <2>1, KeyedSame
    <3> QED
      BY <1>1, <2>1, <3>1, <3>2
  <2>2. CASE c # o.key /\ c = x.key
    <3>1. r.col_map[c] = [attr |-> x.payload, sorted |-> TRUE]
      BY <2>2 DEF JoinSteps
    <3>2. Keyed(d, r, [key |-> c, payload |-> x.payload])
      BY <1>7, <2>2, KeyedSame
    <3> QED
      BY <1>1, <2>2, <3>1, <3>2
  <2>3. CASE c # o.key /\ c # x.key
    <3>1. r.col_map[c] = m.col_map[c]
      BY <2>3 DEF JoinSteps
    <3>2. CASE m.col_map[c] = [attr |-> NoAttribute, sorted |-> FALSE]
      BY <3>1, <3>2
    <3>3. CASE /\ m.col_map[c].attr \in DOMAIN d[c].column
               /\ m.col_map[c].sorted = TRUE
               /\ Keyed(d, m, [key |-> c, payload |-> m.col_map[c].attr])
      <4>1. PICK end : end = [key |-> c, payload |-> m.col_map[c].attr]
        OBVIOUS
      <4>2. end.key = c /\ Keyed(d, m, end)
        BY <3>3, <4>1
      <4>3. Keyed(d, r, end)
        BY <1>8, <2>3, <4>2
      <4> QED
        BY <3>1, <3>3, <4>1, <4>3
    <3> QED
      BY <3>2, <3>3 DEF Marks
  <2> QED
    BY <2>1, <2>2, <2>3
<1> QED
  BY <1>9 DEF Marks

-----------------------------------------------------------------------------
(* The invariant *)

(* HoldsIs: what the properties call in order.                             *)
LEMMA HoldsIs ==
  ASSUME NEW d, d = rels, NEW m, Good(d, m), NEW end, end.key \in Columns, Keyed(d, m, end)
  PROVE  HoldsInOrder(m, end)
<1>1. m \in Matrices
  BY DEF Good
<1>2. PICK n : n = matrix_col_size(m, end.key)
  OBVIOUS
<1>3. n \in Nat /\ \A i \in Nat \ {0} : Cell(m, i, end.key) # Empty <=> i <= n
  BY <1>2, GoodSize
<1>4. PICK u : u = Column(m, end.key)
  OBVIOUS
<1>5. Len(u) = n /\ \A i \in 1 .. n : u[i] = Cell(m, i, end.key)
  BY <1>1, <1>2, <1>4, ColumnIs
<1>6. \A i \in 1 .. n : i \in Nat \ {0} /\ Cell(m, i, end.key) # Empty
  BY <1>3
<1>7. \A i \in 1 .. n : u[i].key = Value(end, u[i].id)
  BY <1>5, <1>6, ValueIs DEF Keyed
<1>8. \A i, k \in 1 .. n : i <= k => u[i].key <= u[k].key
  BY <1>5, <1>6 DEF Keyed
<1> QED
  BY <1>4, <1>5, <1>7, <1>8 DEF HoldsInOrder

(* RestOfList: the head of a list and the rest of it.                          *)
LEMMA RestOfList ==
  ASSUME NEW E, NEW s, s \in Seq(E), s # <<>>
  PROVE  /\ Head(s) = s[1] /\ Head(s) \in ToSet(s) /\ Tail(s) \in Seq(E)
         /\ ToSet(s) = {Head(s)} \cup ToSet(Tail(s))
         /\ \A k \in 1 .. Len(Tail(s)) : k + 1 \in 1 .. Len(s) /\ Tail(s)[k] = s[k + 1]
<1>1. PICK t : t = Tail(s)
  OBVIOUS
<1>2. t \in Seq(E) /\ Len(t) = Len(s) - 1 /\ Len(s) \in Nat \ {0} /\ Head(s) = s[1]
  BY <1>1
<1>3. \A k \in 1 .. Len(t) : k + 1 \in 1 .. Len(s) /\ t[k] = s[k + 1]
  BY <1>1, <1>2
<1>4. 1 \in 1 .. Len(s)
  BY <1>2
<1>5. /\ DOMAIN s = 1 .. Len(s) /\ DOMAIN t = 1 .. Len(t)
  BY <1>2
<1>6. ToSet(s) \subseteq {Head(s)} \cup ToSet(t)
  <2>1. ASSUME NEW i \in 1 .. Len(s) PROVE s[i] = Head(s) \/ \E k \in 1 .. Len(t) : t[k] = s[i]
    <3>1. CASE i = 1
      BY <1>2, <3>1
    <3>2. CASE i # 1
      <4>1. i - 1 \in 1 .. Len(t) /\ (i - 1) + 1 = i
        BY <1>2, <3>2
      <4> QED
        BY <1>3, <4>1
    <3> QED
      BY <3>1, <3>2
  <2> QED
    BY <1>5, <2>1 DEF ToSet
<1>7. {Head(s)} \cup ToSet(t) \subseteq ToSet(s)
  BY <1>2, <1>3, <1>4, <1>5 DEF ToSet
<1>8. Head(s) \in ToSet(s)
  BY <1>7
<1> QED
  BY <1>1, <1>2, <1>3, <1>6, <1>7, <1>8

(* What the list of a query goes through.                                  *)
ListInv ==
  /\ rels \in Databases /\ query \in Queries
  /\ preds \in Seq(ToSet(query.preds))
  /\ ran \cup ToSet(preds) = ToSet(query.preds)
  /\ \A k \in 1 .. Len(preds) : IsConstant(preds[k].right) =>
       \A i \in 1 .. k : IsConstant(preds[i].right)
  /\ phase = "joins" => \A p \in ToSet(preds) : ~IsConstant(p.right)

(* PredicateIs: what is on the list is a predicate.                        *)
LEMMA PredicateIs ==
  ASSUME ListInv
  PROVE  /\ \A p \in ToSet(query.preds) : IsPredicate(p)
         /\ ToSet(preds) \subseteq ToSet(query.preds) /\ ran \subseteq ToSet(query.preds)
<1>1. IsQuery(query)
  BY EngineAssumption DEF ListInv
<1> QED
  BY <1>1 DEF IsQuery, ListInv

(* ExecutedList: a predicate is taken from the list.                       *)
LEMMA ExecutedList ==
  ASSUME ListInv, preds # <<>>, Executed(Head(preds)), UNCHANGED <<rels, query, phase>>
  PROVE  ListInv'
<1>1. preds \in Seq(ToSet(query.preds))
  BY DEF ListInv
<1>2. /\ Head(preds) = preds[1] /\ Head(preds) \in ToSet(preds) /\ Tail(preds) \in Seq(ToSet(query.preds))
      /\ ToSet(preds) = {Head(preds)} \cup ToSet(Tail(preds))
      /\ \A k \in 1 .. Len(Tail(preds)) : k + 1 \in 1 .. Len(preds) /\ Tail(preds)[k] = preds[k + 1]
  BY <1>1, RestOfList
<1>3. preds' = Tail(preds) /\ ran' = ran \cup {Head(preds)}
  BY DEF Executed
<1>4. preds' \in Seq(ToSet(query.preds)) /\ ran' \cup ToSet(preds') = ToSet(query.preds)
  BY <1>2, <1>3 DEF ListInv
<1>5. ASSUME NEW k \in 1 .. Len(preds'), IsConstant(preds'[k].right), NEW i \in 1 .. k
      PROVE  IsConstant(preds'[i].right)
  <2>1. PICK n \in Nat : n = Len(preds')
    BY <1>4
  <2>2. i \in 1 .. Len(preds') /\ i + 1 \in 1 .. k + 1
    BY <1>5, <2>1
  <2>3. preds'[k] = preds[k + 1] /\ preds'[i] = preds[i + 1] /\ k + 1 \in 1 .. Len(preds)
    BY <1>2, <1>3, <2>2
  <2> QED
    BY <1>5, <2>2, <2>3 DEF ListInv
<1>6. phase' = "joins" => \A p \in ToSet(preds') : ~IsConstant(p.right)
  BY <1>2, <1>3 DEF ListInv
<1> QED
  BY <1>4, <1>5, <1>6 DEF ListInv

(* ListKept: every step leaves the list in order.                          *)
LEMMA ListKept == ListInv /\ [Next]_vars => ListInv'
<1> SUFFICES ASSUME ListInv, [Next]_vars PROVE ListInv'
  OBVIOUS
<1>1. CASE Filter
  BY <1>1, ExecutedList DEF Filter
<1>2. CASE SortJoins
  <2>1. CASE empty
    <3>1. UNCHANGED <<rels, query, preds, ran>> /\ phase' = "project"
      BY <1>2, <2>1 DEF SortJoins
    <3> QED
      BY <3>1 DEF ListInv
  <2>2. CASE ~empty
    <3>1. /\ UNCHANGED <<rels, query, ran>> /\ preds' = nodelist_mergesort(preds)
          /\ preds = <<>> \/ is_pred_join(Head(preds))
      BY <1>2, <2>2 DEF SortJoins
    <3>2. preds \in Seq(ToSet(query.preds))
      BY DEF ListInv
    <3>3. preds' \in Seq(ToSet(preds)) /\ ToSet(preds') = ToSet(preds)
      BY <3>1, <3>2, SortKeepsAll
    <3>4. ToSet(preds) \subseteq ToSet(query.preds)
      BY PredicateIs
    <3>5. preds' \in Seq(ToSet(query.preds))
      BY <3>3, <3>4
    <3>6. \A p \in ToSet(preds) : ~IsConstant(p.right)
      <4>1. ASSUME NEW k \in 1 .. Len(preds) PROVE ~IsConstant(preds[k].right)
        <5>1. preds # <<>> /\ 1 \in 1 .. k /\ Head(preds) = preds[1]
          BY <3>2, <4>1
        <5>2. ~IsConstant(preds[1].right)
          BY <3>1, <5>1 DEF is_pred_join, IsConstant
        <5> QED
          BY <5>1, <5>2 DEF ListInv
      <4>2. DOMAIN preds = 1 .. Len(preds)
        BY <3>2
      <4> QED
        BY <4>1, <4>2 DEF ToSet
    <3>7. \A k \in 1 .. Len(preds') : ~IsConstant(preds'[k].right)
      <4>1. \A k \in 1 .. Len(preds') : preds'[k] \in ToSet(preds)
        BY <3>3
      <4> QED
        BY <3>6, <4>1
    <3>8. ran' \cup ToSet(preds') = ToSet(query'.preds)
      BY <3>1, <3>3 DEF ListInv
    <3> QED
      BY <3>1, <3>3, <3>5, <3>6, <3>7, <3>8 DEF ListInv
  <2> QED
    BY <1>2, <2>1, <2>2 DEF SortJoins
<1>3. CASE Join
  <2>1. PICK p : Joining(p)
    BY <1>3 DEF Join
  <2> QED
    BY <2>1, ExecutedList DEF Joining
<1>4. CASE Finalize
  <2>1. UNCHANGED <<rels, query, preds, ran>> /\ phase' = "project"
    BY <1>4 DEF Finalize
  <2> QED
    BY <2>1 DEF ListInv
<1>5. CASE Projection
  <2>1. UNCHANGED <<rels, query, preds, ran>> /\ phase' # "joins"
    BY <1>5 DEF Projection
  <2> QED
    BY <2>1 DEF ListInv
<1>6. CASE UNCHANGED vars
  BY <1>6 DEF ListInv, vars
<1> QED
  BY <1>1, <1>2, <1>3, <1>4, <1>5, <1>6 DEF Next

(* What the phases of a query know of the matrix.                          *)
PhaseInv ==
  /\ phase \in {"filters", "joins", "project", "done"} /\ empty \in BOOLEAN
  /\ irregular \subseteq {"refiltered", "torn", "ragged", "forgotten", "selfcompared", "missing"}
  /\ sums \in Seq(ToSet(sums)) /\ Len(sums) <= Len(query.projs)
  /\ phase = "filters" => matrix.col_map = matrix_init.col_map /\ "ragged" \notin irregular
  /\ phase \in {"filters", "joins"} /\ ran = {} => matrix = matrix_init
  /\ empty => matrix_isempty(matrix) /\ ran # {}
  /\ phase \in {"project", "done"} => empty \/ preds = <<>>

(* The matrix is one of row ids, and its marks are true.                   *)
MatrixInv == Good(rels, matrix) /\ Marks(rels, matrix)

(* Rows lack an id only when a whole relation was loaded beside others.    *)
RaggedInv == "ragged" \notin irregular => Rectangular(matrix) /\ "missing" \notin irregular

(* InitIs: the matrix of a query that has not begun.                       *)
LEMMA InitIs ==
  ASSUME NEW d
  PROVE  /\ Good(d, matrix_init) /\ Rectangular(matrix_init) /\ Blank(matrix_init)
         /\ \A c \in Columns : matrix_init.col_map[c] = [attr |-> NoAttribute, sorted |-> FALSE]
<1>1. /\ matrix_init.data = <<>>
      /\ matrix_init.col_map = [c \in Columns |-> [attr |-> NoAttribute, sorted |-> FALSE]]
      /\ matrix_init = [data |-> matrix_init.data, col_map |-> matrix_init.col_map]
  BY DEF matrix_init
<1>2. [attr |-> NoAttribute, sorted |-> FALSE] \in Mark
  BY DEF Mark, NoAttribute
<1>3. matrix_init.col_map \in [Columns -> Mark]
  BY <1>1, <1>2
<1>4. matrix_init \in Matrices
  <2>1. PICK e : e = <<>> /\ e \in Seq(Row)
    <3>1. <<>> \in Seq(Row)
      OBVIOUS
    <3> QED
      BY <3>1, Zenon
  <2>2. PICK f \in [Columns -> Mark] : f = matrix_init.col_map
    BY <1>3
  <2>3. matrix_init = [data |-> e, col_map |-> f]
    BY <1>1, <2>1, <2>2
  <2> QED
    BY <2>1, <2>2, <2>3 DEF Matrices
<1>5. \A i, c : Cell(matrix_init, i, c) = Empty
  BY <1>1 DEF Cell, Rows
<1>6. Good(d, matrix_init)
  BY <1>4, <1>5 DEF Good, Packed
<1> QED
  BY <1>1, <1>5, <1>6 DEF Rectangular, Blank

(* InitialMarks: a matrix that no join has met has true marks.             *)
LEMMA InitialMarks ==
  ASSUME NEW d, NEW m, m.col_map = matrix_init.col_map
  PROVE  Marks(d, m)
<1>1. \A c \in Columns : matrix_init.col_map[c] = [attr |-> NoAttribute, sorted |-> FALSE]
  BY InitIs
<1> QED
  BY <1>1 DEF Marks

(* FilterIs: what a filter makes of the matrix.                            *)
LEMMA FilterIs ==
  ASSUME ListInv, PhaseInv, MatrixInv, RaggedInv, Filter
  PROVE  /\ Good(rels, matrix') /\ matrix'.col_map = matrix_init.col_map /\ Rectangular(matrix')
         /\ empty' => matrix_isempty(matrix')
         /\ \/ irregular' = irregular \cup Forgotten
            \/ irregular' = irregular \cup Refiltered(Head(preds)) \cup SelfCompared(Head(preds))
<1>1. PICK d : d = rels
  OBVIOUS
<1>2. d \in Databases /\ Good(d, matrix) /\ Rectangular(matrix)
  BY <1>1 DEF ListInv, MatrixInv, PhaseInv, RaggedInv, Filter
<1>3. matrix.col_map = matrix_init.col_map
  BY DEF PhaseInv, Filter
<1>4. PICK p : p = Head(preds)
  OBVIOUS
<1>5. preds \in Seq(ToSet(query.preds)) /\ preds # <<>> /\ ~is_pred_join(p)
  BY <1>4 DEF ListInv, Filter
<1>6. p \in ToSet(preds)
  BY <1>4, <1>5, RestOfList
<1>7. IsPredicate(p)
  BY <1>6, PredicateIs
<1>8. IsConstant(p.right) \/ p.right.key = p.left.key
  <2>1. CASE ~IsConstant(p.right)
    <3>1. p.op = "=" /\ IsEnd(p.right)
      BY <1>7, <2>1 DEF IsPredicate
    <3>2. p.right.payload \in Nat
      BY <1>2, <3>1, AttributeIs
    <3>3. p.right.payload # Constant
      BY <3>2 DEF Constant
    <3> QED
      BY <1>5, <3>1, <3>3 DEF is_pred_join
  <2> QED
    BY <2>1
<1>9. CASE matrix_isempty(matrix) \/ IsEmptyRow(matrix.data[1])
  <2>1. /\ matrix' = query_filter_all(p) /\ empty' = matrix_isempty(matrix')
        /\ irregular' = irregular \cup Forgotten
    BY <1>4, <1>9 DEF Filter
  <2>2. Blank(matrix)
    BY <1>2, <1>9, BlankIs
  <2>3. Good(d, matrix') /\ matrix'.col_map = matrix.col_map /\ Rectangular(matrix')
    BY <1>1, <1>2, <1>7, <2>1, <2>2, FilterAllIs
  <2> QED
    BY <1>1, <1>3, <2>1, <2>3
<1>10. CASE ~(matrix_isempty(matrix) \/ IsEmptyRow(matrix.data[1]))
  <2>1. /\ matrix' = query_filter_existing(p) /\ empty' = FALSE
        /\ irregular' = irregular \cup Refiltered(p) \cup SelfCompared(p)
    BY <1>4, <1>10 DEF Filter
  <2>2. Good(d, matrix') /\ matrix'.col_map = matrix.col_map /\ Rectangular(matrix')
    BY <1>1, <1>2, <1>7, <1>8, <2>1, FilterExistingIs
  <2> QED
    BY <1>1, <1>3, <1>4, <2>1, <2>2
<1> QED
  BY <1>9, <1>10

(* FilterKeeps: a filter keeps the invariant.                              *)
LEMMA FilterKeeps ==
  ASSUME ListInv, PhaseInv, MatrixInv, RaggedInv, Filter
  PROVE  PhaseInv' /\ MatrixInv' /\ RaggedInv'
<1>1. /\ Good(rels, matrix') /\ matrix'.col_map = matrix_init.col_map /\ Rectangular(matrix')
      /\ empty' => matrix_isempty(matrix')
      /\ \/ irregular' = irregular \cup Forgotten
         \/ irregular' = irregular \cup Refiltered(Head(preds)) \cup SelfCompared(Head(preds))
  BY FilterIs
<1>2. /\ UNCHANGED <<rels, query, phase, sums>> /\ phase = "filters" /\ empty' \in BOOLEAN
      /\ ran' = ran \cup {Head(preds)}
  BY DEF Filter, Executed, matrix_isempty
<1>3. /\ "ragged" \notin irregular /\ "missing" \notin irregular
      /\ irregular \subseteq {"refiltered", "torn", "ragged", "forgotten", "selfcompared", "missing"}
  BY <1>2 DEF PhaseInv, RaggedInv
<1>4. /\ "ragged" \notin irregular' /\ "missing" \notin irregular'
      /\ irregular' \subseteq {"refiltered", "torn", "ragged", "forgotten", "selfcompared", "missing"}
  BY <1>1, <1>3 DEF Forgotten, Refiltered, SelfCompared
<1>5. RaggedInv'
  BY <1>1, <1>4 DEF RaggedInv
<1>6. Marks(rels, matrix')
  BY <1>1, InitialMarks
<1>7. MatrixInv'
  BY <1>1, <1>2, <1>6 DEF MatrixInv
<1>8. PhaseInv'
  <2>1. sums' \in Seq(ToSet(sums')) /\ Len(sums') <= Len(query'.projs)
    BY <1>2 DEF PhaseInv
  <2>2. ran' # {}
    BY <1>2
  <2> QED
    BY <1>1, <1>2, <1>4, <2>1, <2>2 DEF PhaseInv
<1> QED
  BY <1>5, <1>7, <1>8

(* HeadEnds: the predicate of a join names two attributes.                 *)
LEMMA HeadEnds ==
  ASSUME ListInv, NEW p, phase = "joins", preds # <<>>, p = Head(preds)
  PROVE  /\ IsPredicate(p) /\ IsEnd(p.left) /\ IsEnd(p.right) /\ p.op = "="
         /\ p.left.key \in Columns /\ p.right.key \in Columns /\ p.right.payload # Constant
         /\ rels \in Databases
<1>1. preds \in Seq(ToSet(query.preds)) /\ preds # <<>> /\ p = Head(preds) /\ phase = "joins"
  BY DEF ListInv
<1>2. p \in ToSet(preds)
  BY <1>1, RestOfList
<1>3. IsPredicate(p) /\ ~IsConstant(p.right) /\ rels \in Databases
  BY <1>1, <1>2, PredicateIs DEF ListInv
<1>4. IsEnd(p.left) /\ IsEnd(p.right) /\ p.op = "="
  BY <1>3 DEF IsPredicate
<1>5. p.left.key \in Columns /\ p.right.key \in Columns /\ p.right.payload \in Nat
  BY <1>3, <1>4, AttributeIs
<1>6. p.right.payload # Constant
  BY <1>5 DEF Constant
<1> QED
  BY <1>3, <1>4, <1>5, <1>6

(* JoinEnds: so does that of a join being executed.                        *)
LEMMA JoinEnds ==
  ASSUME ListInv, NEW p, Joining(p)
  PROVE  /\ IsPredicate(p) /\ IsEnd(p.left) /\ IsEnd(p.right) /\ p.op = "="
         /\ p.left.key \in Columns /\ p.right.key \in Columns /\ p.right.payload # Constant
         /\ rels \in Databases
BY HeadEnds DEF Joining

(* ThinnedMarks: rows taken in order keep the marks true.                  *)
LEMMA ThinnedMarks ==
  ASSUME NEW d, NEW m, Marks(d, m), NEW r, r.col_map = m.col_map, NEW n, NEW src, Takes(r, m, n, src),
         \A i \in Nat \ {0} : \A e \in Columns :
           Cell(r, i, e) = IF i <= n THEN Cell(m, src[i], e) ELSE Empty
  PROVE  Marks(d, r)
<1>1. ASSUME NEW c \in Columns
      PROVE  \/ r.col_map[c] = [attr |-> NoAttribute, sorted |-> FALSE]
             \/ /\ r.col_map[c].attr \in DOMAIN d[c].column
                /\ r.col_map[c].sorted = TRUE
                /\ Keyed(d, r, [key |-> c, payload |-> r.col_map[c].attr])
  <2>1. CASE m.col_map[c] = [attr |-> NoAttribute, sorted |-> FALSE]
    BY <2>1
  <2>2. CASE /\ m.col_map[c].attr \in DOMAIN d[c].column
             /\ m.col_map[c].sorted = TRUE
             /\ Keyed(d, m, [key |-> c, payload |-> m.col_map[c].attr])
    <3>1. PICK end : end = [key |-> c, payload |-> m.col_map[c].attr]
      OBVIOUS
    <3>2. end.key = c /\ Keyed(d, m, end)
      BY <2>2, <3>1
    <3>3. \A i \in Nat \ {0} :
            Cell(r, i, end.key) = IF i <= n THEN Cell(m, src[i], end.key) ELSE Empty
      BY <3>2
    <3>4. Keyed(d, r, end)
      BY <3>2, <3>3, KeyedFrom
    <3> QED
      BY <2>2, <3>1, <3>4
  <2> QED
    BY <2>1, <2>2 DEF Marks
<1> QED
  BY <1>1 DEF Marks

(* NoneMissing: rows without gaps have the ids that a join reads.          *)
LEMMA NoneMissing ==
  ASSUME NEW d, Good(d, matrix), Rectangular(matrix), NEW p,
         p.left.key \in Columns, p.right.key \in Columns, BothLoaded(p)
  PROVE  Missing(p) = {}
<1>1. matrix \in Matrices /\ Packed(matrix)
  BY DEF Good
<1>2. Cell(matrix, 1, p.left.key) # Empty /\ Cell(matrix, 1, p.right.key) # Empty
  BY <1>1, LoadedIs DEF BothLoaded
<1>3. PICK h \in Nat : h = Rows(matrix)
  BY <1>1 DEF Matrices, Rows
<1>4. PICK u : u = Used(matrix)
  OBVIOUS
<1>5. u \in 0 .. h /\ \A i \in Nat \ {0} : i <= u <=> \E e \in Columns : Cell(matrix, i, e) # Empty
  BY <1>1, <1>3, <1>4, UsedIs
<1>6. ASSUME NEW i \in 1 .. u, NEW c \in Columns, Cell(matrix, 1, c) # Empty
      PROVE  matrix.data[i][c] # Empty
  <2>1. i \in Nat \ {0} /\ i \in 1 .. Rows(matrix) /\ i <= u
    BY <1>3, <1>5
  <2>2. PICK e \in Columns : Cell(matrix, i, e) # Empty
    BY <1>5, <2>1
  <2>3. Cell(matrix, i, c) # Empty
    BY <1>6, <2>1, <2>2 DEF Rectangular
  <2> QED
    BY <2>1, <2>3 DEF Cell
<1>7. ~ReadsMissingId(p)
  BY <1>2, <1>4, <1>6 DEF ReadsMissingId
<1> QED
  BY <1>7 DEF Missing

(* JoinExistingKeeps: a join of two relations in the matrix keeps the      *)
(* invariant of the matrix.                                                *)
LEMMA JoinExistingKeeps ==
  ASSUME ListInv, MatrixInv, RaggedInv, NEW p, Joining(p), JoinExisting(p)
  PROVE  MatrixInv' /\ RaggedInv'
<1>1. PICK d : d = rels
  OBVIOUS
<1>2. Good(d, matrix) /\ Marks(d, matrix) /\ rels' = rels
  BY <1>1 DEF MatrixInv, Joining
<1>3. PICK r : r = matrix'
  OBVIOUS
<1>4. r = query_join_existing(p) /\ BothLoaded(p)
  BY <1>3 DEF JoinExisting
<1>5. PICK kept : Thins(d, r, matrix, kept)
  BY <1>2, <1>4, JoinExistingIs
<1>6. Marks(d, r)
  <2>1. /\ r.col_map = matrix.col_map /\ Takes(r, matrix, Len(kept), kept)
        /\ \A i \in Nat \ {0} : \A e \in Columns :
             Cell(r, i, e) = IF i <= Len(kept) THEN Cell(matrix, kept[i], e) ELSE Empty
    BY <1>5 DEF Thins
  <2> QED
    BY <1>2, <2>1, ThinnedMarks
<1>7. MatrixInv'
  BY <1>1, <1>2, <1>3, <1>5, <1>6 DEF MatrixInv, Thins
<1>8. ASSUME "ragged" \notin irregular' PROVE Rectangular(r) /\ "missing" \notin irregular'
  <2>1. irregular' = irregular \cup Forgotten \cup Missing(p)
    BY DEF JoinExisting
  <2>2. Rectangular(matrix) /\ "missing" \notin irregular
    BY <1>8, <2>1 DEF RaggedInv
  <2>3. Missing(p) = {}
    <3>1. p.left.key \in Columns /\ p.right.key \in Columns
      BY JoinEnds
    <3> QED
      BY <1>2, <1>4, <2>2, <3>1, NoneMissing
  <2> QED
    BY <1>5, <2>1, <2>2, <2>3 DEF Forgotten, Thins
<1> QED
  BY <1>3, <1>7, <1>8 DEF RaggedInv

(* LoadedRectangular: a relation loaded on its own, or again, leaves no    *)
(* gaps.                                                                   *)
LEMMA LoadedRectangular ==
  ASSUME NEW d, Good(d, matrix), Rectangular(matrix), NEW x, x.key \in Columns,
         Ragged(x) = {}, NEW l, Loads(d, l, matrix, x)
  PROVE  Rectangular(l)
<1>1. matrix \in Matrices
  BY DEF Good
<1>2. CASE Cell(matrix, 1, x.key) # Empty
  <2>1. SameBeside(l, matrix, x.key) /\ SameIds(l, matrix, x.key)
    BY <1>2 DEF Loads
  <2>2. SameShape(l, matrix)
    BY <2>1, LoadedShape
  <2> QED
    BY <2>2, ShapeRectangular
<1>3. CASE Cell(matrix, 1, x.key) = Empty
  <2>1. ~Loaded(matrix, x.key)
    BY <1>1, <1>3, LoadedIs
  <2>2. Used(matrix) \in Nat /\ ~(Used(matrix) > 0)
    BY <2>1, BlankIs DEF Ragged
  <2>3. Blank(matrix)
    BY <2>2, BlankIs
  <2>4. \A c \in Columns : \A i \in Nat \ {0} : Cell(matrix, i, c) = Empty
    BY <2>3, BlankIs
  <2>5. \A i \in Nat \ {0} : \A e \in Columns \ {x.key} : Cell(l, i, e) = Empty
    BY <2>4 DEF Loads, SameBeside
  <2>6. ASSUME NEW c \in Columns, NEW e \in Columns, NEW i \in Nat \ {0},
               Cell(l, 1, c) # Empty, Cell(l, i, e) # Empty
        PROVE  Cell(l, i, c) # Empty
    <3>1. 1 \in Nat \ {0}
      OBVIOUS
    <3>2. c = x.key /\ e = x.key
      BY <2>5, <2>6, <3>1
    <3> QED
      BY <2>6, <3>2
  <2> QED
    BY <2>6 DEF Rectangular
<1> QED
  BY <1>2, <1>3

(* EndsAre: the two relations of a join.                                   *)
LEMMA EndsAre ==
  ASSUME NEW p
  PROVE  \/ Existing(p) = p.left /\ Other(p) = p.right
         \/ Existing(p) = p.right /\ Other(p) = p.left
BY DEF Existing, Other

(* JoinOtherKeeps: so does a join with a relation that is not in it.       *)
LEMMA JoinOtherKeeps ==
  ASSUME ListInv, MatrixInv, RaggedInv, NEW p, Joining(p), JoinOther(p)
  PROVE  MatrixInv' /\ RaggedInv'
<1>1. PICK d : d = rels
  OBVIOUS
<1>2. d \in Databases /\ Good(d, matrix) /\ Marks(d, matrix) /\ rels' = rels
  BY <1>1 DEF ListInv, MatrixInv, Joining
<1>3. PICK x : x = Existing(p)
  OBVIOUS
<1>4. PICK o : o = Other(p)
  OBVIOUS
<1>5. IsEnd(x) /\ IsEnd(o)
  BY <1>3, <1>4, JoinEnds, EndsAre
<1>6. x.key \in Columns
  BY <1>5 DEF IsEnd
<1>7. PICK l : l = LoadExisting(matrix, x)
  OBVIOUS
<1>8. PICK s \in SortExisting(l, x), t \in SortedTables(o) :
        /\ matrix' = mx_join(Marked(s, o), x.key, t, o.key)
        /\ irregular' = irregular \cup Forgotten \cup Ragged(x) \cup SelfCompared(p) \cup Torn(l, s, x.key)
  BY <1>3, <1>4, <1>7 DEF JoinOther
<1>9. PICK r : r = matrix'
  OBVIOUS
<1>10. Loads(d, l, matrix, x)
  BY <1>1, <1>2, <1>5, <1>7, LoadExistingIs
<1>11. Good(d, l) /\ Labelled(d, l, x) /\ SameBeside(l, matrix, x.key) /\ l.col_map = matrix.col_map
  BY <1>10 DEF Loads
<1>12. PICK k, ms : JoinSteps(d, l, k, t, ms, r, x, o)
  <2>1. r = mx_join(Marked(s, o), x.key, t, o.key)
    BY <1>8, <1>9
  <2> QED
    BY <1>1, <1>2, <1>5, <1>11, <2>1, JoinStepsAre
<1>13. Marks(d, r)
  BY <1>2, <1>5, <1>11, <1>12, JoinMarks
<1>14. Good(d, r) /\ (Rectangular(l) => Rectangular(r))
  BY <1>12 DEF JoinSteps
<1>15. MatrixInv'
  BY <1>1, <1>2, <1>9, <1>13, <1>14 DEF MatrixInv
<1>16. ASSUME "ragged" \notin irregular' PROVE Rectangular(r) /\ "missing" \notin irregular'
  <2>1. Ragged(x) = {} /\ "ragged" \notin irregular
    BY <1>8, <1>16 DEF Ragged
  <2>2. Rectangular(matrix) /\ "missing" \notin irregular
    BY <2>1 DEF RaggedInv
  <2>3. Rectangular(l)
    BY <1>2, <1>6, <1>10, <2>1, <2>2, LoadedRectangular
  <2>4. "missing" \notin irregular'
    BY <1>8, <2>1, <2>2 DEF Forgotten, SelfCompared, Torn
  <2> QED
    BY <1>14, <2>3, <2>4
<1> QED
  BY <1>9, <1>15, <1>16 DEF RaggedInv

(* JoinKeeps: a join keeps the invariant.                                  *)
LEMMA JoinKeeps ==
  ASSUME ListInv, PhaseInv, MatrixInv, RaggedInv, Join
  PROVE  PhaseInv' /\ MatrixInv' /\ RaggedInv'
<1>1. PICK p : /\ Joining(p) /\ (JoinExisting(p) \/ JoinOther(p))
               /\ empty' = matrix_isempty(matrix')
  BY DEF Join
<1>2. MatrixInv' /\ RaggedInv'
  BY <1>1, JoinExistingKeeps, JoinOtherKeeps
<1>3. /\ UNCHANGED <<rels, query, phase, sums>> /\ phase = "joins" /\ ran' = ran \cup {p}
      /\ empty' \in BOOLEAN
  BY <1>1 DEF Joining, Executed, matrix_isempty
<1>4. irregular' \subseteq {"refiltered", "torn", "ragged", "forgotten", "selfcompared", "missing"}
  <2>1. irregular \subseteq {"refiltered", "torn", "ragged", "forgotten", "selfcompared", "missing"}
    BY DEF PhaseInv
  <2>2. CASE JoinExisting(p)
    BY <2>1, <2>2 DEF JoinExisting, Forgotten, Missing
  <2>3. CASE JoinOther(p)
    <3>1. PICK l, s, x : irregular' = irregular \cup Forgotten \cup Ragged(x)
                                        \cup SelfCompared(p) \cup Torn(l, s, x.key)
      BY <2>3 DEF JoinOther
    <3> QED
      BY <2>1, <3>1 DEF Forgotten, Ragged, SelfCompared, Torn
  <2> QED
    BY <1>1, <2>2, <2>3
<1>5. ran' # {}
  BY <1>3
<1>6. sums' \in Seq(ToSet(sums')) /\ Len(sums') <= Len(query'.projs)
  BY <1>3 DEF PhaseInv
<1>7. PhaseInv'
  BY <1>1, <1>3, <1>4, <1>5, <1>6 DEF PhaseInv
<1> QED
  BY <1>2, <1>7

(* SameMarks: marks are about tuples.                                      *)
LEMMA SameMarks ==
  ASSUME NEW d, NEW m, Marks(d, m), NEW r, r.col_map = m.col_map,
         \A i \in Nat \ {0} : \A e \in Columns : Cell(r, i, e) = Cell(m, i, e)
  PROVE  Marks(d, r)
<1>1. ASSUME NEW end, end.key \in Columns, Keyed(d, m, end) PROVE Keyed(d, r, end)
  BY <1>1 DEF Keyed
<1>2. ASSUME NEW c \in Columns, Keyed(d, m, [key |-> c, payload |-> m.col_map[c].attr])
      PROVE  Keyed(d, r, [key |-> c, payload |-> r.col_map[c].attr])
  <2>1. PICK end : end = [key |-> c, payload |-> m.col_map[c].attr]
    OBVIOUS
  <2>2. end.key = c
    BY <2>1
  <2>3. Keyed(d, r, end)
    BY <1>1, <1>2, <2>1, <2>2
  <2> QED
    BY <2>1, <2>3
<1> QED
  BY <1>2 DEF Marks

(* FinalizeKeeps: so does the end of the joins.                            *)
LEMMA FinalizeKeeps ==
  ASSUME PhaseInv, MatrixInv, RaggedInv, Finalize
  PROVE  PhaseInv' /\ MatrixInv' /\ RaggedInv'
<1>1. PICK d : d = rels
  OBVIOUS
<1>2. /\ UNCHANGED <<rels, query, preds, empty, sums, ran, irregular>> /\ phase' = "project"
      /\ empty \/ preds = <<>>
      /\ matrix' = IF empty THEN matrix ELSE matrix_finalize(matrix)
  BY DEF Finalize
<1>3. Good(d, matrix) /\ Marks(d, matrix)
  BY <1>1 DEF MatrixInv
<1>4. PICK r : r = matrix'
  OBVIOUS
<1>5. /\ Good(d, r) /\ r.col_map = matrix.col_map
      /\ \A i \in Nat \ {0} : \A e \in Columns : Cell(r, i, e) = Cell(matrix, i, e)
      /\ Rectangular(matrix) => Rectangular(r)
  <2>1. CASE empty
    BY <1>2, <1>3, <1>4, <2>1
  <2>2. CASE ~empty
    BY <1>2, <1>3, <1>4, <2>2, FinalizeGood
  <2> QED
    BY <2>1, <2>2
<1>6. Marks(d, r)
  BY <1>3, <1>5, SameMarks
<1>7. MatrixInv'
  BY <1>1, <1>2, <1>4, <1>5, <1>6 DEF MatrixInv
<1>8. RaggedInv'
  BY <1>2, <1>4, <1>5 DEF RaggedInv
<1>9. sums' \in Seq(ToSet(sums')) /\ Len(sums') <= Len(query'.projs)
  BY <1>2 DEF PhaseInv
<1>10. PhaseInv'
  BY <1>2, <1>9 DEF PhaseInv
<1> QED
  BY <1>7, <1>8, <1>10

(* SortJoinsKeeps: and the end of the filters.                             *)
LEMMA SortJoinsKeeps ==
  ASSUME ListInv, PhaseInv, MatrixInv, RaggedInv, SortJoins
  PROVE  PhaseInv' /\ MatrixInv' /\ RaggedInv'
<1>1. /\ UNCHANGED <<rels, query, matrix, empty, sums, ran, irregular>>
      /\ phase = "filters" /\ phase' = IF empty THEN "project" ELSE "joins"
  BY DEF SortJoins
<1>2. MatrixInv' /\ RaggedInv'
  BY <1>1 DEF MatrixInv, RaggedInv
<1>3. sums' \in Seq(ToSet(sums')) /\ Len(sums') <= Len(query'.projs)
  BY <1>1 DEF PhaseInv
<1>4. PhaseInv'
  BY <1>1, <1>3 DEF PhaseInv
<1> QED
  BY <1>2, <1>4

(* AppendMore: a sequence and one more.                                    *)
LEMMA AppendMore ==
  ASSUME NEW S, NEW s, s \in Seq(S), NEW v, NEW r, r = Append(s, v)
  PROVE  r \in Seq(ToSet(r)) /\ Len(r) = Len(s) + 1
<1>1. PICK T : T = S \cup {v}
  OBVIOUS
<1>2. s \in Seq(T) /\ v \in T
  BY <1>1
<1>3. r \in Seq(T) /\ Len(r) = Len(s) + 1
  BY <1>2
<1>4. \A i \in 1 .. Len(r) : r[i] \in ToSet(r)
  BY <1>3 DEF ToSet
<1>5. r \in Seq(ToSet(r))
  BY <1>3, <1>4
<1> QED
  BY <1>3, <1>5

(* ProjectionKeeps: and the sums.                                          *)
LEMMA ProjectionKeeps ==
  ASSUME ListInv, PhaseInv, MatrixInv, RaggedInv, Projection
  PROVE  PhaseInv' /\ MatrixInv' /\ RaggedInv'
<1>1. /\ UNCHANGED <<rels, query, preds, matrix, empty, ran, irregular>>
      /\ phase = "project" /\ phase' \in {"project", "done"}
      /\ Len(sums) < Len(query.projs)
  BY DEF Projection
<1>2. MatrixInv' /\ RaggedInv'
  BY <1>1 DEF MatrixInv, RaggedInv
<1>3. PICK v : sums' = Append(sums, v)
  BY DEF Projection
<1>4. sums' \in Seq(ToSet(sums')) /\ Len(sums') = Len(sums) + 1
  BY <1>3, AppendMore DEF PhaseInv
<1>5. Len(sums) \in Nat
  BY DEF PhaseInv
<1>6. Len(query.projs) \in Nat
  <2>1. IsQuery(query)
    BY EngineAssumption DEF ListInv
  <2> QED
    BY <2>1 DEF IsQuery
<1>7. Len(sums') <= Len(query'.projs)
  BY <1>1, <1>4, <1>5, <1>6
<1>8. PhaseInv'
  BY <1>1, <1>4, <1>7 DEF PhaseInv
<1> QED
  BY <1>2, <1>8

(* A column that calls itself sorted is filled, unless no row is left.     *)
MarkedFilled(m) == \A c \in Columns : m.col_map[c].sorted => Cell(m, 1, c) # Empty \/ Blank(m)

(* Between two joins, as long as no result was forgotten or loaded ragged. *)
MarkedInv ==
  phase = "joins" /\ "ragged" \notin irregular /\ "forgotten" \notin irregular => MarkedFilled(matrix)

(* ThinnedFilled: rows taken from rows without gaps have none.             *)
LEMMA ThinnedFilled ==
  ASSUME NEW d, NEW m, Good(d, m), Rectangular(m), MarkedFilled(m),
         NEW r, NEW kept, Thins(d, r, m, kept)
  PROVE  MarkedFilled(r)
<1>1. PICK n \in Nat : n = Len(kept)
  BY DEF Thins, Takes
<1>2. 1 \in Nat \ {0} /\ r.col_map = m.col_map
  BY DEF Thins
<1>3. CASE n = 0
  <2>1. \A c \in Columns : Cell(r, 1, c) = Empty
    BY <1>1, <1>2, <1>3 DEF Thins
  <2> QED
    BY <2>1 DEF Blank, MarkedFilled
<1>4. CASE n # 0
  <2>1. PICK i : i = kept[1]
    OBVIOUS
  <2>2. 1 \in 1 .. n /\ 1 <= n
    BY <1>4
  <2>3. \A c \in Columns : Cell(r, 1, c) = Cell(m, i, c)
    BY <1>1, <1>2, <2>1, <2>2 DEF Thins
  <2>4. i \in 1 .. Used(m)
    BY <1>1, <2>1, <2>2 DEF Thins
  <2>5. m \in Matrices /\ Packed(m) /\ Rows(m) \in Nat /\ Used(m) \in Nat
    <3>1. m \in Matrices /\ Packed(m)
      BY DEF Good
    <3>2. Rows(m) \in Nat
      BY <3>1 DEF Matrices, Rows
    <3> QED
      BY <3>1, <3>2, BlankIs
  <2>6. i \in Nat \ {0} /\ i <= Used(m)
    BY <2>4, <2>5
  <2>7. PICK e \in Columns : Cell(m, i, e) # Empty
    BY <2>5, <2>6, UsedIs
  <2>8. ~Blank(m)
    BY <2>6, <2>7, BlankIs
  <2>9. ASSUME NEW c \in Columns, r.col_map[c].sorted PROVE Cell(r, 1, c) # Empty
    <3>1. Cell(m, 1, c) # Empty
      BY <1>2, <2>8, <2>9 DEF MarkedFilled
    <3> QED
      BY <2>3, <2>6, <2>7, <3>1 DEF Rectangular
  <2> QED
    BY <2>9 DEF MarkedFilled
<1> QED
  BY <1>3, <1>4

(* JoinedFilled: nor have rows extended by those of a table.               *)
LEMMA JoinedFilled ==
  ASSUME NEW d \in Databases, NEW x, IsEnd(x), NEW o, IsEnd(o),
         NEW m, \A c \in Columns : m.col_map[c].sorted => Cell(m, 1, c) # Empty,
         NEW l, Good(d, l), Rectangular(l), SameBeside(l, m, x.key), l.col_map = m.col_map,
         NEW k, NEW t, NEW ms, NEW r, JoinSteps(d, l, k, t, ms, r, x, o)
  PROVE  MarkedFilled(r)
<1>1. x.key \in Columns /\ o.key \in Columns /\ 1 \in Nat \ {0}
  BY AttributeIs
<1>2. Matched(ms, k, x.key, t) /\ JoinsUp(r, k, t, o.key, ms) /\ IsTable(d, t, o)
  BY DEF JoinSteps
<1>3. PICK n \in Nat : n = Len(ms)
  <2>1. ms \in Seq(IndexPair)
    BY <1>2 DEF Matched
  <2> QED
    BY <2>1
<1>4. CASE n = 0
  <2>1. \A c \in Columns : Cell(r, 1, c) = Empty
    BY <1>1, <1>2, <1>3, <1>4 DEF JoinsUp
  <2> QED
    BY <2>1 DEF Blank, MarkedFilled
<1>5. CASE n # 0
  <2>1. 1 \in 1 .. n /\ 1 <= n
    BY <1>5
  <2>2. PICK i, j : i = ms[1][1] /\ j = ms[1][2]
    OBVIOUS
  <2>3. i \in Nat \ {0} /\ Cell(k, i, x.key) # Empty /\ j \in 1 .. Len(t)
    BY <1>2, <1>3, <2>1, <2>2 DEF Matched
  <2>4. Cell(r, 1, o.key) = t[j] /\ \A e \in Columns \ {o.key} : Cell(r, 1, e) = Cell(k, i, e)
    BY <1>1, <1>2, <1>3, <2>1, <2>2 DEF JoinsUp
  <2>5. t[j] # Empty
    <3>1. t \in Seq(FullTuple)
      BY <1>2 DEF IsTable
    <3>2. t[j] \in FullTuple
      BY <2>3, <3>1
    <3> QED
      BY <3>2 DEF FullTuple, Empty
  <2>6. SameBeside(k, l, x.key) /\ Shuffled(k, l, x.key)
    BY DEF JoinSteps
  <2>7. Rectangular(k)
    <3>1. SameShape(k, l)
      BY <1>1, <2>6, ShuffledShape
    <3> QED
      BY <3>1, ShapeRectangular
  <2>8. ASSUME NEW c \in Columns, r.col_map[c].sorted PROVE Cell(r, 1, c) # Empty
    <3>1. CASE c = o.key
      BY <2>4, <2>5, <3>1
    <3>2. CASE c = x.key /\ c # o.key
      BY <2>3, <2>4, <3>2
    <3>3. CASE c # x.key /\ c # o.key
      <4>1. m.col_map[c].sorted
        BY <2>8, <3>3 DEF JoinSteps
      <4>2. Cell(k, 1, c) # Empty
        BY <1>1, <2>6, <3>3, <4>1 DEF SameBeside
      <4>3. Cell(k, i, c) # Empty
        BY <1>1, <2>3, <2>7, <4>2 DEF Rectangular
      <4> QED
        BY <2>4, <3>3, <4>3
    <3> QED
      BY <3>1, <3>2, <3>3
  <2> QED
    BY <2>8 DEF MarkedFilled
<1> QED
  BY <1>4, <1>5

(* UnmarkedFirst: a query that executed no join has marked nothing.        *)
LEMMA UnmarkedFirst ==
  ASSUME NEW m, m.col_map = matrix_init.col_map, NEW c \in Columns
  PROVE  m.col_map[c] = [attr |-> NoAttribute, sorted |-> FALSE] /\ ~m.col_map[c].sorted
<1>1. m.col_map[c] = [attr |-> NoAttribute, sorted |-> FALSE]
  BY InitIs
<1> QED
  BY <1>1

(* NotForgotten: rows are left, or nothing was executed.                   *)
LEMMA NotForgotten ==
  ASSUME PhaseInv, MatrixInv, phase = "joins", Blank(matrix), Forgotten = {},
         NEW c \in Columns
  PROVE  ~matrix.col_map[c].sorted
<1>1. Used(matrix) = 0
  BY BlankIs DEF MatrixInv
<1>2. ran = {}
  BY <1>1 DEF Forgotten
<1>3. matrix.col_map = matrix_init.col_map
  BY <1>2 DEF PhaseInv
<1> QED
  BY <1>3, UnmarkedFirst

(* MarkedKept: the invariant is kept by every step.                        *)
LEMMA MarkedKept ==
  ASSUME ListInv, PhaseInv, MatrixInv, RaggedInv, MarkedInv, [Next]_vars
  PROVE  MarkedInv'
<1>1. CASE Filter
  BY <1>1 DEF Filter, MarkedInv
<1>2. CASE SortJoins
  <2>1. matrix.col_map = matrix_init.col_map /\ matrix' = matrix
    BY <1>2 DEF SortJoins, PhaseInv
  <2>2. \A c \in Columns : ~matrix'.col_map[c].sorted
    BY <2>1, UnmarkedFirst
  <2> QED
    BY <2>2 DEF MarkedInv, MarkedFilled
<1>3. CASE Join
  <2> SUFFICES ASSUME "ragged" \notin irregular', "forgotten" \notin irregular'
               PROVE  MarkedFilled(matrix')
    BY DEF MarkedInv
  <2>1. PICK p : Joining(p) /\ (JoinExisting(p) \/ JoinOther(p))
    BY <1>3 DEF Join
  <2>2. PICK d : d = rels
    OBVIOUS
  <2>3. d \in Databases /\ Good(d, matrix) /\ Marks(d, matrix) /\ phase = "joins"
    BY <2>1, <2>2 DEF ListInv, MatrixInv, Joining
  <2>4. PICK r : r = matrix'
    OBVIOUS
  <2>5. CASE JoinExisting(p)
    <3>1. irregular' = irregular \cup Forgotten \cup Missing(p)
      BY <2>5 DEF JoinExisting
    <3>2. Rectangular(matrix) /\ MarkedFilled(matrix)
      BY <2>3, <3>1 DEF RaggedInv, MarkedInv
    <3>3. r = query_join_existing(p)
      BY <2>4, <2>5 DEF JoinExisting
    <3>4. PICK kept : Thins(d, r, matrix, kept)
      BY <2>3, <3>3, JoinExistingIs
    <3> QED
      BY <2>3, <2>4, <3>2, <3>4, ThinnedFilled
  <2>6. CASE JoinOther(p)
    <3>1. PICK x : x = Existing(p)
      OBVIOUS
    <3>2. PICK o : o = Other(p)
      OBVIOUS
    <3>3. IsEnd(x) /\ IsEnd(o) /\ x.key \in Columns
      BY <2>1, <3>1, <3>2, JoinEnds, EndsAre DEF IsEnd
    <3>4. PICK l : l = LoadExisting(matrix, x)
      OBVIOUS
    <3>5. PICK s \in SortExisting(l, x), t \in SortedTables(o) :
            /\ matrix' = mx_join(Marked(s, o), x.key, t, o.key)
            /\ irregular' = irregular \cup Forgotten \cup Ragged(x) \cup SelfCompared(p) \cup Torn(l, s, x.key)
      BY <2>6, <3>1, <3>2, <3>4 DEF JoinOther
    <3>6. Loads(d, l, matrix, x)
      BY <2>2, <2>3, <3>3, <3>4, LoadExistingIs
    <3>7. Good(d, l) /\ Labelled(d, l, x) /\ SameBeside(l, matrix, x.key) /\ l.col_map = matrix.col_map
      BY <3>6 DEF Loads
    <3>8. PICK k, ms : JoinSteps(d, l, k, t, ms, r, x, o)
      <4>1. r = mx_join(Marked(s, o), x.key, t, o.key)
        BY <2>4, <3>5
      <4> QED
        BY <2>2, <2>3, <3>3, <3>7, <4>1, JoinStepsAre
    <3>9. Ragged(x) = {} /\ Forgotten = {} /\ "ragged" \notin irregular /\ "forgotten" \notin irregular
      BY <3>5 DEF Ragged, Forgotten
    <3>10. Rectangular(matrix) /\ MarkedFilled(matrix)
      BY <2>3, <3>9 DEF RaggedInv, MarkedInv
    <3>11. Rectangular(l)
      BY <2>3, <3>3, <3>6, <3>9, <3>10, LoadedRectangular
    <3>12. \A c \in Columns : matrix.col_map[c].sorted => Cell(matrix, 1, c) # Empty
      BY <2>3, <3>9, <3>10, NotForgotten DEF MarkedFilled
    <3> QED
      BY <2>3, <2>4, <3>3, <3>7, <3>8, <3>11, <3>12, JoinedFilled
  <2> QED
    BY <2>1, <2>5, <2>6
<1>4. CASE Finalize
  BY <1>4 DEF Finalize, MarkedInv
<1>5. CASE Projection
  BY <1>5 DEF Projection, MarkedInv
<1>6. CASE UNCHANGED vars
  BY <1>6 DEF vars, MarkedInv
<1> QED
  BY <1>1, <1>2, <1>3, <1>4, <1>5, <1>6 DEF Next

EngineInv == ListInv /\ PhaseInv /\ MatrixInv /\ RaggedInv /\ MarkedInv

(* EngineInvIs: it is an invariant of the engine.                          *)
LEMMA EngineInvIs == Spec => []EngineInv
<1>1. Init => EngineInv
  <2> SUFFICES ASSUME Init PROVE EngineInv
    OBVIOUS
  <2>1. IsQuery(query) /\ query \in Queries /\ rels \in Databases
    BY EngineAssumption DEF Init
  <2>2. ListInv
    BY <2>1 DEF Init, ListInv, IsQuery
  <2>3. Good(rels, matrix) /\ Rectangular(matrix) /\ matrix.col_map = matrix_init.col_map
    BY InitIs DEF Init
  <2>4. Marks(rels, matrix)
    BY <2>3, InitialMarks
  <2>5. sums \in Seq(ToSet(sums)) /\ Len(sums) <= Len(query.projs)
    <3>1. <<>> \in Seq(ToSet(sums)) /\ Len(<<>>) = 0
      OBVIOUS
    <3>2. Len(query.projs) \in Nat
      BY <2>1 DEF IsQuery
    <3> QED
      BY <3>1, <3>2 DEF Init
  <2>6. PhaseInv
    BY <2>3, <2>5 DEF Init, PhaseInv
  <2> QED
    BY <2>2, <2>3, <2>4, <2>6 DEF Init, EngineInv, MatrixInv, RaggedInv, MarkedInv
<1>2. EngineInv /\ [Next]_vars => EngineInv'
  <2> SUFFICES ASSUME EngineInv, [Next]_vars PROVE EngineInv'
    OBVIOUS
  <2>1. ListInv /\ PhaseInv /\ MatrixInv /\ RaggedInv /\ MarkedInv
    BY DEF EngineInv
  <2>2. ListInv'
    BY <2>1, ListKept
  <2>3. PhaseInv' /\ MatrixInv' /\ RaggedInv'
    <3>1. CASE Filter
      BY <2>1, <3>1, FilterKeeps
    <3>2. CASE SortJoins
      BY <2>1, <3>2, SortJoinsKeeps
    <3>3. CASE Join
      BY <2>1, <3>3, JoinKeeps
    <3>4. CASE Finalize
      BY <2>1, <3>4, FinalizeKeeps
    <3>5. CASE Projection
      BY <2>1, <3>5, ProjectionKeeps
    <3>6. CASE UNCHANGED vars
      BY <2>1, <3>6 DEF vars, PhaseInv, MatrixInv, RaggedInv
    <3> QED
      BY <3>1, <3>2, <3>3, <3>4, <3>5, <3>6 DEF Next
  <2>4. MarkedInv'
    BY <2>1, MarkedKept
  <2> QED
    BY <2>2, <2>3, <2>4 DEF EngineInv
<1> QED
  BY <1>1, <1>2, PTL DEF Spec

(* EngineTypes: TypeOK holds in every state of every query.                *)
THEOREM EngineTypes == Spec => []TypeOK
<1>1. EngineInv => TypeOK
  <2> SUFFICES ASSUME EngineInv PROVE TypeOK
    OBVIOUS
  <2>1. ListInv /\ PhaseInv /\ Good(rels, matrix) /\ Marks(rels, matrix)
    BY DEF EngineInv, MatrixInv
  <2>2. ToSet(preds) \subseteq ToSet(query.preds) /\ ran \subseteq ToSet(query.preds)
    BY <2>1, PredicateIs
  <2>3. ASSUME NEW i \in 1 .. Rows(matrix), NEW c \in Columns
        PROVE  matrix.data[i][c] = Empty \/ matrix.data[i][c].id \in RowIds(c)
    <3>1. matrix \in Matrices /\ Rows(matrix) \in Nat
      BY <2>1 DEF Good, Matrices, Rows
    <3>2. i \in Nat \ {0} /\ matrix.data[i][c] = Cell(matrix, i, c)
      BY <3>1 DEF Cell
    <3>3. Cell(matrix, i, c) # Empty => Cell(matrix, i, c).id \in IdsIn(rels, c)
      BY <2>1, <3>2 DEF Good
    <3> QED
      BY <3>2, <3>3, ValueIs
  <2>4. ASSUME NEW c \in Columns
        PROVE  matrix.col_map[c].attr \in DOMAIN rels[c].column \cup {NoAttribute}
    <3>1. CASE matrix.col_map[c] = [attr |-> NoAttribute, sorted |-> FALSE]
      <4>1. matrix.col_map[c].attr = NoAttribute
        BY <3>1
      <4> QED
        BY <4>1
    <3>2. CASE matrix.col_map[c].attr \in DOMAIN rels[c].column
      BY <3>2
    <3> QED
      BY <2>1, <3>1, <3>2 DEF Marks
  <2>5. /\ empty \in BOOLEAN /\ phase \in {"filters", "joins", "project", "done"}
        /\ Len(sums) <= Len(query.projs)
        /\ irregular \subseteq {"refiltered", "torn", "ragged", "forgotten", "selfcompared", "missing"}
    BY <2>1 DEF PhaseInv
  <2> QED
    BY <2>2, <2>3, <2>4, <2>5 DEF TypeOK
<1> QED
  BY <1>1, EngineInvIs, PTL

(* IdsMissOnlyIfRagged: no row in use lacks an id that a join reads unless *)
(* a whole relation was loaded into a column beside others.                *)
THEOREM IdsMissOnlyIfRagged == Spec => []MissingIdsOnlyIfRagged
<1>1. EngineInv => MissingIdsOnlyIfRagged
  BY DEF EngineInv, RaggedInv, MissingIdsOnlyIfRagged
<1> QED
  BY <1>1, EngineInvIs, PTL

(* SortedMarksTrue: the mark of a column that mx_join relies on is true in *)
(* every state, whatever filters and joins have done to the rows.          *)
THEOREM SortedMarksTrue == Spec => []MarksTruthful
<1>1. EngineInv => MarksTruthful
  <2> SUFFICES ASSUME EngineInv, NEW c \in Columns, matrix.col_map[c].sorted
               PROVE  HoldsInOrder(matrix, [key |-> c, payload |-> matrix.col_map[c].attr])
    BY DEF MarksTruthful
  <2>1. Good(rels, matrix) /\ Marks(rels, matrix)
    BY DEF EngineInv, MatrixInv
  <2>2. PICK end : end = [key |-> c, payload |-> matrix.col_map[c].attr]
    OBVIOUS
  <2>3. end.key \in Columns /\ Keyed(rels, matrix, end)
    BY <2>1, <2>2 DEF Marks
  <2>4. HoldsInOrder(matrix, end)
    BY <2>1, <2>3, HoldsIs
  <2> QED
    BY <2>2, <2>4
<1> QED
  BY <1>1, EngineInvIs, PTL

(* MergesAreInOrder: mx_join gets the column of the matrix in the order of *)
(* the attribute joined, though load_all trusts the mark, except when the  *)
(* mark is that of rows a join removed; then a result without rows was     *)
(* forgotten, or the rows left had lost the column.                        *)
THEOREM MergesAreInOrder == Spec => []MergesInOrder
<1>1. EngineInv => MergesInOrder
  <2> SUFFICES ASSUME EngineInv, phase = "joins", preds # <<>>,
                      NEW p, p = Head(preds), NEW x, x = Existing(p)
               PROVE  \/ \A s \in SortExisting(LoadExisting(matrix, x), x) : HoldsInOrder(s, x)
                      \/ /\ StaleMark(x)
                         /\ {"forgotten", "ragged"} \cap (irregular \cup Forgotten) # {}
    BY DEF MergesInOrder
  <2>1. ListInv /\ PhaseInv /\ MatrixInv /\ MarkedInv /\ Good(rels, matrix) /\ Marks(rels, matrix)
    BY DEF EngineInv, MatrixInv
  <2>2. PICK d : d = rels
    OBVIOUS
  <2>3. d \in Databases /\ IsEnd(x)
    BY <2>1, <2>2, HeadEnds, EndsAre
  <2>4. x.key \in Columns /\ matrix \in Matrices
    BY <2>1, <2>3 DEF IsEnd, Good
  <2>5. PICK l : l = LoadExisting(matrix, x)
    OBVIOUS
  <2>6. Loads(d, l, matrix, x)
    BY <2>1, <2>2, <2>3, <2>5, LoadExistingIs
  <2>7. Loaded(matrix, x.key) <=> Cell(matrix, 1, x.key) # Empty
    BY <2>4, LoadedIs
  <2>8. CASE StaleMark(x)
    <3>1. matrix.col_map[x.key].sorted /\ Cell(matrix, 1, x.key) = Empty
      BY <2>7, <2>8 DEF StaleMark
    <3>2. ASSUME "forgotten" \notin irregular, "ragged" \notin irregular, Forgotten = {} PROVE FALSE
      <4>1. Blank(matrix)
        BY <2>1, <2>4, <3>1, <3>2 DEF MarkedInv, MarkedFilled
      <4> QED
        BY <2>1, <2>4, <3>1, <3>2, <4>1, NotForgotten
    <3>3. Forgotten \in {{}, {"forgotten"}}
      BY DEF Forgotten
    <3>4. {"forgotten", "ragged"} \cap (irregular \cup Forgotten) # {}
      BY <3>2, <3>3
    <3> QED
      BY <2>8, <3>4
  <2>9. CASE ~StaleMark(x)
    <3> SUFFICES ASSUME NEW s \in SortExisting(l, x) PROVE HoldsInOrder(s, x)
      BY <2>5
    <3>1. SortsColumn(d, s, l, x)
      BY <2>3, <2>5, <2>6, SortExistingIs DEF Loads
    <3>2. \/ l.col_map[x.key] # [attr |-> x.payload, sorted |-> TRUE]
          \/ Keyed(d, l, x)
      <4>1. CASE Loaded(matrix, x.key)
        <5>1. Cell(matrix, 1, x.key) # Empty
          BY <2>7, <4>1
        <5>2. ASSUME l.col_map[x.key] = [attr |-> x.payload, sorted |-> TRUE] PROVE Keyed(d, l, x)
          BY <2>6, <5>1, <5>2 DEF Loads
        <5> QED
          BY <5>2
      <4>2. CASE ~Loaded(matrix, x.key)
        <5>1. matrix.col_map[x.key] # [attr |-> x.payload, sorted |-> TRUE]
          BY <2>9, <4>2 DEF StaleMark
        <5>2. l.col_map = matrix.col_map
          BY <2>6 DEF Loads
        <5> QED
          BY <5>1, <5>2
      <4> QED
        BY <4>1, <4>2
    <3>3. Good(d, s) /\ Keyed(d, s, x)
      BY <3>1, <3>2 DEF SortsColumn
    <3> QED
      BY <2>2, <2>4, <3>3, HoldsIs
  <2> QED
    BY <2>8, <2>9
<1> QED
  BY <1>1, EngineInvIs, PTL

-----------------------------------------------------------------------------
(* Exact matrices *)

(* Rows a and b of the relations of a predicate satisfy it.                *)
Pass(d, p, a, b) ==
  filter_pass(Val(d, p.left, a),
              IF p.right.payload = Constant THEN p.right.key ELSE Val(d, p.right, b), p.op)

(* A choice of rows of the relations in J that satisfies the predicates.   *)
Answers(d, f, J, R) ==
  /\ \A c \in J : f[c] \in IdsIn(d, c)
  /\ \A p \in R : Pass(d, p, f[p.left.key], f[p.right.key])

IdAt(m, i, c) == Cell(m, i, c).id

(* The columns in J are filled up to row n, the others are empty.          *)
Fills(m, J, n) ==
  /\ n \in Nat /\ J \subseteq Columns
  /\ \A i \in Nat \ {0} : \A c \in Columns : Cell(m, i, c) # Empty <=> c \in J /\ i <= n

Sound(d, m, R, n) ==
  \A i \in 1 .. n : \A p \in R : Pass(d, p, IdAt(m, i, p.left.key), IdAt(m, i, p.right.key))

Complete(d, m, J, R, n) ==
  \A f : Answers(d, f, J, R) => \E i \in 1 .. n : \A c \in J : IdAt(m, i, c) = f[c]

Distinct(m, J, n) ==
  \A i, k \in 1 .. n : (\A c \in J : IdAt(m, i, c) = IdAt(m, k, c)) => i = k

(* The rows of m are, each once, the answers.                              *)
Exact(d, m, J, R, n) ==
  /\ Fills(m, J, n) /\ (\A p \in R : Ends(p) \subseteq J)
  /\ Sound(d, m, R, n) /\ Complete(d, m, J, R, n) /\ Distinct(m, J, n)

(* EndsIn: the relations of a predicate.                                   *)
LEMMA EndsIn ==
  ASSUME NEW J, NEW p
  PROVE  Ends(p) \subseteq J <=> p.left.key \in J /\ (p.right.payload # Constant => p.right.key \in J)
BY DEF Ends

(* PassSame: a predicate looks at the rows of its relations only.          *)
LEMMA PassSame ==
  ASSUME NEW d, NEW p, NEW a, NEW b, NEW x, NEW y,
         a = x, p.right.payload # Constant => b = y
  PROVE  Pass(d, p, a, b) <=> Pass(d, p, x, y)
<1>1. CASE p.right.payload = Constant
  BY <1>1 DEF Pass
<1>2. CASE p.right.payload # Constant
  BY <1>2
<1> QED
  BY <1>1, <1>2

(* Row i of r has the ids of row k of m.                                   *)
SameRow(r, i, m, k, J) == \A c \in J : IdAt(r, i, c) = IdAt(m, k, c)

(* RowPasses: two rows with the same ids satisfy the same.                 *)
LEMMA RowPasses ==
  ASSUME NEW d, NEW p, NEW J, Ends(p) \subseteq J, NEW r, NEW i, NEW m, NEW k,
         SameRow(r, i, m, k, J)
  PROVE  Pass(d, p, IdAt(r, i, p.left.key), IdAt(r, i, p.right.key))
         <=> Pass(d, p, IdAt(m, k, p.left.key), IdAt(m, k, p.right.key))
<1>1. p.left.key \in J /\ (p.right.payload # Constant => p.right.key \in J)
  BY EndsIn
<1>2. /\ IdAt(r, i, p.left.key) = IdAt(m, k, p.left.key)
      /\ p.right.payload # Constant => IdAt(r, i, p.right.key) = IdAt(m, k, p.right.key)
  BY <1>1 DEF SameRow
<1> QED
  BY <1>2, PassSame

(* SoundFrom: rows with the ids of rows that satisfy the predicates do.    *)
LEMMA SoundFrom ==
  ASSUME NEW d, NEW m, NEW J, NEW R, NEW n, Exact(d, m, J, R, n), NEW r, NEW i, NEW k \in 1 .. n,
         SameRow(r, i, m, k, J), NEW p \in R
  PROVE  Pass(d, p, IdAt(r, i, p.left.key), IdAt(r, i, p.right.key))
<1>1. Ends(p) \subseteq J
  BY DEF Exact
<1>2. Pass(d, p, IdAt(m, k, p.left.key), IdAt(m, k, p.right.key))
  BY DEF Exact, Sound
<1> QED
  BY <1>1, <1>2, RowPasses

(* ExactUsed: such a matrix has a row in use for every answer.             *)
LEMMA ExactUsed ==
  ASSUME NEW d, NEW m, Good(d, m), NEW J, NEW n, Fills(m, J, n), NEW c \in J
  PROVE  Used(m) = n
<1>1. m \in Matrices /\ Packed(m)
  BY DEF Good
<1>2. PICK h \in Nat : h = Rows(m)
  BY <1>1 DEF Matrices, Rows
<1>3. PICK u : u = Used(m)
  OBVIOUS
<1>4. u \in 0 .. h /\ \A i \in Nat \ {0} : i <= u <=> \E e \in Columns : Cell(m, i, e) # Empty
  BY <1>1, <1>2, <1>3, UsedIs
<1>5. n \in Nat /\ c \in Columns
  BY DEF Fills
<1>6. \A i \in Nat \ {0} : i <= u <=> i <= n
  BY <1>4, <1>5 DEF Fills
<1>7. u \in Nat
  BY <1>4
<1>8. u # 0 => u <= n
  BY <1>6, <1>7
<1>9. n # 0 => n <= u
  BY <1>5, <1>6
<1> QED
  BY <1>3, <1>5, <1>7, <1>8, <1>9

(* ExactSame: being exact is a matter of ids.                              *)
LEMMA ExactSame ==
  ASSUME NEW d, NEW m, NEW J, NEW R, NEW n, Exact(d, m, J, R, n),
         NEW r, \A c \in Columns : SameIds(r, m, c)
  PROVE  Exact(d, r, J, R, n)
<1>1. Fills(m, J, n) /\ n \in Nat /\ J \subseteq Columns
  BY DEF Exact, Fills
<1>2. Fills(r, J, n)
  BY <1>1 DEF Fills, SameIds
<1>3. ASSUME NEW i \in 1 .. n, NEW c \in J PROVE IdAt(r, i, c) = IdAt(m, i, c)
  <2>1. i \in Nat \ {0} /\ i <= n
    BY <1>1
  <2>2. Cell(m, i, c) # Empty
    BY <1>1, <2>1 DEF Fills
  <2> QED
    BY <1>1, <2>1, <2>2 DEF SameIds, IdAt
<1>4. Sound(d, r, R, n)
  <2>1. ASSUME NEW i \in 1 .. n, NEW p \in R
        PROVE  Pass(d, p, IdAt(r, i, p.left.key), IdAt(r, i, p.right.key))
    <3>1. SameRow(r, i, m, i, J)
      BY <1>3 DEF SameRow
    <3> QED
      BY <3>1, SoundFrom
  <2> QED
    BY <2>1 DEF Sound
<1>5. Complete(d, r, J, R, n)
  <2>1. ASSUME NEW f, Answers(d, f, J, R) PROVE \E i \in 1 .. n : \A c \in J : IdAt(r, i, c) = f[c]
    <3>1. PICK i \in 1 .. n : \A c \in J : IdAt(m, i, c) = f[c]
      BY <2>1 DEF Exact, Complete
    <3> QED
      BY <1>3, <3>1
  <2> QED
    BY <2>1 DEF Complete
<1>6. Distinct(r, J, n)
  <2>1. ASSUME NEW i \in 1 .. n, NEW k \in 1 .. n, \A c \in J : IdAt(r, i, c) = IdAt(r, k, c)
        PROVE  i = k
    <3>1. \A c \in J : IdAt(m, i, c) = IdAt(m, k, c)
      BY <1>3, <2>1
    <3> QED
      BY <3>1 DEF Exact, Distinct
  <2> QED
    BY <2>1 DEF Distinct
<1> QED
  BY <1>2, <1>4, <1>5, <1>6 DEF Exact

(* FirstExact: the first filter leaves the rows of its relation that pass. *)
LEMMA FirstExact ==
  ASSUME NEW d \in Databases, d = rels, NEW p, IsPredicate(p), Ends(p) = {p.left.key},
         IsConstant(p.right) \/ p.right.key = p.left.key,
         NEW r, NEW ts, ts = Tuples(p.left, InOrder(Passing(d, p))), Only(r, p.left.key, ts)
  PROVE  \E n : Exact(d, r, {p.left.key}, {p}, n)
<1>1. IsEnd(p.left)
  BY DEF IsPredicate
<1>2. PICK c \in Columns : c = p.left.key
  BY <1>1 DEF IsEnd
<1>3. PICK S : S = Passing(d, p)
  OBVIOUS
<1>4. S \in SUBSET IdsIn(d, p.left.key)
  BY <1>3 DEF Passing
<1>5. /\ ts \in Seq(FullTuple)
      /\ \A i \in 1 .. Len(ts) : ts[i].id \in S /\ ts[i].key = Val(d, p.left, ts[i].id)
      /\ \A id \in S : \E i \in 1 .. Len(ts) : ts[i].id = id
      /\ \A i, k \in 1 .. Len(ts) : ts[i].id = ts[k].id => i = k
  BY <1>1, <1>3, <1>4, PassingIs
<1>6. PICK n \in Nat : n = Len(ts)
  BY <1>5
<1>7. \A i \in 1 .. n : ts[i] # Empty
  <2>1. \A i \in 1 .. n : ts[i] \in FullTuple
    BY <1>5, <1>6
  <2>2. Empty \notin FullTuple
    BY DEF Empty, FullTuple
  <2> QED
    BY <2>1, <2>2
<1>8. \A i \in Nat \ {0} : \A e \in Columns :
        Cell(r, i, e) = IF e = c /\ i <= n THEN ts[i] ELSE Empty
  BY <1>2, <1>6 DEF Only
<1>9. Fills(r, {c}, n)
  <2>1. ASSUME NEW i \in Nat \ {0}, NEW e \in Columns
        PROVE  Cell(r, i, e) # Empty <=> e \in {c} /\ i <= n
    BY <1>7, <1>8, InRows
  <2> QED
    BY <1>2, <2>1 DEF Fills
<1>10. \A i \in 1 .. n : IdAt(r, i, c) = ts[i].id
  BY <1>2, <1>8 DEF IdAt
<1>11. \A x \in IdsIn(d, c) : x \in S <=> Pass(d, p, x, x)
  BY <1>2, <1>3 DEF Passing, Pass
<1>12. ASSUME NEW a, NEW b, NEW x, a = x, p.right.payload # Constant => b = x
       PROVE  Pass(d, p, a, b) <=> Pass(d, p, x, x)
  BY <1>12, PassSame
<1>13. p.right.payload # Constant => p.right.key = c
  BY <1>2 DEF IsConstant
<1>14. Sound(d, r, {p}, n)
  <2>1. ASSUME NEW i \in 1 .. n
        PROVE  Pass(d, p, IdAt(r, i, p.left.key), IdAt(r, i, p.right.key))
    <3>1. PICK x : x = ts[i].id
      OBVIOUS
    <3>2. x \in S /\ x \in IdsIn(d, c)
      BY <1>2, <1>4, <1>5, <1>6, <3>1
    <3>3. Pass(d, p, x, x)
      BY <1>11, <3>2
    <3>4. IdAt(r, i, p.left.key) = x /\ (p.right.payload # Constant => IdAt(r, i, p.right.key) = x)
      BY <1>2, <1>10, <1>13, <3>1
    <3> QED
      BY <1>12, <3>3, <3>4
  <2> QED
    BY <2>1 DEF Sound
<1>15. Complete(d, r, {c}, {p}, n)
  <2>1. ASSUME NEW f, Answers(d, f, {c}, {p}) PROVE \E i \in 1 .. n : \A e \in {c} : IdAt(r, i, e) = f[e]
    <3>1. f[c] \in IdsIn(d, c) /\ Pass(d, p, f[p.left.key], f[p.right.key])
      BY <2>1 DEF Answers
    <3>2. Pass(d, p, f[c], f[c])
      BY <1>2, <1>12, <1>13, <3>1
    <3>3. f[c] \in S
      BY <1>11, <3>1, <3>2
    <3>4. PICK i \in 1 .. n : ts[i].id = f[c]
      BY <1>5, <1>6, <3>3
    <3> QED
      BY <1>10, <3>4
  <2> QED
    BY <2>1 DEF Complete
<1>16. Distinct(r, {c}, n)
  BY <1>5, <1>6, <1>10 DEF Distinct
<1>17. Exact(d, r, {c}, {p}, n)
  BY <1>2, <1>9, <1>14, <1>15, <1>16 DEF Exact
<1> QED
  BY <1>2, <1>17

(* x and y number the pairs of a times b.                                  *)
Numbers(x, y, a, b, k) ==
  /\ k \in Nat
  /\ \A i \in 1 .. k : x[i] \in 1 .. a /\ y[i] \in 1 .. b
  /\ \A i, j \in 1 .. k : x[i] = x[j] /\ y[i] = y[j] => i = j
  /\ \A u \in 1 .. a, v \in 1 .. b : \E i \in 1 .. k : x[i] = u /\ y[i] = v

(* NumbersAre: as quotients and remainders do.                             *)
LEMMA NumbersAre ==
  ASSUME NEW a \in Nat, NEW b \in Nat, NEW k \in Nat, k = a * b
  PROVE  \E x, y : /\ Numbers(x, y, a, b, k)
                   /\ \A i \in 1 .. k : x[i] = ((i - 1) \div b) + 1 /\ y[i] = ((i - 1) % b) + 1
<1>1. k = a * b
  OBVIOUS
<1>2. PICK x : x = [i \in 1 .. k |-> ((i - 1) \div b) + 1]
  OBVIOUS
<1>3. PICK y : y = [i \in 1 .. k |-> ((i - 1) % b) + 1]
  OBVIOUS
<1>4. \A i \in 1 .. k : x[i] = ((i - 1) \div b) + 1 /\ y[i] = ((i - 1) % b) + 1
  BY <1>2, <1>3
<1>5. ASSUME NEW i \in 1 .. k PROVE (i - 1) \div b \in 0 .. a - 1 /\ (i - 1) % b \in 0 .. b - 1
  BY <1>1, PairOf
<1>6. \A i \in 1 .. k : x[i] \in 1 .. a /\ y[i] \in 1 .. b
  <2>1. ASSUME NEW i \in 1 .. k PROVE x[i] \in 1 .. a /\ y[i] \in 1 .. b
    <3>1. PICK q \in 0 .. a - 1 : q = (i - 1) \div b
      BY <1>5
    <3>2. PICK r \in 0 .. b - 1 : r = (i - 1) % b
      BY <1>5
    <3>3. x[i] = q + 1 /\ y[i] = r + 1
      BY <1>4, <3>1, <3>2
    <3> QED
      BY <3>3
  <2> QED
    BY <2>1
<1>7. ASSUME NEW i \in 1 .. k, NEW j \in 1 .. k, x[i] = x[j], y[i] = y[j] PROVE i = j
  <2>1. PICK q \in 0 .. a - 1 : q = (i - 1) \div b
    BY <1>5
  <2>2. PICK r \in 0 .. b - 1 : r = (i - 1) % b
    BY <1>5
  <2>3. PICK s \in 0 .. a - 1 : s = (j - 1) \div b
    BY <1>5
  <2>4. PICK t \in 0 .. b - 1 : t = (j - 1) % b
    BY <1>5
  <2>5. q + 1 = s + 1 /\ r + 1 = t + 1
    BY <1>4, <1>7, <2>1, <2>2, <2>3, <2>4
  <2>6. q = s /\ r = t
    BY <2>5
  <2>7. (i - 1) \div b = (j - 1) \div b /\ (i - 1) % b = (j - 1) % b
    BY <2>1, <2>2, <2>3, <2>4, <2>6
  <2> QED
    BY <1>1, <2>7, PairOnce
<1>8. ASSUME NEW u \in 1 .. a, NEW v \in 1 .. b PROVE \E i \in 1 .. k : x[i] = u /\ y[i] = v
  <2>1. PICK q \in 0 .. a - 1 : q = u - 1
    OBVIOUS
  <2>2. PICK r \in 0 .. b - 1 : r = v - 1
    OBVIOUS
  <2>3. PICK i : i = b * q + r + 1
    OBVIOUS
  <2>4. /\ i \in 1 .. a * b /\ (i - 1) \div b = q /\ (i - 1) % b = r
    BY <2>3, PairAt
  <2>5. i \in 1 .. k
    BY <1>1, <2>4
  <2>6. x[i] = q + 1 /\ y[i] = r + 1
    BY <1>4, <2>4, <2>5
  <2>7. q + 1 = u /\ r + 1 = v
    BY <2>1, <2>2
  <2> QED
    BY <2>5, <2>6, <2>7
<1>9. Numbers(x, y, a, b, k)
  BY <1>6, <1>7, <1>8 DEF Numbers
<1> QED
  BY <1>1, <1>4, <1>9

(* MultipliedExact: a filter on a relation that is not in the matrix       *)
(* multiplies the answers with its rows that pass.                         *)
LEMMA MultipliedExact ==
  ASSUME NEW d \in Databases, d = rels, NEW m, Good(d, m),
         NEW J, NEW R, NEW n, Exact(d, m, J, R, n), J # {},
         NEW p, IsPredicate(p), IsConstant(p.right), p.left.key \notin J,
         NEW ts, ts = Tuples(p.left, InOrder(Passing(d, p))),
         NEW r, Multiplies(r, m, p.left.key, ts)
  PROVE  \E k : Exact(d, r, J \cup {p.left.key}, R \cup {p}, k)
<1>1. IsEnd(p.left) /\ p.right.payload = Constant
  BY DEF IsPredicate, IsConstant
<1>2. PICK c \in Columns : c = p.left.key
  BY <1>1 DEF IsEnd
<1>3. PICK S : S = Passing(d, p)
  OBVIOUS
<1>4. S \in SUBSET IdsIn(d, p.left.key)
  BY <1>3 DEF Passing
<1>5. /\ ts \in Seq(FullTuple)
      /\ \A i \in 1 .. Len(ts) : ts[i].id \in S /\ ts[i].key = Val(d, p.left, ts[i].id)
      /\ \A id \in S : \E i \in 1 .. Len(ts) : ts[i].id = id
      /\ \A i, k \in 1 .. Len(ts) : ts[i].id = ts[k].id => i = k
  BY <1>1, <1>3, <1>4, PassingIs
<1>6. PICK l \in Nat : l = Len(ts)
  BY <1>5
<1>7. \A i \in 1 .. l : ts[i] # Empty
  <2>1. \A i \in 1 .. l : ts[i] \in FullTuple
    BY <1>5, <1>6
  <2>2. Empty \notin FullTuple
    BY DEF Empty, FullTuple
  <2> QED
    BY <2>1, <2>2
<1>8. Fills(m, J, n) /\ n \in Nat /\ J \subseteq Columns /\ c \notin J
  BY <1>2 DEF Exact, Fills
<1>9. Used(m) = n
  <2>1. PICK e \in J : TRUE
    OBVIOUS
  <2> QED
    BY <1>8, <2>1, ExactUsed
<1>10. PICK k \in Nat : k = l * n
  BY <1>8, TimesMore
<1>11. PICK x, y : /\ Numbers(x, y, l, n, k)
                   /\ \A i \in 1 .. k : x[i] = ((i - 1) \div n) + 1 /\ y[i] = ((i - 1) % n) + 1
  BY <1>8, <1>10, NumbersAre
<1>12. \A i \in 1 .. k : x[i] \in 1 .. l /\ y[i] \in 1 .. n
  BY <1>11 DEF Numbers
<1>13. /\ \A i \in Nat \ {0} : i \notin 1 .. k => \A e \in Columns : Cell(r, i, e) = Empty
       /\ \A i \in 1 .. k : Cell(r, i, c) = ts[x[i]]
       /\ \A i \in 1 .. k : \A e \in Columns \ {c} : Cell(r, i, e) = Cell(m, y[i], e)
  <2>1. /\ \A i \in Nat \ {0} : Cell(r, i, c) =
             IF i <= k THEN ts[((i - 1) \div n) + 1] ELSE Empty
        /\ \A i \in Nat \ {0} : \A e \in Columns \ {c} : Cell(r, i, e) =
             IF i <= k THEN Cell(m, ((i - 1) % n) + 1, e) ELSE Empty
    BY <1>2, <1>6, <1>9, <1>10 DEF Multiplies
  <2>2. \A i \in 1 .. k : i \in Nat \ {0} /\ i <= k
    BY <1>10
  <2>3. \A i \in Nat \ {0} : i \notin 1 .. k => ~ (i <= k)
    BY <1>10
  <2>4. \A i \in Nat \ {0} : i \notin 1 .. k => \A e \in Columns : Cell(r, i, e) = Empty
    BY <2>1, <2>3
  <2>5. ASSUME NEW i \in 1 .. k PROVE Cell(r, i, c) = ts[x[i]]
    BY <1>11, <2>1, <2>2
  <2>6. ASSUME NEW i \in 1 .. k, NEW e \in Columns \ {c} PROVE Cell(r, i, e) = Cell(m, y[i], e)
    BY <1>11, <2>1, <2>2
  <2> QED
    BY <2>4, <2>5, <2>6
<1>14. Fills(r, J \cup {c}, k)
  <2>1. ASSUME NEW i \in Nat \ {0}, NEW e \in Columns
        PROVE  Cell(r, i, e) # Empty <=> e \in J \cup {c} /\ i <= k
    <3>1. CASE i \notin 1 .. k
      BY <1>10, <1>13, <3>1
    <3>2. CASE i \in 1 .. k /\ e = c
      BY <1>7, <1>10, <1>12, <1>13, <3>2
    <3>3. CASE i \in 1 .. k /\ e # c
      <4>1. PICK b \in 1 .. n : b = y[i]
        BY <1>12, <3>3
      <4>2. b \in Nat \ {0} /\ b <= n /\ Cell(r, i, e) = Cell(m, b, e)
        BY <1>8, <1>13, <3>3, <4>1
      <4>3. Cell(m, b, e) # Empty <=> e \in J
        BY <1>8, <4>2 DEF Fills
      <4> QED
        BY <1>10, <3>3, <4>2, <4>3
    <3> QED
      BY <3>1, <3>2, <3>3
  <2> QED
    BY <1>8, <1>10, <2>1 DEF Fills
<1>15. ASSUME NEW i \in 1 .. k
       PROVE  IdAt(r, i, c) = ts[x[i]].id /\ SameRow(r, i, m, y[i], J)
  BY <1>8, <1>13 DEF IdAt, SameRow
<1>16. \A b : \A a \in IdsIn(d, c) : a \in S <=> Pass(d, p, a, b)
  BY <1>1, <1>2, <1>3 DEF Passing, Pass
<1>17. Sound(d, r, R \cup {p}, k)
  <2>1. ASSUME NEW i \in 1 .. k, NEW q \in R
        PROVE  Pass(d, q, IdAt(r, i, q.left.key), IdAt(r, i, q.right.key))
    <3>1. PICK b \in 1 .. n : b = y[i]
      BY <1>12
    <3>2. SameRow(r, i, m, b, J)
      BY <1>15, <3>1
    <3> QED
      BY <3>2, SoundFrom
  <2>2. ASSUME NEW i \in 1 .. k
        PROVE  Pass(d, p, IdAt(r, i, p.left.key), IdAt(r, i, p.right.key))
    <3>1. PICK a \in 1 .. l : a = x[i]
      BY <1>12
    <3>2. ts[a].id \in S
      BY <1>5, <1>6, <3>1
    <3>3. IdAt(r, i, c) \in S
      BY <1>15, <3>1, <3>2
    <3> QED
      BY <1>2, <1>4, <1>16, <3>3
  <2> QED
    BY <2>1, <2>2 DEF Sound
<1>18. Complete(d, r, J \cup {c}, R \cup {p}, k)
  <2>1. ASSUME NEW f, Answers(d, f, J \cup {c}, R \cup {p})
        PROVE  \E i \in 1 .. k : \A e \in J \cup {c} : IdAt(r, i, e) = f[e]
    <3>1. Answers(d, f, J, R) /\ f[c] \in IdsIn(d, c) /\ Pass(d, p, f[p.left.key], f[p.right.key])
      BY <2>1 DEF Answers
    <3>2. PICK b \in 1 .. n : \A e \in J : IdAt(m, b, e) = f[e]
      BY <3>1 DEF Exact, Complete
    <3>3. f[c] \in S
      BY <1>2, <1>16, <3>1
    <3>4. PICK a \in 1 .. l : ts[a].id = f[c]
      BY <1>5, <1>6, <3>3
    <3>5. PICK i \in 1 .. k : x[i] = a /\ y[i] = b
      BY <1>11 DEF Numbers
    <3>6. IdAt(r, i, c) = f[c]
      BY <1>15, <3>4, <3>5
    <3>7. SameRow(r, i, m, b, J)
      BY <1>15, <3>5
    <3>8. \A e \in J : IdAt(r, i, e) = f[e]
      BY <3>2, <3>7 DEF SameRow
    <3> QED
      BY <3>6, <3>8
  <2> QED
    BY <2>1 DEF Complete
<1>19. Distinct(r, J \cup {c}, k)
  <2>1. ASSUME NEW i \in 1 .. k, NEW j \in 1 .. k, \A e \in J \cup {c} : IdAt(r, i, e) = IdAt(r, j, e)
        PROVE  i = j
    <3>1. x[i] \in 1 .. l /\ x[j] \in 1 .. l /\ y[i] \in 1 .. n /\ y[j] \in 1 .. n
      BY <1>12
    <3>2. ts[x[i]].id = ts[x[j]].id
      BY <1>15, <2>1
    <3>3. x[i] = x[j]
      BY <1>5, <1>6, <3>1, <3>2
    <3>4. \A e \in J : IdAt(m, y[i], e) = IdAt(m, y[j], e)
      BY <1>15, <2>1 DEF SameRow
    <3>5. y[i] = y[j]
      BY <3>1, <3>4 DEF Exact, Distinct
    <3> QED
      BY <1>11, <3>3, <3>5 DEF Numbers
  <2> QED
    BY <2>1 DEF Distinct
<1>20. ASSUME NEW q \in R \cup {p} PROVE Ends(q) \subseteq J \cup {c}
  <2>1. CASE q \in R
    BY <2>1 DEF Exact
  <2>2. CASE q = p
    BY <1>1, <1>2, <2>2 DEF Ends
  <2> QED
    BY <2>1, <2>2
<1>21. Exact(d, r, J \cup {c}, R \cup {p}, k)
  BY <1>14, <1>17, <1>18, <1>19, <1>20 DEF Exact
<1> QED
  BY <1>2, <1>21

(* ThinnedExact: the rows kept by a join of two relations in the matrix.   *)
LEMMA ThinnedExact ==
  ASSUME NEW d, d = rels, Good(d, matrix),
         NEW J, NEW R, NEW n, Exact(d, matrix, J, R, n),
         NEW p, p.right.payload # Constant, p.left.key \in J, p.right.key \in J,
         NEW kept, Enumerates(kept, RowsThatJoin(p)),
         NEW r, Thins(d, r, matrix, kept)
  PROVE  \E k : Exact(d, r, J, R \cup {p}, k)
<1>1. Fills(matrix, J, n) /\ n \in Nat /\ J \subseteq Columns
  BY DEF Exact, Fills
<1>2. Used(matrix) = n
  BY <1>1, ExactUsed
<1>3. PICK k \in Nat : k = Len(kept)
  BY DEF Thins, Takes
<1>4. \A i \in 1 .. k : kept[i] \in 1 .. n
  BY <1>2, <1>3 DEF Thins
<1>5. \A i \in Nat \ {0} : \A e \in Columns :
        Cell(r, i, e) = IF i <= k THEN Cell(matrix, kept[i], e) ELSE Empty
  BY <1>3 DEF Thins
<1>6. \A i \in Nat \ {0} : i <= k <=> i \in 1 .. k
  OBVIOUS
<1>7. Fills(r, J, k)
  <2>1. ASSUME NEW i \in Nat \ {0}, NEW e \in Columns
        PROVE  Cell(r, i, e) # Empty <=> e \in J /\ i <= k
    <3>1. CASE ~ (i <= k)
      BY <1>5, <3>1
    <3>2. CASE i <= k
      <4>1. PICK b \in 1 .. n : b = kept[i]
        BY <1>4, <1>6, <3>2
      <4>2. b \in Nat \ {0} /\ b <= n /\ Cell(r, i, e) = Cell(matrix, b, e)
        BY <1>1, <1>5, <3>2, <4>1
      <4>3. Cell(matrix, b, e) # Empty <=> e \in J
        BY <1>1, <4>2 DEF Fills
      <4> QED
        BY <3>2, <4>2, <4>3
    <3> QED
      BY <3>1, <3>2
  <2> QED
    BY <1>1, <2>1 DEF Fills
<1>8. ASSUME NEW i \in 1 .. k PROVE SameRow(r, i, matrix, kept[i], J)
  BY <1>1, <1>3, <1>5, <1>6 DEF SameRow, IdAt
<1>9. ASSUME NEW b \in 1 .. n
      PROVE  JoinsRow(p, matrix.data[b])
             <=> Pass(d, p, IdAt(matrix, b, p.left.key), IdAt(matrix, b, p.right.key))
  <2>1. b \in Nat \ {0} /\ b <= n
    BY <1>1
  <2>2. b \in 1 .. Rows(matrix)
    <3>1. Cell(matrix, b, p.left.key) # Empty
      BY <1>1, <2>1 DEF Fills
    <3> QED
      BY <3>1 DEF Cell
  <2>3. \A c : Cell(matrix, b, c) = matrix.data[b][c]
    BY <2>2 DEF Cell
  <2>4. JoinsRow(p, matrix.data[b])
        <=> filter_pass(Val(d, p.left, IdAt(matrix, b, p.left.key)),
                        Val(d, p.right, IdAt(matrix, b, p.right.key)), p.op)
    BY <2>3, ValueIs DEF JoinsRow, IdAt
  <2> QED
    BY <2>4 DEF Pass
<1>10. \A b \in 1 .. n : b \in RowsThatJoin(p)
         <=> Pass(d, p, IdAt(matrix, b, p.left.key), IdAt(matrix, b, p.right.key))
  BY <1>2, <1>9 DEF RowsThatJoin
<1>11. \A i \in 1 .. k : kept[i] \in RowsThatJoin(p)
  BY <1>3 DEF Enumerates
<1>12. Ends(p) \subseteq J
  BY EndsIn
<1>13. Sound(d, r, R \cup {p}, k)
  <2>1. ASSUME NEW i \in 1 .. k, NEW q \in R \cup {p}
        PROVE  Pass(d, q, IdAt(r, i, q.left.key), IdAt(r, i, q.right.key))
    <3>1. PICK b \in 1 .. n : b = kept[i]
      BY <1>4
    <3>2. SameRow(r, i, matrix, b, J)
      BY <1>8, <3>1
    <3>3. CASE q \in R
      BY <3>2, <3>3, SoundFrom
    <3>4. CASE q = p
      <4>1. Pass(d, p, IdAt(matrix, b, p.left.key), IdAt(matrix, b, p.right.key))
        BY <1>10, <1>11, <3>1
      <4> QED
        BY <1>12, <3>2, <3>4, <4>1, RowPasses
    <3> QED
      BY <3>3, <3>4
  <2> QED
    BY <2>1 DEF Sound
<1>14. Complete(d, r, J, R \cup {p}, k)
  <2>1. ASSUME NEW f, Answers(d, f, J, R \cup {p})
        PROVE  \E i \in 1 .. k : \A e \in J : IdAt(r, i, e) = f[e]
    <3>1. Answers(d, f, J, R) /\ Pass(d, p, f[p.left.key], f[p.right.key])
      BY <2>1 DEF Answers
    <3>2. PICK b \in 1 .. n : \A e \in J : IdAt(matrix, b, e) = f[e]
      BY <3>1 DEF Exact, Complete
    <3>3. Pass(d, p, IdAt(matrix, b, p.left.key), IdAt(matrix, b, p.right.key))
      BY <3>1, <3>2
    <3>4. b \in RowsThatJoin(p)
      BY <1>10, <3>3
    <3>5. PICK i \in 1 .. k : kept[i] = b
      BY <1>3, <3>4 DEF Enumerates
    <3>6. SameRow(r, i, matrix, b, J)
      BY <1>8, <3>5
    <3> QED
      BY <3>2, <3>6 DEF SameRow
  <2> QED
    BY <2>1 DEF Complete
<1>15. Distinct(r, J, k)
  <2>1. ASSUME NEW i \in 1 .. k, NEW j \in 1 .. k, \A e \in J : IdAt(r, i, e) = IdAt(r, j, e)
        PROVE  i = j
    <3>1. kept[i] \in 1 .. n /\ kept[j] \in 1 .. n
      BY <1>4
    <3>2. \A e \in J : IdAt(matrix, kept[i], e) = IdAt(matrix, kept[j], e)
      BY <1>8, <2>1 DEF SameRow
    <3>3. kept[i] = kept[j]
      BY <3>1, <3>2 DEF Exact, Distinct
    <3>4. ~ (i < j) /\ ~ (j < i)
      BY <1>3, <3>1, <3>3 DEF Enumerates
    <3> QED
      BY <3>4
  <2> QED
    BY <2>1 DEF Distinct
<1> QED
  <2>1. \A q \in R \cup {p} : Ends(q) \subseteq J
    BY <1>12 DEF Exact
  <2> QED
    BY <1>7, <1>13, <1>14, <1>15, <2>1 DEF Exact

(* ShuffledExact: sorting its only column does not disturb a matrix.       *)
LEMMA ShuffledExact ==
  ASSUME NEW d, NEW l, Good(d, l), NEW c \in Columns, NEW R, NEW n, Exact(d, l, {c}, R, n),
         NEW s, SameBeside(s, l, c), Shuffled(s, l, c)
  PROVE  Exact(d, s, {c}, R, n)
<1>1. Fills(l, {c}, n) /\ n \in Nat
  BY DEF Exact, Fills
<1>2. PICK z : z = matrix_col_size(l, c)
  OBVIOUS
<1>3. z \in Nat /\ \A i \in Nat \ {0} : Cell(l, i, c) # Empty <=> i <= z
  BY <1>2, GoodSize
<1>4. \A i \in Nat \ {0} : i <= z <=> i <= n
  BY <1>1, <1>3 DEF Fills
<1>5. z = n
  <2>1. z # 0 => z <= n
    BY <1>3, <1>4
  <2>2. n # 0 => n <= z
    BY <1>1, <1>4
  <2> QED
    BY <1>1, <1>3, <2>1, <2>2
<1>6. PICK p : /\ Permutes(p, n)
               /\ \A i \in 1 .. n : Cell(s, i, c) = Cell(l, p[i], c)
               /\ \A i \in Nat \ {0} : Cell(s, i, c) # Empty <=> i <= n
  BY <1>2, <1>5 DEF Shuffled
<1>7. /\ \A i \in 1 .. n : p[i] \in 1 .. n
      /\ \A i, k \in 1 .. n : p[i] = p[k] => i = k
      /\ \A j \in 1 .. n : \E i \in 1 .. n : p[i] = j
  BY <1>6 DEF Permutes
<1>8. ASSUME NEW i \in 1 .. n PROVE IdAt(s, i, c) = IdAt(l, p[i], c) /\ SameRow(s, i, l, p[i], {c})
  BY <1>6 DEF IdAt, SameRow
<1>9. Fills(s, {c}, n)
  <2>1. ASSUME NEW i \in Nat \ {0}, NEW e \in Columns
        PROVE  Cell(s, i, e) # Empty <=> e \in {c} /\ i <= n
    <3>1. CASE e = c
      BY <1>6, <3>1
    <3>2. CASE e # c
      BY <1>1, <3>2 DEF SameBeside, Fills
    <3> QED
      BY <3>1, <3>2
  <2> QED
    BY <1>1, <2>1 DEF Fills
<1>10. Sound(d, s, R, n)
  <2>1. ASSUME NEW i \in 1 .. n, NEW q \in R
        PROVE  Pass(d, q, IdAt(s, i, q.left.key), IdAt(s, i, q.right.key))
    <3>1. PICK b \in 1 .. n : b = p[i]
      BY <1>7
    <3>2. SameRow(s, i, l, b, {c})
      BY <1>8, <3>1
    <3> QED
      BY <3>2, SoundFrom
  <2> QED
    BY <2>1 DEF Sound
<1>11. Complete(d, s, {c}, R, n)
  <2>1. ASSUME NEW f, Answers(d, f, {c}, R) PROVE \E i \in 1 .. n : \A e \in {c} : IdAt(s, i, e) = f[e]
    <3>1. PICK b \in 1 .. n : \A e \in {c} : IdAt(l, b, e) = f[e]
      BY <2>1 DEF Exact, Complete
    <3>2. PICK i \in 1 .. n : p[i] = b
      BY <1>7
    <3> QED
      BY <1>8, <3>1, <3>2
  <2> QED
    BY <2>1 DEF Complete
<1>12. Distinct(s, {c}, n)
  <2>1. ASSUME NEW i \in 1 .. n, NEW j \in 1 .. n, \A e \in {c} : IdAt(s, i, e) = IdAt(s, j, e)
        PROVE  i = j
    <3>1. p[i] \in 1 .. n /\ p[j] \in 1 .. n
      BY <1>7
    <3>2. \A e \in {c} : IdAt(l, p[i], e) = IdAt(l, p[j], e)
      BY <1>8, <2>1
    <3>3. p[i] = p[j]
      BY <3>1, <3>2 DEF Exact, Distinct
    <3> QED
      BY <1>7, <3>3
  <2> QED
    BY <2>1 DEF Distinct
<1> QED
  BY <1>9, <1>10, <1>11, <1>12 DEF Exact

(* FreshExact: a relation loaded on its own is the answer to no question.  *)
LEMMA FreshExact ==
  ASSUME NEW d, NEW m, Good(d, m), Blank(m), NEW c \in Columns,
         NEW l, Good(d, l), SameBeside(l, m, c), Fresh(d, l, c)
  PROVE  \E n : Exact(d, l, {c}, {}, n)
<1>1. PICK n : n = matrix_col_size(l, c)
  OBVIOUS
<1>2. n \in Nat /\ \A i \in Nat \ {0} : Cell(l, i, c) # Empty <=> i <= n
  BY <1>1, GoodSize
<1>3. \A e \in Columns : \A i \in Nat \ {0} : Cell(m, i, e) = Empty
  BY BlankIs
<1>4. Fills(l, {c}, n)
  <2>1. ASSUME NEW i \in Nat \ {0}, NEW e \in Columns
        PROVE  Cell(l, i, e) # Empty <=> e \in {c} /\ i <= n
    <3>1. CASE e = c
      BY <1>2, <3>1
    <3>2. CASE e # c
      BY <1>3, <3>2 DEF SameBeside
    <3> QED
      BY <3>1, <3>2
  <2> QED
    BY <1>2, <2>1 DEF Fills
<1>5. Sound(d, l, {}, n)
  BY DEF Sound
<1>6. Complete(d, l, {c}, {}, n)
  <2>1. ASSUME NEW f, Answers(d, f, {c}, {}) PROVE \E i \in 1 .. n : \A e \in {c} : IdAt(l, i, e) = f[e]
    <3>1. f[c] \in IdsIn(d, c)
      BY <2>1 DEF Answers
    <3>2. PICK i \in Nat \ {0} : Cell(l, i, c) # Empty /\ Cell(l, i, c).id = f[c]
      BY <3>1 DEF Fresh
    <3>3. i \in 1 .. n
      BY <1>2, <3>2
    <3> QED
      BY <3>2, <3>3 DEF IdAt
  <2> QED
    BY <2>1 DEF Complete
<1>7. Distinct(l, {c}, n)
  <2>1. ASSUME NEW i \in 1 .. n, NEW k \in 1 .. n, \A e \in {c} : IdAt(l, i, e) = IdAt(l, k, e)
        PROVE  i = k
    <3>1. i \in Nat \ {0} /\ k \in Nat \ {0} /\ i <= n /\ k <= n
      BY <1>2
    <3>2. Cell(l, i, c).id = Cell(l, k, c).id
      BY <2>1 DEF IdAt
    <3> QED
      BY <1>2, <3>1, <3>2 DEF Fresh
  <2> QED
    BY <2>1 DEF Distinct
<1> QED
  BY <1>4, <1>5, <1>6, <1>7 DEF Exact

(* TornIs: sorting a column moves no row id from one row to another, or    *)
(* the column is the only one.                                             *)
LEMMA TornIs ==
  ASSUME NEW d, NEW l, Good(d, l), NEW s, Good(d, s), NEW c \in Columns, Shuffled(s, l, c),
         Torn(l, s, c) = {}
  PROVE  SameIds(s, l, c) \/ \A e \in Columns \ {c} : Cell(l, 1, e) = Empty
<1>1. l \in Matrices /\ s \in Matrices
  BY DEF Good
<1>2. Ids(l, c) = Ids(s, c) \/ ~ \E e \in Columns \ {c} : Loaded(l, e)
  BY DEF Torn
<1>3. CASE ~ \E e \in Columns \ {c} : Loaded(l, e)
  BY <1>1, <1>3, LoadedIs
<1>4. CASE Ids(l, c) = Ids(s, c)
  <2>1. PICK n : n = matrix_col_size(l, c)
    OBVIOUS
  <2>2. n \in Nat /\ \A i \in Nat \ {0} : Cell(l, i, c) # Empty <=> i <= n
    BY <2>1, GoodSize
  <2>3. PICK z : z = matrix_col_size(s, c)
    OBVIOUS
  <2>4. \A i \in Nat \ {0} : Cell(s, i, c) # Empty <=> i <= n
    BY <2>1 DEF Shuffled
  <2>5. PICK g : g = Ids(l, c)
    OBVIOUS
  <2>6. DOMAIN g = 1 .. n /\ \A i \in 1 .. n : g[i] = l.data[i][c].id
    BY <2>1, <2>5 DEF Ids
  <2>7. DOMAIN g = 1 .. z /\ \A i \in 1 .. z : g[i] = s.data[i][c].id
    BY <1>4, <2>3, <2>5 DEF Ids
  <2>8. ASSUME NEW i \in Nat \ {0}, Cell(l, i, c) # Empty PROVE Cell(s, i, c).id = Cell(l, i, c).id
    <3>1. i \in 1 .. n
      BY <2>2, <2>8
    <3>2. i \in 1 .. z
      BY <2>6, <2>7, <3>1
    <3>3. Cell(s, i, c) # Empty
      BY <2>4, <3>1
    <3>4. Cell(l, i, c) = l.data[i][c]
      BY <2>8 DEF Cell
    <3>5. Cell(s, i, c) = s.data[i][c]
      BY <3>3 DEF Cell
    <3> QED
      BY <2>6, <2>7, <3>1, <3>2, <3>4, <3>5
  <2> QED
    BY <2>2, <2>4, <2>8 DEF SameIds
<1> QED
  BY <1>2, <1>3, <1>4

(* EqualRow: a join is satisfied by a row with the same value in its two   *)
(* attributes.                                                             *)
LEMMA EqualRow ==
  ASSUME NEW d, NEW p, p.op = "=", p.right.payload # Constant, NEW x, NEW o,
         \/ x = p.left /\ o = p.right
         \/ x = p.right /\ o = p.left,
         NEW r, NEW i
  PROVE  Pass(d, p, IdAt(r, i, p.left.key), IdAt(r, i, p.right.key))
         <=> Val(d, x, IdAt(r, i, x.key)) = Val(d, o, IdAt(r, i, o.key))
<1>1. Pass(d, p, IdAt(r, i, p.left.key), IdAt(r, i, p.right.key))
      <=> Val(d, p.left, IdAt(r, i, p.left.key)) = Val(d, p.right, IdAt(r, i, p.right.key))
  BY DEF Pass, filter_pass
<1>2. CASE x = p.left /\ o = p.right
  BY <1>1, <1>2
<1>3. CASE x = p.right /\ o = p.left
  BY <1>1, <1>3
<1> QED
  BY <1>2, <1>3

(* JoinedExact: what mx_join makes of a matrix whose rows are the answers. *)
LEMMA JoinedExact ==
  ASSUME NEW d \in Databases, NEW k, Good(d, k), NEW J, NEW R, NEW n, Exact(d, k, J, R, n),
         NEW p, p.op = "=", p.right.payload # Constant, NEW x, NEW o,
         \/ x = p.left /\ o = p.right
         \/ x = p.right /\ o = p.left,
         x.key \in J, o.key \in Columns, o.key \notin J,
         Keyed(d, k, x), NEW t, IsTable(d, t, o),
         NEW ms, Matched(ms, k, x.key, t), NEW r, JoinsUp(r, k, t, o.key, ms)
  PROVE  \E z : Exact(d, r, J \cup {o.key}, R \cup {p}, z)
<1>1. Fills(k, J, n) /\ n \in Nat /\ J \subseteq Columns
  BY DEF Exact, Fills
<1>2. PICK z \in Nat : z = Len(ms)
  <2>1. ms \in Seq(IndexPair)
    BY DEF Matched
  <2> QED
    BY <2>1
<1>3. PICK l \in Nat : l = Len(t)
  <2>1. t \in Seq(FullTuple)
    BY DEF IsTable
  <2> QED
    BY <2>1
<1>4. PICK c \in Columns : c = o.key
  OBVIOUS
<1>5. PICK u : u = [i \in 1 .. z |-> ms[i][1]]
  OBVIOUS
<1>6. PICK v : v = [i \in 1 .. z |-> ms[i][2]]
  OBVIOUS
<1>7. \A i \in 1 .. z : ms[i] \in IndexPair
  BY <1>2 DEF Matched
<1>8. \A i \in 1 .. z : u[i] = ms[i][1] /\ v[i] = ms[i][2] /\ ms[i] = <<u[i], v[i]>>
  BY <1>5, <1>6, <1>7 DEF IndexPair
<1>9. ASSUME NEW i \in 1 .. z
      PROVE  u[i] \in 1 .. n /\ v[i] \in 1 .. l /\ Cell(k, u[i], x.key).key = t[v[i]].key
  <2>1. /\ u[i] \in Nat \ {0} /\ Cell(k, u[i], x.key) # Empty /\ v[i] \in 1 .. l
        /\ Cell(k, u[i], x.key).key = t[v[i]].key
    BY <1>2, <1>3, <1>8 DEF Matched
  <2>2. u[i] <= n
    BY <1>1, <2>1 DEF Fills
  <2> QED
    BY <1>1, <2>1, <2>2
<1>10. \A i, j \in 1 .. z : u[i] = u[j] /\ v[i] = v[j] => i = j
  <2>1. ASSUME NEW i \in 1 .. z, NEW j \in 1 .. z, u[i] = u[j], v[i] = v[j] PROVE i = j
    <3>1. ms[i] = ms[j]
      BY <1>8, <2>1
    <3> QED
      BY <1>2, <3>1 DEF Matched
  <2> QED
    BY <2>1
<1>11. ASSUME NEW a \in 1 .. n, NEW b \in 1 .. l, Cell(k, a, x.key).key = t[b].key
       PROVE  \E i \in 1 .. z : u[i] = a /\ v[i] = b
  <2>1. a \in Nat \ {0} /\ a <= n
    BY <1>1
  <2>2. Cell(k, a, x.key) # Empty
    BY <1>1, <2>1 DEF Fills
  <2>3. Rising(k, x.key) /\ AscendingKeys(t)
    BY KeyedIs DEF IsTable
  <2>4. PICK i \in 1 .. z : ms[i] = <<a, b>>
    BY <1>2, <1>3, <1>11, <2>1, <2>2, <2>3 DEF Matched
  <2> QED
    BY <1>8, <2>4
<1>12. \A i \in 1 .. l : t[i] \in FullTuple /\ t[i] # Empty
  <2>1. \A i \in 1 .. l : t[i] \in FullTuple
    BY <1>3 DEF IsTable
  <2>2. Empty \notin FullTuple
    BY DEF Empty, FullTuple
  <2> QED
    BY <2>1, <2>2
<1>13. /\ \A i \in 1 .. l : t[i].id \in IdsIn(d, c) /\ t[i].key = Val(d, o, t[i].id)
       /\ \A id \in IdsIn(d, c) : \E i \in 1 .. l : t[i].id = id
       /\ \A i, j \in 1 .. l : t[i].id = t[j].id => i = j
  BY <1>3, <1>4 DEF IsTable
<1>14. /\ \A i \in Nat \ {0} : i \notin 1 .. z => \A e \in Columns : Cell(r, i, e) = Empty
       /\ \A i \in 1 .. z : Cell(r, i, c) = t[v[i]]
       /\ \A i \in 1 .. z : \A e \in Columns \ {c} : Cell(r, i, e) = Cell(k, u[i], e)
  <2>1. /\ \A i \in Nat \ {0} : Cell(r, i, c) = IF i <= z THEN t[ms[i][2]] ELSE Empty
        /\ \A i \in Nat \ {0} : \A e \in Columns \ {c} :
             Cell(r, i, e) = IF i <= z THEN Cell(k, ms[i][1], e) ELSE Empty
    BY <1>2, <1>4 DEF JoinsUp
  <2>2. \A i \in 1 .. z : i \in Nat \ {0} /\ i <= z
    OBVIOUS
  <2>3. \A i \in Nat \ {0} : i \notin 1 .. z => ~ (i <= z)
    OBVIOUS
  <2>4. \A i \in Nat \ {0} : i \notin 1 .. z => \A e \in Columns : Cell(r, i, e) = Empty
    BY <2>1, <2>3
  <2>5. ASSUME NEW i \in 1 .. z PROVE Cell(r, i, c) = t[v[i]]
    BY <1>8, <2>1, <2>2
  <2>6. ASSUME NEW i \in 1 .. z, NEW e \in Columns \ {c} PROVE Cell(r, i, e) = Cell(k, u[i], e)
    BY <1>8, <2>1, <2>2
  <2> QED
    BY <2>4, <2>5, <2>6
<1>15. c \notin J /\ x.key \in J /\ x.key # c /\ x.key \in Columns
  BY <1>1, <1>4
<1>16. Fills(r, J \cup {c}, z)
  <2>1. ASSUME NEW i \in Nat \ {0}, NEW e \in Columns
        PROVE  Cell(r, i, e) # Empty <=> e \in J \cup {c} /\ i <= z
    <3>1. CASE i \notin 1 .. z
      BY <1>14, <3>1
    <3>2. CASE i \in 1 .. z /\ e = c
      <4>1. PICK b \in 1 .. l : b = v[i]
        BY <1>9, <3>2
      <4>2. Cell(r, i, c) = t[b]
        BY <1>14, <3>2, <4>1
      <4> QED
        BY <1>12, <3>2, <4>2
    <3>3. CASE i \in 1 .. z /\ e # c
      <4>1. PICK b \in 1 .. n : b = u[i]
        BY <1>9, <3>3
      <4>2. b \in Nat \ {0} /\ b <= n /\ Cell(r, i, e) = Cell(k, b, e)
        BY <1>1, <1>14, <3>3, <4>1
      <4>3. Cell(k, b, e) # Empty <=> e \in J
        BY <1>1, <4>2 DEF Fills
      <4> QED
        BY <3>3, <4>2, <4>3
    <3> QED
      BY <3>1, <3>2, <3>3
  <2> QED
    BY <1>1, <2>1 DEF Fills
<1>17. ASSUME NEW i \in 1 .. z
       PROVE  IdAt(r, i, c) = t[v[i]].id /\ SameRow(r, i, k, u[i], J)
  BY <1>1, <1>14, <1>15 DEF IdAt, SameRow
<1>18. ASSUME NEW a \in 1 .. n
       PROVE  Cell(k, a, x.key).key = Val(d, x, IdAt(k, a, x.key))
  <2>1. a \in Nat \ {0} /\ a <= n
    BY <1>1
  <2>2. Cell(k, a, x.key) # Empty
    BY <1>1, <2>1 DEF Fills
  <2> QED
    BY <2>1, <2>2 DEF Keyed, IdAt
<1>19. Sound(d, r, R \cup {p}, z)
  <2>1. ASSUME NEW i \in 1 .. z, NEW q \in R
        PROVE  Pass(d, q, IdAt(r, i, q.left.key), IdAt(r, i, q.right.key))
    <3>1. PICK b \in 1 .. n : b = u[i]
      BY <1>9
    <3>2. SameRow(r, i, k, b, J)
      BY <1>17, <3>1
    <3> QED
      BY <3>2, SoundFrom
  <2>2. ASSUME NEW i \in 1 .. z
        PROVE  Pass(d, p, IdAt(r, i, p.left.key), IdAt(r, i, p.right.key))
    <3>1. PICK a \in 1 .. n : a = u[i]
      BY <1>9
    <3>2. PICK b \in 1 .. l : b = v[i]
      BY <1>9
    <3>3. Val(d, x, IdAt(k, a, x.key)) = t[b].key
      BY <1>9, <1>18, <3>1, <3>2
    <3>4. IdAt(r, i, x.key) = IdAt(k, a, x.key)
      BY <1>15, <1>17, <3>1 DEF SameRow
    <3>5. IdAt(r, i, c) = t[b].id
      BY <1>17, <3>2
    <3>6. t[b].key = Val(d, o, t[b].id)
      BY <1>13
    <3>7. Val(d, x, IdAt(r, i, x.key)) = Val(d, o, IdAt(r, i, o.key))
      BY <1>4, <3>3, <3>4, <3>5, <3>6
    <3> QED
      BY <3>7, EqualRow
  <2> QED
    BY <2>1, <2>2 DEF Sound
<1>20. Complete(d, r, J \cup {c}, R \cup {p}, z)
  <2>1. ASSUME NEW f, Answers(d, f, J \cup {c}, R \cup {p})
        PROVE  \E i \in 1 .. z : \A e \in J \cup {c} : IdAt(r, i, e) = f[e]
    <3>1. Answers(d, f, J, R) /\ f[c] \in IdsIn(d, c) /\ Pass(d, p, f[p.left.key], f[p.right.key])
      BY <2>1 DEF Answers
    <3>2. PICK a \in 1 .. n : \A e \in J : IdAt(k, a, e) = f[e]
      BY <3>1 DEF Exact, Complete
    <3>3. PICK b \in 1 .. l : t[b].id = f[c]
      BY <1>13, <3>1
    <3>4. Val(d, x, f[x.key]) = Val(d, o, f[c])
      <4>1. Val(d, p.left, f[p.left.key]) = Val(d, p.right, f[p.right.key])
        BY <3>1 DEF Pass, filter_pass
      <4>2. CASE x = p.left /\ o = p.right
        BY <1>4, <4>1, <4>2
      <4>3. CASE x = p.right /\ o = p.left
        BY <1>4, <4>1, <4>3
      <4> QED
        BY <4>2, <4>3
    <3>5. Cell(k, a, x.key).key = Val(d, x, f[x.key])
      BY <1>15, <1>18, <3>2
    <3>6. t[b].key = Val(d, o, f[c])
      BY <1>13, <3>3
    <3>7. PICK i \in 1 .. z : u[i] = a /\ v[i] = b
      BY <1>11, <3>4, <3>5, <3>6
    <3>8. IdAt(r, i, c) = f[c]
      BY <1>17, <3>3, <3>7
    <3>9. SameRow(r, i, k, a, J)
      BY <1>17, <3>7
    <3>10. \A e \in J : IdAt(r, i, e) = f[e]
      BY <3>2, <3>9 DEF SameRow
    <3> QED
      BY <3>8, <3>10
  <2> QED
    BY <2>1 DEF Complete
<1>21. Distinct(r, J \cup {c}, z)
  <2>1. ASSUME NEW i \in 1 .. z, NEW j \in 1 .. z, \A e \in J \cup {c} : IdAt(r, i, e) = IdAt(r, j, e)
        PROVE  i = j
    <3>1. u[i] \in 1 .. n /\ u[j] \in 1 .. n /\ v[i] \in 1 .. l /\ v[j] \in 1 .. l
      BY <1>9
    <3>2. t[v[i]].id = t[v[j]].id
      BY <1>17, <2>1
    <3>3. v[i] = v[j]
      BY <1>13, <3>1, <3>2
    <3>4. \A e \in J : IdAt(k, u[i], e) = IdAt(k, u[j], e)
      BY <1>17, <2>1 DEF SameRow
    <3>5. u[i] = u[j]
      BY <3>1, <3>4 DEF Exact, Distinct
    <3> QED
      BY <1>10, <3>3, <3>5
  <2> QED
    BY <2>1 DEF Distinct
<1>22. \A q \in R \cup {p} : Ends(q) \subseteq J \cup {c}
  BY <1>4, <1>15 DEF Exact, Ends
<1>23. Exact(d, r, J \cup {c}, R \cup {p}, z)
  BY <1>16, <1>19, <1>20, <1>21, <1>22 DEF Exact
<1> QED
  BY <1>4, <1>23

-----------------------------------------------------------------------------
(* The rows of the matrix are the answers                                  *)

(* The relations of the predicates executed.                               *)
Joined(R) == UNION {Ends(p) : p \in R}

ExactInv == irregular = {} /\ ran # {} => \E n : Exact(rels, matrix, Joined(ran), ran, n)

(* JoinedMore: a predicate adds its relations.                             *)
LEMMA JoinedMore ==
  ASSUME NEW R, NEW p
  PROVE  Joined(R \cup {p}) = Joined(R) \cup Ends(p) /\ Joined({}) = {} /\ Ends(p) \subseteq Joined({p})
BY DEF Joined

(* LoadedIn: the relations in a matrix with rows are those of the answers. *)
LEMMA LoadedIn ==
  ASSUME NEW m, NEW J, NEW n, Fills(m, J, n), ~Blank(m), NEW c \in Columns
  PROVE  c \in J <=> Cell(m, 1, c) # Empty
<1>1. 1 \in Nat \ {0}
  OBVIOUS
<1>2. PICK e \in Columns : Cell(m, 1, e) # Empty
  BY DEF Blank
<1>3. 1 <= n
  BY <1>1, <1>2 DEF Fills
<1> QED
  BY <1>1, <1>3 DEF Fills

(* FilterExact: after a filter.                                            *)
LEMMA FilterExact ==
  ASSUME ListInv, PhaseInv, MatrixInv, RaggedInv, ExactInv, Filter
  PROVE  ExactInv'
<1> SUFFICES ASSUME irregular' = {}
             PROVE  \E n : Exact(rels', matrix', Joined(ran'), ran', n)
  BY DEF ExactInv
<1>1. PICK d : d = rels
  OBVIOUS
<1>2. d \in Databases /\ Good(d, matrix) /\ Rectangular(matrix) /\ matrix \in Matrices
  BY <1>1 DEF ListInv, MatrixInv, PhaseInv, RaggedInv, Filter, Good
<1>3. PICK p : p = Head(preds)
  OBVIOUS
<1>4. preds \in Seq(ToSet(query.preds)) /\ preds # <<>> /\ ~is_pred_join(p)
  BY <1>3 DEF ListInv, Filter
<1>5. p \in ToSet(preds)
  BY <1>3, <1>4, RestOfList
<1>6. IsPredicate(p)
  BY <1>5, PredicateIs
<1>7. p.left.key \in Columns /\ IsEnd(p.left)
  BY <1>6 DEF IsPredicate, IsEnd
<1>8. IsConstant(p.right) \/ (p.right.payload # Constant /\ p.right.key = p.left.key)
  <2>1. CASE ~IsConstant(p.right)
    <3>1. p.op = "=" /\ IsEnd(p.right)
      BY <1>6, <2>1 DEF IsPredicate
    <3>2. p.right.payload \in Nat
      BY <1>2, <3>1, AttributeIs
    <3>3. p.right.payload # Constant
      BY <3>2 DEF Constant
    <3> QED
      BY <1>4, <3>1, <3>3 DEF is_pred_join
  <2> QED
    BY <2>1
<1>9. Ends(p) = {p.left.key}
  BY <1>8 DEF Ends, IsConstant
<1>10. ran' = ran \cup {p} /\ rels' = d
  BY <1>1, <1>3 DEF Filter, Executed
<1>11. CASE matrix_isempty(matrix) \/ IsEmptyRow(matrix.data[1])
  <2>1. matrix' = query_filter_all(p) /\ irregular' = irregular \cup Forgotten
    BY <1>3, <1>11 DEF Filter
  <2>2. Blank(matrix) /\ Used(matrix) = 0
    BY <1>2, <1>11, BlankIs
  <2>3. ran = {}
    BY <2>1, <2>2 DEF Forgotten
  <2>4. PICK r : r = matrix'
    OBVIOUS
  <2>5. PICK ts : ts = Tuples(p.left, InOrder(Passing(d, p))) /\ Only(r, p.left.key, ts)
    BY <1>1, <1>2, <1>6, <2>1, <2>2, <2>4, FilterAllIs
  <2>6. \E n : Exact(d, r, {p.left.key}, {p}, n)
    BY <1>1, <1>2, <1>6, <1>8, <1>9, <2>5, FirstExact
  <2>7. Joined({p}) = {p.left.key} /\ {} \cup {p} = {p}
    BY <1>9 DEF Joined
  <2> QED
    BY <1>10, <2>3, <2>4, <2>6, <2>7
<1>12. CASE ~(matrix_isempty(matrix) \/ IsEmptyRow(matrix.data[1]))
  <2>1. matrix' = query_filter_existing(p)
        /\ irregular' = irregular \cup Refiltered(p) \cup SelfCompared(p)
    BY <1>3, <1>12 DEF Filter
  <2>2. ~Blank(matrix)
    BY <1>2, <1>12, BlankIs
  <2>3. IsConstant(p.right)
    BY <1>8, <2>1 DEF SelfCompared
  <2>4. Cell(matrix, 1, p.left.key) = Empty
    BY <1>2, <1>7, <2>1, LoadedIs DEF Refiltered
  <2>5. ran # {}
    <3>1. ASSUME ran = {} PROVE FALSE
      <4>1. matrix = matrix_init
        BY <3>1 DEF PhaseInv, Filter
      <4> QED
        BY <2>2, <4>1, InitIs
    <3> QED
      BY <3>1
  <2>6. PICK J : J = Joined(ran)
    OBVIOUS
  <2>7. PICK n : Exact(d, matrix, J, ran, n)
    BY <1>1, <2>1, <2>5, <2>6 DEF ExactInv
  <2>8. p.left.key \notin J
    BY <1>7, <2>2, <2>4, <2>7, LoadedIn DEF Exact
  <2>9. J # {}
    <3>1. PICK q \in ran : TRUE
      BY <2>5
    <3>2. q.left.key \in Ends(q) /\ Ends(q) \subseteq Joined(ran)
      BY <3>1 DEF Ends, Joined
    <3> QED
      BY <2>6, <3>2
  <2>10. PICK r : r = matrix'
    OBVIOUS
  <2>11. PICK S, ts : /\ S \in SUBSET IdsIn(d, p.left.key)
                      /\ IsConstant(p.right) => S = Passing(d, p)
                      /\ ts = Tuples(p.left, InOrder(S))
                      /\ Multiplies(r, matrix, p.left.key, ts)
    BY <1>1, <1>2, <1>6, <2>1, <2>3, <2>10, FilterExistingIs
  <2>12. ts = Tuples(p.left, InOrder(Passing(d, p))) /\ Multiplies(r, matrix, p.left.key, ts)
    BY <2>3, <2>11
  <2>13. \E k : Exact(d, r, J \cup {p.left.key}, ran \cup {p}, k)
    BY <1>1, <1>2, <1>6, <2>3, <2>7, <2>8, <2>9, <2>12, MultipliedExact
  <2>14. Joined(ran \cup {p}) = J \cup {p.left.key}
    <3>1. Joined(ran \cup {p}) = Joined(ran) \cup Ends(p)
      BY JoinedMore
    <3> QED
      BY <1>9, <2>6, <3>1
  <2> QED
    BY <1>10, <2>10, <2>13, <2>14
<1> QED
  BY <1>11, <1>12

(* JoinExistingExact: after a join of two relations in the matrix.         *)
LEMMA JoinExistingExact ==
  ASSUME ListInv, PhaseInv, MatrixInv, ExactInv, NEW p, Joining(p), JoinExisting(p)
  PROVE  ExactInv'
<1> SUFFICES ASSUME irregular' = {}
             PROVE  \E n : Exact(rels', matrix', Joined(ran'), ran', n)
  BY DEF ExactInv
<1>1. PICK d : d = rels
  OBVIOUS
<1>2. Good(d, matrix) /\ matrix \in Matrices
  BY <1>1 DEF MatrixInv, Good
<1>3. rels' = d /\ ran' = ran \cup {p} /\ irregular = {} /\ phase = "joins" /\ BothLoaded(p)
  BY <1>1 DEF Joining, Executed, JoinExisting
<1>4. p.left.key \in Columns /\ p.right.key \in Columns /\ p.right.payload # Constant
  BY JoinEnds
<1>5. Cell(matrix, 1, p.left.key) # Empty /\ Cell(matrix, 1, p.right.key) # Empty
  BY <1>2, <1>3, <1>4, LoadedIs DEF BothLoaded
<1>6. ~Blank(matrix)
  BY <1>4, <1>5 DEF Blank
<1>7. ran # {}
  <2>1. ASSUME ran = {} PROVE FALSE
    <3>1. matrix = matrix_init
      BY <1>3, <2>1 DEF PhaseInv
    <3> QED
      BY <1>6, <3>1, InitIs
  <2> QED
    BY <2>1
<1>8. PICK J : J = Joined(ran)
  OBVIOUS
<1>9. PICK n : Exact(d, matrix, J, ran, n)
  BY <1>1, <1>3, <1>7, <1>8 DEF ExactInv
<1>10. p.left.key \in J /\ p.right.key \in J
  BY <1>4, <1>5, <1>6, <1>9, LoadedIn DEF Exact
<1>11. PICK r : r = matrix'
  OBVIOUS
<1>12. r = query_join_existing(p)
  BY <1>11 DEF JoinExisting
<1>13. PICK kept : Enumerates(kept, RowsThatJoin(p)) /\ Thins(d, r, matrix, kept)
  BY <1>2, <1>12, JoinExistingIs
<1>14. \E k : Exact(d, r, J, ran \cup {p}, k)
  BY <1>1, <1>2, <1>4, <1>9, <1>10, <1>13, ThinnedExact
<1>15. Joined(ran \cup {p}) = J
  <2>1. Joined(ran \cup {p}) = J \cup Ends(p)
    BY <1>8, JoinedMore
  <2>2. Ends(p) \subseteq J
    BY <1>10, EndsIn
  <2> QED
    BY <2>1, <2>2
<1> QED
  BY <1>3, <1>11, <1>14, <1>15
(* LabelledKeyed: what is joined has the attribute of the join in order.   *)
LEMMA LabelledKeyed ==
  ASSUME PhaseInv, phase = "joins", NEW d, NEW x, x.key \in Columns,
         NEW l, Loads(d, l, matrix, x),
         NEW k, NEW t, NEW ms, NEW r, NEW o, JoinSteps(d, l, k, t, ms, r, x, o),
         ran = {} \/ Cell(matrix, 1, x.key) # Empty
  PROVE  Keyed(d, k, x)
<1>1. CASE ran = {}
  <2>1. l.col_map = matrix_init.col_map
    BY <1>1 DEF PhaseInv, Loads
  <2>2. l.col_map[x.key] = [attr |-> NoAttribute, sorted |-> FALSE]
    BY <2>1, InitIs
  <2>3. l.col_map[x.key] # [attr |-> x.payload, sorted |-> TRUE]
    BY <2>2
  <2> QED
    BY <2>3 DEF JoinSteps
<1>2. CASE Cell(matrix, 1, x.key) # Empty
  <2>1. ASSUME l.col_map[x.key] = [attr |-> x.payload, sorted |-> TRUE] PROVE Keyed(d, l, x)
    BY <1>2, <2>1 DEF Loads
  <2> QED
    BY <2>1 DEF JoinSteps
<1> QED
  BY <1>1, <1>2

(* SortedExact: the matrix whose column is loaded and in order.            *)
LEMMA SortedExact ==
  ASSUME NEW d, NEW m, Good(d, m), NEW c \in Columns, NEW R, NEW n,
         NEW l, Good(d, l), SameBeside(l, m, c), NEW J, c \in J, Exact(d, l, J, R, n), ~Blank(l),
         NEW s, Good(d, s), Shuffled(s, l, c), Torn(l, s, c) = {},
         NEW k, SameBeside(k, l, c), Shuffled(k, l, c), \A i, e : Cell(k, i, e) = Cell(s, i, e)
  PROVE  Exact(d, k, J, R, n)
<1>1. SameIds(s, l, c) \/ \A e \in Columns \ {c} : Cell(l, 1, e) = Empty
  BY TornIs
<1>2. CASE SameIds(s, l, c)
  <2>1. SameIds(k, l, c)
    BY <1>2 DEF SameIds
  <2>2. ASSUME NEW e \in Columns PROVE SameIds(k, l, e)
    <3>1. CASE e = c
      BY <2>1, <3>1
    <3>2. CASE e # c
      BY <3>2 DEF SameBeside, SameIds
    <3> QED
      BY <3>1, <3>2
  <2> QED
    BY <2>2, ExactSame
<1>3. CASE \A e \in Columns \ {c} : Cell(l, 1, e) = Empty
  <2>1. Fills(l, J, n) /\ J \subseteq Columns
    BY DEF Exact, Fills
  <2>2. \A e \in J : e = c
    <3>1. ASSUME NEW e \in J PROVE e = c
      <4>1. e \in Columns
        BY <2>1
      <4>2. Cell(l, 1, e) # Empty
        BY <2>1, <4>1, LoadedIn
      <4> QED
        BY <1>3, <4>1, <4>2
    <3> QED
      BY <3>1
  <2>3. J = {c}
    BY <2>2
  <2>4. Exact(d, l, {c}, R, n)
    BY <2>3
  <2>5. Exact(d, k, {c}, R, n)
    BY <2>4, ShuffledExact
  <2> QED
    BY <2>3, <2>5
<1> QED
  BY <1>1, <1>2, <1>3

(* JoinOtherExact: after a join with a relation that is not in it.         *)
LEMMA JoinOtherExact ==
  ASSUME ListInv, PhaseInv, MatrixInv, ExactInv, NEW p, Joining(p), JoinOther(p)
  PROVE  ExactInv'
<1> SUFFICES ASSUME irregular' = {}
             PROVE  \E n : Exact(rels', matrix', Joined(ran'), ran', n)
  BY DEF ExactInv
<1>1. PICK d : d = rels
  OBVIOUS
<1>2. d \in Databases /\ Good(d, matrix) /\ Marks(d, matrix) /\ matrix \in Matrices
  BY <1>1 DEF ListInv, MatrixInv, Good
<1>3. rels' = d /\ ran' = ran \cup {p} /\ phase = "joins" /\ ~BothLoaded(p)
  BY <1>1 DEF Joining, Executed, JoinOther
<1>4. PICK x : x = Existing(p)
  OBVIOUS
<1>5. PICK o : o = Other(p)
  OBVIOUS
<1>6. \/ x = p.left /\ o = p.right
      \/ x = p.right /\ o = p.left
  BY <1>4, <1>5, EndsAre
<1>7. IsEnd(x) /\ IsEnd(o) /\ p.op = "=" /\ p.right.payload # Constant
  BY <1>6, JoinEnds
<1>8. x.key \in Columns /\ o.key \in Columns
  BY <1>7 DEF IsEnd
<1>9. PICK l : l = LoadExisting(matrix, x)
  OBVIOUS
<1>10. PICK s \in SortExisting(l, x), t \in SortedTables(o) :
         /\ matrix' = mx_join(Marked(s, o), x.key, t, o.key)
         /\ irregular' = irregular \cup Forgotten \cup Ragged(x) \cup SelfCompared(p) \cup Torn(l, s, x.key)
  BY <1>4, <1>5, <1>9 DEF JoinOther
<1>11. irregular = {} /\ Forgotten = {} /\ Ragged(x) = {} /\ SelfCompared(p) = {} /\ Torn(l, s, x.key) = {}
  BY <1>10
<1>12. PICK r : r = matrix'
  OBVIOUS
<1>13. Loads(d, l, matrix, x)
  BY <1>1, <1>2, <1>7, <1>9, LoadExistingIs
<1>14. Good(d, l) /\ Labelled(d, l, x) /\ SameBeside(l, matrix, x.key)
  BY <1>13 DEF Loads
<1>15. PICK k, ms : JoinSteps(d, l, k, t, ms, r, x, o) /\ \A i, c : Cell(k, i, c) = Cell(s, i, c)
  <2>1. r = mx_join(Marked(s, o), x.key, t, o.key)
    BY <1>10, <1>12
  <2> QED
    BY <1>1, <1>2, <1>7, <1>14, <2>1, JoinStepsAre
<1>16. /\ Good(d, k) /\ SameBeside(k, l, x.key) /\ Shuffled(k, l, x.key)
       /\ IsTable(d, t, o) /\ Matched(ms, k, x.key, t) /\ JoinsUp(r, k, t, o.key, ms)
  BY <1>15 DEF JoinSteps
<1>17. Good(d, s) /\ Shuffled(s, l, x.key)
  <2>1. SortsColumn(d, s, l, x)
    BY <1>2, <1>7, <1>10, <1>14, SortExistingIs
  <2> QED
    BY <2>1 DEF SortsColumn
<1>18. Ends(p) = {x.key, o.key} /\ x.key # o.key
  BY <1>6, <1>7, <1>11 DEF Ends, SelfCompared
<1>19. \E J, n : /\ Exact(d, k, J, ran, n) /\ x.key \in J /\ o.key \notin J
                 /\ J \cup {x.key} = Joined(ran) \cup {x.key}
                 /\ ran = {} \/ Cell(matrix, 1, x.key) # Empty
  <2>1. CASE ran = {}
    <3>1. matrix = matrix_init
      BY <1>3, <2>1 DEF PhaseInv
    <3>2. Blank(matrix)
      BY <3>1, InitIs
    <3>3. Fresh(d, l, x.key)
      BY <1>8, <1>13, <3>2 DEF Loads, Blank
    <3>4. PICK n : Exact(d, l, {x.key}, {}, n)
      BY <1>2, <1>8, <1>14, <3>2, <3>3, FreshExact
    <3>5. Exact(d, k, {x.key}, {}, n)
      BY <1>8, <1>14, <1>16, <3>4, ShuffledExact
    <3>6. Joined({}) = {}
      BY JoinedMore
    <3> QED
      BY <1>18, <2>1, <3>5, <3>6
  <2>2. CASE ran # {}
    <3>1. Used(matrix) \in Nat /\ Used(matrix) # 0
      BY <1>2, <1>11, <2>2, BlankIs DEF Forgotten
    <3>2. Loaded(matrix, x.key)
      BY <1>11, <3>1 DEF Ragged
    <3>3. ~Loaded(matrix, o.key)
      BY <1>3, <1>6, <3>2 DEF BothLoaded
    <3>4. Cell(matrix, 1, x.key) # Empty /\ Cell(matrix, 1, o.key) = Empty /\ ~Blank(matrix)
      BY <1>2, <1>8, <3>2, <3>3, LoadedIs DEF Blank
    <3>5. PICK J : J = Joined(ran)
      OBVIOUS
    <3>6. PICK n : Exact(d, matrix, J, ran, n)
      BY <1>1, <1>11, <2>2, <3>5 DEF ExactInv
    <3>7. x.key \in J /\ o.key \notin J
      BY <1>8, <3>4, <3>6, LoadedIn DEF Exact
    <3>8. SameIds(l, matrix, x.key)
      BY <1>13, <3>4 DEF Loads
    <3>9. ASSUME NEW e \in Columns PROVE SameIds(l, matrix, e)
      <4>1. CASE e = x.key
        BY <3>8, <4>1
      <4>2. CASE e # x.key
        BY <1>14, <4>2 DEF SameBeside, SameIds
      <4> QED
        BY <4>1, <4>2
    <3>10. Exact(d, l, J, ran, n)
      BY <3>6, <3>9, ExactSame
    <3>11. ~Blank(l)
      <4>1. 1 \in Nat \ {0}
        OBVIOUS
      <4>2. Cell(l, 1, x.key) # Empty
        BY <3>4, <3>8, <4>1 DEF SameIds
      <4> QED
        BY <1>8, <4>2 DEF Blank
    <3>12. Exact(d, k, J, ran, n)
      BY <1>2, <1>8, <1>11, <1>14, <1>15, <1>16, <1>17, <3>7, <3>10, <3>11, SortedExact
    <3> QED
      BY <3>4, <3>5, <3>7, <3>12
  <2> QED
    BY <2>1, <2>2
<1>20. PICK J, n : /\ Exact(d, k, J, ran, n) /\ x.key \in J /\ o.key \notin J
                   /\ J \cup {x.key} = Joined(ran) \cup {x.key}
                   /\ ran = {} \/ Cell(matrix, 1, x.key) # Empty
  BY <1>19
<1>21. Keyed(d, k, x)
  BY <1>3, <1>8, <1>13, <1>15, <1>20, LabelledKeyed
<1>22. \E z : Exact(d, r, J \cup {o.key}, ran \cup {p}, z)
  BY <1>2, <1>6, <1>7, <1>8, <1>16, <1>20, <1>21, JoinedExact
<1>23. Joined(ran \cup {p}) = J \cup {o.key}
  <2>1. Joined(ran \cup {p}) = Joined(ran) \cup Ends(p)
    BY JoinedMore
  <2> QED
    BY <1>18, <1>20, <2>1
<1> QED
  BY <1>3, <1>12, <1>22, <1>23

(* ExactKept: every step keeps the rows exact, as long as nothing          *)
(* irregular happens.                                                      *)
LEMMA ExactKept ==
  ASSUME EngineInv, ExactInv, [Next]_vars
  PROVE  ExactInv'
<1>1. ListInv /\ PhaseInv /\ MatrixInv /\ RaggedInv
  BY DEF EngineInv
<1>2. CASE Filter
  BY <1>1, <1>2, FilterExact
<1>3. CASE Join
  <2>1. PICK p : Joining(p) /\ (JoinExisting(p) \/ JoinOther(p))
    BY <1>3 DEF Join
  <2> QED
    BY <1>1, <2>1, JoinExistingExact, JoinOtherExact
<1>4. CASE Finalize
  <2>1. UNCHANGED <<rels, ran, irregular>> /\ (matrix' = matrix \/ matrix' = matrix_finalize(matrix))
    BY <1>4 DEF Finalize
  <2>2. \A c \in Columns : SameIds(matrix', matrix, c)
    <3>1. CASE matrix' = matrix
      BY <3>1 DEF SameIds
    <3>2. CASE matrix' = matrix_finalize(matrix)
      <4>1. Good(rels, matrix)
        BY <1>1 DEF MatrixInv
      <4>2. \A i \in Nat \ {0} : \A e \in Columns : Cell(matrix', i, e) = Cell(matrix, i, e)
        BY <3>2, <4>1, FinalizeGood
      <4> QED
        BY <4>2 DEF SameIds
    <3> QED
      BY <2>1, <3>1, <3>2
  <2>3. ASSUME irregular' = {}, ran' # {}
        PROVE  \E n : Exact(rels', matrix', Joined(ran'), ran', n)
    <3>1. PICK J : J = Joined(ran)
      OBVIOUS
    <3>2. PICK r : r = matrix'
      OBVIOUS
    <3>3. PICK n : Exact(rels, matrix, J, ran, n)
      BY <2>1, <2>3, <3>1 DEF ExactInv
    <3>4. Exact(rels, r, J, ran, n)
      BY <2>2, <3>2, <3>3, ExactSame
    <3> QED
      BY <2>1, <3>1, <3>2, <3>4
  <2> QED
    BY <2>3 DEF ExactInv
<1>5. CASE SortJoins \/ Projection \/ UNCHANGED vars
  <2>1. UNCHANGED <<rels, matrix, ran, irregular>>
    BY <1>5 DEF SortJoins, Projection, vars
  <2> QED
    BY <2>1 DEF ExactInv
<1> QED
  BY <1>2, <1>3, <1>4, <1>5 DEF Next

(* ExactInvIs: the rows stay exact.                                        *)
LEMMA ExactInvIs == Spec => [](EngineInv /\ ExactInv)
<1>1. Init => ExactInv
  BY DEF Init, ExactInv
<1>2. EngineInv /\ ExactInv /\ [Next]_vars => ExactInv'
  BY ExactKept
<1> QED
  BY <1>1, <1>2, EngineInvIs, PTL DEF Spec

(* AnswerIs: what SQL says of a set of relations and of predicates.        *)
LEMMA AnswerIs ==
  ASSUME NEW d, d = rels, NEW J, NEW R, NEW f
  PROVE  f \in Answer(J, R)
         <=> f \in [J -> UNION {IdsIn(d, c) : c \in J}] /\ Answers(d, f, J, R)
<1>1. \A p : Satisfies(f, p) <=> Pass(d, p, f[p.left.key], f[p.right.key])
  BY ValueIs DEF Satisfies, Pass
<1>2. \A c : RowIds(c) = IdsIn(d, c)
  BY ValueIs
<1> QED
  BY <1>1, <1>2 DEF Answer, Answers

(* Row i of m as a choice of rows of the relations in J.                   *)
Choice(m, i, J) == [c \in J |-> m.data[i][c].id]

(* ChoicesAre: the rows of an exact matrix are the answers, each once.     *)
LEMMA ChoicesAre ==
  ASSUME NEW d, d = rels, NEW m, Good(d, m), NEW J, NEW R, NEW n, Exact(d, m, J, R, n), J # {}
  PROVE  /\ Used(m) = n
         /\ \A i \in 1 .. n : Choice(m, i, J) \in Answer(J, R)
         /\ \A f \in Answer(J, R) : \E i \in 1 .. n : Choice(m, i, J) = f
         /\ \A i, k \in 1 .. n : Choice(m, i, J) = Choice(m, k, J) => i = k
<1>1. Fills(m, J, n) /\ n \in Nat /\ J \subseteq Columns
  BY DEF Exact, Fills
<1>2. Used(m) = n
  <2>1. PICK e \in J : TRUE
    OBVIOUS
  <2> QED
    BY <1>1, <2>1, ExactUsed
<1>3. ASSUME NEW i \in 1 .. n, NEW c \in J
      PROVE  IdAt(m, i, c) = m.data[i][c].id /\ IdAt(m, i, c) \in IdsIn(d, c)
  <2>1. i \in Nat \ {0} /\ i <= n /\ c \in Columns
    BY <1>1
  <2>2. Cell(m, i, c) # Empty
    BY <1>1, <2>1 DEF Fills
  <2>3. Cell(m, i, c) = m.data[i][c]
    BY <2>2 DEF Cell
  <2> QED
    BY <2>1, <2>2, <2>3 DEF IdAt, Good
<1>4. ASSUME NEW i \in 1 .. n
      PROVE  DOMAIN Choice(m, i, J) = J /\ \A c \in J : Choice(m, i, J)[c] = IdAt(m, i, c)
  BY <1>3 DEF Choice
<1>5. ASSUME NEW i \in 1 .. n PROVE Choice(m, i, J) \in Answer(J, R)
  <2>1. PICK f : f = Choice(m, i, J)
    OBVIOUS
  <2>2. f = [c \in J |-> m.data[i][c].id]
    BY <2>1 DEF Choice
  <2>3. \A c \in J : f[c] = IdAt(m, i, c) /\ f[c] \in IdsIn(d, c)
    BY <1>3, <1>4, <2>1
  <2>4. f \in [J -> UNION {IdsIn(d, c) : c \in J}]
    <3>1. PICK S : S = UNION {IdsIn(d, c) : c \in J}
      OBVIOUS
    <3>2. \A c \in J : f[c] \in S
      BY <2>3, <3>1
    <3>3. f \in [J -> S]
      BY <2>2, <3>2
    <3> QED
      BY <3>1, <3>3
  <2>5. ASSUME NEW p \in R PROVE Pass(d, p, f[p.left.key], f[p.right.key])
    <3>1. Pass(d, p, IdAt(m, i, p.left.key), IdAt(m, i, p.right.key))
      BY DEF Exact, Sound
    <3>2. p.left.key \in J /\ (p.right.payload # Constant => p.right.key \in J)
      BY EndsIn DEF Exact
    <3>3. /\ f[p.left.key] = IdAt(m, i, p.left.key)
          /\ p.right.payload # Constant => f[p.right.key] = IdAt(m, i, p.right.key)
      BY <2>3, <3>2
    <3> QED
      BY <3>1, <3>3, PassSame
  <2>6. Answers(d, f, J, R)
    BY <2>3, <2>5 DEF Answers
  <2> QED
    BY <2>1, <2>4, <2>6, AnswerIs
<1>6. ASSUME NEW f \in Answer(J, R) PROVE \E i \in 1 .. n : Choice(m, i, J) = f
  <2>1. f \in [J -> UNION {IdsIn(d, c) : c \in J}] /\ Answers(d, f, J, R)
    BY AnswerIs
  <2>2. PICK i \in 1 .. n : \A c \in J : IdAt(m, i, c) = f[c]
    BY <2>1 DEF Exact, Complete
  <2>3. PICK g : g = Choice(m, i, J)
    OBVIOUS
  <2>4. g = [c \in J |-> m.data[i][c].id]
    BY <2>3 DEF Choice
  <2>5. \A c \in J : g[c] = f[c]
    BY <1>4, <2>2, <2>3
  <2>6. f = [c \in J |-> f[c]]
    BY <2>1
  <2>7. g = f
    BY <2>4, <2>5, <2>6
  <2> QED
    BY <2>3, <2>7
<1>7. ASSUME NEW i \in 1 .. n, NEW k \in 1 .. n, Choice(m, i, J) = Choice(m, k, J) PROVE i = k
  <2>1. \A c \in J : IdAt(m, i, c) = IdAt(m, k, c)
    <3>1. ASSUME NEW c \in J PROVE IdAt(m, i, c) = IdAt(m, k, c)
      <4>1. Choice(m, i, J)[c] = IdAt(m, i, c) /\ Choice(m, k, J)[c] = IdAt(m, k, c)
        BY <1>4
      <4> QED
        BY <1>7, <4>1
    <3> QED
      BY <3>1
  <2> QED
    BY <2>1 DEF Exact, Distinct
<1> QED
  BY <1>2, <1>5, <1>6, <1>7

(* ChosenRows: so are those of the matrix.                                 *)
LEMMA ChosenRows ==
  ASSUME NEW J, NEW n, Exact(rels, matrix, J, ran, n), Good(rels, matrix), J # {}
  PROVE  /\ {Choice(matrix, i, J) : i \in 1 .. Used(matrix)} = Answer(J, ran)
         /\ \A i, k \in 1 .. Used(matrix) : Choice(matrix, i, J) = Choice(matrix, k, J) => i = k
<1>1. PICK d : d = rels
  OBVIOUS
<1>2. Good(d, matrix) /\ Exact(d, matrix, J, ran, n)
  BY <1>1
<1>3. PICK A : A = Answer(J, ran)
  OBVIOUS
<1>4. /\ Used(matrix) = n
      /\ \A i \in 1 .. n : Choice(matrix, i, J) \in Answer(J, ran)
      /\ \A f \in Answer(J, ran) : \E i \in 1 .. n : Choice(matrix, i, J) = f
      /\ \A i, k \in 1 .. n : Choice(matrix, i, J) = Choice(matrix, k, J) => i = k
  BY <1>1, <1>2, ChoicesAre
<1>5. /\ \A i \in 1 .. n : Choice(matrix, i, J) \in A
      /\ \A f \in A : \E i \in 1 .. n : Choice(matrix, i, J) = f
  BY <1>3, <1>4
<1>6. {Choice(matrix, i, J) : i \in 1 .. n} = A
  BY <1>5
<1> QED
  BY <1>3, <1>4, <1>6

(* RowsAreAnswers: as long as no query takes one of the engine's shortcuts *)
(* where it does not hold, the intermediate result is, each once, what SQL *)
(* says of the predicates executed: filters, whatever their order, joins   *)
(* by sorting and merging, joins of what is in the matrix.                 *)
THEOREM RowsAreAnswers == Spec => []IntermediateExact
<1>1. EngineInv /\ ExactInv => IntermediateExact
  <2> SUFFICES ASSUME EngineInv, ExactInv, irregular = {}, ran # {}
               PROVE  /\ {Choice(matrix, i, Joined(ran)) : i \in 1 .. Used(matrix)}
                           = Answer(Joined(ran), ran)
                      /\ \A i, k \in 1 .. Used(matrix) :
                           Choice(matrix, i, Joined(ran)) = Choice(matrix, k, Joined(ran)) => i = k
    BY DEF IntermediateExact, Choice, Joined
  <2>1. PICK J : J = Joined(ran)
    OBVIOUS
  <2>2. Good(rels, matrix)
    BY DEF EngineInv, MatrixInv
  <2>3. PICK n : Exact(rels, matrix, J, ran, n)
    BY <2>1 DEF ExactInv
  <2>4. J # {}
    <3>1. PICK q \in ran : TRUE
      OBVIOUS
    <3>2. q.left.key \in Ends(q)
      BY DEF Ends
    <3> QED
      BY <2>1, <3>1, <3>2 DEF Joined
  <2> QED
    BY <2>1, <2>2, <2>3, <2>4, ChosenRows
<1> QED
  BY <1>1, ExactInvIs, PTL

-----------------------------------------------------------------------------
(* Sums *)

Pick(s) == CHOOSE x \in s : TRUE

(* it adds up the values of F over every set of its arguments.             *)
IsFold(it, F) ==
  it = [s \in SUBSET DOMAIN F |-> IF s = {} THEN 0 ELSE F[Pick(s)] + it[s \ {Pick(s)}]]

(* Whichever argument is taken first.                                      *)
Totals(it, F, D) ==
  /\ it \in [SUBSET D -> Nat] /\ it[{}] = 0
  /\ \A s \in SUBSET D : \A x \in s : it[s] = F[x] + it[s \ {x}]

(* PickIs: a set that is not empty has the element picked, and one fewer   *)
(* without it.                                                             *)
LEMMA PickIs ==
  ASSUME NEW s, s # {}
  PROVE  Pick(s) \in s
BY DEF Pick

LEMMA OneFewer ==
  ASSUME NEW D, IsFiniteSet(D), NEW s \in SUBSET D, NEW x \in s
  PROVE  /\ s \ {x} \in SUBSET D /\ Cardinality(s) \in Nat /\ Cardinality(s \ {x}) \in Nat
         /\ Cardinality(s) = Cardinality(s \ {x}) + 1
<1>1. IsFiniteSet(s)
  BY FS_Subset
<1>2. IsFiniteSet(s \ {x}) /\ Cardinality(s \ {x}) = Cardinality(s) - 1
  BY <1>1, FS_RemoveElement
<1>3. Cardinality(s) \in Nat /\ Cardinality(s \ {x}) \in Nat
  BY <1>1, <1>2, FS_CardinalityType
<1> QED
  BY <1>2, <1>3

(* FoldExists: there is such a function.                                   *)
LEMMA FoldExists ==
  ASSUME NEW D, IsFiniteSet(D), NEW F \in [D -> Nat]
  PROVE  \E it : IsFold(it, F) /\ it \in [SUBSET D -> Nat]
<1> DEFINE P == SUBSET D
           size == [s \in P |-> Cardinality(s)]
           Step(h, s) == IF s = {} THEN 0 ELSE F[Pick(s)] + h[s \ {Pick(s)}]
           step == [xh \in P \X [P -> Nat] |-> Step(xh[2], xh[1])]
<1>1. ASSUME NEW s \in P, s # {}
      PROVE  /\ Pick(s) \in D /\ s \ {Pick(s)} \in P
             /\ size[s \ {Pick(s)}] < size[s]
  <2>1. Pick(s) \in s
    BY <1>1, PickIs
  <2>2. PICK x \in s : x = Pick(s)
    BY <2>1
  <2>3. /\ s \ {x} \in P /\ Cardinality(s) \in Nat /\ Cardinality(s \ {x}) \in Nat
        /\ Cardinality(s) = Cardinality(s \ {x}) + 1
    BY OneFewer
  <2>4. size[s] = Cardinality(s) /\ size[s \ {x}] = Cardinality(s \ {x})
    BY <2>3
  <2> HIDE DEF size
  <2> QED
    BY <2>2, <2>3, <2>4
<1>2. ASSUME NEW s \in P, NEW h \in [P -> Nat] PROVE Step(h, s) \in Nat
  <2>1. CASE s = {}
    BY <2>1
  <2>2. CASE s # {}
    <3>1. F[Pick(s)] \in Nat /\ h[s \ {Pick(s)}] \in Nat
      <4>1. Pick(s) \in D /\ s \ {Pick(s)} \in P
        BY <1>1, <2>2
      <4> HIDE DEF P
      <4> QED
        BY <4>1
    <3> QED
      BY <2>2, <3>1
  <2> QED
    BY <2>1, <2>2
<1>3. Descends(P, Nat, size, step)
  <2>1. size \in [P -> Nat]
    <3>1. ASSUME NEW s \in P PROVE Cardinality(s) \in Nat
      BY FS_Subset, FS_CardinalityType
    <3> HIDE DEF P
    <3> QED
      BY <3>1
  <2>2. step \in [P \X [P -> Nat] -> Nat]
    <3> HIDE DEF P, Step
    <3> QED
      BY <1>2
  <2>3. ASSUME NEW x \in P, NEW h \in [P -> Nat], NEW k \in [P -> Nat],
               \A y \in P : size[y] < size[x] => h[y] = k[y]
        PROVE  step[<<x, h>>] = step[<<x, k>>]
    <3>1. step[<<x, h>>] = Step(h, x) /\ step[<<x, k>>] = Step(k, x)
      <4> HIDE DEF P, Step
      <4> QED
        OBVIOUS
    <3>2. CASE x = {}
      <4> HIDE DEF step
      <4> QED
        BY <3>1, <3>2
    <3>3. CASE x # {}
      <4>1. PICK y \in P : y = x \ {Pick(x)}
        BY <1>1, <3>3
      <4>2. size[y] < size[x]
        <5> HIDE DEF size, P
        <5> QED
          BY <1>1, <3>3, <4>1
      <4>3. h[y] = k[y]
        <5> HIDE DEF size, P
        <5> QED
          BY <2>3, <4>2
      <4> HIDE DEF step, P, size
      <4> QED
        BY <3>1, <3>3, <4>1, <4>3
    <3> QED
      BY <3>2, <3>3
  <2> HIDE DEF P, size, step
  <2> QED
    BY <2>1, <2>2, <2>3 DEF Descends
<1>4. PICK f : Solves(f, P, Nat, step)
  <2>1. Nat # {}
    OBVIOUS
  <2> HIDE DEF P, size, step
  <2> QED
    BY <1>3, <2>1, Recursion
<1>5. f \in [P -> Nat] /\ \A x \in P : f[x] = Step(f, x)
  <2>1. f \in [P -> Nat] /\ \A x \in P : f[x] = step[<<x, f>>]
    <3> HIDE DEF P, step
    <3> QED
      BY <1>4 DEF Solves
  <2> HIDE DEF P, Step
  <2> QED
    BY <2>1
<1>6. f = [x \in P |-> Step(f, x)]
  <2> HIDE DEF P, Step
  <2> QED
    BY <1>5
<1>7. DOMAIN F = D
  OBVIOUS
<1> HIDE DEF size, step
<1> QED
  BY <1>5, <1>6, <1>7 DEF IsFold

(* What it says of every set.                                              *)
Picks(it, F, D) ==
  /\ DOMAIN it = SUBSET D
  /\ it[{}] = 0
  /\ \A s \in SUBSET D : s # {} => it[s] = F[Pick(s)] + it[s \ {Pick(s)}]

(* FoldIs: a fold does.                                                    *)
LEMMA FoldIs ==
  ASSUME NEW F, NEW it, IsFold(it, F)
  PROVE  Picks(it, F, DOMAIN F)
<1>1. PICK g : g = it
  OBVIOUS
<1>2. it = [s \in SUBSET DOMAIN F |-> IF s = {} THEN 0 ELSE F[Pick(s)] + g[s \ {Pick(s)}]]
  BY <1>1 DEF IsFold
<1> QED
  BY <1>1, <1>2 DEF Picks

(* FoldTyped: it is a number.                                              *)
LEMMA FoldTyped ==
  ASSUME NEW D, IsFiniteSet(D), NEW F \in [D -> Nat], NEW it, IsFold(it, F)
  PROVE  it \in [SUBSET D -> Nat]
<1>1. /\ DOMAIN it = SUBSET D /\ it[{}] = 0
      /\ \A s \in SUBSET D : s # {} => it[s] = F[Pick(s)] + it[s \ {Pick(s)}]
  <2>1. Picks(it, F, DOMAIN F)
    BY FoldIs
  <2>2. DOMAIN F = D
    OBVIOUS
  <2> QED
    BY <2>1, <2>2 DEF Picks
<1> DEFINE T == {k \in Nat : \A s \in SUBSET D : Cardinality(s) = k => it[s] \in Nat}
<1>2. 0 \in T
  <2>1. ASSUME NEW s \in SUBSET D, Cardinality(s) = 0 PROVE it[s] \in Nat
    <3>1. IsFiniteSet(s)
      BY FS_Subset
    <3>2. s = {}
      BY <2>1, <3>1, FS_EmptySet
    <3> QED
      BY <1>1, <3>2
  <2> QED
    BY <2>1
<1>3. ASSUME NEW k \in Nat, k \in T PROVE k + 1 \in T
  <2>1. ASSUME NEW s \in SUBSET D, Cardinality(s) = k + 1 PROVE it[s] \in Nat
    <3>1. CASE s = {}
      BY <1>1, <3>1
    <3>2. CASE s # {}
      <4>1. PICK c \in s : c = Pick(s)
        BY <3>2, PickIs
      <4>2. it[s] = F[c] + it[s \ {c}]
        BY <1>1, <3>2, <4>1
      <4>3. Cardinality(s \ {c}) \in Nat /\ Cardinality(s) = Cardinality(s \ {c}) + 1
        BY OneFewer
      <4>4. Cardinality(s \ {c}) = k /\ s \ {c} \in SUBSET D
        BY <2>1, <4>3
      <4>5. it[s \ {c}] \in Nat /\ F[c] \in Nat
        BY <1>3, <4>4
      <4> QED
        BY <4>2, <4>5
    <3> QED
      BY <3>1, <3>2
  <2> QED
    BY <2>1
<1>4. Nat \subseteq T
  <2> HIDE DEF T
  <2> QED
    BY <1>2, <1>3, NatSetInduction
<1>5. ASSUME NEW s \in SUBSET D PROVE it[s] \in Nat
  <2>1. Cardinality(s) \in Nat
    BY FS_Subset, FS_CardinalityType
  <2>2. Cardinality(s) \in T
    BY <1>4, <2>1
  <2> QED
    BY <2>2
<1>6. it = [s \in SUBSET D |-> it[s]]
  <2>1. PICK g : g = it
    OBVIOUS
  <2>2. g = [s \in SUBSET D |-> IF s = {} THEN 0 ELSE F[Pick(s)] + it[s \ {Pick(s)}]]
    <3>1. DOMAIN F = D
      OBVIOUS
    <3> QED
      BY <2>1, <3>1 DEF IsFold
  <2>3. g = [s \in SUBSET D |-> g[s]]
    BY <2>2
  <2> QED
    BY <2>1, <2>3, Zenon
<1> QED
  BY <1>5, <1>6

(* FoldTotals: the order in which the arguments are picked does not matter.*)
LEMMA FoldTotals ==
  ASSUME NEW D, IsFiniteSet(D), NEW F \in [D -> Nat], NEW it, IsFold(it, F)
  PROVE  Totals(it, F, D)
<1>1. /\ it[{}] = 0
      /\ \A s \in SUBSET D : s # {} => it[s] = F[Pick(s)] + it[s \ {Pick(s)}]
  <2>1. Picks(it, F, DOMAIN F)
    BY FoldIs
  <2>2. DOMAIN F = D
    OBVIOUS
  <2> QED
    BY <2>1, <2>2 DEF Picks
<1>2. it \in [SUBSET D -> Nat]
  BY FoldTyped
<1> DEFINE T == {k \in Nat : \A s \in SUBSET D : Cardinality(s) = k =>
                     \A x \in s : it[s] = F[x] + it[s \ {x}]}
<1>3. 0 \in T
  <2>1. ASSUME NEW s \in SUBSET D, Cardinality(s) = 0, NEW x \in s PROVE FALSE
    <3>1. Cardinality(s \ {x}) \in Nat /\ Cardinality(s) = Cardinality(s \ {x}) + 1
      BY OneFewer
    <3> QED
      BY <2>1, <3>1
  <2> QED
    BY <2>1
<1>4. ASSUME NEW k \in Nat, k \in T PROVE k + 1 \in T
  <2>1. ASSUME NEW s \in SUBSET D, Cardinality(s) = k + 1, NEW x \in s
        PROVE  it[s] = F[x] + it[s \ {x}]
    <3>1. PICK c : c = Pick(s)
      OBVIOUS
    <3>2. c \in s
      BY <3>1, PickIs
    <3>3. it[s] = F[c] + it[s \ {c}]
      BY <1>1, <3>1, <3>2
    <3>4. CASE x = c
      BY <3>3, <3>4
    <3>5. CASE x # c
      <4>1. PICK u \in SUBSET D : u = s \ {c}
        OBVIOUS
      <4>2. PICK v \in SUBSET D : v = s \ {x}
        OBVIOUS
      <4>3. PICK w \in SUBSET D : w = s \ {x, c}
        OBVIOUS
      <4>4. Cardinality(u) \in Nat /\ Cardinality(v) \in Nat
            /\ Cardinality(s) = Cardinality(u) + 1 /\ Cardinality(s) = Cardinality(v) + 1
        <5>1. Cardinality(s \ {c}) \in Nat /\ Cardinality(s) = Cardinality(s \ {c}) + 1
          BY <3>2, OneFewer
        <5>2. Cardinality(s \ {x}) \in Nat /\ Cardinality(s) = Cardinality(s \ {x}) + 1
          BY OneFewer
        <5> QED
          BY <4>1, <4>2, <5>1, <5>2
      <4>5. Cardinality(u) = k /\ Cardinality(v) = k
        BY <2>1, <4>4
      <4>6. x \in u /\ c \in v /\ u \ {x} = w /\ v \ {c} = w
        BY <3>2, <3>5, <4>1, <4>2, <4>3
      <4>7. it[u] = F[x] + it[u \ {x}] /\ it[v] = F[c] + it[v \ {c}]
        BY <1>4, <4>5, <4>6
      <4>8. it[u] = F[x] + it[w] /\ it[v] = F[c] + it[w] /\ it[s] = F[c] + it[u]
        BY <3>3, <4>1, <4>6, <4>7
      <4>9. F[x] \in Nat /\ F[c] \in Nat /\ it[w] \in Nat
        BY <1>2, <3>2
      <4>10. PICK a \in Nat : a = F[x]
        BY <4>9
      <4>11. PICK b \in Nat : b = F[c]
        BY <4>9
      <4>12. PICK z \in Nat : z = it[w]
        BY <4>9
      <4>13. it[s] = b + (a + z) /\ it[v] = b + z
        BY <4>8, <4>10, <4>11, <4>12
      <4>14. it[s] = a + it[v]
        BY <4>13
      <4> QED
        BY <4>2, <4>10, <4>14
    <3> QED
      BY <3>4, <3>5
  <2> QED
    BY <2>1
<1>5. Nat \subseteq T
  <2> HIDE DEF T
  <2> QED
    BY <1>3, <1>4, NatSetInduction
<1>6. ASSUME NEW s \in SUBSET D, NEW x \in s PROVE it[s] = F[x] + it[s \ {x}]
  <2>1. Cardinality(s) \in T
    BY <1>5, OneFewer
  <2> QED
    BY <2>1
<1> QED
  BY <1>1, <1>2, <1>6 DEF Totals

(* SumIsFold: SumFunction is such a function's value.                      *)
LEMMA SumIsFold ==
  ASSUME NEW F
  PROVE  SumFunction(F) = (CHOOSE it : IsFold(it, F))[DOMAIN F]
BY DEF SumFunction, SumFunctionOnSet, FoldFunctionOnSet, MapThenFoldSet, IsFold, Pick

(* SumIs: it adds up all values.                                           *)
LEMMA SumIs ==
  ASSUME NEW D, IsFiniteSet(D), NEW F \in [D -> Nat]
  PROVE  \E it : Totals(it, F, D) /\ SumFunction(F) = it[D]
<1>1. PICK f : f = CHOOSE it : IsFold(it, F)
  OBVIOUS
<1>2. IsFold(f, F)
  BY <1>1, FoldExists
<1>3. Totals(f, F, D)
  BY <1>2, FoldTotals
<1>4. SumFunction(F) = f[DOMAIN F] /\ DOMAIN F = D
  BY <1>1, SumIsFold
<1> QED
  BY <1>3, <1>4

(* e lists the elements of D.                                              *)
Lists(e, D, n) ==
  /\ \A i \in 1 .. n : e[i] \in D
  /\ \A i, k \in 1 .. n : e[i] = e[k] => i = k
  /\ \A x \in D : \E i \in 1 .. n : e[i] = x

(* ListedFinite: what can be listed is finite.                             *)
LEMMA ListedFinite ==
  ASSUME NEW n \in Nat, NEW D, NEW e, Lists(e, D, n)
  PROVE  IsFiniteSet(D)
<1>1. PICK g : g = [i \in 1 .. n |-> e[i]]
  OBVIOUS
<1>2. g \in [1 .. n -> D] /\ \A i \in 1 .. n : g[i] = e[i]
  BY <1>1 DEF Lists
<1>3. g \in Surjection(1 .. n, D)
  BY <1>2 DEF Lists, Surjection
<1>4. IsFiniteSet(1 .. n)
  BY FS_Interval
<1> QED
  BY <1>3, <1>4, FS_Surjection

(* SameSum: sums over what is listed and over the list are the same.       *)
LEMMA SameSum ==
  ASSUME NEW n \in Nat, NEW D, NEW F \in [D -> Nat], NEW e, Lists(e, D, n),
         NEW G \in [1 .. n -> Nat], \A i \in 1 .. n : G[i] = F[e[i]]
  PROVE  SumFunction(G) = SumFunction(F)
<1>1. IsFiniteSet(D) /\ IsFiniteSet(1 .. n)
  BY ListedFinite, FS_Interval
<1>2. PICK f : Totals(f, F, D) /\ SumFunction(F) = f[D]
  BY <1>1, SumIs
<1>3. PICK g : Totals(g, G, 1 .. n) /\ SumFunction(G) = g[1 .. n]
  BY <1>1, SumIs
<1> DEFINE Upto(k) == {e[i] : i \in 1 .. k}
           T == {k \in Nat : k <= n => g[1 .. k] = f[Upto(k)]}
<1>4. 0 \in T
  <2>1. 1 .. 0 = {} /\ Upto(0) = {}
    OBVIOUS
  <2>2. g[{}] = 0 /\ f[{}] = 0
    BY <1>2, <1>3 DEF Totals
  <2> HIDE DEF Upto
  <2> QED
    BY <2>1, <2>2
<1>5. ASSUME NEW k \in Nat, k \in T PROVE k + 1 \in T
  <2>1. ASSUME k + 1 <= n PROVE g[1 .. k + 1] = f[Upto(k + 1)]
    <3>1. PICK h \in 1 .. n : h = k + 1
      BY <2>1
    <3>2. 1 .. h \in SUBSET (1 .. n) /\ h \in 1 .. h /\ (1 .. h) \ {h} = 1 .. k
      BY <3>1
    <3>3. g[1 .. h] = G[h] + g[(1 .. h) \ {h}]
      BY <1>3, <3>2 DEF Totals
    <3>4. \A i \in 1 .. h : i \in 1 .. n
      BY <3>2
    <3>5. Upto(h) \in SUBSET D /\ e[h] \in Upto(h)
      BY <3>2, <3>4 DEF Lists
    <3>6. Upto(h) \ {e[h]} = Upto(k)
      <4>1. \A i \in 1 .. h : e[i] # e[h] <=> i # h
        BY <3>4 DEF Lists
      <4>2. \A i \in 1 .. h : i # h <=> i \in 1 .. k
        BY <3>1
      <4>3. \A i \in 1 .. k : i \in 1 .. h
        BY <3>1
      <4>4. Upto(h) \ {e[h]} \subseteq Upto(k)
        BY <4>1, <4>2
      <4>5. Upto(k) \subseteq Upto(h) \ {e[h]}
        BY <4>1, <4>2, <4>3
      <4> HIDE DEF Upto
      <4> QED
        BY <4>4, <4>5
    <3>7. f[Upto(h)] = F[e[h]] + f[Upto(h) \ {e[h]}]
      <4> HIDE DEF Upto
      <4> QED
        BY <1>2, <3>5 DEF Totals
    <3>8. g[1 .. k] = f[Upto(k)]
      <4> HIDE DEF Upto
      <4> QED
        BY <1>5, <2>1
    <3> HIDE DEF Upto
    <3> QED
      BY <3>1, <3>2, <3>3, <3>6, <3>7, <3>8
  <2> HIDE DEF Upto
  <2> QED
    BY <2>1
<1>6. Nat \subseteq T
  <2> HIDE DEF T
  <2> QED
    BY <1>4, <1>5, NatSetInduction
<1>7. g[1 .. n] = f[Upto(n)]
  <2> HIDE DEF Upto
  <2> QED
    BY <1>6
<1>8. Upto(n) = D
  BY DEF Lists
<1> QED
  BY <1>2, <1>3, <1>7, <1>8

-----------------------------------------------------------------------------
(* The sums                                                                *)

(* Answer and the sums of the answers, of relations d and a query q.       *)
AnswerIn(d, J, R) == {f \in [J -> UNION {IdsIn(d, c) : c \in J}] : Answers(d, f, J, R)}

TotalOf(d, q, end) ==
  SumFunction([f \in AnswerIn(d, Columns, ToSet(q.preds)) |-> Val(d, end, f[end.key])])

(* AnswerInIs: they are those of rels.                                     *)
LEMMA AnswerInIs ==
  ASSUME NEW d, d = rels, NEW J, NEW R
  PROVE  Answer(J, R) = AnswerIn(d, J, R)
<1>1. ASSUME NEW f PROVE f \in Answer(J, R) <=> f \in AnswerIn(d, J, R)
  BY AnswerIs DEF AnswerIn
<1> QED
  BY <1>1

(* ColumnFull: the rows of a column of an exact matrix.                    *)
LEMMA ColumnFull ==
  ASSUME NEW d, NEW m, Good(d, m), NEW J, NEW n, Fills(m, J, n), NEW c \in J
  PROVE  matrix_col_size(m, c) = n
<1>1. n \in Nat /\ c \in Columns
  BY DEF Fills
<1>2. PICK z : z = matrix_col_size(m, c)
  OBVIOUS
<1>3. z \in Nat /\ \A i \in Nat \ {0} : Cell(m, i, c) # Empty <=> i <= z
  BY <1>1, <1>2, GoodSize
<1>4. \A i \in Nat \ {0} : i <= z <=> i <= n
  BY <1>1, <1>3 DEF Fills
<1>5. z # 0 => z <= n
  BY <1>3, <1>4
<1>6. n # 0 => n <= z
  BY <1>1, <1>4
<1> QED
  BY <1>1, <1>2, <1>3, <1>5, <1>6

(* ListedSum: the sum over the rows of the matrix is the sum over what     *)
(* they are.                                                               *)
LEMMA ListedSum ==
  ASSUME NEW d \in Databases, d = rels, NEW end, IsEnd(end),
         NEW n \in Nat, n = matrix_col_size(matrix, end.key),
         NEW A, \A f \in A : f[end.key] \in IdsIn(d, end.key),
         NEW e, Lists(e, A, n), \A i \in 1 .. n : e[i][end.key] = matrix.data[i][end.key].id
  PROVE  SumOf(end) = SumFunction([f \in A |-> Val(d, end, f[end.key])])
<1>1. PICK F : F = [f \in A |-> Val(d, end, f[end.key])]
  OBVIOUS
<1>2. PICK G : G = [i \in 1 .. n |-> Val(d, end, matrix.data[i][end.key].id)]
  OBVIOUS
<1>3. SumOf(end) = SumFunction(G)
  BY <1>2, ValueIs DEF SumOf
<1>4. ASSUME NEW f \in A PROVE Val(d, end, f[end.key]) \in Nat
  BY ValIs
<1>5. F \in [A -> Nat] /\ \A f \in A : F[f] = Val(d, end, f[end.key])
  BY <1>1, <1>4
<1>6. ASSUME NEW i \in 1 .. n PROVE e[i] \in A /\ F[e[i]] = Val(d, end, matrix.data[i][end.key].id)
  <2>1. PICK f \in A : f = e[i]
    BY DEF Lists
  <2>2. f[end.key] = matrix.data[i][end.key].id
    BY <2>1
  <2> QED
    BY <1>5, <2>1, <2>2
<1>7. \A i \in 1 .. n : G[i] = F[e[i]]
  BY <1>2, <1>6
<1>8. \A i \in 1 .. n : F[e[i]] \in Nat
  BY <1>5, <1>6
<1>9. G \in [1 .. n -> Nat]
  <2>1. DOMAIN G = 1 .. n /\ G = [i \in 1 .. n |-> G[i]]
    BY <1>2
  <2> QED
    BY <1>7, <1>8, <2>1
<1>10. SumFunction(G) = SumFunction(F)
  BY <1>5, <1>7, <1>9, SameSum, SMTT(20)
<1> QED
  BY <1>1, <1>3, <1>10

(* AnswersLess: a choice that satisfies all predicates satisfies some.     *)
LEMMA AnswersLess ==
  ASSUME NEW d, NEW f, NEW J, NEW R, Answers(d, f, J, R),
         NEW K \in SUBSET J, NEW S \in SUBSET R
  PROVE  Answers(d, f, K, S)
BY DEF Answers

(* SumOfIs: a projection is the sum that SQL defines.                      *)
LEMMA SumOfIs ==
  ASSUME AllMentioned, EngineInv, ExactInv, irregular = {}, phase = "project", NEW end, IsEnd(end)
  PROVE  SumOf(end) = TotalOf(rels, query, end)
<1>1. PICK d : d = rels
  OBVIOUS
<1>2. ListInv /\ PhaseInv /\ MatrixInv
  BY DEF EngineInv
<1>3. d \in Databases /\ Good(d, matrix) /\ query \in Queries /\ matrix \in Matrices
  BY <1>1, <1>2 DEF ListInv, MatrixInv, Good
<1>4. PICK R : R = ToSet(query.preds)
  OBVIOUS
<1>5. Joined(R) = Columns
  BY <1>4 DEF AllMentioned, Joined
<1>6. end.key \in Columns
  BY DEF IsEnd
<1>7. PICK A : A = AnswerIn(d, Columns, R)
  OBVIOUS
<1>8. \A f \in A : f[end.key] \in IdsIn(d, end.key)
  BY <1>6, <1>7 DEF AnswerIn, Answers
<1>9. TotalOf(rels, query, end) = SumFunction([f \in A |-> Val(d, end, f[end.key])])
  BY <1>1, <1>4, <1>7 DEF TotalOf
<1>10. CASE empty
  <2>1. matrix_isempty(matrix) /\ ran # {}
    BY <1>2, <1>10 DEF PhaseInv
  <2>2. Blank(matrix) /\ Used(matrix) = 0 /\ matrix_col_size(matrix, end.key) = 0
    BY <1>3, <1>6, <2>1, BlankIs
  <2>3. PICK J : J = Joined(ran)
    OBVIOUS
  <2>4. PICK n : Exact(d, matrix, J, ran, n)
    BY <1>1, <2>1, <2>3 DEF ExactInv
  <2>5. J # {}
    <3>1. PICK q \in ran : TRUE
      BY <2>1
    <3>2. q.left.key \in Ends(q)
      BY DEF Ends
    <3> QED
      BY <2>3, <3>1, <3>2 DEF Joined
  <2>6. n = 0
    BY <1>1, <1>3, <2>2, <2>4, <2>5, ChoicesAre
  <2>7. ASSUME NEW f \in A PROVE FALSE
    <3>1. Answers(d, f, Columns, R)
      BY <1>7 DEF AnswerIn
    <3>2. J \in SUBSET Columns /\ ran \in SUBSET R
      BY <1>2, <1>4, <2>4 DEF Exact, Fills, ListInv
    <3>3. Answers(d, f, J, ran)
      BY <3>1, <3>2, AnswersLess
    <3>4. PICK i \in 1 .. n : TRUE
      BY <2>4, <3>3 DEF Exact, Complete
    <3> QED
      BY <2>6, <3>4
  <2>8. PICK e : e = [i \in 1 .. 0 |-> i]
    OBVIOUS
  <2>9. Lists(e, A, 0)
    BY <2>7 DEF Lists
  <2>10. PICK z \in Nat : z = 0
    OBVIOUS
  <2>11. Lists(e, A, z) /\ z = matrix_col_size(matrix, end.key)
         /\ \A i \in 1 .. z : e[i][end.key] = matrix.data[i][end.key].id
    BY <2>2, <2>9, <2>10
  <2> QED
    BY <1>1, <1>3, <1>8, <1>9, <2>11, ListedSum
<1>11. CASE ~empty
  <2>1. preds = <<>>
    BY <1>2, <1>11 DEF PhaseInv
  <2>2. ran = R
    BY <1>2, <1>4, <2>1 DEF ListInv, ToSet
  <2>3. R # {}
    BY <1>5, <1>6 DEF Joined
  <2>4. PICK n : Exact(d, matrix, Columns, R, n)
    BY <1>1, <1>5, <2>2, <2>3 DEF ExactInv
  <2>5. Columns # {} /\ n \in Nat /\ Fills(matrix, Columns, n)
    BY <1>6, <2>4 DEF Exact, Fills
  <2>6. /\ \A i \in 1 .. n : Choice(matrix, i, Columns) \in Answer(Columns, R)
        /\ \A f \in Answer(Columns, R) : \E i \in 1 .. n : Choice(matrix, i, Columns) = f
        /\ \A i, k \in 1 .. n : Choice(matrix, i, Columns) = Choice(matrix, k, Columns) => i = k
    BY <1>1, <1>3, <2>4, <2>5, ChoicesAre
  <2>7. Answer(Columns, R) = A
    BY <1>1, <1>7, AnswerInIs
  <2>8. PICK e : e = [i \in 1 .. n |-> Choice(matrix, i, Columns)]
    OBVIOUS
  <2>9. \A i \in 1 .. n : e[i] = Choice(matrix, i, Columns)
    BY <2>8
  <2>10. Lists(e, A, n)
    BY <2>6, <2>7, <2>9 DEF Lists
  <2>11. ASSUME NEW i \in 1 .. n PROVE e[i][end.key] = matrix.data[i][end.key].id
    <3>1. \A c \in Columns : Choice(matrix, i, Columns)[c] = matrix.data[i][c].id
      BY DEF Choice
    <3> QED
      BY <1>6, <2>9, <3>1
  <2>12. n = matrix_col_size(matrix, end.key)
    BY <1>3, <1>6, <2>5, ColumnFull
  <2> QED
    BY <1>1, <1>3, <1>8, <1>9, <2>5, <2>10, <2>11, <2>12, ListedSum
<1> QED
  BY <1>2, <1>10, <1>11 DEF PhaseInv

(* What the sums are as far as they go.                                    *)
SumsInv ==
  /\ phase \in {"filters", "joins"} => sums = <<>>
  /\ phase = "done" => Len(sums) = Len(query.projs)
  /\ irregular = {} /\ AllMentioned =>
       \A i \in 1 .. Len(sums) : sums[i] = TotalOf(rels, query, query.projs[i])

(* SumsKept: every step keeps them right.                                  *)
LEMMA SumsKept ==
  ASSUME EngineInv, ExactInv, SumsInv, [Next]_vars
  PROVE  SumsInv'
<1>1. CASE Filter \/ SortJoins \/ Join \/ Finalize
  <2>1. phase \in {"filters", "joins"} /\ phase' # "done" /\ sums' = sums
    BY <1>1 DEF Filter, SortJoins, Join, Joining, Finalize
  <2>2. sums' = <<>> /\ Len(<<>>) = 0
    BY <2>1 DEF SumsInv
  <2> QED
    BY <2>1, <2>2 DEF SumsInv
<1>2. CASE Projection
  <2>1. PICK n \in Nat : n = Len(sums)
    BY DEF EngineInv, PhaseInv
  <2>2. PICK k \in Nat : k = Len(query.projs)
    <3>1. IsQuery(query)
      BY EngineAssumption DEF EngineInv, ListInv
    <3> QED
      BY <3>1 DEF IsQuery
  <2>3. /\ phase = "project" /\ n < k
        /\ sums' = Append(sums, SumOf(query.projs[n + 1]))
        /\ phase' = IF Len(sums') = k THEN "done" ELSE phase
        /\ UNCHANGED <<rels, query, matrix, irregular>>
    BY <1>2, <2>1, <2>2 DEF Projection
  <2>4. PICK v : v = SumOf(query.projs[n + 1])
    OBVIOUS
  <2>5. sums \in Seq(ToSet(sums))
    BY DEF EngineInv, PhaseInv
  <2>6. Len(sums') = n + 1 /\ sums'[n + 1] = v /\ \A i \in 1 .. n : sums'[i] = sums[i]
    <3>1. PICK s \in Seq(ToSet(sums)) : s = sums
      BY <2>5
    <3>2. sums' = Append(s, v) /\ n = Len(s)
      BY <2>1, <2>3, <2>4, <3>1
    <3>3. Len(Append(s, v)) = Len(s) + 1 /\ Append(s, v)[Len(s) + 1] = v
          /\ \A i \in 1 .. Len(s) : Append(s, v)[i] = s[i]
      OBVIOUS
    <3> QED
      BY <3>1, <3>2, <3>3
  <2>7. ASSUME irregular = {}, AllMentioned PROVE v = TotalOf(rels, query, query.projs[n + 1])
    <3>1. IsQuery(query)
      BY EngineAssumption DEF EngineInv, ListInv
    <3>2. n + 1 \in 1 .. Len(query.projs)
      BY <2>2, <2>3
    <3>3. PICK end : end = query.projs[n + 1]
      OBVIOUS
    <3>4. query.projs \in Seq(ToSet(query.projs)) /\ \A x \in ToSet(query.projs) : IsEnd(x)
      BY <3>1 DEF IsQuery
    <3>5. IsEnd(end)
      BY <3>2, <3>3, <3>4
    <3>6. SumOf(end) = TotalOf(rels, query, end)
      BY <2>3, <2>7, <3>5, SumOfIs
    <3> QED
      BY <2>4, <3>3, <3>6
  <2>8. ASSUME irregular' = {}, AllMentioned', NEW i \in 1 .. n + 1
        PROVE  sums'[i] = TotalOf(rels, query, query.projs[i])
    <3>1. irregular = {} /\ AllMentioned
      BY <2>3, <2>8 DEF AllMentioned
    <3>2. CASE i \in 1 .. n
      BY <2>1, <2>6, <3>1, <3>2 DEF SumsInv
    <3>3. CASE i = n + 1
      BY <2>6, <2>7, <3>1, <3>3
    <3> QED
      BY <2>1, <2>8, <3>2, <3>3
  <2>9. phase' \notin {"filters", "joins"} /\ (phase' = "done" => Len(sums') = Len(query'.projs))
    BY <2>2, <2>3
  <2> QED
    BY <2>3, <2>6, <2>8, <2>9 DEF SumsInv
<1>3. CASE UNCHANGED vars
  BY <1>3 DEF vars, SumsInv, AllMentioned
<1> QED
  BY <1>1, <1>2, <1>3 DEF Next

(* SumsAreSQL: as long as a query takes none of the engine's shortcuts     *)
(* where it does not hold and its predicates mention all its relations,    *)
(* the sums printed are those that SQL defines for it.                     *)
THEOREM SumsAreSQL == Spec => []RegularResult
<1>1. Init => SumsInv
  <2>1. Len(<<>>) = 0
    OBVIOUS
  <2> QED
    BY <2>1 DEF Init, SumsInv
<1>2. EngineInv /\ ExactInv /\ SumsInv /\ [Next]_vars => SumsInv'
  BY SumsKept
<1>3. EngineInv /\ SumsInv => RegularResult
  <2> SUFFICES ASSUME EngineInv, SumsInv, irregular = {}, AllMentioned, phase = "done",
                      NEW i \in 1 .. Len(query.projs), NEW end, end = query.projs[i]
               PROVE  sums[i] = SumFunction([f \in Answer(Columns, ToSet(query.preds)) |->
                                               Value(end, f[end.key])])
    BY DEF RegularResult, ResultIsSQL
  <2>1. sums[i] = TotalOf(rels, query, end)
    BY DEF SumsInv
  <2>2. Answer(Columns, ToSet(query.preds)) = AnswerIn(rels, Columns, ToSet(query.preds))
    BY AnswerInIs
  <2>3. \A f : Value(end, f[end.key]) = Val(rels, end, f[end.key])
    BY ValueIs
  <2>4. PICK A : A = AnswerIn(rels, Columns, ToSet(query.preds))
    OBVIOUS
  <2>5. [f \in A |-> Value(end, f[end.key])] = [f \in A |-> Val(rels, end, f[end.key])]
    BY <2>3
  <2>6. TotalOf(rels, query, end) = SumFunction([f \in A |-> Val(rels, end, f[end.key])])
    BY <2>4 DEF TotalOf
  <2> QED
    BY <2>1, <2>2, <2>4, <2>5, <2>6
<1> QED
  BY <1>1, <1>2, <1>3, ExactInvIs, PTL DEF Spec

=============================================================================
