---------------------------- MODULE ListSortProofs ----------------------------
(***************************************************************************)
(* The sort of a list of predicates.  On sequences it is a function that   *)
(* exists, keeps the predicates and puts them in order; on nodes it turns  *)
(* any chain into a chain of the same nodes whose predicates are those the *)
(* sort on sequences gives, and leaves the other nodes alone.              *)
(***************************************************************************)
EXTENDS ListSort, FiniteSetsExt, FiniteSetTheorems, FunctionTheorems, SequenceTheorems,
        WellFoundedInduction, TLAPS

-----------------------------------------------------------------------------
(* Induction *)

(* Least: a set of natural numbers has a least one.                        *)
LEMMA Least ==
  ASSUME NEW T \in SUBSET Nat, T # {}
  PROVE  \E x \in T : \A y \in T : x <= y
<1> DEFINE R == OpToRel(<, Nat)
<1>1. PICK x \in T : \A y \in T : ~ (<<y, x>> \in R)
  <2> HIDE DEF R
  <2> QED
    BY WFMin, NatLessThanWellFounded DEF R
<1>2. ASSUME NEW y \in T, y < x PROVE <<y, x>> \in R
  BY <1>2 DEF OpToRel
<1>3. \A y \in T : x \in Nat /\ y \in Nat /\ ~ (y < x)
  BY <1>1, <1>2
<1> HIDE DEF R
<1> QED
  BY <1>1, <1>3

(* NatSetInduction: induction, with a set in place of a predicate.         *)
LEMMA NatSetInduction ==
  ASSUME NEW S, 0 \in S, \A n \in Nat : n \in S => n + 1 \in S
  PROVE  Nat \subseteq S
<1> DEFINE T == {n \in Nat : n \notin S}
<1>1. CASE T # {}
  <2>1. PICK x \in T : \A y \in T : x <= y
    <3>1. T \in SUBSET Nat
      OBVIOUS
    <3> HIDE DEF T
    <3> QED
      BY <1>1, <3>1, Least
  <2>2. x # 0 /\ x \in Nat
    OBVIOUS
  <2>3. x - 1 \in T
    OBVIOUS
  <2> QED
    BY <2>1, <2>2, <2>3
<1> QED
  BY <1>1

-----------------------------------------------------------------------------
(* Sequences *)

(* FunctionIsSeq: a function on 1 .. n is a sequence of length n.          *)
LEMMA FunctionIsSeq ==
  ASSUME NEW n \in Nat, NEW S, NEW f \in [1 .. n -> S]
  PROVE  f \in Seq(S) /\ Len(f) = n
  OBVIOUS

(* MinOf: the least of a set of numbers that is not empty.                 *)
LEMMA MinOf ==
  ASSUME NEW T \in SUBSET Nat, T # {}
  PROVE  Min(T) \in T /\ \A x \in T : Min(T) <= x
<1>1. \E x \in T : \A y \in T : x <= y
  BY Least
<1> QED
  BY <1>1 DEF Min

(* MaxOf: the largest.                                                     *)
LEMMA MaxOf ==
  ASSUME NEW n \in Nat, NEW T \in SUBSET (1 .. n), T # {}
  PROVE  Max(T) \in T /\ \A x \in T : Max(T) >= x
<1> DEFINE U == {y \in Nat : n - y \in T}
<1>1. U \in SUBSET Nat /\ U # {}
  <2>1. PICK x \in T : TRUE
    OBVIOUS
  <2>2. n - x \in Nat /\ n - (n - x) = x
    OBVIOUS
  <2> QED
    BY <2>1, <2>2
<1>2. PICK y \in U : \A z \in U : y <= z
  <2> HIDE DEF U
  <2> QED
    BY <1>1, Least
<1>3. ASSUME NEW x \in T PROVE n - y >= x
  <2>1. n - x \in Nat /\ n - (n - x) = x /\ x \in Int
    OBVIOUS
  <2>2. y <= n - x
    BY <1>2, <2>1
  <2> QED
    BY <2>1, <2>2
<1>4. \E x \in T : \A z \in T : x >= z
  BY <1>2, <1>3
<1> QED
  BY <1>4 DEF Max

(* ConcatIs: the elements of one sequence and of another behind it.        *)
LEMMA ConcatIs ==
  ASSUME NEW S, NEW a, a \in Seq(S), NEW b, b \in Seq(S)
  PROVE  /\ a \o b \in Seq(S) /\ Len(a \o b) = Len(a) + Len(b)
         /\ \A p \in 1 .. Len(a) : (a \o b)[p] = a[p]
         /\ \A p \in 1 .. Len(b) : (a \o b)[Len(a) + p] = b[p]
<1> DEFINE c == a \o b
<1>1. Len(a) \in Nat /\ Len(b) \in Nat
  OBVIOUS
<1>2. c \in Seq(S) /\ Len(c) = Len(a) + Len(b)
  BY ConcatProperties
<1>3. \A p \in 1 .. Len(a) + Len(b) : c[p] = IF p <= Len(a) THEN a[p] ELSE b[p - Len(a)]
  BY ConcatProperties
<1> HIDE DEF c
<1>4. \A p \in 1 .. Len(a) : p \in 1 .. Len(a) + Len(b) /\ p <= Len(a)
  BY <1>1
<1>5. \A p \in 1 .. Len(b) : /\ Len(a) + p \in 1 .. Len(a) + Len(b)
                            /\ ~ (Len(a) + p <= Len(a)) /\ (Len(a) + p) - Len(a) = p
  BY <1>1
<1>6. \A p \in 1 .. Len(a) : c[p] = a[p]
  BY <1>3, <1>4
<1>7. \A p \in 1 .. Len(b) : c[Len(a) + p] = b[p]
  BY <1>3, <1>5
<1> QED
  BY <1>2, <1>6, <1>7 DEF c

(* AppendIs: what an append does, in a set that has the elements before    *)
(* and the new one.                                                        *)
LEMMA AppendIs ==
  ASSUME NEW S, NEW T, S \subseteq T, NEW s \in Seq(S), NEW v \in T
  PROVE  /\ Append(s, v) \in Seq(T)
         /\ Len(Append(s, v)) = Len(s) + 1
         /\ Append(s, v)[Len(s) + 1] = v
         /\ \A p \in 1 .. Len(s) : Append(s, v)[p] = s[p]
         /\ Append(s, v) # <<>>
<1>1. s \in Seq(T) /\ Len(s) \in Nat
  OBVIOUS
<1> QED
  BY <1>1

(* SubSeqIs: the elements of a part of a sequence.                         *)
LEMMA SubSeqIs ==
  ASSUME NEW S, NEW s \in Seq(S), NEW a \in 1 .. Len(s) + 1, NEW b \in a - 1 .. Len(s)
  PROVE  /\ SubSeq(s, a, b) \in Seq(S)
         /\ Len(SubSeq(s, a, b)) = b - a + 1
         /\ \A p \in 1 .. b - a + 1 : SubSeq(s, a, b)[p] = s[a + p - 1] /\ s[a + p - 1] \in S
<1>1. a \in Int /\ b \in Int /\ Len(s) \in Nat
  OBVIOUS
<1>2. \A k \in a .. b : s[k] \in S
  <2>1. \A k \in a .. b : k \in 1 .. Len(s)
    BY <1>1
  <2> QED
    BY <2>1, ElementOfSeq
<1>3. /\ SubSeq(s, a, b) \in Seq(S)
      /\ Len(SubSeq(s, a, b)) = IF a <= b THEN b - a + 1 ELSE 0
      /\ \A p \in 1 .. b - a + 1 : SubSeq(s, a, b)[p] = s[a + p - 1]
  BY <1>1, <1>2, SubSeqProperties
<1>4. \A p \in 1 .. b - a + 1 : a + p - 1 \in a .. b
  BY <1>1
<1>5. (IF a <= b THEN b - a + 1 ELSE 0) = b - a + 1
  BY <1>1
<1> QED
  BY <1>2, <1>3, <1>4, <1>5

-----------------------------------------------------------------------------
(* What step says of an argument depends on smaller ones only.             *)
Descends(P, V, size, step) ==
  /\ size \in [P -> Nat]
  /\ step \in [P \X [P -> V] -> V]
  /\ \A x \in P : \A h, k \in [P -> V] :
       (\A y \in P : size[y] < size[x] => h[y] = k[y]) => step[<<x, h>>] = step[<<x, k>>]

Solves(f, P, V, step) == f \in [P -> V] /\ \A x \in P : f[x] = step[<<x, f>>]

(* Recursion: what is said of every argument in terms of smaller ones is   *)
(* said by some function.                                                  *)
LEMMA Recursion ==
  ASSUME NEW P, NEW V, NEW size, NEW step, V # {}, Descends(P, V, size, step)
  PROVE  \E f : Solves(f, P, V, step)
<1>0. /\ size \in [P -> Nat]
      /\ step \in [P \X [P -> V] -> V]
      /\ \A x \in P : \A h, k \in [P -> V] :
           (\A y \in P : size[y] < size[x] => h[y] = k[y]) => step[<<x, h>>] = step[<<x, k>>]
  BY DEF Descends
<1>v. PICK v : v \in V
  OBVIOUS
<1> USE <1>0, <1>v
<1> DEFINE Upto(h, n) == h \in [P -> V] /\ \A x \in P : size[x] <= n => h[x] = step[<<x, h>>]
           T == {n \in Nat : \E h : Upto(h, n)}
           U == {n \in Nat : \A h, k : Upto(h, n) /\ Upto(k, n) =>
                               \A x \in P : size[x] <= n => h[x] = k[x]}
           More(h) == [x \in P |-> step[<<x, h>>]]
<1>1. ASSUME NEW h \in [P -> V]
      PROVE  More(h) \in [P -> V] /\ \A x \in P : More(h)[x] = step[<<x, h>>]
  OBVIOUS
<1> HIDE DEF More
<1>2. 0 \in T
  <2> DEFINE h == [x \in P |-> v]
             g == More(h)
  <2>1. h \in [P -> V]
    OBVIOUS
  <2> HIDE DEF h
  <2>2. g \in [P -> V] /\ \A x \in P : g[x] = step[<<x, h>>]
    BY <1>1, <2>1
  <2> HIDE DEF g
  <2>3. ASSUME NEW x \in P, size[x] <= 0 PROVE g[x] = step[<<x, g>>]
    <3>1. \A y \in P : ~ (size[y] < size[x])
      BY <2>3
    <3>2. step[<<x, g>>] = step[<<x, h>>]
      BY <2>1, <2>2, <3>1
    <3> QED
      BY <2>2, <3>2
  <2>4. Upto(g, 0)
    BY <2>2, <2>3
  <2> HIDE DEF Upto
  <2> QED
    BY <2>4
<1>3. ASSUME NEW n \in Nat, n \in T PROVE n + 1 \in T
  <2>1. PICK h : Upto(h, n)
    BY <1>3
  <2> DEFINE g == More(h)
  <2>2. g \in [P -> V] /\ \A x \in P : g[x] = step[<<x, h>>]
    BY <1>1, <2>1
  <2> HIDE DEF g
  <2>3. ASSUME NEW x \in P, size[x] <= n + 1 PROVE g[x] = step[<<x, g>>]
    <3>1. ASSUME NEW y \in P, size[y] < size[x] PROVE g[y] = h[y]
      <4>1. size[y] <= n
        BY <2>3, <3>1
      <4> QED
        BY <2>1, <2>2, <4>1
    <3>2. step[<<x, g>>] = step[<<x, h>>]
      BY <2>1, <2>2, <3>1
    <3> QED
      BY <2>2, <3>2
  <2>4. Upto(g, n + 1)
    BY <2>2, <2>3
  <2> HIDE DEF Upto
  <2> QED
    BY <2>4
<1> HIDE DEF T
<1>4. Nat \subseteq T
  BY <1>2, <1>3, NatSetInduction
<1>5. 0 \in U
  <2>1. ASSUME NEW h, NEW k, Upto(h, 0), Upto(k, 0), NEW x \in P, size[x] <= 0
        PROVE  h[x] = k[x]
    <3>1. \A y \in P : ~ (size[y] < size[x])
      BY <2>1
    <3> QED
      BY <2>1, <3>1
  <2> HIDE DEF Upto
  <2> QED
    BY <2>1
<1>6. ASSUME NEW n \in Nat, n \in U PROVE n + 1 \in U
  <2>1. ASSUME NEW h, NEW k, Upto(h, n + 1), Upto(k, n + 1), NEW x \in P, size[x] <= n + 1
        PROVE  h[x] = k[x]
    <3>1. Upto(h, n) /\ Upto(k, n)
      BY <2>1
    <3>2. ASSUME NEW y \in P, size[y] < size[x] PROVE h[y] = k[y]
      <4>1. size[y] <= n
        BY <2>1, <3>2
      <4> HIDE DEF Upto
      <4> QED
        BY <1>6, <3>1, <4>1
    <3>3. step[<<x, h>>] = step[<<x, k>>]
      BY <2>1, <3>2
    <3> QED
      BY <2>1, <3>3
  <2> HIDE DEF Upto
  <2> QED
    BY <2>1
<1> HIDE DEF U
<1>7. Nat \subseteq U
  BY <1>5, <1>6, NatSetInduction
<1> DEFINE Best(n) == CHOOSE h : Upto(h, n)
           f == [x \in P |-> Best(size[x])[x]]
<1>8. \A n \in Nat : Upto(Best(n), n)
  <2> HIDE DEF Upto
  <2> QED
    BY <1>4 DEF T
<1> HIDE DEF Best
<1>9. f \in [P -> V] /\ \A x \in P : f[x] = Best(size[x])[x]
  <2>1. ASSUME NEW x \in P PROVE Best(size[x])[x] \in V
    BY <1>8
  <2> QED
    BY <2>1
<1> HIDE DEF f
<1>10. ASSUME NEW x \in P PROVE f[x] = step[<<x, f>>]
  <2> DEFINE n == size[x]
             h == Best(n)
  <2>1. n \in Nat /\ Upto(h, n)
    BY <1>8
  <2>2. ASSUME NEW y \in P, size[y] < n PROVE f[y] = h[y]
    <3> DEFINE m == size[y]
    <3>1. m \in Nat /\ m <= n /\ m < n
      BY <2>2
    <3> HIDE DEF n, h
    <3>2. Upto(h, m)
      BY <2>1, <3>1
    <3>3. Upto(Best(m), m)
      BY <1>8, <3>1
    <3>4. \A z \in P : size[z] <= m => Best(m)[z] = h[z]
      <4> HIDE DEF Upto, m
      <4> QED
        BY <1>7, <3>1, <3>2, <3>3 DEF U
    <3>5. Best(m)[y] = h[y]
      BY <3>1, <3>4
    <3> QED
      BY <1>9, <3>5
  <2>3. h \in [P -> V] /\ h[x] = step[<<x, h>>]
    <3>1. \A y \in P : size[y] <= n => h[y] = step[<<y, h>>]
      BY <2>1
    <3>2. n <= n
      BY <2>1
    <3> HIDE DEF h
    <3> QED
      BY <2>1, <3>1, <3>2
  <2>4. f[x] = h[x]
    BY <1>9
  <2>5. step[<<x, f>>] = step[<<x, h>>]
    <3> HIDE DEF h
    <3> QED
      BY <1>9, <2>2, <2>3
  <2> HIDE DEF h, n
  <2> QED
    BY <2>3, <2>4, <2>5
<1>11. Solves(f, P, V, step)
  BY <1>9, <1>10 DEF Solves
<1> QED
  BY <1>11

-----------------------------------------------------------------------------
(* The sort on sequences *)

MergeStep(f, a, b) ==
  IF a = <<>> THEN b
  ELSE IF b = <<>> THEN a
  ELSE IF pred_cmp(Head(a), Head(b)) < 0
         THEN <<Head(a)>> \o f[<<Tail(a), b>>]
         ELSE <<Head(b)>> \o f[<<a, Tail(b)>>]

Half(t) == (Len(t) + 1) \div 2

SortStep(g, f, t) ==
  IF Len(t) <= 1 THEN t
  ELSE IF Len(t) = 2 THEN IF pred_cmp(t[1], t[2]) > 0 THEN <<t[2], t[1]>> ELSE t
  ELSE f[<<g[SubSeq(t, 1, Half(t))], g[SubSeq(t, Half(t) + 1, Len(t))]>>]

(* f merges, and g sorts by it, the lists of predicates in D.              *)
Merges(f, D) ==
  /\ f \in [Seq(D) \X Seq(D) -> Seq(D)]
  /\ \A a, b \in Seq(D) : f[<<a, b>>] = MergeStep(f, a, b)

Sorts(g, f, D) ==
  /\ g \in [Seq(D) -> Seq(D)]
  /\ \A t \in Seq(D) : g[t] = SortStep(g, f, t)

(* MergeStepTyped: what a step of the merge gives is a list again.         *)
LEMMA MergeStepTyped ==
  ASSUME NEW D, NEW f, NEW a \in Seq(D), NEW b \in Seq(D),
         \A x, y \in Seq(D) : Len(x) + Len(y) < Len(a) + Len(b) => f[<<x, y>>] \in Seq(D)
  PROVE  MergeStep(f, a, b) \in Seq(D)
<1>1. CASE a = <<>> \/ b = <<>>
  BY <1>1 DEF MergeStep
<1>2. CASE a # <<>> /\ b # <<>>
  <2>1. /\ Head(a) \in D /\ Tail(a) \in Seq(D) /\ Len(Tail(a)) = Len(a) - 1
        /\ Head(b) \in D /\ Tail(b) \in Seq(D) /\ Len(Tail(b)) = Len(b) - 1
        /\ Len(a) \in Nat /\ Len(b) \in Nat
    BY <1>2
  <2>2. f[<<Tail(a), b>>] \in Seq(D) /\ f[<<a, Tail(b)>>] \in Seq(D)
    <3>1. Len(Tail(a)) + Len(b) < Len(a) + Len(b) /\ Len(a) + Len(Tail(b)) < Len(a) + Len(b)
      BY <2>1
    <3> QED
      BY <2>1, <3>1
  <2>3. ASSUME NEW x \in D, NEW s \in Seq(D) PROVE <<x>> \o s \in Seq(D)
    BY ConcatProperties
  <2> QED
    BY <1>2, <2>1, <2>2, <2>3 DEF MergeStep
<1> QED
  BY <1>1, <1>2

(* MergeStepSame: a step of the merge looks at shorter lists only.         *)
LEMMA MergeStepSame ==
  ASSUME NEW D, NEW f, NEW h, NEW a \in Seq(D), NEW b \in Seq(D),
         \A x, y \in Seq(D) : Len(x) + Len(y) < Len(a) + Len(b) => f[<<x, y>>] = h[<<x, y>>]
  PROVE  MergeStep(f, a, b) = MergeStep(h, a, b)
<1>1. CASE a = <<>> \/ b = <<>>
  BY <1>1 DEF MergeStep
<1>2. CASE a # <<>> /\ b # <<>>
  <2>1. /\ Tail(a) \in Seq(D) /\ Len(Tail(a)) = Len(a) - 1
        /\ Tail(b) \in Seq(D) /\ Len(Tail(b)) = Len(b) - 1
        /\ Len(a) \in Nat /\ Len(b) \in Nat
    BY <1>2
  <2>2. f[<<Tail(a), b>>] = h[<<Tail(a), b>>] /\ f[<<a, Tail(b)>>] = h[<<a, Tail(b)>>]
    <3>1. Len(Tail(a)) + Len(b) < Len(a) + Len(b) /\ Len(a) + Len(Tail(b)) < Len(a) + Len(b)
      BY <2>1
    <3> QED
      BY <2>1, <3>1
  <2> QED
    BY <1>2, <2>2 DEF MergeStep
<1> QED
  BY <1>1, <1>2

(* MergeExists: the merge is a function of any two lists.                  *)
LEMMA MergeExists ==
  ASSUME NEW D
  PROVE  \E f : Merges(f, D)
<1> DEFINE L    == Seq(D)
           P    == L \X L
           size == [x \in P |-> Len(x[1]) + Len(x[2])]
           step == [xh \in P \X [P -> L] |-> MergeStep(xh[2], xh[1][1], xh[1][2])]
<1>1. <<>> \in L /\ size \in [P -> Nat]
  <2>1. \A s \in L : Len(s) \in Nat
    OBVIOUS
  <2> HIDE DEF L
  <2>2. \A x \in P : x[1] \in L /\ x[2] \in L
    OBVIOUS
  <2>3. \A x \in P : Len(x[1]) + Len(x[2]) \in Nat
    BY <2>1, <2>2
  <2>4. size \in [P -> Nat]
    BY <2>3
  <2>5. <<>> \in L
    BY DEF L
  <2> QED
    BY <2>4, <2>5
<1>2. \A x \in P : x[1] \in L /\ x[2] \in L /\ x = <<x[1], x[2]>>
  <2> HIDE DEF L
  <2> QED
    OBVIOUS
<1>3. \A a, b \in L : <<a, b>> \in P /\ size[<<a, b>>] = Len(a) + Len(b)
  <2> HIDE DEF L
  <2> QED
    OBVIOUS
<1>4. \A x \in P, h \in [P -> L] : step[<<x, h>>] = MergeStep(h, x[1], x[2])
  <2> HIDE DEF P, L
  <2> QED
    OBVIOUS
<1>5. ASSUME NEW x \in P, NEW h \in [P -> L] PROVE MergeStep(h, x[1], x[2]) \in L
  <2>1. \A a, b \in L : h[<<a, b>>] \in L
    <3> HIDE DEF L
    <3> QED
      OBVIOUS
  <2> HIDE DEF P
  <2> QED
    BY <1>2, <2>1, MergeStepTyped
<1>6. step \in [P \X [P -> L] -> L]
  <2>1. ASSUME NEW y \in P \X [P -> L] PROVE MergeStep(y[2], y[1][1], y[1][2]) \in L
    <3> HIDE DEF P, L
    <3>1. y[1] \in P /\ y[2] \in [P -> L]
      OBVIOUS
    <3> QED
      BY <1>5, <3>1
  <2> HIDE DEF P, L
  <2> QED
    BY <2>1
<1> HIDE DEF step, size
<1>7. ASSUME NEW x \in P, NEW h \in [P -> L], NEW k \in [P -> L],
             \A y \in P : size[y] < size[x] => h[y] = k[y]
      PROVE  step[<<x, h>>] = step[<<x, k>>]
  <2> DEFINE a == x[1]
             b == x[2]
  <2>1. a \in L /\ b \in L /\ size[x] = Len(a) + Len(b)
    <3> HIDE DEF P, L
    <3>1. x = <<a, b>> /\ a \in L /\ b \in L
      BY <1>2
    <3> HIDE DEF a, b
    <3> QED
      BY <1>3, <3>1
  <2>2. \A c, d \in L : Len(c) + Len(d) < Len(a) + Len(b) => h[<<c, d>>] = k[<<c, d>>]
    <3> HIDE DEF P, L, a, b
    <3> QED
      BY <1>3, <1>7, <2>1
  <2>3. MergeStep(h, a, b) = MergeStep(k, a, b)
    <3> HIDE DEF a, b
    <3> QED
      BY <2>1, <2>2, MergeStepSame, SMTT(20)
  <2> HIDE DEF P, L
  <2> QED
    BY <1>4, <2>3
<1>8. \E f : Solves(f, P, L, step)
  <2> HIDE DEF P, L
  <2>1. \A x \in P : \A h, k \in [P -> L] :
          (\A y \in P : size[y] < size[x] => h[y] = k[y]) => step[<<x, h>>] = step[<<x, k>>]
    BY <1>7
  <2>2. Descends(P, L, size, step) /\ L # {}
    BY <1>1, <1>6, <2>1 DEF Descends
  <2> QED
    BY <2>2, Recursion
<1>9. PICK f : Solves(f, P, L, step)
  BY <1>8
<1>10. ASSUME NEW a \in L, NEW b \in L PROVE f[<<a, b>>] = MergeStep(f, a, b)
  <2>1. <<a, b>> \in P /\ <<a, b>>[1] = a /\ <<a, b>>[2] = b
    BY <1>3
  <2> HIDE DEF P, L
  <2> QED
    BY <1>4, <1>9, <2>1 DEF Solves
<1> QED
  BY <1>9, <1>10 DEF Merges, Solves

IsMerge(f, D) == f = [ab \in Seq(D) \X Seq(D) |-> MergeStep(f, ab[1], ab[2])]

(* MergeIs: whatever satisfies the definition of the merge merges.         *)
LEMMA MergeIs ==
  ASSUME NEW D, NEW f, IsMerge(f, D)
  PROVE  Merges(f, D)
<1> DEFINE L == Seq(D)
<1>1. \A a, b \in L : f[<<a, b>>] = MergeStep(f, a, b)
  <2> HIDE DEF L
  <2>1. ASSUME NEW a \in L, NEW b \in L PROVE f[<<a, b>>] = MergeStep(f, a, b)
    <3>1. <<a, b>> \in L \X L /\ <<a, b>>[1] = a /\ <<a, b>>[2] = b
      OBVIOUS
    <3>2. f = [ab \in L \X L |-> MergeStep(f, ab[1], ab[2])]
      BY DEF L, IsMerge
    <3>3. \A x \in L \X L : f[x] = MergeStep(f, x[1], x[2])
      BY <3>2
    <3> QED
      BY <3>1, <3>3
  <2> QED
    BY <2>1
<1> DEFINE Short(a, b, n) == Len(a) + Len(b) < n
           T == {n \in Nat : \A a, b \in L : Short(a, b, n) => f[<<a, b>>] \in L}
<1>2. 0 \in T
  OBVIOUS
<1>3. ASSUME NEW n \in Nat, n \in T PROVE n + 1 \in T
  <2>1. ASSUME NEW a \in L, NEW b \in L, Short(a, b, n + 1) PROVE f[<<a, b>>] \in L
    <3>1. ASSUME NEW x \in L, NEW y \in L, Len(x) + Len(y) < Len(a) + Len(b)
          PROVE  f[<<x, y>>] \in L
      <4>1. /\ Len(x) \in Nat /\ Len(y) \in Nat /\ Len(a) \in Nat /\ Len(b) \in Nat
            /\ Len(a) + Len(b) < n + 1
        BY <2>1
      <4>2. Short(x, y, n)
        BY <3>1, <4>1
      <4> HIDE DEF Short, L
      <4> QED
        BY <1>3, <4>2
    <3>2. MergeStep(f, a, b) \in L
      BY <3>1, MergeStepTyped
    <3> HIDE DEF L
    <3> QED
      BY <1>1, <3>2
  <2> HIDE DEF L, Short
  <2> QED
    BY <2>1
<1> HIDE DEF T
<1>4. Nat \subseteq T
  BY <1>2, <1>3, NatSetInduction
<1>5. ASSUME NEW a \in L, NEW b \in L PROVE f[<<a, b>>] \in L
  <2>1. Len(a) + Len(b) + 1 \in T /\ Short(a, b, Len(a) + Len(b) + 1)
    BY <1>4
  <2> HIDE DEF L, Short
  <2> QED
    BY <2>1 DEF T
<1>6. f \in [L \X L -> L]
  <2> HIDE DEF L
  <2>1. DOMAIN f = L \X L /\ f = [x \in L \X L |-> f[x]]
    <3>1. f = [ab \in L \X L |-> MergeStep(f, ab[1], ab[2])]
      BY DEF L, IsMerge
    <3> QED
      BY <3>1
  <2>2. ASSUME NEW x \in L \X L PROVE f[x] \in L
    <3>1. x = <<x[1], x[2]>> /\ x[1] \in L /\ x[2] \in L
      OBVIOUS
    <3> QED
      BY <1>5, <3>1
  <2> QED
    BY <2>1, <2>2
<1> QED
  BY <1>1, <1>6 DEF Merges

(* Halves: a list of more than two is split into two shorter ones.         *)
LEMMA Halves ==
  ASSUME NEW D, NEW t \in Seq(D), Len(t) > 2
  PROVE  /\ Half(t) \in 1 .. Len(t) - 1
         /\ Len(t) - Half(t) \in 1 .. Len(t) - 1
         /\ SubSeq(t, 1, Half(t)) \in Seq(D) /\ Len(SubSeq(t, 1, Half(t))) = Half(t)
         /\ SubSeq(t, Half(t) + 1, Len(t)) \in Seq(D)
         /\ Len(SubSeq(t, Half(t) + 1, Len(t))) = Len(t) - Half(t)
<1> DEFINE n == Len(t)
           h == Half(t)
<1>1. n \in Nat
  OBVIOUS
<1>2. h \in 1 .. n - 1 /\ n - h \in 1 .. n - 1
  BY <1>1 DEF Half
<1> HIDE DEF n, h
<1>3. /\ 1 \in 1 .. n + 1 /\ h \in 1 - 1 .. n /\ (h - 1) + 1 = h
      /\ h + 1 \in 1 .. n + 1 /\ n \in (h + 1) - 1 .. n /\ (n - (h + 1)) + 1 = n - h
  BY <1>1, <1>2
<1>4. SubSeq(t, 1, h) \in Seq(D) /\ Len(SubSeq(t, 1, h)) = h
  BY <1>3, SubSeqIs DEF n
<1>5. SubSeq(t, h + 1, n) \in Seq(D) /\ Len(SubSeq(t, h + 1, n)) = n - h
  BY <1>3, SubSeqIs DEF n
<1> QED
  BY <1>2, <1>4, <1>5 DEF n, h

(* OneTwoMore: the cases of the sort are all there are.                    *)
LEMMA OneTwoMore ==
  ASSUME NEW n \in Nat
  PROVE  /\ n <= 1 \/ n = 2 \/ n > 2
         /\ n > 2 => ~ (n <= 1) /\ n # 2
         /\ n <= 2 => n <= 1 \/ n = 2
OBVIOUS

(* SortStepTyped: what a step of the sort gives is a list again.           *)
LEMMA SortStepTyped ==
  ASSUME NEW D, NEW f \in [Seq(D) \X Seq(D) -> Seq(D)], NEW g, NEW t \in Seq(D),
         \A x \in Seq(D) : Len(x) < Len(t) => g[x] \in Seq(D)
  PROVE  SortStep(g, f, t) \in Seq(D)
<1>1. Len(t) \in Nat
  OBVIOUS
<1>2. CASE Len(t) <= 1
  BY <1>2 DEF SortStep
<1>3. CASE Len(t) = 2
  <2>1. t[1] \in D /\ t[2] \in D
    <3>1. 1 \in 1 .. Len(t) /\ 2 \in 1 .. Len(t)
      BY <1>3
    <3> QED
      BY <3>1, ElementOfSeq
  <2>2. <<t[2], t[1]>> \in Seq(D)
    BY <2>1
  <2> QED
    BY <1>3, <2>2 DEF SortStep
<1>4. CASE Len(t) > 2
  <2> DEFINE a == SubSeq(t, 1, Half(t))
             b == SubSeq(t, Half(t) + 1, Len(t))
             L == Seq(D)
  <2>1. a \in L /\ b \in L /\ Len(a) < Len(t) /\ Len(b) < Len(t)
    BY <1>1, <1>4, Halves
  <2> HIDE DEF a, b
  <2>2. g[a] \in L /\ g[b] \in L
    BY <2>1
  <2>3. \A x, y \in L : f[<<x, y>>] \in L
    <3> HIDE DEF L
    <3>1. f \in [L \X L -> L]
      BY DEF L
    <3> QED
      BY <3>1
  <2>4. SortStep(g, f, t) = f[<<g[a], g[b]>>]
    <3>1. ~ (Len(t) <= 1) /\ Len(t) # 2
      BY <1>1, <1>4, OneTwoMore
    <3> QED
      BY <3>1 DEF SortStep, a, b
  <2> HIDE DEF L
  <2>5. SortStep(g, f, t) \in L
    BY <2>2, <2>3, <2>4
  <2> QED
    BY <2>5 DEF L
<1>5. Len(t) <= 1 \/ Len(t) = 2 \/ Len(t) > 2
  BY <1>1, OneTwoMore
<1> QED
  BY <1>2, <1>3, <1>4, <1>5

(* SortStepSame: a step of the sort looks at shorter lists only.           *)
LEMMA SortStepSame ==
  ASSUME NEW D, NEW f, NEW g, NEW h, NEW t \in Seq(D),
         \A x \in Seq(D) : Len(x) < Len(t) => g[x] = h[x]
  PROVE  SortStep(g, f, t) = SortStep(h, f, t)
<1>1. Len(t) \in Nat
  OBVIOUS
<1>2. CASE Len(t) <= 2
  BY <1>1, <1>2 DEF SortStep
<1>3. CASE Len(t) > 2
  <2> DEFINE a == SubSeq(t, 1, Half(t))
             b == SubSeq(t, Half(t) + 1, Len(t))
  <2>1. a \in Seq(D) /\ b \in Seq(D) /\ Len(a) < Len(t) /\ Len(b) < Len(t)
    BY <1>1, <1>3, Halves
  <2> HIDE DEF a, b
  <2>2. g[a] = h[a] /\ g[b] = h[b]
    BY <2>1
  <2>3. SortStep(g, f, t) = f[<<g[a], g[b]>>] /\ SortStep(h, f, t) = f[<<h[a], h[b]>>]
    <3>1. ~ (Len(t) <= 1) /\ Len(t) # 2
      BY <1>1, <1>3, OneTwoMore
    <3> QED
      BY <3>1 DEF SortStep, a, b
  <2> QED
    BY <2>2, <2>3
<1> QED
  BY <1>1, <1>2, <1>3

IsSort(g, f, D) == g = [t \in Seq(D) |-> SortStep(g, f, t)]

(* SortExists: the sort is a function of any list.                         *)
LEMMA SortExists ==
  ASSUME NEW D, NEW f \in [Seq(D) \X Seq(D) -> Seq(D)]
  PROVE  \E g : IsSort(g, f, D)
<1> DEFINE L    == Seq(D)
           size == [t \in L |-> Len(t)]
           step == [tg \in L \X [L -> L] |-> SortStep(tg[2], f, tg[1])]
<1>1. size \in [L -> Nat] /\ \A t \in L : size[t] = Len(t)
  <2>1. \A t \in L : Len(t) \in Nat
    OBVIOUS
  <2> HIDE DEF L
  <2> QED
    BY <2>1
<1>2. <<>> \in L
  OBVIOUS
<1>3. \A t \in L, g \in [L -> L] : step[<<t, g>>] = SortStep(g, f, t)
  <2> HIDE DEF L
  <2> QED
    OBVIOUS
<1>4. step \in [L \X [L -> L] -> L]
  <2>1. ASSUME NEW y \in L \X [L -> L] PROVE SortStep(y[2], f, y[1]) \in L
    <3> DEFINE t == y[1]
               g == y[2]
    <3>1. t \in L /\ \A x \in L : g[x] \in L
      <4> HIDE DEF L
      <4> QED
        OBVIOUS
    <3> HIDE DEF t, g
    <3> QED
      BY <3>1, SortStepTyped
  <2> HIDE DEF L
  <2> QED
    BY <2>1
<1> HIDE DEF step, size
<1>5. ASSUME NEW t \in L, NEW g \in [L -> L], NEW h \in [L -> L],
             \A x \in L : size[x] < size[t] => g[x] = h[x]
      PROVE  step[<<t, g>>] = step[<<t, h>>]
  <2>1. \A x \in L : Len(x) < Len(t) => g[x] = h[x]
    BY <1>1, <1>5
  <2>2. SortStep(g, f, t) = SortStep(h, f, t)
    BY <2>1, SortStepSame
  <2> HIDE DEF L
  <2> QED
    BY <1>3, <2>2
<1>6. \E g : Solves(g, L, L, step)
  <2> HIDE DEF L
  <2>1. \A t \in L : \A g, h \in [L -> L] :
          (\A x \in L : size[x] < size[t] => g[x] = h[x]) => step[<<t, g>>] = step[<<t, h>>]
    BY <1>5
  <2>2. Descends(L, L, size, step) /\ L # {}
    BY <1>1, <1>2, <1>4, <2>1 DEF Descends
  <2> QED
    BY <2>2, Recursion
<1>7. PICK g : Solves(g, L, L, step)
  BY <1>6
<1>8. g = [t \in L |-> SortStep(g, f, t)]
  <2> HIDE DEF L
  <2>1. g \in [L -> L] /\ \A t \in L : g[t] = SortStep(g, f, t)
    BY <1>3, <1>7 DEF Solves
  <2> QED
    BY <2>1
<1>9. IsSort(g, f, D)
  BY <1>8 DEF IsSort
<1> QED
  BY <1>9

(* SortIs: whatever satisfies the definition of the sort sorts.            *)
LEMMA SortIs ==
  ASSUME NEW D, NEW f \in [Seq(D) \X Seq(D) -> Seq(D)], NEW g, IsSort(g, f, D)
  PROVE  Sorts(g, f, D)
<1> DEFINE L == Seq(D)
<1>1. DOMAIN g = L /\ g = [t \in L |-> g[t]] /\ \A t \in L : g[t] = SortStep(g, f, t)
  <2>1. g = [t \in L |-> SortStep(g, f, t)]
    BY DEF IsSort
  <2> HIDE DEF L
  <2> QED
    BY <2>1
<1> DEFINE Short(t, n) == Len(t) < n
           T == {n \in Nat : \A t \in L : Short(t, n) => g[t] \in L}
<1>2. 0 \in T
  OBVIOUS
<1>3. ASSUME NEW n \in Nat, n \in T PROVE n + 1 \in T
  <2>1. ASSUME NEW t \in L, Short(t, n + 1) PROVE g[t] \in L
    <3>1. ASSUME NEW x \in L, Len(x) < Len(t) PROVE g[x] \in L
      <4>1. Len(x) \in Nat /\ Len(t) \in Nat /\ Len(t) < n + 1
        BY <2>1
      <4>2. Short(x, n)
        BY <3>1, <4>1
      <4> HIDE DEF Short, L
      <4> QED
        BY <1>3, <4>2
    <3>2. SortStep(g, f, t) \in L
      BY <3>1, SortStepTyped
    <3> HIDE DEF L
    <3> QED
      BY <1>1, <3>2
  <2> HIDE DEF L, Short
  <2> QED
    BY <2>1
<1> HIDE DEF T
<1>4. Nat \subseteq T
  BY <1>2, <1>3, NatSetInduction
<1>5. ASSUME NEW t \in L PROVE g[t] \in L
  <2>1. Len(t) + 1 \in T /\ Short(t, Len(t) + 1)
    BY <1>4
  <2> HIDE DEF L, Short
  <2> QED
    BY <2>1 DEF T
<1>6. g \in [L -> L]
  <2> HIDE DEF L
  <2> QED
    BY <1>1, <1>5
<1> QED
  BY <1>1, <1>6 DEF Sorts

(* MergesortIs: nodelist_mergesort is the sort of the lists of the         *)
(* predicates it is given.                                                 *)
LEMMA MergesortIs ==
  ASSUME NEW s, NEW D, D = {s[k] : k \in DOMAIN s}
  PROVE  \E f, g : Merges(f, D) /\ Sorts(g, f, D) /\ nodelist_mergesort(s) = g[s]
<1> DEFINE merge == CHOOSE f : IsMerge(f, D)
           sort  == CHOOSE g : IsSort(g, merge, D)
<1>1. IsMerge(merge, D)
  <2>1. PICK f : Merges(f, D)
    BY MergeExists
  <2> DEFINE L == Seq(D)
  <2>2. f = [ab \in L \X L |-> MergeStep(f, ab[1], ab[2])]
    <3> HIDE DEF L
    <3>1. f \in [L \X L -> L] /\ \A a, b \in L : f[<<a, b>>] = MergeStep(f, a, b)
      BY <2>1 DEF Merges, L
    <3>2. ASSUME NEW x \in L \X L PROVE f[x] = MergeStep(f, x[1], x[2])
      <4>1. x = <<x[1], x[2]>> /\ x[1] \in L /\ x[2] \in L
        OBVIOUS
      <4> QED
        BY <3>1, <4>1
    <3> QED
      BY <3>1, <3>2
  <2>3. IsMerge(f, D)
    BY <2>2 DEF IsMerge
  <2> QED
    BY <2>3
<1> HIDE DEF merge
<1>2. Merges(merge, D)
  BY <1>1, MergeIs
<1>m. merge \in [Seq(D) \X Seq(D) -> Seq(D)]
  BY <1>2 DEF Merges
<1>3. IsSort(sort, merge, D)
  BY <1>m, SortExists
<1> HIDE DEF sort
<1>4. Sorts(sort, merge, D)
  BY <1>m, <1>3, SortIs
<1>5. nodelist_mergesort(s) = sort[s]
  BY DEF nodelist_mergesort, ListsOf, sort, merge, IsSort, IsMerge, SortStep, MergeStep, Half
<1> QED
  BY <1>2, <1>4, <1>5

-----------------------------------------------------------------------------
(* The order *)

End == [key : Int, payload : Int]

Comparable(D) == \A p \in D : p.left \in End /\ p.right \in End

Ascending(t) == \A m \in 1 .. Len(t) - 1 : pred_cmp(t[m], t[m + 1]) <= 0

(* TuplesFlip: of two ends one is larger, or they are the same.            *)
LEMMA TuplesFlip ==
  ASSUME NEW a \in End, NEW b \in End
  PROVE  /\ tuple_cmp(a, b) \in {-1, 0, 1}
         /\ tuple_cmp(a, b) = 0 <=> a = b
         /\ tuple_cmp(a, b) = 1 <=> tuple_cmp(b, a) = -1
<1>1. /\ a.key \in Int /\ b.key \in Int /\ a.payload \in Int /\ b.payload \in Int
      /\ a.key = b.key /\ a.payload = b.payload => a = b
  BY DEF End
<1>2. tuple_cmp(a, b) \in {-1, 0, 1}
  BY DEF tuple_cmp
<1>3. tuple_cmp(a, b) = 0 <=> a = b
  BY DEF tuple_cmp
<1>4. tuple_cmp(a, b) = 1 <=> tuple_cmp(b, a) = -1
  BY <1>1 DEF tuple_cmp
<1> QED
  BY <1>2, <1>3, <1>4

(* OrderFlips: of two predicates that are not in order the other order is  *)
(* right: pred_cmp is total.                                               *)
LEMMA OrderFlips ==
  ASSUME NEW D, Comparable(D), NEW a \in D, NEW b \in D
  PROVE  /\ pred_cmp(a, b) \in Int
         /\ ~ (pred_cmp(a, b) < 0) => pred_cmp(b, a) <= 0
         /\ ~ (pred_cmp(a, b) > 0) => pred_cmp(a, b) <= 0
         /\ pred_cmp(a, b) > 0 => pred_cmp(b, a) <= 0
<1> DEFINE small(p) == IF p.left.key < p.right.key THEN p.left ELSE p.right
           large(p) == IF p.left.key < p.right.key THEN p.right ELSE p.left
<1>1. /\ small(a) \in End /\ small(b) \in End
      /\ large(a) \in End /\ large(b) \in End
  BY DEF Comparable
<1>2. pred_cmp(a, b) = IF tuple_cmp(small(a), small(b)) # 0 THEN tuple_cmp(small(a), small(b))
                       ELSE tuple_cmp(large(a), large(b))
  BY DEF pred_cmp
<1>3. pred_cmp(b, a) = IF tuple_cmp(small(b), small(a)) # 0 THEN tuple_cmp(small(b), small(a))
                       ELSE tuple_cmp(large(b), large(a))
  BY DEF pred_cmp
<1> HIDE DEF small, large
<1>4. /\ tuple_cmp(small(a), small(b)) \in {-1, 0, 1} /\ tuple_cmp(small(b), small(a)) \in {-1, 0, 1}
      /\ tuple_cmp(large(a), large(b)) \in {-1, 0, 1} /\ tuple_cmp(large(b), large(a)) \in {-1, 0, 1}
  BY <1>1, TuplesFlip
<1>5. /\ tuple_cmp(small(a), small(b)) = 0 <=> tuple_cmp(small(b), small(a)) = 0
      /\ tuple_cmp(small(a), small(b)) = 1 <=> tuple_cmp(small(b), small(a)) = -1
      /\ tuple_cmp(large(a), large(b)) = 1 <=> tuple_cmp(large(b), large(a)) = -1
      /\ tuple_cmp(large(a), large(b)) = 0 <=> tuple_cmp(large(b), large(a)) = 0
  <2>1. tuple_cmp(small(a), small(b)) = 0 <=> tuple_cmp(small(b), small(a)) = 0
    BY <1>1, TuplesFlip
  <2>2. tuple_cmp(small(a), small(b)) = 1 <=> tuple_cmp(small(b), small(a)) = -1
    BY <1>1, TuplesFlip
  <2>3. tuple_cmp(large(a), large(b)) = 1 <=> tuple_cmp(large(b), large(a)) = -1
    BY <1>1, TuplesFlip
  <2>4. tuple_cmp(large(a), large(b)) = 0 <=> tuple_cmp(large(b), large(a)) = 0
    BY <1>1, TuplesFlip
  <2> QED
    BY <2>1, <2>2, <2>3, <2>4
<1> QED
  BY <1>2, <1>3, <1>4, <1>5

(* Prepended: a list in order with a predicate in front of it.             *)
LEMMA Prepended ==
  ASSUME NEW D, NEW x \in D, NEW u \in Seq(D), Ascending(u),
         u # <<>> => pred_cmp(x, u[1]) <= 0
  PROVE  Ascending(<<x>> \o u) /\ (<<x>> \o u)[1] = x
<1> DEFINE r == <<x>> \o u
<1>1. Len(u) \in Nat /\ Len(r) = Len(u) + 1 /\ r[1] = x /\ \A m \in 1 .. Len(u) : r[m + 1] = u[m]
  OBVIOUS
<1> HIDE DEF r
<1>2. ASSUME NEW m \in 1 .. Len(r) - 1 PROVE pred_cmp(r[m], r[m + 1]) <= 0
  <2>1. CASE m = 1
    <3>1. 1 \in 1 .. Len(u) /\ u # <<>>
      BY <1>1, <1>2
    <3> QED
      BY <1>1, <2>1, <3>1
  <2>2. CASE m # 1
    <3>1. m - 1 \in 1 .. Len(u) - 1 /\ m - 1 \in 1 .. Len(u) /\ m \in 1 .. Len(u) /\ (m - 1) + 1 = m
      BY <1>1, <1>2, <2>2
    <3>2. pred_cmp(u[m - 1], u[m]) <= 0
      BY <3>1 DEF Ascending
    <3>3. r[m] = u[m - 1] /\ r[m + 1] = u[m]
      BY <1>1, <3>1
    <3> QED
      BY <3>2, <3>3
  <2> QED
    BY <2>1, <2>2
<1> QED
  BY <1>1, <1>2 DEF Ascending, r

(* TailIs: the rest of a list in order is in order.                        *)
LEMMA TailIs ==
  ASSUME NEW D, NEW a \in Seq(D), a # <<>>
  PROVE  /\ Head(a) = a[1] /\ Head(a) \in D /\ Tail(a) \in Seq(D) /\ Len(Tail(a)) = Len(a) - 1
         /\ Len(a) \in Nat \ {0} /\ \A m \in 1 .. Len(a) - 1 : Tail(a)[m] = a[m + 1]
         /\ Ascending(a) => Ascending(Tail(a))
         /\ Ascending(a) /\ Tail(a) # <<>> => pred_cmp(Head(a), Tail(a)[1]) <= 0
<1>1. /\ Head(a) = a[1] /\ Head(a) \in D /\ Tail(a) \in Seq(D) /\ Len(Tail(a)) = Len(a) - 1
      /\ Len(a) \in Nat \ {0} /\ \A m \in 1 .. Len(a) - 1 : Tail(a)[m] = a[m + 1]
  OBVIOUS
<1> DEFINE b == Tail(a)
<1>2. ASSUME Ascending(a), NEW m \in 1 .. Len(b) - 1 PROVE pred_cmp(b[m], b[m + 1]) <= 0
  <2>1. m \in 1 .. Len(a) - 1 /\ m + 1 \in 1 .. Len(a) - 1
    BY <1>1, <1>2
  <2>2. b[m] = a[m + 1] /\ b[m + 1] = a[m + 1 + 1]
    BY <1>1, <2>1
  <2> QED
    BY <1>2, <2>1, <2>2 DEF Ascending
<1>3. ASSUME Ascending(a), b # <<>> PROVE pred_cmp(Head(a), b[1]) <= 0
  <2>1. 1 \in 1 .. Len(a) - 1
    BY <1>1, <1>3
  <2>2. pred_cmp(a[1], a[1 + 1]) <= 0 /\ b[1] = a[1 + 1]
    BY <1>1, <1>3, <2>1 DEF Ascending
  <2> QED
    BY <1>1, <2>2
<1> QED
  BY <1>1, <1>2, <1>3 DEF Ascending

Begins(r, a) == a # <<>> /\ r[1] = a[1]

(* MergeInOrder: the merge of two lists in order is in order.              *)
LEMMA MergeInOrder ==
  ASSUME NEW D, Comparable(D), NEW f, Merges(f, D), NEW x \in Seq(D), NEW y \in Seq(D),
         Ascending(x), Ascending(y)
  PROVE  Ascending(f[<<x, y>>])
<1> DEFINE L          == Seq(D)
           Good(r, a, b) == Ascending(r) /\ (r # <<>> => Begins(r, a) \/ Begins(r, b))
           Short(a, b, n) == Len(a) + Len(b) < n
           T == {n \in Nat : \A a, b \in L : Short(a, b, n) /\ Ascending(a) /\ Ascending(b) =>
                               Good(f[<<a, b>>], a, b)}
<1>0. \A a, b \in L : f[<<a, b>>] \in L /\ f[<<a, b>>] = MergeStep(f, a, b)
  <2>1. f \in [L \X L -> L]
    BY DEF Merges
  <2>2. \A a, b \in L : f[<<a, b>>] \in L
    <3> HIDE DEF L
    <3> QED
      BY <2>1
  <2> QED
    BY <2>2 DEF Merges
<1>1. 0 \in T
  OBVIOUS
<1>2. ASSUME NEW n \in Nat, n \in T PROVE n + 1 \in T
  <2>1. ASSUME NEW a \in L, NEW b \in L, Short(a, b, n + 1), Ascending(a), Ascending(b)
        PROVE  Good(f[<<a, b>>], a, b)
    <3> DEFINE r == f[<<a, b>>]
    <3>1. CASE a = <<>> \/ b = <<>>
      <4>1. r = a \/ r = b
        BY <1>0, <3>1 DEF MergeStep
      <4>2. (r = a /\ a # <<>>) \/ (r = b /\ b # <<>>) \/ r = <<>>
        BY <1>0, <3>1 DEF MergeStep
      <4> QED
        BY <2>1, <4>1, <4>2 DEF Begins
    <3>2. CASE a # <<>> /\ b # <<>>
      <4>1. /\ Head(a) = a[1] /\ Head(a) \in D /\ Tail(a) \in L /\ Len(Tail(a)) = Len(a) - 1
            /\ Ascending(Tail(a)) /\ (Tail(a) # <<>> => pred_cmp(Head(a), Tail(a)[1]) <= 0)
            /\ Len(a) \in Nat
        BY <2>1, <3>2, TailIs
      <4>2. /\ Head(b) = b[1] /\ Head(b) \in D /\ Tail(b) \in L /\ Len(Tail(b)) = Len(b) - 1
            /\ Ascending(Tail(b)) /\ (Tail(b) # <<>> => pred_cmp(Head(b), Tail(b)[1]) <= 0)
            /\ Len(b) \in Nat
        BY <2>1, <3>2, TailIs
      <4>3. Len(a) + Len(b) < n + 1
        BY <2>1
      <4>4. Short(Tail(a), b, n) /\ Short(a, Tail(b), n)
        BY <4>1, <4>2, <4>3
      <4> DEFINE u == f[<<Tail(a), b>>]
                 w == f[<<a, Tail(b)>>]
      <4> HIDE DEF Good, Short, L
      <4>5. Good(u, Tail(a), b) /\ Good(w, a, Tail(b))
        BY <1>2, <2>1, <4>1, <4>2, <4>4
      <4>6. u \in L /\ w \in L
        BY <1>0, <2>1, <4>1, <4>2
      <4>7. r = IF pred_cmp(Head(a), Head(b)) < 0 THEN <<Head(a)>> \o u ELSE <<Head(b)>> \o w
        BY <1>0, <2>1, <3>2 DEF MergeStep
      <4> HIDE DEF u, w
      <4>8. CASE pred_cmp(Head(a), Head(b)) < 0
        <5>1. u # <<>> => pred_cmp(Head(a), u[1]) <= 0
          <6>1. pred_cmp(Head(a), Head(b)) <= 0
            BY <4>1, <4>2, <4>8, OrderFlips
          <6> QED
            BY <4>1, <4>2, <4>5, <6>1 DEF Begins, Good
        <5>2. Ascending(<<Head(a)>> \o u) /\ (<<Head(a)>> \o u)[1] = Head(a)
          BY <4>1, <4>5, <4>6, <5>1, Prepended DEF Good, L
        <5> QED
          BY <3>2, <4>1, <4>7, <4>8, <5>2 DEF Good, Begins
      <4>9. CASE ~ (pred_cmp(Head(a), Head(b)) < 0)
        <5>1. w # <<>> => pred_cmp(Head(b), w[1]) <= 0
          <6>1. pred_cmp(Head(b), Head(a)) <= 0
            BY <4>1, <4>2, <4>9, OrderFlips
          <6> QED
            BY <4>1, <4>2, <4>5, <6>1 DEF Begins, Good
        <5>2. Ascending(<<Head(b)>> \o w) /\ (<<Head(b)>> \o w)[1] = Head(b)
          BY <4>2, <4>5, <4>6, <5>1, Prepended DEF Good, L
        <5> QED
          BY <3>2, <4>2, <4>7, <4>9, <5>2 DEF Good, Begins
      <4> QED
        BY <4>8, <4>9
    <3> QED
      BY <3>1, <3>2
  <2> HIDE DEF Good, Short, L
  <2> QED
    BY <2>1
<1> HIDE DEF T
<1>3. Nat \subseteq T
  BY <1>1, <1>2, NatSetInduction
<1>4. Len(x) + Len(y) + 1 \in T /\ Short(x, y, Len(x) + Len(y) + 1)
  BY <1>3
<1>5. Good(f[<<x, y>>], x, y)
  <2> HIDE DEF Good, Short
  <2> QED
    BY <1>4 DEF T
<1> QED
  BY <1>5

(* SortInOrder: the sort puts any list in order.                           *)
LEMMA SortInOrder ==
  ASSUME NEW D, Comparable(D), NEW f, Merges(f, D), NEW g, Sorts(g, f, D), NEW s \in Seq(D)
  PROVE  Ascending(g[s])
<1> DEFINE L == Seq(D)
           Short(t, n) == Len(t) < n
           T == {n \in Nat : \A t \in L : Short(t, n) => Ascending(g[t])}
<1>0. \A t \in L : g[t] \in L /\ g[t] = SortStep(g, f, t)
  <2>1. g \in [L -> L]
    BY DEF Sorts
  <2>2. \A t \in L : g[t] \in L
    <3> HIDE DEF L
    <3> QED
      BY <2>1
  <2> QED
    BY <2>2 DEF Sorts
<1>1. 0 \in T
  OBVIOUS
<1>2. ASSUME NEW n \in Nat, n \in T PROVE n + 1 \in T
  <2>1. ASSUME NEW t \in L, Short(t, n + 1) PROVE Ascending(g[t])
    <3>1. Len(t) \in Nat /\ Len(t) < n + 1
      BY <2>1
    <3>2. CASE Len(t) <= 1
      <4>1. g[t] = t
        BY <1>0, <3>2 DEF SortStep
      <4> QED
        BY <3>1, <3>2, <4>1 DEF Ascending
    <3>3. CASE Len(t) = 2
      <4>1. t[1] \in D /\ t[2] \in D
        <5>1. 1 \in 1 .. Len(t) /\ 2 \in 1 .. Len(t)
          BY <3>3
        <5> QED
          BY <5>1, ElementOfSeq
      <4>2. g[t] = IF pred_cmp(t[1], t[2]) > 0 THEN <<t[2], t[1]>> ELSE t
        <5>1. ~ (Len(t) <= 1)
          BY <3>3
        <5> QED
          BY <1>0, <2>1, <3>3, <5>1 DEF SortStep
      <4>3. pred_cmp(t[1], t[2]) > 0 => pred_cmp(t[2], t[1]) <= 0
        BY <4>1, OrderFlips
      <4>4. ~ (pred_cmp(t[1], t[2]) > 0) => pred_cmp(t[1], t[2]) <= 0
        BY <4>1, OrderFlips
      <4>5. Len(g[t]) - 1 = 1
        BY <3>3, <4>2
      <4>6. 1 .. 1 = {1} /\ 1 + 1 = 2
        OBVIOUS
      <4>7. pred_cmp(g[t][1], g[t][2]) <= 0
        BY <4>2, <4>3, <4>4
      <4> QED
        BY <4>5, <4>6, <4>7 DEF Ascending
    <3>4. CASE Len(t) > 2
      <4> DEFINE a == SubSeq(t, 1, Half(t))
                 b == SubSeq(t, Half(t) + 1, Len(t))
      <4>1. a \in L /\ b \in L /\ Len(a) \in 1 .. Len(t) - 1 /\ Len(b) \in 1 .. Len(t) - 1
        BY <3>4, Halves
      <4>2. Short(a, n) /\ Short(b, n)
        BY <3>1, <4>1
      <4>3. ~ (Len(t) <= 1) /\ Len(t) # 2
        BY <3>1, <3>4, OneTwoMore
      <4>4. g[t] = f[<<g[a], g[b]>>]
        BY <1>0, <2>1, <4>3 DEF SortStep, a, b
      <4> HIDE DEF a, b, Short
      <4>5. Ascending(g[a]) /\ Ascending(g[b]) /\ g[a] \in L /\ g[b] \in L
        <5> HIDE DEF L
        <5> QED
          BY <1>0, <1>2, <4>1, <4>2
      <4>6. Ascending(f[<<g[a], g[b]>>])
        BY <4>5, MergeInOrder
      <4> QED
        BY <4>4, <4>6
    <3> QED
      BY <3>1, <3>2, <3>3, <3>4, OneTwoMore
  <2> HIDE DEF L, Short
  <2> QED
    BY <2>1
<1> HIDE DEF T
<1>3. Nat \subseteq T
  BY <1>1, <1>2, NatSetInduction
<1>4. Len(s) + 1 \in T /\ Short(s, Len(s) + 1)
  BY <1>3
<1> QED
  BY <1>4 DEF T

(* MergeAlike: merges of the lists of a set and of a larger set agree on   *)
(* the lists of the smaller.                                               *)
LEMMA MergeAlike ==
  ASSUME NEW D, NEW E, D \subseteq E, NEW f, Merges(f, D), NEW h, Merges(h, E),
         NEW x \in Seq(D), NEW y \in Seq(D)
  PROVE  f[<<x, y>>] = h[<<x, y>>]
<1> DEFINE L == Seq(D)
           Short(a, b, n) == Len(a) + Len(b) < n
           T == {n \in Nat : \A a, b \in L : Short(a, b, n) => f[<<a, b>>] = h[<<a, b>>]}
<1>0. \A a, b \in L : f[<<a, b>>] = MergeStep(f, a, b) /\ h[<<a, b>>] = MergeStep(h, a, b)
  <2>1. L \subseteq Seq(E)
    BY SeqMonotonic
  <2> QED
    BY <2>1 DEF Merges
<1>1. 0 \in T
  OBVIOUS
<1>2. ASSUME NEW n \in Nat, n \in T PROVE n + 1 \in T
  <2>1. ASSUME NEW a \in L, NEW b \in L, Short(a, b, n + 1) PROVE f[<<a, b>>] = h[<<a, b>>]
    <3>1. ASSUME NEW u \in L, NEW v \in L, Len(u) + Len(v) < Len(a) + Len(b)
          PROVE  f[<<u, v>>] = h[<<u, v>>]
      <4>1. Len(u) \in Nat /\ Len(v) \in Nat /\ Len(a) \in Nat /\ Len(b) \in Nat
        OBVIOUS
      <4>2. Short(u, v, n)
        BY <2>1, <3>1, <4>1
      <4> HIDE DEF Short, L
      <4> QED
        BY <1>2, <4>2
    <3>2. MergeStep(f, a, b) = MergeStep(h, a, b)
      BY <3>1, MergeStepSame, SMTT(20)
    <3> QED
      BY <1>0, <3>2
  <2> HIDE DEF Short, L
  <2> QED
    BY <2>1
<1> HIDE DEF T
<1>3. Nat \subseteq T
  BY <1>1, <1>2, NatSetInduction
<1>4. Len(x) + Len(y) + 1 \in T /\ Short(x, y, Len(x) + Len(y) + 1)
  BY <1>3
<1> HIDE DEF Short
<1> QED
  BY <1>4 DEF T

SortsBy(g, D) == \E f : Merges(f, D) /\ Sorts(g, f, D)

(* SortAlike: so do sorts.                                                 *)
LEMMA SortAlike ==
  ASSUME NEW D, NEW g, SortsBy(g, D), NEW E, NEW k, SortsBy(k, E), D \subseteq E,
         NEW s, s \in Seq(D)
  PROVE  g[s] = k[s]
<1>f. PICK f : Merges(f, D) /\ Sorts(g, f, D)
  BY DEF SortsBy
<1>h. PICK h : Merges(h, E) /\ Sorts(k, h, E)
  BY DEF SortsBy
<1> DEFINE L == Seq(D)
           Short(t, n) == Len(t) < n
           T == {n \in Nat : \A t \in L : Short(t, n) => g[t] = k[t]}
<1>0. \A t \in L : g[t] \in L /\ g[t] = SortStep(g, f, t) /\ k[t] = SortStep(k, h, t)
  <2>1. g \in [L -> L] /\ L \subseteq Seq(E)
    BY <1>f, SeqMonotonic DEF Sorts
  <2>2. \A t \in L : g[t] \in L
    <3> HIDE DEF L
    <3> QED
      BY <2>1
  <2> QED
    BY <1>f, <1>h, <2>1, <2>2 DEF Sorts
<1>1. 0 \in T
  OBVIOUS
<1>2. ASSUME NEW n \in Nat, n \in T PROVE n + 1 \in T
  <2>1. ASSUME NEW t \in L, Short(t, n + 1) PROVE g[t] = k[t]
    <3>1. Len(t) \in Nat /\ Len(t) < n + 1
      <4>1. Len(t) \in Nat
        OBVIOUS
      <4> QED
        BY <2>1, <4>1
    <3>2. CASE Len(t) <= 1
      <4>1. SortStep(g, f, t) = t /\ SortStep(k, h, t) = t
        BY <3>2 DEF SortStep
      <4> QED
        BY <1>0, <2>1, <4>1
    <3>3. CASE Len(t) = 2
      <4>1. SortStep(g, f, t) = SortStep(k, h, t)
        BY <3>3 DEF SortStep
      <4> QED
        BY <1>0, <4>1
    <3>4. CASE Len(t) > 2
      <4> DEFINE a == SubSeq(t, 1, Half(t))
                 b == SubSeq(t, Half(t) + 1, Len(t))
      <4>1. a \in L /\ b \in L /\ Len(a) \in 1 .. Len(t) - 1 /\ Len(b) \in 1 .. Len(t) - 1
        BY <3>4, Halves
      <4>2. Short(a, n) /\ Short(b, n)
        BY <3>1, <4>1
      <4>3. ~ (Len(t) <= 1) /\ Len(t) # 2
        BY <3>1, <3>4, OneTwoMore
      <4>4. SortStep(g, f, t) = f[<<g[a], g[b]>>] /\ SortStep(k, h, t) = h[<<k[a], k[b]>>]
        BY <4>3 DEF SortStep, a, b
      <4> HIDE DEF a, b, Short
      <4>5. g[a] = k[a] /\ g[b] = k[b] /\ g[a] \in L /\ g[b] \in L
        <5> HIDE DEF L
        <5> QED
          BY <1>0, <1>2, <4>1, <4>2
      <4>6. f[<<g[a], g[b]>>] = h[<<g[a], g[b]>>]
        BY <1>f, <1>h, <4>5, MergeAlike
      <4> QED
        BY <1>0, <2>1, <4>4, <4>5, <4>6
    <3> QED
      BY <3>1, <3>2, <3>3, <3>4, OneTwoMore
  <2> HIDE DEF L, Short
  <2> QED
    BY <2>1
<1> HIDE DEF T
<1>3. Nat \subseteq T
  BY <1>1, <1>2, NatSetInduction
<1>4. Len(s) + 1 \in T /\ Short(s, Len(s) + 1)
  BY <1>3
<1> HIDE DEF Short
<1> QED
  BY <1>4 DEF T

(* MergesortFor: nodelist_mergesort is the sort of any set of predicates   *)
(* that has those of the list.                                             *)
LEMMA MergesortFor ==
  ASSUME NEW E, NEW k, SortsBy(k, E), NEW s \in Seq(E)
  PROVE  nodelist_mergesort(s) = k[s]
<1>1. PICK D : D = {s[p] : p \in DOMAIN s}
  OBVIOUS
<1>2. D \subseteq E /\ s \in Seq(D)
  <2>1. D \subseteq E /\ \A p \in 1 .. Len(s) : s[p] \in D
    BY <1>1, ElementOfSeq
  <2>2. s \in [1 .. Len(s) -> D] /\ Len(s) \in Nat
    BY <2>1, LenProperties
  <2> QED
    BY <2>1, <2>2, FunctionIsSeq
<1>3. PICK g : SortsBy(g, D) /\ nodelist_mergesort(s) = g[s]
  <2>1. \E f, g : Merges(f, D) /\ Sorts(g, f, D) /\ nodelist_mergesort(s) = g[s]
    BY <1>1, MergesortIs
  <2> QED
    BY <2>1 DEF SortsBy
<1>4. g[s] = k[s]
  BY <1>2, <1>3, SortAlike
<1> QED
  BY <1>3, <1>4

-----------------------------------------------------------------------------
(* The sort on nodes *)

Links(l) == [Nodes(l) -> {NULL} \cup Nodes(l)]

(* The nodes that s names, of which none is named twice, are linked in     *)
(* this order, and nothing is behind the last of them.                     *)
IsChain(l, s) ==
  /\ \A p, q \in 1 .. Len(s) : s[p] = s[q] => p = q
  /\ s # <<>> => l.next[s[Len(s)]] = NULL
  /\ \A p \in 1 .. Len(s) - 1 : l.next[s[p]] = s[p + 1] /\ l.prev[s[p + 1]] = s[p]

Members(s) == {s[p] : p \in 1 .. Len(s)}

(* What a sort of the nodes in M leaves alone.                             *)
Unmoved(l, k, M) ==
  \A n \in Nodes(l) \ M : k.next[n] = l.next[n] /\ k.prev[n] = l.prev[n]

(* Fields: what the lists with the nodes of l have in common.              *)
LEMMA Fields ==
  ASSUME NEW l, NEW k \in Relinked(l)
  PROVE  /\ k.data = l.data /\ Nodes(k) = Nodes(l)
         /\ k.head = l.head /\ k.tail = l.tail /\ k.length = l.length
         /\ k.next \in Links(l) /\ k.prev \in Links(l)
BY DEF Relinked, Links, Nodes

(* InResultIs: the links after a node was put behind another one.          *)
LEMMA InResultIs ==
  ASSUME NEW l, NEW k \in Relinked(l), NEW p \in Nodes(l), NEW n \in Nodes(l)
  PROVE  /\ node_inresult(k, p, n) \in Relinked(l)
         /\ \A m \in Nodes(l) :
              /\ node_inresult(k, p, n).next[m] = IF m = p THEN n ELSE k.next[m]
              /\ node_inresult(k, p, n).prev[m] = IF m = n THEN p ELSE k.prev[m]
<1> DEFINE next == [k.next EXCEPT ![p] = n]
           prev == [k.prev EXCEPT ![n] = p]
           r == node_inresult(k, p, n)
<1>1. next \in Links(l) /\ prev \in Links(l)
  BY Fields DEF Links
<1>2. r = [k EXCEPT !.prev = prev, !.next = next]
  BY DEF node_inresult, Relinked
<1>3. /\ \A m \in Nodes(l) : next[m] = IF m = p THEN n ELSE k.next[m]
      /\ \A m \in Nodes(l) : prev[m] = IF m = n THEN p ELSE k.prev[m]
  BY Fields DEF Links
<1> HIDE DEF next, prev, r
<1>4. r \in Relinked(l) /\ r.next = next /\ r.prev = prev
  BY <1>1, <1>2 DEF Relinked, Links
<1> QED
  BY <1>3, <1>4 DEF r

(* SplitIs: the links after a chain was cut in front of a node.            *)
LEMMA SplitIs ==
  ASSUME NEW l, NEW k \in Relinked(l), NEW i \in Nodes(l), k.prev[i] \in Nodes(l)
  PROVE  /\ Split(k, i) \in Relinked(l)
         /\ \A m \in Nodes(l) :
              /\ Split(k, i).next[m] = IF m = k.prev[i] THEN NULL ELSE k.next[m]
              /\ Split(k, i).prev[m] = IF m = i THEN NULL ELSE k.prev[m]
<1> DEFINE next == [k.next EXCEPT ![k.prev[i]] = NULL]
           prev == [k.prev EXCEPT ![i] = NULL]
           r == Split(k, i)
<1>1. next \in Links(l) /\ prev \in Links(l)
  BY Fields DEF Links
<1>2. r = [k EXCEPT !.prev = prev, !.next = next]
  BY DEF Split, Relinked
<1>3. /\ \A m \in Nodes(l) : next[m] = IF m = k.prev[i] THEN NULL ELSE k.next[m]
      /\ \A m \in Nodes(l) : prev[m] = IF m = i THEN NULL ELSE k.prev[m]
  BY Fields DEF Links
<1> HIDE DEF next, prev, r
<1>4. r \in Relinked(l) /\ r.next = next /\ r.prev = prev
  BY <1>1, <1>2 DEF Relinked, Links
<1> QED
  BY <1>3, <1>4 DEF r

(* SwapTwoIs: the links after two nodes changed places.                    *)
LEMMA SwapTwoIs ==
  ASSUME NEW l, NEW k \in Relinked(l), NEW h \in Nodes(l), NEW i \in Nodes(l), h # i
  PROVE  /\ SwapTwo(k, h, i) \in Relinked(l)
         /\ \A m \in Nodes(l) :
              /\ SwapTwo(k, h, i).next[m] = IF m = h THEN NULL ELSE IF m = i THEN h ELSE k.next[m]
              /\ SwapTwo(k, h, i).prev[m] = IF m = i THEN NULL ELSE IF m = h THEN i ELSE k.prev[m]
<1> DEFINE next == [[k.next EXCEPT ![h] = NULL] EXCEPT ![i] = h]
           prev == [[k.prev EXCEPT ![i] = NULL] EXCEPT ![h] = i]
           r == SwapTwo(k, h, i)
<1>1. next \in Links(l) /\ prev \in Links(l)
  BY Fields DEF Links
<1>2. r = [k EXCEPT !.prev = prev, !.next = next]
  BY DEF SwapTwo, Relinked
<1>3. /\ \A m \in Nodes(l) : next[m] = IF m = h THEN NULL ELSE IF m = i THEN h ELSE k.next[m]
      /\ \A m \in Nodes(l) : prev[m] = IF m = i THEN NULL ELSE IF m = h THEN i ELSE k.prev[m]
  BY Fields DEF Links
<1> HIDE DEF next, prev, r
<1>4. r \in Relinked(l) /\ r.next = next /\ r.prev = prev
  BY <1>1, <1>2 DEF Relinked, Links
<1> QED
  BY <1>3, <1>4 DEF r

(* The node at a position, NULL behind the last one.                       *)
At(s, p) == IF p \in 1 .. Len(s) THEN s[p] ELSE NULL

(* NextIs: next leads along a chain.                                       *)
LEMMA NextIs ==
  ASSUME NEW l, NEW k, NEW n \in Nat, Nodes(l) = 1 .. n, NEW s \in Seq(Nodes(l)), IsChain(k, s)
  PROVE  \A p \in 1 .. Len(s) : s[p] \in Nodes(l) /\ s[p] # NULL /\ k.next[s[p]] = At(s, p + 1)
<1>1. Len(s) \in Nat
  OBVIOUS
<1>2. ASSUME NEW p \in 1 .. Len(s)
      PROVE  s[p] \in Nodes(l) /\ s[p] # NULL /\ k.next[s[p]] = At(s, p + 1)
  <2>1. s[p] \in 1 .. n
    BY ElementOfSeq
  <2>2. s[p] # NULL
    BY <2>1 DEF NULL
  <2>3. CASE p = Len(s)
    <3>1. s # <<>> /\ p + 1 \notin 1 .. Len(s)
      BY <1>1, <2>3
    <3> QED
      BY <2>1, <2>2, <2>3, <3>1 DEF IsChain, At
  <2>4. CASE p # Len(s)
    <3>1. p \in 1 .. Len(s) - 1 /\ p + 1 \in 1 .. Len(s)
      BY <1>1, <2>4
    <3> QED
      BY <2>1, <2>2, <3>1 DEF IsChain, At
  <2> QED
    BY <2>3, <2>4
<1> QED
  BY <1>2

(* MiddleIs: where the sort splits a chain.                                *)
LEMMA MiddleIs ==
  ASSUME NEW l, NEW k \in Relinked(l), NEW n \in Nat, Nodes(l) = 1 .. n, Len(l.data) = n,
         NEW s \in Seq(Nodes(l)), s # <<>>, IsChain(k, s), Len(s) <= n
  PROVE  AfterMiddle(k, s[1]).node = At(s, Half(s) + 1) /\ AfterMiddle(k, s[1]).count = Half(s)
<1> DEFINE h == Half(s)
           State(c) == [node |-> At(s, c + 1), j |-> At(s, c + c + 1), count |-> c]
           step(t) == IF t.j = NULL THEN t
                      ELSE [node  |-> k.next[t.node],
                            j     |-> IF k.next[t.j] # NULL THEN k.next[k.next[t.j]] ELSE NULL,
                            count |-> t.count + 1]
           IsAt(g) == g = [m \in 0 .. n |-> IF m = 0
                             THEN [node |-> s[1], j |-> s[1], count |-> 0] ELSE step(g[m - 1])]
           f == CHOOSE g : IsAt(g)
           w == [m \in 0 .. n |-> State(IF m <= h THEN m ELSE h)]
<1>1. /\ Len(s) \in Nat \ {0} /\ h \in 1 .. Len(s) /\ h + h <= Len(s) + 1 /\ h + h + 1 > Len(s)
      /\ h <= n /\ h \in Nat
  <2>1. Len(s) \in Nat \ {0}
    OBVIOUS
  <2>2. \A m \in Nat \ {0} : LET q == (m + 1) \div 2
                             IN  q \in 1 .. m /\ q + q <= m + 1 /\ q + q + 1 > m /\ q \in Nat
    OBVIOUS
  <2> QED
    BY <2>1, <2>2 DEF Half
<1>2. \A p \in 1 .. Len(s) : s[p] # NULL /\ k.next[s[p]] = At(s, p + 1)
  BY NextIs
<1> HIDE DEF h
<1>3. State(0) = [node |-> s[1], j |-> s[1], count |-> 0]
  <2>1. 1 \in 1 .. Len(s) /\ 0 + 1 = 1 /\ 0 + 0 + 1 = 1
    BY <1>1
  <2> QED
    BY <2>1 DEF At
<1>4. ASSUME NEW c \in 0 .. h - 1 PROVE step(State(c)) = State(c + 1)
  <2>1. /\ c + 1 \in 1 .. Len(s) /\ c + c + 1 \in 1 .. Len(s)
        /\ (c + 1) + (c + 1) + 1 = ((c + c + 1) + 1) + 1
        /\ c + c + 1 \in Nat
    BY <1>1
  <2> DEFINE x == c + c + 1
  <2>2. At(s, x) = s[x] /\ At(s, c + 1) = s[c + 1] /\ At(s, x) # NULL
    BY <1>2, <2>1 DEF At
  <2>3. k.next[At(s, c + 1)] = At(s, (c + 1) + 1)
    BY <1>2, <2>1, <2>2
  <2> HIDE DEF x
  <2>4. (IF k.next[At(s, x)] # NULL THEN k.next[k.next[At(s, x)]] ELSE NULL) = At(s, (x + 1) + 1)
    <3>1. x \in 1 .. Len(s)
      BY <2>1 DEF x
    <3>2. k.next[At(s, x)] = At(s, x + 1)
      BY <1>2, <2>2, <3>1
    <3>3. CASE x + 1 \in 1 .. Len(s)
      <4>1. At(s, x + 1) = s[x + 1] /\ s[x + 1] # NULL /\ k.next[s[x + 1]] = At(s, (x + 1) + 1)
        BY <1>2, <3>3 DEF At
      <4> QED
        BY <3>2, <4>1
    <3>4. CASE x + 1 \notin 1 .. Len(s)
      <4>1. (x + 1) + 1 \notin 1 .. Len(s)
        BY <1>1, <3>1, <3>4
      <4> QED
        BY <3>2, <3>4, <4>1 DEF At
    <3> QED
      BY <3>3, <3>4
  <2>5. State(c).j = At(s, x) /\ State(c).node = At(s, c + 1) /\ State(c).count = c
    BY DEF x
  <2>6. State(c + 1) = [node |-> At(s, (c + 1) + 1), j |-> At(s, (x + 1) + 1), count |-> c + 1]
    BY <2>1 DEF x
  <2> HIDE DEF State
  <2> QED
    BY <2>2, <2>3, <2>4, <2>5, <2>6
<1>5. step(State(h)) = State(h)
  <2>1. h + h + 1 \notin 1 .. Len(s)
    BY <1>1
  <2>2. State(h).j = NULL
    BY <2>1 DEF At
  <2> HIDE DEF State
  <2> QED
    BY <2>2
<1> HIDE DEF step, State
<1>6. w[0] = State(0) /\ w[n] = State(h) /\ \A m \in 1 .. n : w[m] = step(w[m - 1])
  <2>1. w[0] = State(0) /\ w[n] = State(h)
    BY <1>1
  <2>2. ASSUME NEW m \in 1 .. n PROVE w[m] = step(w[m - 1])
    <3>1. m \in 0 .. n /\ m - 1 \in 0 .. n
      OBVIOUS
    <3>2. CASE m <= h
      <4>1. m - 1 \in 0 .. h - 1 /\ m - 1 <= h /\ (m - 1) + 1 = m
        BY <1>1, <3>2
      <4> QED
        BY <1>4, <3>1, <3>2, <4>1
    <3>3. CASE m - 1 = h
      <4>1. ~ (m <= h) /\ m - 1 <= h
        BY <1>1, <3>3
      <4> QED
        BY <1>5, <3>1, <3>3, <4>1
    <3>4. CASE ~ (m <= h) /\ m - 1 # h
      <4>1. ~ (m - 1 <= h)
        BY <1>1, <3>4
      <4> QED
        BY <1>5, <3>1, <3>4, <4>1
    <3> QED
      BY <3>2, <3>3, <3>4
  <2> QED
    BY <2>1, <2>2
<1>7. IsAt(w)
  <2>1. ASSUME NEW m \in 0 .. n
        PROVE  w[m] = IF m = 0 THEN [node |-> s[1], j |-> s[1], count |-> 0] ELSE step(w[m - 1])
    <3> HIDE DEF w
    <3>1. m # 0 => m \in 1 .. n
      OBVIOUS
    <3> QED
      BY <1>3, <1>6, <3>1
  <2>2. w = [m \in 0 .. n |-> w[m]]
    OBVIOUS
  <2> HIDE DEF w
  <2> QED
    BY <2>1, <2>2
<1>8. IsAt(f)
  BY <1>7
<1> HIDE DEF f, w
<1>9. f[0] = State(0) /\ \A m \in 1 .. n : f[m] = step(f[m - 1])
  <2>1. \A m \in 0 .. n : f[m] = IF m = 0 THEN [node |-> s[1], j |-> s[1], count |-> 0]
                                 ELSE step(f[m - 1])
    BY <1>8
  <2>2. 0 \in 0 .. n /\ \A m \in 1 .. n : m \in 0 .. n /\ m # 0
    OBVIOUS
  <2> QED
    BY <1>3, <2>1, <2>2
<1> DEFINE S == {m \in Nat : m <= n => f[m] = w[m]}
<1>10. 0 \in S
  BY <1>6, <1>9
<1>11. ASSUME NEW m \in Nat, m \in S PROVE m + 1 \in S
  <2> SUFFICES ASSUME m + 1 <= n PROVE f[m + 1] = w[m + 1]
    OBVIOUS
  <2>1. m + 1 \in 1 .. n /\ (m + 1) - 1 = m /\ m <= n
    OBVIOUS
  <2> QED
    BY <1>6, <1>9, <1>11, <2>1
<1> HIDE DEF S
<1>12. Nat \subseteq S
  BY <1>10, <1>11, NatSetInduction
<1>13. f[n] = State(h)
  BY <1>6, <1>12 DEF S
<1>14. AfterMiddle(k, s[1]) = f[n]
  <2>1. Len(k.data) = n
    BY Fields
  <2> QED
    BY <2>1 DEF AfterMiddle, f, IsAt, step
<1> QED
  BY <1>13, <1>14 DEF State, h

-----------------------------------------------------------------------------
(* Merging chains *)

(* A chain of which it does not matter what is behind it.                  *)
IsRow(l, s) ==
  /\ \A p, q \in 1 .. Len(s) : s[p] = s[q] => p = q
  /\ \A p \in 1 .. Len(s) - 1 : l.next[s[p]] = s[p + 1] /\ l.prev[s[p + 1]] = s[p]

Disjoint(a, b) == \A p \in 1 .. Len(a), q \in 1 .. Len(b) : a[p] # b[q]

(* In the middle of a merge d is the result and a and b are what is left.  *)
Parts(l, k, d, a, b) ==
  /\ k \in Relinked(l)
  /\ d \in Seq(Nodes(l)) /\ a \in Seq(Nodes(l)) /\ b \in Seq(Nodes(l)) /\ d # <<>>
  /\ IsRow(k, d) /\ IsChain(k, a) /\ IsChain(k, b)
  /\ Disjoint(d, a) /\ Disjoint(d, b) /\ Disjoint(a, b)

(* PartsFlip: the chains that are left may be exchanged.                   *)
LEMMA PartsFlip ==
  ASSUME NEW l, NEW k, NEW d, NEW a, NEW b, Parts(l, k, d, a, b)
  PROVE  Parts(l, k, d, b, a)
BY DEF Parts, Disjoint

(* RestIs: the head and the rest of a sequence of nodes.                   *)
LEMMA RestIs ==
  ASSUME NEW N, NEW a \in Seq(N), a # <<>>
  PROVE  /\ Len(a) \in Nat \ {0} /\ a[1] \in N /\ 1 \in 1 .. Len(a)
         /\ Tail(a) \in Seq(N) /\ Len(Tail(a)) = Len(a) - 1
         /\ \A p \in 1 .. Len(a) - 1 : Tail(a)[p] = a[p + 1] /\ p + 1 \in 1 .. Len(a)
         /\ At(Tail(a), 1) = At(a, 2)
         /\ Members(a) = {a[1]} \cup Members(Tail(a))
<1>1. /\ Len(a) \in Nat \ {0} /\ a[1] \in N /\ 1 \in 1 .. Len(a)
      /\ Tail(a) \in Seq(N) /\ Len(Tail(a)) = Len(a) - 1
      /\ \A p \in 1 .. Len(a) - 1 : Tail(a)[p] = a[p + 1]
  OBVIOUS
<1> DEFINE t == Tail(a)
<1> HIDE DEF t
<1>2. At(t, 1) = At(a, 2)
  <2>1. CASE Len(a) = 1
    <3>1. 1 \notin 1 .. Len(t) /\ 2 \notin 1 .. Len(a)
      <4>1. Len(t) = 0
        BY <1>1, <2>1 DEF t
      <4>2. 1 \notin 1 .. 0 /\ 2 \notin 1 .. 1
        OBVIOUS
      <4> QED
        BY <2>1, <4>1, <4>2
    <3> QED
      BY <3>1 DEF At
  <2>2. CASE Len(a) # 1
    <3>1. 1 \in 1 .. Len(t) /\ 2 \in 1 .. Len(a) /\ t[1] = a[2]
      <4>1. 1 \in 1 .. Len(a) - 1 /\ 1 + 1 = 2
        BY <1>1, <2>2
      <4> QED
        BY <1>1, <4>1 DEF t
    <3> QED
      BY <3>1 DEF At
  <2> QED
    BY <2>1, <2>2
<1>3. ASSUME NEW p \in 1 .. Len(a) PROVE a[p] \in {a[1]} \cup Members(t)
  <2>1. CASE p = 1
    BY <2>1
  <2>2. CASE p # 1
    <3>1. p - 1 \in 1 .. Len(a) - 1 /\ p - 1 \in 1 .. Len(t) /\ (p - 1) + 1 = p
      BY <1>1, <2>2 DEF t
    <3>2. t[p - 1] = a[p]
      BY <1>1, <3>1 DEF t
    <3> QED
      BY <3>1, <3>2 DEF Members
  <2> QED
    BY <2>1, <2>2
<1>4. ASSUME NEW p \in 1 .. Len(t) PROVE t[p] \in Members(a)
  <2>1. p \in 1 .. Len(a) - 1 /\ p + 1 \in 1 .. Len(a)
    BY <1>1 DEF t
  <2>2. t[p] = a[p + 1]
    BY <1>1, <2>1 DEF t
  <2> QED
    BY <2>1, <2>2 DEF Members
<1>5. Members(a) = {a[1]} \cup Members(t)
  BY <1>1, <1>3, <1>4 DEF Members
<1> QED
  BY <1>1, <1>2, <1>5 DEF t

(* MoreIs: a sequence of nodes with one more behind it.                    *)
LEMMA MoreIs ==
  ASSUME NEW N, NEW d \in Seq(N), NEW x \in N
  PROVE  /\ Append(d, x) \in Seq(N) /\ Len(Append(d, x)) = Len(d) + 1 /\ Append(d, x) # <<>>
         /\ Append(d, x)[Len(d) + 1] = x
         /\ \A p \in 1 .. Len(d) : Append(d, x)[p] = d[p]
         /\ Members(Append(d, x)) = Members(d) \cup {x}
<1> DEFINE e == Append(d, x)
<1>1. /\ e \in Seq(N) /\ Len(e) = Len(d) + 1 /\ e # <<>>
      /\ e[Len(d) + 1] = x
      /\ \A p \in 1 .. Len(d) : e[p] = d[p]
      /\ Len(d) \in Nat
  BY AppendIs
<1> HIDE DEF e
<1>2. ASSUME NEW p \in 1 .. Len(e) PROVE e[p] \in Members(d) \cup {x}
  <2>1. CASE p = Len(d) + 1
    BY <1>1, <2>1
  <2>2. CASE p # Len(d) + 1
    <3>1. p \in 1 .. Len(d)
      BY <1>1, <2>2
    <3> QED
      BY <1>1, <3>1 DEF Members
  <2> QED
    BY <2>1, <2>2
<1>3. ASSUME NEW p \in 1 .. Len(d) PROVE d[p] \in Members(e)
  <2>1. p \in 1 .. Len(e)
    BY <1>1
  <2> QED
    BY <1>1, <2>1 DEF Members
<1>4. x \in Members(e)
  <2>1. Len(d) + 1 \in 1 .. Len(e)
    BY <1>1
  <2> QED
    BY <1>1, <2>1 DEF Members
<1>5. Members(e) = Members(d) \cup {x}
  BY <1>2, <1>3, <1>4 DEF Members
<1> QED
  BY <1>1, <1>5 DEF e

(* The nodes of l are the numbers of its predicates.                       *)
Numbered(l) == Len(l.data) \in Nat /\ Nodes(l) = 1 .. Len(l.data)

(* NextOf: NextIs for the nodes of any list.                               *)
LEMMA NextOf ==
  ASSUME NEW l, Numbered(l), NEW k, NEW s \in Seq(Nodes(l)), IsChain(k, s)
  PROVE  \A p \in 1 .. Len(s) : s[p] \in Nodes(l) /\ s[p] # NULL /\ k.next[s[p]] = At(s, p + 1)
<1> DEFINE n == Len(l.data)
<1>1. Nodes(l) = 1 .. n /\ n \in Nat
  BY DEF Numbered
<1> HIDE DEF n
<1> QED
  BY <1>1, NextIs

(* The list r after the first node of a went behind d.                     *)
Took(l, k, d, a, b, r) ==
  /\ Parts(l, r, Append(d, a[1]), Tail(a), b)
  /\ k.next[a[1]] = At(Tail(a), 1) /\ r.next[a[1]] = At(Tail(a), 1)
  /\ Unmoved(k, r, {d[Len(d)], a[1]})

(* TakenOne: the first node of a chain goes behind the result.             *)
LEMMA TakenOne ==
  ASSUME NEW l, Numbered(l), NEW k, NEW d, NEW a, NEW b,
         Parts(l, k, d, a, b), a # <<>>
  PROVE  Took(l, k, d, a, b, node_inresult(k, d[Len(d)], a[1]))
<1> DEFINE N == Nodes(l)
           x == a[1]
           y == d[Len(d)]
           t == Tail(a)
<1> DEFINE e == Append(d, x)
           r == node_inresult(k, y, x)
<1>1. /\ k \in Relinked(l) /\ d \in Seq(N) /\ a \in Seq(N) /\ b \in Seq(N) /\ d # <<>>
      /\ IsRow(k, d) /\ IsChain(k, a) /\ IsChain(k, b)
      /\ Disjoint(d, a) /\ Disjoint(d, b) /\ Disjoint(a, b)
  BY DEF Parts
<1>2. /\ Len(a) \in Nat \ {0} /\ x \in N /\ 1 \in 1 .. Len(a)
      /\ t \in Seq(N) /\ Len(t) = Len(a) - 1
      /\ \A p \in 1 .. Len(a) - 1 : t[p] = a[p + 1] /\ p + 1 \in 1 .. Len(a)
      /\ At(t, 1) = At(a, 2)
  BY <1>1, RestIs
<1> HIDE DEF N
<1>3. /\ e \in Seq(N) /\ Len(e) = Len(d) + 1 /\ e # <<>>
      /\ e[Len(d) + 1] = x
      /\ \A p \in 1 .. Len(d) : e[p] = d[p]
  <2> HIDE DEF x
  <2> QED
    BY <1>1, <1>2, MoreIs
<1>4. Len(d) \in Nat \ {0} /\ Len(d) \in 1 .. Len(d) /\ y \in N /\ Len(b) \in Nat
  <2>1. Len(d) \in Nat \ {0} /\ Len(b) \in Nat
    BY <1>1
  <2> QED
    BY <1>1, <2>1, ElementOfSeq
<1>5. x # y
  BY <1>1, <1>2, <1>4 DEF Disjoint
<1> HIDE DEF x, y, t, e, r
<1>6. /\ r \in Relinked(l)
      /\ \A m \in N : /\ r.next[m] = IF m = y THEN x ELSE k.next[m]
                      /\ r.prev[m] = IF m = x THEN y ELSE k.prev[m]
  <2>1. r = node_inresult(k, y, x)
    BY DEF r
  <2>2. y \in Nodes(l) /\ x \in Nodes(l)
    BY <1>2, <1>4 DEF N
  <2>3. /\ r \in Relinked(l)
        /\ \A m \in Nodes(l) : /\ r.next[m] = IF m = y THEN x ELSE k.next[m]
                               /\ r.prev[m] = IF m = x THEN y ELSE k.prev[m]
    <3>1. k \in Relinked(l)
      BY <1>1
    <3>2. /\ node_inresult(k, y, x) \in Relinked(l)
          /\ \A m \in Nodes(l) :
               /\ node_inresult(k, y, x).next[m] = IF m = y THEN x ELSE k.next[m]
               /\ node_inresult(k, y, x).prev[m] = IF m = x THEN y ELSE k.prev[m]
      BY <3>1, <2>2, InResultIs
    <3> QED
      BY <3>2, <2>1
  <2> QED
    BY <2>3 DEF N
<1>7. k.next[x] = At(t, 1) /\ r.next[x] = At(t, 1)
  <2>1. k.next[a[1]] = At(a, 1 + 1) /\ 1 + 1 = 2
    <3>1. a \in Seq(Nodes(l))
      BY <1>1 DEF N
    <3>2. IsChain(k, a) /\ k \in Relinked(l)
      BY <1>1
    <3>3. 1 \in 1 .. Len(a)
      BY <1>2
    <3>4. \A p \in 1 .. Len(a) : k.next[a[p]] = At(a, p + 1)
      BY <3>1, <3>2, NextOf
    <3> QED
      BY <3>3, <3>4
  <2> QED
    BY <1>2, <1>5, <1>6, <2>1 DEF x
<1>8. /\ \A p \in 1 .. Len(d) : d[p] \in N
      /\ \A p \in 1 .. Len(b) : b[p] \in N
      /\ \A p \in 1 .. Len(a) : a[p] \in N
  BY <1>1, ElementOfSeq
<1>9. \A p, q \in 1 .. Len(e) : e[p] = e[q] => p = q
  <2>1. ASSUME NEW p \in 1 .. Len(e) PROVE p = Len(d) + 1 \/ p \in 1 .. Len(d)
    BY <1>3, <1>4
  <2>2. \A p \in 1 .. Len(d) : d[p] # x
    BY <1>1, <1>2 DEF Disjoint, x
  <2>3. \A p, q \in 1 .. Len(d) : d[p] = d[q] => p = q
    BY <1>1 DEF IsRow
  <2> QED
    BY <1>3, <2>1, <2>2, <2>3
<1>10. ASSUME NEW p \in 1 .. Len(e) - 1
       PROVE  r.next[e[p]] = e[p + 1] /\ r.prev[e[p + 1]] = e[p]
  <2>1. p \in 1 .. Len(d) /\ e[p] = d[p]
    BY <1>3, <1>4
  <2>2. CASE p = Len(d)
    <3>1. e[p] = y /\ e[p + 1] = x
      BY <1>3, <2>1, <2>2 DEF y
    <3> QED
      BY <1>2, <1>4, <1>6, <3>1
  <2>3. CASE p # Len(d)
    <3>1. p \in 1 .. Len(d) - 1 /\ p + 1 \in 1 .. Len(d)
      BY <1>4, <2>1, <2>3
    <3>2. k.next[d[p]] = d[p + 1] /\ k.prev[d[p + 1]] = d[p]
      BY <1>1, <3>1 DEF IsRow
    <3>3. d[p] # y
      BY <1>1, <1>4, <2>1, <2>3 DEF IsRow, y
    <3>4. d[p + 1] # x
      BY <1>1, <1>2, <3>1 DEF Disjoint, x
    <3>5. e[p + 1] = d[p + 1] /\ d[p] \in N /\ d[p + 1] \in N
      BY <1>3, <1>8, <2>1, <3>1
    <3> QED
      BY <1>6, <2>1, <3>2, <3>3, <3>4, <3>5
  <2> QED
    BY <2>2, <2>3
<1>11. IsRow(r, e)
  BY <1>9, <1>10 DEF IsRow
<1>12. /\ \A p \in 1 .. Len(a) : a[p] # y
       /\ \A p \in 1 .. Len(b) : b[p] # y /\ b[p] # x
  BY <1>1, <1>2, <1>4 DEF Disjoint, x, y
<1>13. \A p \in 1 .. Len(a) - 1 : t[p] # x
  <2>1. ASSUME NEW p \in 1 .. Len(a) - 1 PROVE t[p] # x
    <3>1. p + 1 \in 1 .. Len(a) /\ p + 1 # 1 /\ t[p] = a[p + 1]
      BY <1>2
    <3> QED
      BY <1>1, <1>2, <3>1 DEF IsChain, x
  <2> QED
    BY <2>1
<1>14. IsChain(r, t)
  <2>1. \A p, q \in 1 .. Len(t) : t[p] = t[q] => p = q
    <3>1. ASSUME NEW p \in 1 .. Len(t), NEW q \in 1 .. Len(t), t[p] = t[q] PROVE p = q
      <4>1. a[p + 1] = a[q + 1] /\ p + 1 \in 1 .. Len(a) /\ q + 1 \in 1 .. Len(a)
        BY <1>2, <3>1
      <4>2. p + 1 = q + 1
        BY <1>1, <4>1 DEF IsChain
      <4> QED
        BY <4>2
    <3> QED
      BY <3>1
  <2>2. ASSUME t # <<>> PROVE r.next[t[Len(t)]] = NULL
    <3>1. Len(t) \in Nat /\ Len(t) # 0
      BY <1>2, <2>2
    <3>2. Len(t) \in 1 .. Len(a) - 1 /\ Len(t) + 1 = Len(a) /\ Len(a) \in 1 .. Len(a) /\ a # <<>>
      BY <1>2, <3>1
    <3>3. t[Len(t)] = a[Len(a)] /\ a[Len(a)] # y /\ a[Len(a)] \in N
      BY <1>2, <1>8, <1>12, <3>2
    <3>4. k.next[a[Len(a)]] = NULL
      BY <1>1, <3>2 DEF IsChain
    <3> QED
      BY <1>6, <3>3, <3>4
  <2>3. ASSUME NEW p \in 1 .. Len(t) - 1
        PROVE  r.next[t[p]] = t[p + 1] /\ r.prev[t[p + 1]] = t[p]
    <3>1. /\ p \in 1 .. Len(a) - 1 /\ p + 1 \in 1 .. Len(a) - 1
          /\ p + 1 \in 1 .. Len(a) /\ (p + 1) + 1 \in 1 .. Len(a)
      BY <1>2
    <3>2. t[p] = a[p + 1] /\ t[p + 1] = a[(p + 1) + 1] /\ t[p + 1] # x
      BY <1>2, <1>13, <3>1
    <3>3. k.next[a[p + 1]] = a[(p + 1) + 1] /\ k.prev[a[(p + 1) + 1]] = a[p + 1]
      BY <1>1, <3>1 DEF IsChain
    <3>4. a[p + 1] # y /\ a[p + 1] \in N /\ a[(p + 1) + 1] \in N
      BY <1>8, <1>12, <3>1
    <3> QED
      BY <1>6, <3>2, <3>3, <3>4
  <2> QED
    BY <2>1, <2>2, <2>3 DEF IsChain
<1>15. IsChain(r, b)
  <2>1. \A p, q \in 1 .. Len(b) : b[p] = b[q] => p = q
    BY <1>1 DEF IsChain
  <2>2. ASSUME b # <<>> PROVE r.next[b[Len(b)]] = NULL
    <3>1. Len(b) \in 1 .. Len(b)
      BY <1>1, <2>2
    <3>2. k.next[b[Len(b)]] = NULL
      BY <1>1, <2>2 DEF IsChain
    <3> QED
      BY <1>6, <1>8, <1>12, <3>1, <3>2
  <2>3. ASSUME NEW p \in 1 .. Len(b) - 1
        PROVE  r.next[b[p]] = b[p + 1] /\ r.prev[b[p + 1]] = b[p]
    <3>1. p \in 1 .. Len(b) /\ p + 1 \in 1 .. Len(b)
      BY <1>4
    <3>2. k.next[b[p]] = b[p + 1] /\ k.prev[b[p + 1]] = b[p]
      BY <1>1 DEF IsChain
    <3> QED
      BY <1>6, <1>8, <1>12, <3>1, <3>2
  <2> QED
    BY <2>1, <2>2, <2>3 DEF IsChain
<1>16. Disjoint(e, t) /\ Disjoint(e, b) /\ Disjoint(t, b)
  <2>1. \A p \in 1 .. Len(e) : e[p] = x \/ \E q \in 1 .. Len(d) : e[p] = d[q]
    <3>1. \A p \in 1 .. Len(e) : p = Len(d) + 1 \/ p \in 1 .. Len(d)
      BY <1>3, <1>4
    <3> QED
      BY <1>3, <3>1
  <2>2. \A p \in 1 .. Len(t) : \E q \in 1 .. Len(a) : t[p] = a[q]
    BY <1>2
  <2>3. \A p \in 1 .. Len(t) : t[p] # x
    BY <1>2, <1>13
  <2>4. Disjoint(e, t)
    BY <1>1, <2>1, <2>2, <2>3 DEF Disjoint
  <2>5. Disjoint(e, b)
    BY <1>1, <1>12, <2>1 DEF Disjoint
  <2>6. Disjoint(t, b)
    BY <1>1, <2>2 DEF Disjoint
  <2> QED
    BY <2>4, <2>5, <2>6
<1>17. Unmoved(k, r, {y, x})
  <2>1. Nodes(k) = N
    <3>1. k \in Relinked(l)
      BY <1>1
    <3> QED
      BY <3>1, Fields DEF N
  <2> QED
    BY <1>6, <2>1 DEF Unmoved
<1>18. Parts(l, r, e, t, b)
  BY <1>1, <1>2, <1>3, <1>6, <1>11, <1>14, <1>15, <1>16 DEF Parts, N
<1> QED
  BY <1>7, <1>17, <1>18 DEF Took, x, y, t, e, r

(* The nodes in N have predicates in D.                                    *)
Holds(l, N, D) == \A m \in N : l.data[m] \in D

(* DataIs: the predicates of a sequence of nodes.                          *)
LEMMA DataIs ==
  ASSUME NEW l, NEW D, NEW N, Holds(l, N, D), NEW s \in Seq(N)
  PROVE  /\ DataOf(l, s) \in Seq(D) /\ Len(DataOf(l, s)) = Len(s)
         /\ \A p \in 1 .. Len(s) : DataOf(l, s)[p] = l.data[s[p]]
<1>1. Len(s) \in Nat /\ DOMAIN s = 1 .. Len(s) /\ \A p \in 1 .. Len(s) : s[p] \in N
  OBVIOUS
<1> DEFINE t == DataOf(l, s)
           n == Len(s)
<1>2. t \in [1 .. n -> D] /\ \A p \in 1 .. n : t[p] = l.data[s[p]]
  BY <1>1 DEF DataOf, Holds
<1>3. n \in Nat
  BY <1>1
<1> HIDE DEF t, n
<1>4. t \in Seq(D) /\ Len(t) = n
  BY <1>2, <1>3, FunctionIsSeq
<1> QED
  BY <1>2, <1>4 DEF t, n

(* SameSeq: sequences of the same length with the same elements.           *)
LEMMA SameSeq ==
  ASSUME NEW S, NEW s \in Seq(S), NEW t \in Seq(S), Len(s) = Len(t),
         \A p \in 1 .. Len(s) : s[p] = t[p]
  PROVE  s = t
<1>1. DOMAIN s = DOMAIN t /\ \A p \in DOMAIN s : s[p] = t[p]
  OBVIOUS
<1>2. s = [p \in DOMAIN s |-> s[p]] /\ t = [p \in DOMAIN t |-> t[p]]
  OBVIOUS
<1> QED
  BY <1>1, <1>2

(* DataOfRest: the predicates of the nodes behind the first.               *)
LEMMA DataOfRest ==
  ASSUME NEW l, NEW D, NEW N, Holds(l, N, D), NEW s \in Seq(N), s # <<>>
  PROVE  /\ DataOf(l, s) # <<>> /\ Head(DataOf(l, s)) = l.data[s[1]]
         /\ Tail(DataOf(l, s)) = DataOf(l, Tail(s))
<1> DEFINE t == DataOf(l, s)
           r == DataOf(l, Tail(s))
<1>1. /\ Len(s) \in Nat \ {0} /\ 1 \in 1 .. Len(s) /\ Tail(s) \in Seq(N)
      /\ Len(Tail(s)) = Len(s) - 1
      /\ \A p \in 1 .. Len(s) - 1 : Tail(s)[p] = s[p + 1] /\ p + 1 \in 1 .. Len(s)
  BY RestIs
<1>2. t \in Seq(D) /\ Len(t) = Len(s) /\ \A p \in 1 .. Len(s) : t[p] = l.data[s[p]]
  BY DataIs
<1>3. /\ r \in Seq(D) /\ Len(r) = Len(s) - 1
      /\ \A p \in 1 .. Len(s) - 1 : r[p] = l.data[Tail(s)[p]]
  <2> DEFINE u == Tail(s)
  <2>1. u \in Seq(N) /\ Len(u) = Len(s) - 1
    BY <1>1
  <2> HIDE DEF u
  <2>2. /\ DataOf(l, u) \in Seq(D) /\ Len(DataOf(l, u)) = Len(u)
        /\ \A p \in 1 .. Len(u) : DataOf(l, u)[p] = l.data[u[p]]
    BY <2>1, DataIs
  <2> QED
    BY <2>1, <2>2 DEF u
<1> HIDE DEF t, r
<1>4. t # <<>>
  BY <1>1, <1>2
<1>5. Tail(t) \in Seq(D) /\ Len(Tail(t)) = Len(s) - 1 /\ \A p \in 1 .. Len(s) - 1 : Tail(t)[p] = t[p + 1]
  <2>1. /\ Tail(t) \in Seq(D) /\ Len(Tail(t)) = Len(t) - 1
        /\ \A p \in 1 .. Len(t) - 1 : Tail(t)[p] = t[p + 1]
    BY <1>2, <1>4, RestIs
  <2> QED
    BY <1>2, <2>1
<1>6. Tail(t) = r
  <2> DEFINE u == Tail(t)
  <2>1. u \in Seq(D) /\ Len(u) = Len(r) /\ Len(u) = Len(s) - 1
    BY <1>3, <1>5
  <2>2. \A p \in 1 .. Len(s) - 1 : u[p] = r[p]
    BY <1>1, <1>2, <1>3, <1>5
  <2> HIDE DEF u
  <2>3. \A p \in 1 .. Len(u) : u[p] = r[p]
    BY <2>1, <2>2
  <2>4. u = r
    BY <1>3, <2>1, <2>3, SameSeq
  <2> QED
    BY <2>4 DEF u
<1>7. Head(t) = t[1]
  BY <1>2, <1>4
<1>8. Head(t) = l.data[s[1]]
  BY <1>1, <1>2, <1>7
<1> QED
  BY <1>4, <1>6, <1>8 DEF t, r

(* DataOfMore: the predicates of nodes with one more behind them.          *)
LEMMA DataOfMore ==
  ASSUME NEW l, NEW D, NEW N, Holds(l, N, D), NEW s \in Seq(N), NEW x \in N
  PROVE  DataOf(l, Append(s, x)) = Append(DataOf(l, s), l.data[x])
<1> DEFINE e == Append(s, x)
           t == DataOf(l, s)
           v == l.data[x]
           u == DataOf(l, e)
           w == Append(t, v)
<1>1. /\ e \in Seq(N) /\ Len(e) = Len(s) + 1 /\ e[Len(s) + 1] = x
      /\ \A p \in 1 .. Len(s) : e[p] = s[p]
  BY MoreIs
<1>2. t \in Seq(D) /\ Len(t) = Len(s) /\ \A p \in 1 .. Len(s) : t[p] = l.data[s[p]]
  BY DataIs
<1>3. v \in D /\ Len(s) \in Nat
  BY DEF Holds
<1> HIDE DEF e
<1>4. u \in Seq(D) /\ Len(u) = Len(e) /\ \A p \in 1 .. Len(e) : u[p] = l.data[e[p]]
  BY <1>1, DataIs
<1> HIDE DEF t, v, u
<1>5. /\ w \in Seq(D) /\ Len(w) = Len(t) + 1 /\ w[Len(t) + 1] = v
      /\ \A p \in 1 .. Len(t) : w[p] = t[p]
  BY <1>2, <1>3, MoreIs
<1> HIDE DEF w
<1>6. ASSUME NEW p \in 1 .. Len(u) PROVE u[p] = w[p]
  <2>1. CASE p = Len(s) + 1
    BY <1>1, <1>2, <1>4, <1>5, <2>1 DEF v
  <2>2. CASE p # Len(s) + 1
    <3>1. p \in 1 .. Len(s) /\ p \in 1 .. Len(e)
      BY <1>1, <1>3, <1>4, <2>2
    <3>2. p \in 1 .. Len(t) /\ t[p] = l.data[s[p]]
      BY <1>2, <3>1
    <3>3. w[p] = t[p] /\ u[p] = l.data[e[p]] /\ e[p] = s[p]
      BY <1>1, <1>4, <1>5, <3>1, <3>2
    <3> QED
      BY <3>2, <3>3
  <2> QED
    BY <2>1, <2>2
<1>7. Len(u) = Len(w)
  BY <1>1, <1>2, <1>4, <1>5
<1>8. u = w
  BY <1>4, <1>5, <1>6, <1>7, SameSeq
<1> QED
  BY <1>8 DEF u, w, v, t, e

(* MovedOver: an element goes from the front of one list to the end of     *)
(* another.                                                                *)
LEMMA MovedOver ==
  ASSUME NEW D, NEW u \in Seq(D), NEW v \in Seq(D), NEW x \in D
  PROVE  Append(u, x) \o v = u \o (<<x>> \o v)
OBVIOUS

MergeTakesOne(f, a, b) ==
  /\ a # <<>> /\ (b = <<>> \/ pred_cmp(Head(a), Head(b)) < 0) =>
       f[<<a, b>>] = <<Head(a)>> \o f[<<Tail(a), b>>]
  /\ b # <<>> /\ (a = <<>> \/ ~ (pred_cmp(Head(a), Head(b)) < 0)) =>
       f[<<a, b>>] = <<Head(b)>> \o f[<<a, Tail(b)>>]

(* MergeTakes: which element the merge takes, and that it goes on behind   *)
(* it.                                                                     *)
LEMMA MergeTakes ==
  ASSUME NEW D, NEW f, Merges(f, D), NEW a \in Seq(D), NEW b \in Seq(D)
  PROVE  MergeTakesOne(f, a, b)
<1>1. \A x, y \in Seq(D) : f[<<x, y>>] = MergeStep(f, x, y)
  BY DEF Merges
<1>2. ASSUME NEW x \in Seq(D), x # <<>> PROVE Tail(x) \in Seq(D) /\ x = <<Head(x)>> \o Tail(x)
  BY <1>2
<1>3. <<>> \in Seq(D)
  OBVIOUS
<1>4. \A x \in Seq(D) : f[<<x, <<>>>>] = x /\ f[<<<<>>, x>>] = x
  BY <1>1, <1>3 DEF MergeStep
<1>5. f[<<a, b>>] = MergeStep(f, a, b)
  BY <1>1
<1>6. ASSUME a # <<>>, b = <<>> \/ pred_cmp(Head(a), Head(b)) < 0
      PROVE  f[<<a, b>>] = <<Head(a)>> \o f[<<Tail(a), b>>]
  <2>1. CASE b = <<>>
    <3>1. Tail(a) \in Seq(D) /\ a = <<Head(a)>> \o Tail(a)
      BY <1>2, <1>6
    <3>2. f[<<Tail(a), b>>] = Tail(a) /\ f[<<a, b>>] = a
      BY <1>4, <2>1, <3>1
    <3> QED
      BY <3>1, <3>2
  <2>2. CASE b # <<>>
    BY <1>5, <1>6, <2>2 DEF MergeStep
  <2> QED
    BY <2>1, <2>2
<1>7. ASSUME b # <<>>, a = <<>> \/ ~ (pred_cmp(Head(a), Head(b)) < 0)
      PROVE  f[<<a, b>>] = <<Head(b)>> \o f[<<a, Tail(b)>>]
  <2>1. CASE a = <<>>
    <3>1. Tail(b) \in Seq(D) /\ b = <<Head(b)>> \o Tail(b)
      BY <1>2, <1>7
    <3>2. f[<<a, Tail(b)>>] = Tail(b) /\ f[<<a, b>>] = b
      BY <1>4, <2>1, <3>1
    <3> QED
      BY <3>1, <3>2
  <2>2. CASE a # <<>>
    BY <1>5, <1>7, <2>2 DEF MergeStep
  <2> QED
    BY <2>1, <2>2
<1> QED
  BY <1>6, <1>7 DEF MergeTakesOne

(* What a merge of chains keeps.                                           *)
Whole(l, f, d, a, b) == DataOf(l, d) \o f[<<DataOf(l, a), DataOf(l, b)>>]

AllOf(d, a, b) == Members(d) \cup Members(a) \cup Members(b)

Count(d, a, b) == Len(d) + Len(a) + Len(b)

KeptNodes(k, d, a, b, r, x, y, z) ==
  /\ x[1] = d[1]
  /\ AllOf(x, y, z) = AllOf(d, a, b)
  /\ Count(x, y, z) = Count(d, a, b)
  /\ Unmoved(k, r, AllOf(d, a, b))

Kept(l, f, k, d, a, b, r, x, y, z) ==
  KeptNodes(k, d, a, b, r, x, y, z) /\ Whole(l, f, x, y, z) = Whole(l, f, d, a, b)

(* Where the loops of a merge are: the lists that are merged, the list, the *)
(* last node of the result and the nodes that are next.                    *)
Now(l, u, d, a, b) ==
  /\ Parts(l, u.list, d, a, b)
  /\ u.prev = d[Len(d)] /\ u.n0 = At(a, 1) /\ u.n1 = At(b, 1)
  /\ u.list.next[u.prev] \in {u.n0, u.n1}

MergeOne(l, s) ==
  IF s.n0 = NULL /\ s.n1 = NULL THEN s
  ELSE IF s.n1 = NULL \/ (s.n0 # NULL /\ cmp(l, s.n0, s.n1) < 0)
    THEN [list |-> node_inresult(s.list, s.prev, s.n0), prev |-> s.n0,
          n0 |-> s.list.next[s.n0], n1 |-> s.n1]
    ELSE [list |-> node_inresult(s.list, s.prev, s.n1), prev |-> s.n1,
          n0 |-> s.n0, n1 |-> s.list.next[s.n1]]

(* The lists that the sort meets.                                          *)
Sortable(l, D) == Numbered(l) /\ l.data \in Seq(D) /\ Holds(l, Nodes(l), D)

(* KeptOn: what two steps keep, both keep together.                        *)
LEMMA KeptOn ==
  ASSUME NEW l, NEW f, NEW k, NEW d, NEW a, NEW b, NEW r, NEW x, NEW y, NEW z,
         NEW r2, NEW x2, NEW y2, NEW z2, Nodes(k) = Nodes(r),
         Kept(l, f, k, d, a, b, r, x, y, z), Kept(l, f, r, x, y, z, r2, x2, y2, z2)
  PROVE  Kept(l, f, k, d, a, b, r2, x2, y2, z2)
<1>1. Unmoved(k, r, AllOf(d, a, b)) /\ Unmoved(r, r2, AllOf(d, a, b))
  BY DEF Kept, KeptNodes
<1>2. Unmoved(k, r2, AllOf(d, a, b))
  BY <1>1 DEF Unmoved
<1> QED
  BY <1>2 DEF Kept, KeptNodes

(* MembersIs: the members of a sequence of nodes.                          *)
LEMMA MembersIs ==
  ASSUME NEW N, NEW s \in Seq(N)
  PROVE  Members(s) \subseteq N /\ \A p \in 1 .. Len(s) : s[p] \in Members(s)
BY ElementOfSeq DEF Members

SameWhole(l, d, a, v) ==
  DataOf(l, Append(d, a[1])) \o v = DataOf(l, d) \o (<<Head(DataOf(l, a))>> \o v)

(* TakenKeeps: a node that goes from a chain to the result keeps what the  *)
(* merge is of.                                                            *)
LEMMA TakenKeeps ==
  ASSUME NEW l, NEW D, Sortable(l, D), NEW k, NEW d, NEW a, NEW b,
         Parts(l, k, d, a, b), a # <<>>, NEW v \in Seq(D)
  PROVE  /\ KeptNodes(k, d, a, b, node_inresult(k, d[Len(d)], a[1]),
                      Append(d, a[1]), Tail(a), b)
         /\ SameWhole(l, d, a, v)
<1> DEFINE N == Nodes(l)
           x == a[1]
           t == Tail(a)
           e == Append(d, x)
           r == node_inresult(k, d[Len(d)], x)
<1>0. Holds(l, N, D)
  BY DEF Sortable
<1>1. d \in Seq(N) /\ a \in Seq(N) /\ b \in Seq(N) /\ d # <<>>
  BY DEF Parts
<1> HIDE DEF N
<1>2. /\ Len(a) \in Nat \ {0} /\ x \in N /\ 1 \in 1 .. Len(a)
      /\ t \in Seq(N) /\ Len(t) = Len(a) - 1 /\ Members(a) = {x} \cup Members(t)
  BY <1>1, RestIs
<1>3. /\ e \in Seq(N) /\ Len(e) = Len(d) + 1
      /\ \A p \in 1 .. Len(d) : e[p] = d[p]
      /\ Members(e) = Members(d) \cup {x}
  <2> HIDE DEF x
  <2> QED
    BY <1>1, <1>2, MoreIs
<1>4. Len(d) \in Nat \ {0} /\ 1 \in 1 .. Len(d) /\ Len(d) \in 1 .. Len(d) /\ Len(b) \in Nat
  <2>1. Len(d) \in Nat \ {0} /\ Len(b) \in Nat
    BY <1>1
  <2> QED
    BY <2>1
<1>5. Unmoved(k, r, {d[Len(d)], x})
  <2>1. Numbered(l)
    BY DEF Sortable
  <2> QED
    BY <2>1, TakenOne DEF Took
<1>6. d[Len(d)] \in Members(d)
  BY <1>4 DEF Members
<1>7. Head(DataOf(l, a)) = l.data[x]
  BY <1>0, <1>1, DataOfRest
<1> HIDE DEF x, t, e, r
<1>8. DataOf(l, e) = Append(DataOf(l, d), l.data[x])
  BY <1>0, <1>1, <1>2, DataOfMore DEF e
<1>9. DataOf(l, d) \in Seq(D) /\ l.data[x] \in D
  <2>1. DataOf(l, d) \in Seq(D)
    BY <1>0, <1>1, DataIs
  <2> QED
    BY <1>0, <1>2, <2>1 DEF Holds
<1>10. DataOf(l, e) \o v = DataOf(l, d) \o (<<Head(DataOf(l, a))>> \o v)
  <2> DEFINE u == DataOf(l, d)
             y == l.data[x]
  <2>1. u \in Seq(D) /\ y \in D
    BY <1>9
  <2> HIDE DEF u, y
  <2>2. Append(u, y) \o v = u \o (<<y>> \o v)
    BY <2>1, MovedOver
  <2> QED
    BY <1>7, <1>8, <2>2 DEF u, y
<1>11. AllOf(e, t, b) = AllOf(d, a, b)
  BY <1>2, <1>3 DEF AllOf
<1>12. Count(e, t, b) = Count(d, a, b)
  BY <1>2, <1>3, <1>4 DEF Count
<1>13. Unmoved(k, r, AllOf(d, a, b))
  BY <1>2, <1>5, <1>6 DEF Unmoved, AllOf
<1>14. e[1] = d[1]
  BY <1>3, <1>4
<1> QED
  BY <1>10, <1>11, <1>12, <1>13, <1>14 DEF KeptNodes, SameWhole, e, t, r, x

(* FirstOf: where a chain starts, if it does.                              *)
LEMMA FirstOf ==
  ASSUME NEW l, Numbered(l), NEW a \in Seq(Nodes(l))
  PROVE  /\ a = <<>> => At(a, 1) = NULL
         /\ a # <<>> => At(a, 1) = a[1] /\ a[1] # NULL
<1>1. ASSUME a = <<>> PROVE At(a, 1) = NULL
  <2>1. Len(a) = 0 /\ 1 \notin 1 .. 0
    BY <1>1
  <2> QED
    BY <2>1 DEF At
<1>2. ASSUME a # <<>> PROVE At(a, 1) = a[1] /\ a[1] # NULL
  <2>1. 1 \in 1 .. Len(a) /\ a[1] \in Nodes(l)
    BY <1>2, RestIs
  <2>2. a[1] \in 1 .. Len(l.data) /\ Len(l.data) \in Nat
    BY <2>1 DEF Numbered
  <2> QED
    BY <2>1, <2>2 DEF At, NULL
<1> QED
  BY <1>1, <1>2

(* What a step of the loops does.                                          *)
Moved(l, f, u, d, a, b, v, x, y, z) ==
  /\ Now(l, v, x, y, z)
  /\ Kept(l, f, u.list, d, a, b, v.list, x, y, z)
  /\ Len(y) + Len(z) + 1 = Len(a) + Len(b)

(* FirstMoves: a step that takes the first node of the first chain.        *)
LEMMA FirstMoves ==
  ASSUME NEW l, NEW D, Sortable(l, D), NEW f, Merges(f, D), NEW u, NEW d, NEW a, NEW b,
         Now(l, u, d, a, b), a # <<>>,
         b = <<>> \/ pred_cmp(Head(DataOf(l, a)), Head(DataOf(l, b))) < 0
  PROVE  Moved(l, f, u, d, a, b,
               [list |-> node_inresult(u.list, u.prev, u.n0), prev |-> u.n0,
                n0 |-> u.list.next[u.n0], n1 |-> u.n1],
               Append(d, a[1]), Tail(a), b)
<1> DEFINE N == Nodes(l)
           A == DataOf(l, a)
           B == DataOf(l, b)
           k == u.list
           v == [list |-> node_inresult(k, u.prev, u.n0), prev |-> u.n0,
                 n0 |-> k.next[u.n0], n1 |-> u.n1]
           r == node_inresult(k, d[Len(d)], a[1])
           e == Append(d, a[1])
           t == Tail(a)
<1>1. /\ Numbered(l) /\ Holds(l, N, D) /\ Parts(l, k, d, a, b)
      /\ d \in Seq(N) /\ a \in Seq(N) /\ b \in Seq(N)
      /\ u.prev = d[Len(d)] /\ u.n0 = At(a, 1) /\ u.n1 = At(b, 1)
  BY DEF Sortable, Now, Parts
<1>2. u.n0 = a[1]
  BY <1>1, FirstOf
<1>3. /\ v.list = r /\ v.prev = a[1] /\ v.n0 = k.next[a[1]] /\ v.n1 = At(b, 1)
  BY <1>1, <1>2
<1> HIDE DEF v, k
<1>4. /\ Parts(l, r, e, t, b) /\ k.next[a[1]] = At(t, 1) /\ r.next[a[1]] = At(t, 1)
  <2>1. Took(l, k, d, a, b, r)
    BY <1>1, TakenOne
  <2> QED
    BY <2>1 DEF Took
<1>5. a[1] \in N /\ Len(a) \in Nat \ {0} /\ Len(t) = Len(a) - 1
  <2>1. a \in Seq(N) /\ a # <<>>
    BY <1>1
  <2> HIDE DEF N
  <2> QED
    BY <2>1, RestIs
<1>6. e[Len(e)] = a[1]
  <2> DEFINE x == a[1]
  <2>1. x \in N /\ d \in Seq(N)
    BY <1>1, <1>5
  <2> HIDE DEF N, x
  <2>2. Len(Append(d, x)) = Len(d) + 1 /\ Append(d, x)[Len(d) + 1] = x
    BY <2>1, MoreIs
  <2> QED
    BY <2>2 DEF x
<1> HIDE DEF e, t, r
<1>7. Now(l, v, e, t, b)
  BY <1>3, <1>4, <1>6 DEF Now
<1> DEFINE less == pred_cmp(Head(A), Head(B)) < 0
<1>8. A \in Seq(D) /\ B \in Seq(D) /\ A # <<>> /\ DataOf(l, t) = Tail(A)
      /\ (b = <<>> => B = <<>>)
  <2>1. A \in Seq(D) /\ B \in Seq(D) /\ Len(B) = Len(b)
    BY <1>1, DataIs
  <2>2. A # <<>> /\ DataOf(l, t) = Tail(A)
    BY <1>1, DataOfRest DEF t
  <2>3. b = <<>> => Len(b) = 0
    OBVIOUS
  <2> HIDE DEF A, B
  <2> QED
    BY <2>1, <2>2, <2>3
<1>9. less \/ B = <<>>
  BY <1>8
<1> HIDE DEF less
<1>10. Kept(l, f, k, d, a, b, r, e, t, b)
  <2> DEFINE w == f[<<Tail(A), B>>]
  <2> HIDE DEF A, B
  <2>1. w \in Seq(D)
    <3>1. Tail(A) \in Seq(D)
      BY <1>8
    <3>2. <<Tail(A), B>> \in Seq(D) \X Seq(D)
      BY <1>8, <3>1
    <3> QED
      BY <3>2 DEF Merges
  <2>2. f[<<A, B>>] = <<Head(A)>> \o w
    <3>1. MergeTakesOne(f, A, B)
      BY <1>8, MergeTakes
    <3>2. A # <<>> /\ (B = <<>> \/ less) => f[<<A, B>>] = <<Head(A)>> \o f[<<Tail(A), B>>]
      BY <3>1 DEF less, MergeTakesOne
    <3> QED
      BY <1>8, <1>9, <3>2
  <2> HIDE DEF w
  <2>3. /\ KeptNodes(k, d, a, b, r, e, t, b)
        /\ SameWhole(l, d, a, w)
    BY <1>1, <2>1, TakenKeeps DEF r, e, t
  <2>4. Whole(l, f, e, t, b) = DataOf(l, e) \o w
    BY <1>8 DEF Whole, w, B
  <2>5. Whole(l, f, d, a, b) = DataOf(l, d) \o (<<Head(A)>> \o w)
    BY <2>2 DEF Whole, A, B
  <2> QED
    BY <2>3, <2>4, <2>5 DEF Kept, SameWhole, A, e
<1>11. Len(t) + Len(b) + 1 = Len(a) + Len(b)
  <2>1. Len(b) \in Nat
    BY <1>1
  <2> QED
    BY <1>5, <2>1
<1> QED
  BY <1>3, <1>7, <1>10, <1>11 DEF Moved, e, t, v, k

(* SecondMoves: the same of the second chain, which goes first in a tie.   *)
LEMMA SecondMoves ==
  ASSUME NEW l, NEW D, Sortable(l, D), NEW f, Merges(f, D), NEW u, NEW d, NEW a, NEW b,
         Now(l, u, d, a, b), b # <<>>,
         a = <<>> \/ ~ (pred_cmp(Head(DataOf(l, a)), Head(DataOf(l, b))) < 0)
  PROVE  Moved(l, f, u, d, a, b,
               [list |-> node_inresult(u.list, u.prev, u.n1), prev |-> u.n1,
                n0 |-> u.n0, n1 |-> u.list.next[u.n1]],
               Append(d, b[1]), a, Tail(b))
<1> DEFINE N == Nodes(l)
           A == DataOf(l, a)
           B == DataOf(l, b)
           k == u.list
           v == [list |-> node_inresult(k, u.prev, u.n1), prev |-> u.n1,
                 n0 |-> u.n0, n1 |-> k.next[u.n1]]
           r == node_inresult(k, d[Len(d)], b[1])
           e == Append(d, b[1])
           t == Tail(b)
<1>1. /\ Numbered(l) /\ Holds(l, N, D) /\ Parts(l, k, d, a, b)
      /\ d \in Seq(N) /\ a \in Seq(N) /\ b \in Seq(N)
      /\ u.prev = d[Len(d)] /\ u.n0 = At(a, 1) /\ u.n1 = At(b, 1)
  BY DEF Sortable, Now, Parts
<1>2. u.n1 = b[1]
  BY <1>1, FirstOf
<1>3. /\ v.list = r /\ v.prev = b[1] /\ v.n0 = At(a, 1) /\ v.n1 = k.next[b[1]]
  BY <1>1, <1>2
<1> HIDE DEF v, k
<1>4. /\ Parts(l, r, e, a, t) /\ k.next[b[1]] = At(t, 1) /\ r.next[b[1]] = At(t, 1)
  <2>1. Parts(l, k, d, b, a)
    BY <1>1, PartsFlip
  <2>2. Took(l, k, d, b, a, r)
    BY <1>1, <2>1, TakenOne
  <2>3. Parts(l, r, e, t, a)
    BY <2>2 DEF Took
  <2> HIDE DEF r, e, t
  <2>4. Parts(l, r, e, a, t)
    BY <2>3, PartsFlip
  <2> QED
    BY <2>2, <2>4 DEF Took, t
<1>5. b[1] \in N /\ Len(b) \in Nat \ {0} /\ Len(t) = Len(b) - 1
  <2>1. b \in Seq(N) /\ b # <<>>
    BY <1>1
  <2> HIDE DEF N
  <2> QED
    BY <2>1, RestIs
<1>6. e[Len(e)] = b[1] /\ Len(e) = Len(d) + 1
  <2> DEFINE x == b[1]
  <2>1. x \in N /\ d \in Seq(N)
    BY <1>1, <1>5
  <2> HIDE DEF N, x
  <2>2. Len(Append(d, x)) = Len(d) + 1 /\ Append(d, x)[Len(d) + 1] = x
    BY <2>1, MoreIs
  <2> QED
    BY <2>2 DEF x
<1> HIDE DEF e, t, r
<1>7. Now(l, v, e, a, t)
  BY <1>3, <1>4, <1>6 DEF Now
<1> DEFINE more == ~ (pred_cmp(Head(A), Head(B)) < 0)
<1>8. A \in Seq(D) /\ B \in Seq(D) /\ B # <<>> /\ DataOf(l, t) = Tail(B)
      /\ (a = <<>> => A = <<>>)
  <2>1. A \in Seq(D) /\ B \in Seq(D) /\ Len(A) = Len(a)
    BY <1>1, DataIs
  <2>2. B # <<>> /\ DataOf(l, t) = Tail(B)
    BY <1>1, DataOfRest DEF t
  <2>3. a = <<>> => Len(a) = 0
    OBVIOUS
  <2> HIDE DEF A, B
  <2> QED
    BY <2>1, <2>2, <2>3
<1>9. more \/ A = <<>>
  BY <1>8
<1> HIDE DEF more
<1>10. Kept(l, f, k, d, a, b, r, e, a, t)
  <2> DEFINE w == f[<<A, Tail(B)>>]
  <2> HIDE DEF A, B
  <2>1. w \in Seq(D)
    <3>1. Tail(B) \in Seq(D)
      BY <1>8
    <3>2. <<A, Tail(B)>> \in Seq(D) \X Seq(D)
      BY <1>8, <3>1
    <3> QED
      BY <3>2 DEF Merges
  <2>2. f[<<A, B>>] = <<Head(B)>> \o w
    <3>1. MergeTakesOne(f, A, B)
      BY <1>8, MergeTakes
    <3>2. B # <<>> /\ (A = <<>> \/ more) => f[<<A, B>>] = <<Head(B)>> \o f[<<A, Tail(B)>>]
      BY <3>1 DEF more, MergeTakesOne
    <3> QED
      BY <1>8, <1>9, <3>2
  <2> HIDE DEF w
  <2>3. Parts(l, k, d, b, a)
    BY <1>1, PartsFlip
  <2>4. /\ KeptNodes(k, d, b, a, r, e, t, a)
        /\ SameWhole(l, d, b, w)
    BY <2>3, <2>1, TakenKeeps DEF r, e, t
  <2>5. Whole(l, f, e, a, t) = DataOf(l, e) \o w
    BY <1>8 DEF Whole, w, A
  <2>6. Whole(l, f, d, a, b) = DataOf(l, d) \o (<<Head(B)>> \o w)
    BY <2>2 DEF Whole, A, B
  <2>7. KeptNodes(k, d, a, b, r, e, a, t)
    <3>1. AllOf(e, t, a) = AllOf(e, a, t) /\ AllOf(d, b, a) = AllOf(d, a, b)
      BY DEF AllOf
    <3>2. Count(e, a, t) = Count(d, a, b)
      <4>1. Len(a) \in Nat /\ Len(d) \in Nat
        BY <1>1
      <4> QED
        BY <1>5, <1>6, <4>1 DEF Count
    <3> QED
      BY <2>4, <3>1, <3>2 DEF KeptNodes
  <2> QED
    BY <2>4, <2>5, <2>6, <2>7 DEF Kept, SameWhole, B, e
<1>11. Len(a) + Len(t) + 1 = Len(a) + Len(b)
  <2>1. Len(a) \in Nat
    BY <1>1
  <2> QED
    BY <1>5, <2>1
<1> QED
  BY <1>3, <1>7, <1>10, <1>11 DEF Moved, e, t, v, k

(* MergeMoves: the loops take the node that the merge takes.               *)
LEMMA MergeMoves ==
  ASSUME NEW l, NEW D, Sortable(l, D), NEW f, Merges(f, D), NEW u, NEW d, NEW a, NEW b,
         Now(l, u, d, a, b), a # <<>> \/ b # <<>>
  PROVE  \E x, y, z : Moved(l, f, u, d, a, b, MergeOne(l, u), x, y, z)
<1> DEFINE A == DataOf(l, a)
           B == DataOf(l, b)
           less == pred_cmp(Head(A), Head(B)) < 0
           first == [list |-> node_inresult(u.list, u.prev, u.n0), prev |-> u.n0,
                     n0 |-> u.list.next[u.n0], n1 |-> u.n1]
           second == [list |-> node_inresult(u.list, u.prev, u.n1), prev |-> u.n1,
                      n0 |-> u.n0, n1 |-> u.list.next[u.n1]]
<1>1. /\ Numbered(l) /\ Holds(l, Nodes(l), D) /\ a \in Seq(Nodes(l)) /\ b \in Seq(Nodes(l))
      /\ u.n0 = At(a, 1) /\ u.n1 = At(b, 1)
  BY DEF Sortable, Now, Parts
<1>2. /\ a = <<>> => u.n0 = NULL
      /\ a # <<>> => u.n0 = a[1] /\ u.n0 # NULL
      /\ b = <<>> => u.n1 = NULL
      /\ b # <<>> => u.n1 = b[1] /\ u.n1 # NULL
  BY <1>1, FirstOf
<1>3. a # <<>> /\ b # <<>> => (cmp(l, u.n0, u.n1) < 0 <=> less)
  <2>1. ASSUME a # <<>>, b # <<>> PROVE cmp(l, u.n0, u.n1) = pred_cmp(Head(A), Head(B))
    <3>1. Head(A) = l.data[a[1]] /\ Head(B) = l.data[b[1]]
      BY <1>1, <2>1, DataOfRest
    <3>2. u.n0 = a[1] /\ u.n1 = b[1]
      BY <1>2, <2>1
    <3> HIDE DEF A, B
    <3> QED
      BY <3>1, <3>2 DEF cmp
  <2> QED
    BY <2>1
<1>4. CASE a # <<>> /\ (b = <<>> \/ less)
  <2>1. Moved(l, f, u, d, a, b, first, Append(d, a[1]), Tail(a), b)
    BY <1>4, FirstMoves
  <2>2. MergeOne(l, u) = first
    <3> HIDE DEF less
    <3> QED
      BY <1>2, <1>3, <1>4 DEF MergeOne
  <2> HIDE DEF first
  <2> QED
    BY <2>1, <2>2
<1>5. CASE b # <<>> /\ (a = <<>> \/ ~ less)
  <2>1. Moved(l, f, u, d, a, b, second, Append(d, b[1]), a, Tail(b))
    BY <1>5, SecondMoves
  <2>2. MergeOne(l, u) = second
    <3> HIDE DEF less
    <3> QED
      BY <1>2, <1>3, <1>5 DEF MergeOne
  <2> HIDE DEF second
  <2> QED
    BY <2>1, <2>2
<1> QED
  BY <1>4, <1>5

(* The list r in which the chains a and b are merged behind d.             *)
Merged(l, f, k, d, a, b, r) ==
  \E x \in Seq(Nodes(l)) :
    /\ x # <<>> /\ x[1] = d[1] /\ IsChain(r, x) /\ r \in Relinked(l)
    /\ Members(x) = AllOf(d, a, b) /\ Len(x) = Count(d, a, b)
    /\ Unmoved(k, r, AllOf(d, a, b))
    /\ DataOf(l, x) = Whole(l, f, d, a, b)

(* After m steps.                                                          *)
Reached(l, f, k, d, a, b, u, m) ==
  \E x, y, z :
    /\ Now(l, u, x, y, z) /\ Kept(l, f, k, d, a, b, u.list, x, y, z)
    /\ (y = <<>> /\ z = <<>>) \/ Len(y) + Len(z) + m <= Len(a) + Len(b)

(* ReachedOn: another step.                                                *)
LEMMA ReachedOn ==
  ASSUME NEW l, NEW D, Sortable(l, D), NEW f, Merges(f, D), NEW k, k \in Relinked(l),
         NEW d, NEW a, NEW b, NEW m \in Nat, NEW u, Reached(l, f, k, d, a, b, u, m),
         Len(a) \in Nat, Len(b) \in Nat
  PROVE  Reached(l, f, k, d, a, b, MergeOne(l, u), m + 1)
<1>1. PICK x, y, z : /\ Now(l, u, x, y, z) /\ Kept(l, f, k, d, a, b, u.list, x, y, z)
                     /\ (y = <<>> /\ z = <<>>) \/ Len(y) + Len(z) + m <= Len(a) + Len(b)
  BY DEF Reached
<1>2. CASE y = <<>> /\ z = <<>>
  <2>1. Numbered(l) /\ y \in Seq(Nodes(l)) /\ z \in Seq(Nodes(l)) /\ u.n0 = At(y, 1) /\ u.n1 = At(z, 1)
    BY <1>1 DEF Sortable, Now, Parts
  <2>2. u.n0 = NULL /\ u.n1 = NULL
    BY <1>2, <2>1, FirstOf
  <2>3. MergeOne(l, u) = u
    BY <2>2 DEF MergeOne
  <2> QED
    BY <1>1, <1>2, <2>3 DEF Reached
<1>3. CASE ~ (y = <<>> /\ z = <<>>)
  <2>1. PICK x2, y2, z2 : Moved(l, f, u, x, y, z, MergeOne(l, u), x2, y2, z2)
    BY <1>1, <1>3, MergeMoves
  <2> DEFINE v == MergeOne(l, u)
  <2> HIDE DEF v
  <2>2. /\ Now(l, v, x2, y2, z2) /\ Kept(l, f, u.list, x, y, z, v.list, x2, y2, z2)
        /\ Len(y2) + Len(z2) + 1 = Len(y) + Len(z)
    BY <2>1 DEF Moved, v
  <2>3. Nodes(k) = Nodes(u.list)
    <3>1. u.list \in Relinked(l)
      BY <1>1 DEF Now, Parts
    <3> QED
      BY <3>1, Fields
  <2>4. Kept(l, f, k, d, a, b, v.list, x2, y2, z2)
    BY <1>1, <2>2, <2>3, KeptOn
  <2>5. Len(y) \in Nat /\ Len(z) \in Nat /\ Len(y2) \in Nat /\ Len(z2) \in Nat
    <3>1. /\ y \in Seq(Nodes(l)) /\ z \in Seq(Nodes(l))
          /\ y2 \in Seq(Nodes(l)) /\ z2 \in Seq(Nodes(l))
      BY <1>1, <2>2 DEF Now, Parts
    <3> QED
      BY <3>1
  <2>6. Len(y2) + Len(z2) + (m + 1) <= Len(a) + Len(b)
    <3>1. Len(y) + Len(z) + m <= Len(a) + Len(b)
      BY <1>1, <1>3
    <3> QED
      BY <2>2, <2>5, <3>1
  <2>7. Reached(l, f, k, d, a, b, v, m + 1)
    BY <2>2, <2>4, <2>6 DEF Reached
  <2> QED
    BY <2>7 DEF v
<1> QED
  BY <1>2, <1>3

(* MergedAtLast: when nothing is left the chains are merged.               *)
LEMMA MergedAtLast ==
  ASSUME NEW l, NEW D, Sortable(l, D), NEW f, Merges(f, D), NEW k,
         NEW d, NEW a, NEW b, NEW m \in Nat, NEW u, Reached(l, f, k, d, a, b, u, m),
         Len(a) \in Nat, Len(b) \in Nat, Len(a) + Len(b) <= m
  PROVE  Merged(l, f, k, d, a, b, u.list)
<1>1. PICK x, y, z : /\ Now(l, u, x, y, z) /\ Kept(l, f, k, d, a, b, u.list, x, y, z)
                     /\ (y = <<>> /\ z = <<>>) \/ Len(y) + Len(z) + m <= Len(a) + Len(b)
  BY DEF Reached
<1>2. /\ Numbered(l) /\ Holds(l, Nodes(l), D) /\ Parts(l, u.list, x, y, z)
      /\ x \in Seq(Nodes(l)) /\ y \in Seq(Nodes(l)) /\ z \in Seq(Nodes(l)) /\ x # <<>>
      /\ u.list \in Relinked(l) /\ IsRow(u.list, x)
      /\ u.prev = x[Len(x)] /\ u.n0 = At(y, 1) /\ u.n1 = At(z, 1)
      /\ u.list.next[u.prev] \in {u.n0, u.n1}
  BY <1>1 DEF Sortable, Now, Parts
<1>3. y = <<>> /\ z = <<>>
  <2>1. CASE Len(y) + Len(z) + m <= Len(a) + Len(b)
    <3>1. Len(y) \in Nat /\ Len(z) \in Nat
      BY <1>2
    <3>2. Len(y) = 0 /\ Len(z) = 0
      BY <2>1, <3>1
    <3> QED
      BY <1>2, <3>2
  <2> QED
    BY <1>1, <2>1
<1>4. u.list.next[x[Len(x)]] = NULL
  <2>1. u.n0 = NULL /\ u.n1 = NULL
    BY <1>2, <1>3, FirstOf
  <2> QED
    BY <1>2, <2>1
<1>5. IsChain(u.list, x)
  BY <1>2, <1>4 DEF IsChain, IsRow
<1>6. Members(y) = {} /\ Members(z) = {} /\ Len(y) = 0 /\ Len(z) = 0
  <2>1. Len(y) = 0 /\ Len(z) = 0 /\ 1 .. 0 = {}
    BY <1>3
  <2> QED
    BY <2>1 DEF Members
<1>7. Len(x) \in Nat
  BY <1>2
<1>8. Members(x) = AllOf(d, a, b) /\ Len(x) = Count(d, a, b)
  <2>1. AllOf(x, y, z) = AllOf(d, a, b) /\ Count(x, y, z) = Count(d, a, b)
    BY <1>1 DEF Kept, KeptNodes
  <2>2. AllOf(x, y, z) = Members(x) /\ Count(x, y, z) = Len(x)
    BY <1>6, <1>7 DEF AllOf, Count
  <2> QED
    BY <2>1, <2>2
<1>9. Whole(l, f, x, y, z) = DataOf(l, x)
  <2>1. DataOf(l, y) = <<>> /\ DataOf(l, z) = <<>>
    <3>1. /\ DataOf(l, y) \in Seq(D) /\ Len(DataOf(l, y)) = Len(y)
          /\ DataOf(l, z) \in Seq(D) /\ Len(DataOf(l, z)) = Len(z)
      BY <1>2, DataIs
    <3> QED
      BY <1>6, <3>1
  <2>2. f[<<<<>>, <<>>>>] = <<>>
    <3>1. <<>> \in Seq(D)
      OBVIOUS
    <3>2. \A v, w \in Seq(D) : f[<<v, w>>] = MergeStep(f, v, w)
      BY DEF Merges
    <3>3. f[<<<<>>, <<>>>>] = MergeStep(f, <<>>, <<>>)
      BY <3>1, <3>2
    <3> QED
      BY <3>3 DEF MergeStep
  <2>3. DataOf(l, x) \in Seq(D)
    BY <1>2, DataIs
  <2>4. Whole(l, f, x, y, z) = DataOf(l, x) \o <<>>
    BY <2>1, <2>2 DEF Whole
  <2> HIDE DEF Whole
  <2> DEFINE t == DataOf(l, x)
  <2>5. t \in Seq(D)
    BY <2>3
  <2> HIDE DEF t
  <2>6. t \o <<>> = t
    BY <2>5
  <2> QED
    BY <2>4, <2>6 DEF t
<1>10. x[1] = d[1] /\ Unmoved(k, u.list, AllOf(d, a, b))
  BY <1>1 DEF Kept, KeptNodes
<1>11. DataOf(l, x) = Whole(l, f, d, a, b)
  BY <1>1, <1>9 DEF Kept
<1> QED
  BY <1>2, <1>5, <1>8, <1>10, <1>11 DEF Merged

(* MergeBehindIs: what the loops of a merge do.                            *)
LEMMA MergeBehindIs ==
  ASSUME NEW l, NEW D, Sortable(l, D), NEW f, Merges(f, D), NEW k, NEW d, NEW a, NEW b,
         Parts(l, k, d, a, b), k.next[d[Len(d)]] \in {At(a, 1), At(b, 1)},
         Len(a) + Len(b) <= Len(l.data)
  PROVE  Merged(l, f, k, d, a, b, MergeBehind(k, d[Len(d)], At(a, 1), At(b, 1)))
<1> DEFINE n == Len(k.data)
           u0 == [list |-> k, prev |-> d[Len(d)], n0 |-> At(a, 1), n1 |-> At(b, 1)]
           IsAfter(g, i) == g = [m \in 0 .. i |-> IF m = 0 THEN u0 ELSE MergeOne(k, g[m - 1])]
           after == CHOOSE g : IsAfter(g, n)
<1>1. MergeBehind(k, d[Len(d)], At(a, 1), At(b, 1)) = after[n].list
  BY DEF MergeBehind, MergeOne
<1>2. /\ n \in Nat /\ k.data = l.data /\ k \in Relinked(l) /\ Len(a) + Len(b) <= n
      /\ Len(a) \in Nat /\ Len(b) \in Nat
  <2>1. k \in Relinked(l) /\ a \in Seq(Nodes(l)) /\ b \in Seq(Nodes(l))
    BY DEF Parts
  <2>2. k.data = l.data
    BY <2>1, Fields
  <2>3. Len(a) \in Nat /\ Len(b) \in Nat
    BY <2>1
  <2> QED
    BY <2>1, <2>2, <2>3 DEF Sortable, Numbered
<1>3. \A u : MergeOne(k, u) = MergeOne(l, u)
  BY <1>2 DEF MergeOne, cmp
<1> DEFINE S == {i \in Nat : \E g : IsAfter(g, i)}
<1> HIDE DEF u0, n
<1>4. 0 \in S
  <2> DEFINE g == [m \in 0 .. 0 |-> u0]
  <2>1. IsAfter(g, 0)
    OBVIOUS
  <2> QED
    BY <2>1
<1>5. ASSUME NEW i \in Nat, i \in S PROVE i + 1 \in S
  <2>1. PICK g : IsAfter(g, i)
    BY <1>5
  <2> DEFINE h == [m \in 0 .. i + 1 |-> IF m = i + 1 THEN MergeOne(k, g[i]) ELSE g[m]]
  <2>2. ASSUME NEW m \in 0 .. i + 1 PROVE h[m] = IF m = 0 THEN u0 ELSE MergeOne(k, h[m - 1])
    <3>1. CASE m = i + 1
      <4>1. m - 1 = i /\ i \in 0 .. i + 1 /\ i # i + 1 /\ m # 0
        BY <3>1
      <4> QED
        BY <3>1, <4>1
    <3>2. CASE m # i + 1
      <4>1. m \in 0 .. i /\ (m # 0 => m - 1 \in 0 .. i + 1 /\ m - 1 # i + 1)
        BY <3>2
      <4>2. g[m] = IF m = 0 THEN u0 ELSE MergeOne(k, g[m - 1])
        BY <2>1, <4>1
      <4> QED
        BY <3>2, <4>1, <4>2
    <3> QED
      BY <3>1, <3>2
  <2>3. h = [m \in 0 .. i + 1 |-> h[m]]
    OBVIOUS
  <2> HIDE DEF h
  <2>4. IsAfter(h, i + 1)
    BY <2>2, <2>3
  <2> QED
    BY <2>4
<1> HIDE DEF S
<1>6. Nat \subseteq S
  BY <1>4, <1>5, NatSetInduction
<1>7. IsAfter(after, n)
  <2>1. \E g : IsAfter(g, n)
    BY <1>2, <1>6 DEF S
  <2> HIDE DEF IsAfter
  <2> QED
    BY <2>1
<1> HIDE DEF after
<1>8. after[0] = u0 /\ \A m \in 1 .. n : after[m] = MergeOne(k, after[m - 1])
  <2>1. \A m \in 0 .. n : after[m] = IF m = 0 THEN u0 ELSE MergeOne(k, after[m - 1])
    BY <1>7
  <2>2. 0 \in 0 .. n /\ \A m \in 1 .. n : m \in 0 .. n /\ m # 0
    BY <1>2
  <2> QED
    BY <2>1, <2>2
<1> DEFINE T == {m \in Nat : m <= n => Reached(l, f, k, d, a, b, after[m], m)}
<1>9. 0 \in T
  <2>1. Now(l, u0, d, a, b)
    BY DEF Now, u0
  <2>2. Kept(l, f, k, d, a, b, u0.list, d, a, b)
    BY DEF Kept, KeptNodes, Unmoved, u0
  <2>3. Len(a) + Len(b) + 0 <= Len(a) + Len(b)
    BY <1>2
  <2>4. Reached(l, f, k, d, a, b, u0, 0)
    BY <2>1, <2>2, <2>3 DEF Reached
  <2> QED
    BY <1>8, <2>4
<1>10. ASSUME NEW m \in Nat, m \in T PROVE m + 1 \in T
  <2> SUFFICES ASSUME m + 1 <= n PROVE Reached(l, f, k, d, a, b, after[m + 1], m + 1)
    OBVIOUS
  <2>1. m + 1 \in 1 .. n /\ (m + 1) - 1 = m /\ m <= n
    BY <1>2
  <2>2. Reached(l, f, k, d, a, b, after[m], m)
    BY <1>10, <2>1
  <2> DEFINE u == after[m]
  <2>3. after[m + 1] = MergeOne(l, u)
    BY <1>3, <1>8, <2>1
  <2> HIDE DEF u
  <2>4. Reached(l, f, k, d, a, b, MergeOne(l, u), m + 1)
    BY <1>2, <2>2, ReachedOn DEF u
  <2> QED
    BY <2>3, <2>4
<1> HIDE DEF T
<1>11. Nat \subseteq T
  BY <1>9, <1>10, NatSetInduction
<1>12. Reached(l, f, k, d, a, b, after[n], n)
  BY <1>2, <1>11 DEF T
<1>13. Merged(l, f, k, d, a, b, after[n].list)
  <2> DEFINE u == after[n]
  <2> HIDE DEF u
  <2>1. Reached(l, f, k, d, a, b, u, n)
    BY <1>12 DEF u
  <2>2. Merged(l, f, k, d, a, b, u.list)
    BY <1>2, <2>1, MergedAtLast
  <2> QED
    BY <2>2 DEF u
<1> QED
  BY <1>1, <1>13

(* The list r, with head h, in which the nodes of s are sorted to t.       *)
SortedTo(l, k, s, r, h, v) ==
  \E t \in Seq(Nodes(l)) :
    /\ t # <<>> /\ h = t[1] /\ IsChain(r, t) /\ r \in Relinked(l)
    /\ Members(t) = Members(s) /\ Len(t) = Len(s)
    /\ Unmoved(k, r, Members(s)) /\ DataOf(l, t) = v

(* OneAhead: a chain whose first node is the result, and what is behind it *)
(* to be merged.                                                           *)
LEMMA OneAhead ==
  ASSUME NEW l, Numbered(l), NEW k, k \in Relinked(l), NEW a, NEW b,
         a \in Seq(Nodes(l)), b \in Seq(Nodes(l)), IsChain(k, a), IsChain(k, b),
         a # <<>>, Disjoint(a, b)
  PROVE  /\ Parts(l, k, <<a[1]>>, Tail(a), b)
         /\ k.next[a[1]] = At(Tail(a), 1)
         /\ AllOf(<<a[1]>>, Tail(a), b) = Members(a) \cup Members(b)
         /\ Count(<<a[1]>>, Tail(a), b) = Len(a) + Len(b)
         /\ Len(Tail(a)) = Len(a) - 1
<1> DEFINE N == Nodes(l)
           x == a[1]
           t == Tail(a)
           d == <<x>>
<1> HIDE DEF N
<1>0. a \in Seq(N) /\ b \in Seq(N)
  BY DEF N
<1>1. /\ Len(a) \in Nat \ {0} /\ x \in N /\ 1 \in 1 .. Len(a)
      /\ t \in Seq(N) /\ Len(t) = Len(a) - 1
      /\ \A p \in 1 .. Len(a) - 1 : t[p] = a[p + 1] /\ p + 1 \in 1 .. Len(a)
      /\ At(t, 1) = At(a, 2)
      /\ Members(a) = {x} \cup Members(t)
  BY <1>0, RestIs
<1>2. Len(b) \in Nat
  BY <1>0
<1> HIDE DEF x, t
<1>3. d \in Seq(N) /\ d # <<>> /\ Len(d) = 1 /\ d[1] = x
  BY <1>1
<1> HIDE DEF d
<1>4. k.next[x] = At(t, 1)
  <2>1. \A p \in 1 .. Len(a) : k.next[a[p]] = At(a, p + 1)
    BY NextOf
  <2>2. k.next[a[1]] = At(a, 1 + 1) /\ 1 + 1 = 2
    BY <1>1, <2>1
  <2> QED
    BY <1>1, <2>2 DEF x
<1>5. IsRow(k, d)
  BY <1>3 DEF IsRow
<1>6. /\ \A p, q \in 1 .. Len(a) : a[p] = a[q] => p = q
      /\ k.next[a[Len(a)]] = NULL
      /\ \A p \in 1 .. Len(a) - 1 : k.next[a[p]] = a[p + 1] /\ k.prev[a[p + 1]] = a[p]
  BY DEF IsChain
<1>7. IsChain(k, t)
  <2>1. ASSUME NEW p \in 1 .. Len(t), NEW q \in 1 .. Len(t), t[p] = t[q] PROVE p = q
    <3>1. a[p + 1] = a[q + 1] /\ p + 1 \in 1 .. Len(a) /\ q + 1 \in 1 .. Len(a)
      BY <1>1, <2>1
    <3>2. p + 1 = q + 1
      BY <1>6, <3>1
    <3> QED
      BY <3>2
  <2>2. ASSUME t # <<>> PROVE k.next[t[Len(t)]] = NULL
    <3>1. Len(t) \in Nat \ {0}
      BY <1>1, <2>2
    <3>2. Len(t) \in 1 .. Len(a) - 1 /\ Len(t) + 1 = Len(a)
      BY <1>1, <3>1
    <3>3. t[Len(t)] = a[Len(a)]
      BY <1>1, <3>2
    <3> QED
      BY <1>6, <3>3
  <2>3. ASSUME NEW p \in 1 .. Len(t) - 1
        PROVE  k.next[t[p]] = t[p + 1] /\ k.prev[t[p + 1]] = t[p]
    <3>1. p \in 1 .. Len(a) - 1 /\ p + 1 \in 1 .. Len(a) - 1
      BY <1>1
    <3>2. t[p] = a[p + 1] /\ t[p + 1] = a[(p + 1) + 1]
      BY <1>1, <3>1
    <3> QED
      BY <1>6, <3>1, <3>2
  <2> QED
    BY <2>1, <2>2, <2>3 DEF IsChain
<1>8. Disjoint(d, t)
  <2>1. ASSUME NEW p \in 1 .. Len(t) PROVE t[p] # x
    <3>1. p \in 1 .. Len(a) - 1
      BY <1>1
    <3>2. t[p] = a[p + 1] /\ p + 1 \in 1 .. Len(a) /\ p + 1 # 1
      BY <1>1, <3>1
    <3> QED
      BY <1>1, <1>6, <3>2 DEF x
  <2>2. \A p \in 1 .. Len(d) : d[p] = x
    BY <1>3
  <2> QED
    BY <2>1, <2>2 DEF Disjoint
<1>9. Disjoint(d, b)
  <2>1. \A p \in 1 .. Len(d) : d[p] = a[1]
    BY <1>3 DEF x
  <2> QED
    BY <1>1, <2>1 DEF Disjoint
<1>10. Disjoint(t, b)
  <2>1. \A p \in 1 .. Len(t) : t[p] = a[p + 1] /\ p + 1 \in 1 .. Len(a)
    BY <1>1
  <2> QED
    BY <2>1 DEF Disjoint
<1>11. Parts(l, k, d, t, b)
  BY <1>0, <1>1, <1>3, <1>5, <1>7, <1>8, <1>9, <1>10 DEF Parts, N
<1>12. Members(d) = {x}
  <2>1. Members(d) = {d[p] : p \in 1 .. 1}
    BY <1>3 DEF Members
  <2>2. 1 .. 1 = {1}
    OBVIOUS
  <2> QED
    BY <1>3, <2>1, <2>2
<1>13. AllOf(d, t, b) = Members(a) \cup Members(b)
  BY <1>1, <1>12 DEF AllOf
<1>14. Count(d, t, b) = Len(a) + Len(b)
  BY <1>1, <1>2, <1>3 DEF Count
<1> QED
  BY <1>1, <1>4, <1>11, <1>13, <1>14 DEF d, t, x

(* MergedThen: what the loops leave, with the head of the result.          *)
LEMMA MergedThen ==
  ASSUME NEW l, NEW D, Sortable(l, D), NEW f, NEW k, NEW x \in Nodes(l), NEW a, NEW b,
         NEW r, Merged(l, f, k, <<x>>, a, b, r),
         NEW s, Members(s) = AllOf(<<x>>, a, b), Len(s) = Count(<<x>>, a, b)
  PROVE  SortedTo(l, k, s, r, x, <<l.data[x]>> \o f[<<DataOf(l, a), DataOf(l, b)>>])
<1> DEFINE d == <<x>>
<1>1. Whole(l, f, d, a, b) = <<l.data[x]>> \o f[<<DataOf(l, a), DataOf(l, b)>>]
  <2>1. DataOf(l, <<x>>) = <<l.data[x]>>
    BY DEF DataOf
  <2> QED
    BY <2>1 DEF Whole
<1>2. d[1] = x
  OBVIOUS
<1> HIDE DEF d
<1>3. PICK t \in Seq(Nodes(l)) :
         /\ t # <<>> /\ t[1] = d[1] /\ IsChain(r, t) /\ r \in Relinked(l)
         /\ Members(t) = AllOf(d, a, b) /\ Len(t) = Count(d, a, b)
         /\ Unmoved(k, r, AllOf(d, a, b))
         /\ DataOf(l, t) = Whole(l, f, d, a, b)
  BY DEF Merged, d
<1>4. AllOf(d, a, b) = Members(s) /\ Count(d, a, b) = Len(s)
  BY DEF d
<1> QED
  BY <1>1, <1>2, <1>3, <1>4 DEF SortedTo

(* MergeNodesIs: merging the nodes of two chains merges their predicates.  *)
LEMMA MergeNodesIs ==
  ASSUME NEW l, NEW D, Sortable(l, D), NEW f, Merges(f, D), NEW k, k \in Relinked(l),
         NEW a, NEW b, a \in Seq(Nodes(l)), b \in Seq(Nodes(l)), a # <<>>, b # <<>>,
         IsChain(k, a), IsChain(k, b), Disjoint(a, b),
         NEW s, Members(s) = Members(a) \cup Members(b), Len(s) = Len(a) + Len(b),
         Len(s) <= Len(l.data)
  PROVE  SortedTo(l, k, s, MergeNodes(k, a[1], b[1]).list, MergeNodes(k, a[1], b[1]).head,
                  f[<<DataOf(l, a), DataOf(l, b)>>])
<1> DEFINE N == Nodes(l)
           A == DataOf(l, a)
           B == DataOf(l, b)
           less == pred_cmp(Head(A), Head(B)) < 0
           first == MergeBehind(k, a[1], k.next[a[1]], b[1])
           second == MergeBehind(k, b[1], a[1], k.next[b[1]])
<1>1. /\ Numbered(l) /\ Holds(l, N, D) /\ k.data = l.data
      /\ At(a, 1) = a[1] /\ At(b, 1) = b[1] /\ a[1] \in N /\ b[1] \in N
      /\ Len(a) \in Nat \ {0} /\ Len(b) \in Nat \ {0}
  <2>1. Numbered(l) /\ Holds(l, N, D)
    BY DEF Sortable
  <2>2. k.data = l.data
    BY Fields
  <2>3. At(a, 1) = a[1] /\ At(b, 1) = b[1]
    BY <2>1, FirstOf
  <2>4. /\ a[1] \in N /\ b[1] \in N
        /\ Len(a) \in Nat \ {0} /\ Len(b) \in Nat \ {0}
    <3> HIDE DEF N
    <3>1. a \in Seq(N) /\ b \in Seq(N)
      BY DEF N
    <3> QED
      BY <3>1, RestIs
  <2> QED
    BY <2>1, <2>2, <2>3, <2>4
<1>2. /\ A \in Seq(D) /\ A # <<>> /\ Head(A) = l.data[a[1]] /\ Tail(A) = DataOf(l, Tail(a))
      /\ B \in Seq(D) /\ B # <<>> /\ Head(B) = l.data[b[1]] /\ Tail(B) = DataOf(l, Tail(b))
  <2>1. A \in Seq(D) /\ B \in Seq(D)
    BY <1>1, DataIs
  <2> QED
    BY <1>1, <2>1, DataOfRest
<1> HIDE DEF A, B
<1>3. cmp(k, a[1], b[1]) = pred_cmp(Head(A), Head(B))
  BY <1>1, <1>2 DEF cmp
<1>4. /\ less => MergeNodes(k, a[1], b[1]) = Sorted(first, a[1])
      /\ ~ less => MergeNodes(k, a[1], b[1]) = Sorted(second, b[1])
  BY <1>3 DEF MergeNodes
<1>5. MergeTakesOne(f, A, B)
  BY <1>2, MergeTakes
<1>6. /\ less => f[<<A, B>>] = <<Head(A)>> \o f[<<Tail(A), B>>]
      /\ ~ less => f[<<A, B>>] = <<Head(B)>> \o f[<<A, Tail(B)>>]
  BY <1>2, <1>5 DEF MergeTakesOne
<1> HIDE DEF less, first, second
<1>7. CASE less
  <2> DEFINE x == a[1]
             t == Tail(a)
             d == <<x>>
  <2>1. /\ Parts(l, k, d, t, b) /\ k.next[x] = At(t, 1)
        /\ AllOf(d, t, b) = Members(s) /\ Count(d, t, b) = Len(s)
        /\ Len(t) = Len(a) - 1
    BY <1>1, OneAhead
  <2>2. Len(d) = 1 /\ d[1] = x /\ x \in N
    BY <1>1
  <2>3. Len(t) + Len(b) <= Len(l.data)
    BY <1>1, <2>1
  <2>4. first = MergeBehind(k, d[Len(d)], At(t, 1), At(b, 1))
    BY <1>1, <2>1, <2>2 DEF first
  <2> HIDE DEF x, t
  <2>5. k.next[d[Len(d)]] \in {At(t, 1), At(b, 1)}
    BY <2>1, <2>2
  <2>6. Merged(l, f, k, d, t, b, first)
    <3> HIDE DEF d
    <3> QED
      BY <2>1, <2>3, <2>4, <2>5, MergeBehindIs
  <2>7. SortedTo(l, k, s, first, x, <<l.data[x]>> \o f[<<DataOf(l, t), DataOf(l, b)>>])
    BY <2>1, <2>2, <2>6, MergedThen
  <2>8. SortedTo(l, k, s, first, x, f[<<A, B>>])
    BY <1>2, <1>6, <1>7, <2>7 DEF x, t, B
  <2>9. MergeNodes(k, a[1], b[1]).list = first /\ MergeNodes(k, a[1], b[1]).head = x
    BY <1>4, <1>7 DEF Sorted, x
  <2> QED
    BY <2>8, <2>9 DEF A, B
<1>8. CASE ~ less
  <2> DEFINE x == b[1]
             t == Tail(b)
             d == <<x>>
  <2>1. /\ Parts(l, k, d, t, a) /\ k.next[x] = At(t, 1)
        /\ AllOf(d, t, a) = Members(b) \cup Members(a) /\ Count(d, t, a) = Len(b) + Len(a)
        /\ Len(t) = Len(b) - 1
    <3>1. Disjoint(b, a)
      BY DEF Disjoint
    <3> QED
      BY <1>1, <3>1, OneAhead
  <2>2. Len(d) = 1 /\ d[1] = x /\ x \in N
    BY <1>1
  <2>3. Len(a) + Len(t) <= Len(l.data)
    BY <1>1, <2>1
  <2>4. second = MergeBehind(k, d[Len(d)], At(a, 1), At(t, 1))
    BY <1>1, <2>1, <2>2 DEF second
  <2>5. AllOf(d, a, t) = Members(s) /\ Count(d, a, t) = Len(s)
    <3>1. AllOf(d, a, t) = AllOf(d, t, a)
      BY DEF AllOf
    <3>2. Count(d, a, t) = Len(a) + Len(b)
      BY <1>1, <2>1, <2>2 DEF Count
    <3> QED
      BY <2>1, <3>1, <3>2
  <2> HIDE DEF x, t
  <2>6. k.next[d[Len(d)]] \in {At(a, 1), At(t, 1)}
    BY <2>1, <2>2
  <2>7. Merged(l, f, k, d, a, t, second)
    <3> HIDE DEF d
    <3>1. Parts(l, k, d, a, t)
      BY <2>1, PartsFlip
    <3> QED
      BY <3>1, <2>3, <2>4, <2>6, MergeBehindIs
  <2>8. SortedTo(l, k, s, second, x, <<l.data[x]>> \o f[<<DataOf(l, a), DataOf(l, t)>>])
    BY <2>2, <2>5, <2>7, MergedThen
  <2>9. SortedTo(l, k, s, second, x, f[<<A, B>>])
    BY <1>2, <1>6, <1>8, <2>8 DEF x, t, A
  <2>10. MergeNodes(k, a[1], b[1]).list = second /\ MergeNodes(k, a[1], b[1]).head = x
    BY <1>4, <1>8 DEF Sorted, x
  <2> QED
    BY <2>9, <2>10 DEF A, B
<1> QED
  BY <1>7, <1>8

-----------------------------------------------------------------------------
(* Sorting chains *)

(* ChainUnmoved: a chain stays one when its nodes are left alone.          *)
LEMMA ChainUnmoved ==
  ASSUME NEW k, NEW r, NEW M, Unmoved(k, r, M), NEW s \in Seq(Nodes(k)), IsChain(k, s),
         Members(s) \cap M = {}
  PROVE  IsChain(r, s)
<1>1. \A p \in 1 .. Len(s) : s[p] \in Nodes(k) \ M
  <2>1. \A p \in 1 .. Len(s) : s[p] \in Members(s)
    BY DEF Members
  <2> QED
    BY <2>1, ElementOfSeq
<1>2. \A p \in 1 .. Len(s) : r.next[s[p]] = k.next[s[p]] /\ r.prev[s[p]] = k.prev[s[p]]
  BY <1>1 DEF Unmoved
<1>3. Len(s) \in Nat /\ (s # <<>> => Len(s) \in 1 .. Len(s))
      /\ \A p \in 1 .. Len(s) - 1 : p \in 1 .. Len(s) /\ p + 1 \in 1 .. Len(s)
  <2>1. Len(s) \in Nat /\ (s # <<>> => Len(s) # 0)
    OBVIOUS
  <2> QED
    BY <2>1
<1> QED
  BY <1>2, <1>3 DEF IsChain

(* The list r in which the chain s is split into a and b.                  *)
Halved(k, s, r, a, b) ==
  /\ IsChain(r, a) /\ IsChain(r, b) /\ Disjoint(a, b) /\ a # <<>> /\ b # <<>>
  /\ Members(s) = Members(a) \cup Members(b) /\ Len(s) = Len(a) + Len(b)
  /\ a[1] = s[1] /\ Unmoved(k, r, Members(s))

(* HalvesIs: the nodes before a split and those from it on.                *)
LEMMA HalvesIs ==
  ASSUME NEW l, NEW k, k \in Relinked(l), NEW s, s \in Seq(Nodes(l)), IsChain(k, s),
         NEW h \in 1 .. Len(s) - 1,
         NEW a, NEW b, a = SubSeq(s, 1, h), b = SubSeq(s, h + 1, Len(s))
  PROVE  /\ a \in Seq(Nodes(l)) /\ b \in Seq(Nodes(l)) /\ Len(a) = h /\ Len(b) = Len(s) - h
         /\ b[1] = s[h + 1] /\ Split(k, s[h + 1]) \in Relinked(l)
         /\ Halved(k, s, Split(k, s[h + 1]), a, b)
<1> DEFINE N == Nodes(l)
           n == Len(s)
           i == s[h + 1]
           r == Split(k, i)
<1>1. n \in Nat /\ h \in Nat \ {0} /\ h + 1 \in 1 .. n /\ h \in 1 .. n /\ n \in 1 .. n
  <2>1. Len(s) \in Nat
    OBVIOUS
  <2> QED
    BY <2>1
<1>2. /\ a \in Seq(N) /\ Len(a) = h /\ \A p \in 1 .. h : a[p] = s[p]
  <2> HIDE DEF N
  <2>1. s \in Seq(N)
    BY DEF N
  <2>2. 1 \in 1 .. Len(s) + 1 /\ h \in 1 - 1 .. Len(s) /\ h - 1 + 1 = h
    BY <1>1
  <2>3. /\ a \in Seq(N) /\ Len(a) = h - 1 + 1
        /\ \A p \in 1 .. h - 1 + 1 : a[p] = s[1 + p - 1]
    BY <2>1, <2>2, SubSeqIs
  <2>4. \A p \in 1 .. h : 1 + p - 1 = p
    BY <1>1
  <2> QED
    BY <2>2, <2>3, <2>4
<1>3. /\ b \in Seq(N) /\ Len(b) = n - h /\ \A p \in 1 .. n - h : b[p] = s[h + p]
  <2> HIDE DEF N
  <2>1. s \in Seq(N)
    BY DEF N
  <2> DEFINE m == h + 1
             e == n
  <2>2. m \in 1 .. Len(s) + 1 /\ e \in m - 1 .. Len(s) /\ e - m + 1 = n - h
    BY <1>1
  <2>3. b = SubSeq(s, m, e)
    OBVIOUS
  <2>4. \A p \in 1 .. n - h : m + p - 1 = h + p
    BY <1>1
  <2> HIDE DEF m, e
  <2>5. /\ SubSeq(s, m, e) \in Seq(N) /\ Len(SubSeq(s, m, e)) = e - m + 1
        /\ \A p \in 1 .. e - m + 1 : SubSeq(s, m, e)[p] = s[m + p - 1]
    <3>1. m \in 1 .. Len(s) + 1 /\ e \in m - 1 .. Len(s)
      BY <2>2
    <3> QED
      BY <2>1, <3>1, SubSeqIs
  <2> QED
    BY <2>2, <2>3, <2>4, <2>5
<1>4. /\ \A p, q \in 1 .. n : s[p] = s[q] => p = q
      /\ k.next[s[n]] = NULL
      /\ \A p \in 1 .. n - 1 : k.next[s[p]] = s[p + 1] /\ k.prev[s[p + 1]] = s[p]
  <2>1. s # <<>>
    BY <1>1
  <2> QED
    BY <2>1 DEF IsChain
<1>5. \A p \in 1 .. n : s[p] \in N
  BY ElementOfSeq
<1>6. k.prev[i] = s[h] /\ i \in N /\ s[h] \in N /\ s[h] # i
  BY <1>1, <1>4, <1>5
<1> HIDE DEF N
<1>7. /\ r \in Relinked(l)
      /\ \A m \in N : /\ r.next[m] = IF m = s[h] THEN NULL ELSE k.next[m]
                      /\ r.prev[m] = IF m = i THEN NULL ELSE k.prev[m]
  <2> DEFINE j == i
  <2> HIDE DEF j
  <2>1. k.prev[j] \in Nodes(l) /\ j \in Nodes(l) /\ k.prev[j] = s[h]
    BY <1>6 DEF j, N
  <2>2. /\ Split(k, j) \in Relinked(l)
        /\ \A m \in Nodes(l) :
             /\ Split(k, j).next[m] = IF m = k.prev[j] THEN NULL ELSE k.next[m]
             /\ Split(k, j).prev[m] = IF m = j THEN NULL ELSE k.prev[m]
    BY <2>1, SplitIs
  <2> QED
    BY <2>1, <2>2 DEF j, N
<1> HIDE DEF r
<1>8. IsChain(r, a)
  <2>1. \A p, q \in 1 .. Len(a) : a[p] = a[q] => p = q
    BY <1>1, <1>2, <1>4
  <2>2. r.next[a[Len(a)]] = NULL
    <3>1. a[Len(a)] = s[h]
      BY <1>1, <1>2
    <3> QED
      BY <1>6, <1>7, <3>1
  <2>3. ASSUME NEW p \in 1 .. Len(a) - 1
        PROVE  r.next[a[p]] = a[p + 1] /\ r.prev[a[p + 1]] = a[p]
    <3>1. /\ p \in 1 .. h /\ p + 1 \in 1 .. h /\ p \in 1 .. n - 1 /\ p \in 1 .. n
          /\ p + 1 \in 1 .. n /\ p # h /\ p + 1 # h + 1
      BY <1>1, <1>2
    <3>2. a[p] = s[p] /\ a[p + 1] = s[p + 1] /\ s[p] \in N /\ s[p + 1] \in N
      BY <1>2, <1>5, <3>1
    <3>3. s[p] # s[h] /\ s[p + 1] # i
      BY <1>1, <1>4, <3>1
    <3>4. k.next[s[p]] = s[p + 1] /\ k.prev[s[p + 1]] = s[p]
      BY <1>4, <3>1
    <3> QED
      BY <1>7, <3>2, <3>3, <3>4
  <2> QED
    BY <2>1, <2>2, <2>3 DEF IsChain
<1>9. IsChain(r, b)
  <2>1. ASSUME NEW p \in 1 .. Len(b), NEW q \in 1 .. Len(b), b[p] = b[q] PROVE p = q
    <3>1. s[h + p] = s[h + q] /\ h + p \in 1 .. n /\ h + q \in 1 .. n
      BY <1>1, <1>3, <2>1
    <3>2. h + p = h + q
      BY <1>4, <3>1
    <3> QED
      BY <1>1, <3>2
  <2>2. r.next[b[Len(b)]] = NULL
    <3>1. n - h \in 1 .. n - h /\ h + (n - h) = n
      BY <1>1
    <3>2. b[Len(b)] = s[n] /\ s[n] \in N
      BY <1>1, <1>3, <1>5, <3>1
    <3> QED
      BY <1>4, <1>7, <3>2
  <2>3. ASSUME NEW p \in 1 .. Len(b) - 1
        PROVE  r.next[b[p]] = b[p + 1] /\ r.prev[b[p + 1]] = b[p]
    <3>1. /\ p \in 1 .. n - h /\ p + 1 \in 1 .. n - h /\ h + p \in 1 .. n - 1 /\ h + p \in 1 .. n
          /\ (h + p) + 1 \in 1 .. n /\ h + p # h /\ (h + p) + 1 # h + 1 /\ h + (p + 1) = (h + p) + 1
      BY <1>1, <1>3
    <3>2. b[p] = s[h + p] /\ b[p + 1] = s[(h + p) + 1] /\ s[h + p] \in N /\ s[(h + p) + 1] \in N
      BY <1>3, <1>5, <3>1
    <3>3. s[h + p] # s[h] /\ s[(h + p) + 1] # i
      BY <1>1, <1>4, <3>1
    <3>4. k.next[s[h + p]] = s[(h + p) + 1] /\ k.prev[s[(h + p) + 1]] = s[h + p]
      BY <1>4, <3>1
    <3> QED
      BY <1>7, <3>2, <3>3, <3>4
  <2> QED
    BY <2>1, <2>2, <2>3 DEF IsChain
<1>10. Disjoint(a, b)
  <2>1. ASSUME NEW p \in 1 .. Len(a), NEW q \in 1 .. Len(b) PROVE a[p] # b[q]
    <3>1. p \in 1 .. n /\ h + q \in 1 .. n /\ p # h + q /\ p \in 1 .. h /\ q \in 1 .. n - h
      BY <1>1, <1>2, <1>3
    <3>2. a[p] = s[p] /\ b[q] = s[h + q]
      BY <1>2, <1>3, <3>1
    <3> QED
      BY <1>4, <3>1, <3>2
  <2> QED
    BY <2>1 DEF Disjoint
<1>11. Members(s) = Members(a) \cup Members(b)
  <2>1. ASSUME NEW p \in 1 .. n PROVE s[p] \in Members(a) \cup Members(b)
    <3>1. CASE p <= h
      <4>1. p \in 1 .. Len(a) /\ a[p] = s[p]
        BY <1>1, <1>2, <3>1
      <4> QED
        BY <4>1 DEF Members
    <3>2. CASE ~ (p <= h)
      <4>1. p - h \in 1 .. Len(b) /\ p - h \in 1 .. n - h /\ h + (p - h) = p
        BY <1>1, <1>3, <3>2
      <4>2. b[p - h] = s[p]
        BY <1>3, <4>1
      <4> QED
        BY <4>1, <4>2 DEF Members
    <3> QED
      BY <3>1, <3>2
  <2>2. ASSUME NEW p \in 1 .. Len(a) PROVE a[p] \in Members(s)
    <3>1. p \in 1 .. h /\ p \in 1 .. n
      BY <1>1, <1>2
    <3> QED
      BY <1>2, <3>1 DEF Members
  <2>3. ASSUME NEW p \in 1 .. Len(b) PROVE b[p] \in Members(s)
    <3>1. p \in 1 .. n - h /\ h + p \in 1 .. n
      BY <1>1, <1>3
    <3> QED
      BY <1>3, <3>1 DEF Members
  <2>4. Members(s) \subseteq Members(a) \cup Members(b)
    BY <2>1 DEF Members
  <2>5. Members(a) \subseteq Members(s)
    BY <2>2 DEF Members
  <2>6. Members(b) \subseteq Members(s)
    BY <2>3 DEF Members
  <2> QED
    BY <2>4, <2>5, <2>6
<1>12. Unmoved(k, r, Members(s))
  <2>1. Nodes(k) = N
    <3>1. Nodes(k) = Nodes(l)
      BY Fields
    <3> QED
      BY <3>1 DEF N
  <2>2. s[h] \in Members(s) /\ i \in Members(s)
    BY <1>1 DEF Members
  <2> QED
    BY <1>7, <2>1, <2>2 DEF Unmoved
<1>13. a # <<>> /\ b # <<>> /\ a[1] = s[1] /\ b[1] = s[h + 1]
  <2>1. 1 \in 1 .. h /\ 1 \in 1 .. n - h
    BY <1>1
  <2>2. a[1] = s[1] /\ b[1] = s[h + 1]
    BY <1>2, <1>3, <2>1
  <2>3. Len(a) # 0 /\ Len(b) # 0
    <3>1. h # 0 /\ n - h # 0
      BY <1>1
    <3>2. Len(a) = h /\ Len(b) = n - h
      BY <1>2, <1>3
    <3> QED
      BY <3>1, <3>2
  <2>4. a # <<>> /\ b # <<>>
    BY <2>3
  <2> QED
    BY <2>2, <2>4
<1>14. Len(s) = Len(a) + Len(b)
  BY <1>1, <1>2, <1>3
<1> QED
  BY <1>2, <1>3, <1>7, <1>8, <1>9, <1>10, <1>11, <1>12, <1>13, <1>14 DEF Halved, r, N

(* DataOfPart: the predicates of a part of a sequence of nodes.            *)
LEMMA DataOfPart ==
  ASSUME NEW l, NEW D, NEW N, Holds(l, N, D), NEW s, s \in Seq(N),
         NEW a \in 1 .. Len(s), NEW b \in a .. Len(s)
  PROVE  DataOf(l, SubSeq(s, a, b)) = SubSeq(DataOf(l, s), a, b)
<1> DEFINE t == SubSeq(s, a, b)
           d == DataOf(l, s)
           u == DataOf(l, t)
           w == SubSeq(d, a, b)
           m == b - a + 1
<1>1. Len(s) \in Nat /\ a \in 1 .. Len(s) + 1 /\ b \in a - 1 .. Len(s) /\ m \in Nat
  <2>1. Len(s) \in Nat
    OBVIOUS
  <2> QED
    BY <2>1
<1>2. /\ t \in Seq(N) /\ Len(t) = m /\ \A p \in 1 .. m : t[p] = s[a + p - 1]
  BY <1>1, SubSeqIs
<1>3. d \in Seq(D) /\ Len(d) = Len(s) /\ \A p \in 1 .. Len(s) : d[p] = l.data[s[p]]
  BY DataIs
<1> HIDE DEF d, t
<1>4. /\ w \in Seq(D) /\ Len(w) = m /\ \A p \in 1 .. m : w[p] = d[a + p - 1]
  <2>1. a \in 1 .. Len(d) + 1 /\ b \in a - 1 .. Len(d)
    BY <1>1, <1>3
  <2> QED
    BY <1>3, <2>1, SubSeqIs
<1>5. /\ u \in Seq(D) /\ Len(u) = Len(t) /\ \A p \in 1 .. Len(t) : u[p] = l.data[t[p]]
  <2>1. t \in Seq(N)
    BY <1>2
  <2> QED
    BY <2>1, DataIs
<1> HIDE DEF u, w
<1>6. ASSUME NEW p \in 1 .. m PROVE u[p] = w[p]
  <2>1. a + p - 1 \in 1 .. Len(s) /\ p \in 1 .. Len(t)
    BY <1>1, <1>2
  <2>2. w[p] = d[a + p - 1] /\ d[a + p - 1] = l.data[s[a + p - 1]]
    BY <1>3, <1>4, <2>1
  <2>3. u[p] = l.data[t[p]] /\ t[p] = s[a + p - 1]
    BY <1>2, <1>5, <2>1
  <2> QED
    BY <2>2, <2>3
<1>7. Len(u) = m /\ Len(w) = m
  BY <1>2, <1>4, <1>5
<1> HIDE DEF m
<1>8. Len(u) = Len(w) /\ \A p \in 1 .. Len(u) : u[p] = w[p]
  BY <1>6, <1>7
<1>9. u = w
  BY <1>4, <1>5, <1>8, SameSeq
<1> QED
  BY <1>9 DEF u, w, t, d

(* What a call of the sort is given, with s for the chain at its head, and *)
(* what it returns.                                                        *)
Given(l, c, s) ==
  /\ c.list \in Relinked(l) /\ c.head \in Nodes(l)
  /\ c = [list |-> c.list, head |-> c.head]
  /\ s \in Seq(Nodes(l)) /\ s # <<>> /\ IsChain(c.list, s) /\ c.head = s[1]
  /\ Len(s) <= Len(l.data)

Returns(l, g, c, s, r) == SortedTo(l, c.list, s, r.list, r.head, g[DataOf(l, s)])

(* One call of the sort, with h for the calls it makes.                    *)
SortOne(h, depth, c) ==
  LET middle == AfterMiddle(c.list, c.head)
      i      == middle.node
  IN  IF depth = 0 \/ i = NULL THEN c
      ELSE IF c.list.next[i] # NULL \/ middle.count > 1
        THEN LET first  == h[Sorted(Split(c.list, i), c.head)]
                 second == h[Sorted(first.list, i)]
             IN  MergeNodes(second.list, first.head, second.head)
      ELSE IF cmp(c.list, c.head, i) > 0 THEN Sorted(SwapTwo(c.list, c.head, i), i)
      ELSE c

(* LeftAlone: a chain whose predicates are in order already.               *)
LEMMA LeftAlone ==
  ASSUME NEW l, NEW g, NEW c, NEW s, Given(l, c, s), g[DataOf(l, s)] = DataOf(l, s)
  PROVE  Returns(l, g, c, s, c)
BY DEF Given, Returns, SortedTo, Unmoved

(* SwapSorts: two nodes that change places.                                *)
LEMMA SwapSorts ==
  ASSUME NEW l, NEW D, Sortable(l, D), NEW g, NEW c, NEW s, Given(l, c, s), Len(s) = 2,
         g[DataOf(l, s)] = <<l.data[s[2]], l.data[s[1]]>>
  PROVE  Returns(l, g, c, s, Sorted(SwapTwo(c.list, c.head, s[2]), s[2]))
<1> DEFINE N == Nodes(l)
           k == c.list
           x == s[1]
           y == s[2]
           r == SwapTwo(k, x, y)
           t == <<y, x>>
<1>1. /\ k \in Relinked(l) /\ s \in Seq(N) /\ IsChain(k, s) /\ c.head = x
  BY DEF Given
<1>2. 1 \in 1 .. Len(s) /\ 2 \in 1 .. Len(s) /\ 1 .. Len(s) = {1, 2}
  OBVIOUS
<1>3. x \in N /\ y \in N
  <2>1. \A p \in 1 .. Len(s) : s[p] \in N
    BY <1>1, ElementOfSeq
  <2> QED
    BY <1>2, <2>1
<1>4. x # y
  BY <1>1, <1>2 DEF IsChain
<1>5. /\ r \in Relinked(l)
      /\ \A m \in N :
           /\ r.next[m] = IF m = x THEN NULL ELSE IF m = y THEN x ELSE k.next[m]
           /\ r.prev[m] = IF m = y THEN NULL ELSE IF m = x THEN y ELSE k.prev[m]
  <2> HIDE DEF x, y, k
  <2> QED
    BY <1>1, <1>3, <1>4, SwapTwoIs
<1>6. t \in Seq(N) /\ Len(t) = 2 /\ t[1] = y /\ t[2] = x /\ t # <<>>
  BY <1>3
<1>7. Nodes(k) = N
  <2> HIDE DEF k
  <2> QED
    BY <1>1, Fields
<1>8. Members(s) = {x, y}
  BY <1>2 DEF Members
<1> HIDE DEF k, x, y, r, t
<1>9. IsChain(r, t)
  <2>1. \A p, q \in 1 .. Len(t) : t[p] = t[q] => p = q
    <3>1. 1 .. Len(t) = {1, 2}
      BY <1>6
    <3> QED
      BY <1>4, <1>6, <3>1
  <2>2. r.next[t[Len(t)]] = NULL
    BY <1>3, <1>5, <1>6
  <2>3. ASSUME NEW p \in 1 .. Len(t) - 1
        PROVE  r.next[t[p]] = t[p + 1] /\ r.prev[t[p + 1]] = t[p]
    <3>1. p = 1 /\ 1 + 1 = 2
      BY <1>6
    <3>2. r.next[y] = x /\ r.prev[x] = y
      BY <1>3, <1>4, <1>5
    <3> QED
      BY <1>6, <3>1, <3>2
  <2> QED
    BY <2>1, <2>2, <2>3 DEF IsChain
<1>10. Members(t) = {x, y}
  <2>1. 1 .. Len(t) = {1, 2}
    BY <1>6
  <2> QED
    BY <1>6, <2>1 DEF Members
<1>11. Unmoved(k, r, Members(s))
  BY <1>5, <1>7, <1>8 DEF Unmoved
<1>12. DataOf(l, t) = <<l.data[y], l.data[x]>>
  BY DEF DataOf, t
<1>13. DataOf(l, t) = g[DataOf(l, s)]
  BY <1>12 DEF x, y
<1>14. SortedTo(l, k, s, r, y, g[DataOf(l, s)])
  BY <1>5, <1>6, <1>8, <1>9, <1>10, <1>11, <1>13 DEF SortedTo, N
<1> QED
  BY <1>1, <1>14 DEF Returns, Sorted, k, r, x, y

(* h sorts every chain of at most m nodes.                                 *)
Calls(l, g, h, m) ==
  \A c, s : Given(l, c, s) /\ Len(s) <= m => Returns(l, g, c, s, h[c])

(* SplitSorts: both halves are sorted, and merged.                         *)
LEMMA SplitSorts ==
  ASSUME NEW l, NEW D, Sortable(l, D), NEW f, Merges(f, D), NEW g,
         NEW h, NEW m, m \in Nat, Calls(l, g, h, m), NEW c, NEW s, Given(l, c, s),
         NEW q, q \in 1 .. Len(s) - 1, q <= m, Len(s) - q <= m,
         NEW i, i = s[q + 1],
         NEW first, first = h[Sorted(Split(c.list, i), c.head)],
         NEW second, second = h[Sorted(first.list, i)],
         g[DataOf(l, s)] = f[<<g[SubSeq(DataOf(l, s), 1, q)],
                               g[SubSeq(DataOf(l, s), q + 1, Len(s))]>>]
  PROVE  Returns(l, g, c, s, MergeNodes(second.list, first.head, second.head))
<1> DEFINE N == Nodes(l)
           k == c.list
           r == Split(k, i)
           a == SubSeq(s, 1, q)
           b == SubSeq(s, q + 1, Len(s))
           ca == Sorted(r, c.head)
           cb == Sorted(first.list, i)
           S == DataOf(l, s)
<1>1. /\ Numbered(l) /\ Holds(l, N, D) /\ k \in Relinked(l) /\ s \in Seq(N) /\ IsChain(k, s)
      /\ c.head = s[1] /\ c.head \in N /\ Len(s) <= Len(l.data) /\ Len(l.data) \in Nat
      /\ Len(s) \in Nat
  BY DEF Given, Sortable, Numbered
<1>2. /\ a \in Seq(N) /\ b \in Seq(N) /\ Len(a) = q /\ Len(b) = Len(s) - q
      /\ b[1] = i /\ r \in Relinked(l) /\ Halved(k, s, r, a, b)
  <2> HIDE DEF k, a, b
  <2> HIDE DEF r
  <2>1. \A h1 \in 1 .. Len(s) - 1 : \A a1, b1 :
          a1 = SubSeq(s, 1, h1) /\ b1 = SubSeq(s, h1 + 1, Len(s)) =>
            /\ a1 \in Seq(Nodes(l)) /\ b1 \in Seq(Nodes(l)) /\ Len(a1) = h1 /\ Len(b1) = Len(s) - h1
            /\ b1[1] = s[h1 + 1] /\ Split(k, s[h1 + 1]) \in Relinked(l)
            /\ Halved(k, s, Split(k, s[h1 + 1]), a1, b1)
    BY <1>1, HalvesIs
  <2>2. a = SubSeq(s, 1, q) /\ b = SubSeq(s, q + 1, Len(s))
    BY DEF a, b
  <2>3. /\ a \in Seq(Nodes(l)) /\ b \in Seq(Nodes(l)) /\ Len(a) = q /\ Len(b) = Len(s) - q
        /\ b[1] = s[q + 1] /\ Split(k, s[q + 1]) \in Relinked(l)
        /\ Halved(k, s, Split(k, s[q + 1]), a, b)
    BY <2>1, <2>2
  <2> QED
    BY <2>3 DEF r
<1>3. /\ IsChain(r, a) /\ IsChain(r, b) /\ Disjoint(a, b) /\ a # <<>> /\ b # <<>>
      /\ Members(s) = Members(a) \cup Members(b) /\ Len(s) = Len(a) + Len(b)
      /\ a[1] = s[1] /\ Unmoved(k, r, Members(s))
  BY <1>2 DEF Halved
<1>4. Len(a) <= Len(l.data) /\ Len(b) <= Len(l.data) /\ Len(a) <= m /\ Len(b) <= m
  BY <1>1, <1>2
<1>5. q \in Nat /\ 1 \in 1 .. Len(s) /\ q \in 1 .. Len(s) /\ q + 1 \in 1 .. Len(s)
      /\ Len(s) \in q + 1 .. Len(s)
  BY <1>1
<1>6. DataOf(l, a) = SubSeq(S, 1, q) /\ DataOf(l, b) = SubSeq(S, q + 1, Len(s))
  <2>1. \A x \in 1 .. Len(s) : \A y \in x .. Len(s) :
          DataOf(l, SubSeq(s, x, y)) = SubSeq(DataOf(l, s), x, y)
    <3> HIDE DEF N
    <3> QED
      BY <1>1, DataOfPart
  <2>2. q \in 1 .. Len(s) /\ Len(s) \in q + 1 .. Len(s) /\ 1 \in 1 .. Len(s) /\ q + 1 \in 1 .. Len(s)
    BY <1>5
  <2> QED
    BY <2>1, <2>2
<1>7. Members(a) \cap Members(b) = {}
  BY <1>3 DEF Disjoint, Members
<1> HIDE DEF k, r, a, b, ca, cb, S
<1>8. PICK t \in Seq(Nodes(l)) :
         /\ t # <<>> /\ first.head = t[1] /\ IsChain(first.list, t) /\ first.list \in Relinked(l)
         /\ Members(t) = Members(a) /\ Len(t) = Len(a)
         /\ Unmoved(r, first.list, Members(a)) /\ DataOf(l, t) = g[DataOf(l, a)]
  <2>1. Given(l, ca, a)
    BY <1>1, <1>2, <1>3, <1>4 DEF Given, ca, Sorted
  <2>2. Returns(l, g, ca, a, first)
    BY <1>4, <2>1 DEF Calls, ca, r, k
  <2>3. ca.list = r
    BY DEF ca, Sorted
  <2> QED
    BY <2>2, <2>3 DEF Returns, SortedTo
<1>9. Nodes(k) = N /\ Nodes(r) = N /\ Nodes(first.list) = N
  BY <1>1, <1>2, <1>8, Fields
<1>10. IsChain(first.list, b)
  <2>1. b \in Seq(Nodes(r))
    BY <1>2, <1>9
  <2> QED
    BY <1>3, <1>7, <1>8, <2>1, ChainUnmoved
<1>11. PICK u \in Seq(Nodes(l)) :
         /\ u # <<>> /\ second.head = u[1] /\ IsChain(second.list, u) /\ second.list \in Relinked(l)
         /\ Members(u) = Members(b) /\ Len(u) = Len(b)
         /\ Unmoved(first.list, second.list, Members(b)) /\ DataOf(l, u) = g[DataOf(l, b)]
  <2>1. i \in N
    <3>1. b[1] \in N
      BY <1>2, <1>3, RestIs
    <3> QED
      BY <1>2, <3>1
  <2>2. Given(l, cb, b)
    BY <1>2, <1>3, <1>4, <1>8, <1>10, <2>1 DEF Given, cb, Sorted
  <2>3. Returns(l, g, cb, b, second)
    BY <1>4, <2>2 DEF Calls, cb
  <2>4. cb.list = first.list
    BY DEF cb, Sorted
  <2> QED
    BY <2>3, <2>4 DEF Returns, SortedTo
<1>12. IsChain(second.list, t)
  <2>1. t \in Seq(Nodes(first.list))
    BY <1>8, <1>9
  <2>2. Members(t) \cap Members(b) = {}
    BY <1>7, <1>8
  <2> QED
    BY <1>8, <1>11, <2>1, <2>2, ChainUnmoved
<1>13. Disjoint(t, u)
  <2>1. Members(t) \cap Members(u) = {}
    BY <1>7, <1>8, <1>11
  <2> QED
    BY <2>1 DEF Disjoint, Members
<1> DEFINE w == MergeNodes(second.list, t[1], u[1])
           z == second.list
<1> HIDE DEF w, z
<1>14. SortedTo(l, z, s, w.list, w.head, f[<<DataOf(l, t), DataOf(l, u)>>])
  <2>1. Members(s) = Members(t) \cup Members(u) /\ Len(s) = Len(t) + Len(u)
    BY <1>3, <1>8, <1>11
  <2>2. z \in Relinked(l) /\ IsChain(z, t) /\ IsChain(z, u)
    BY <1>11, <1>12 DEF z
  <2> QED
    BY <1>1, <1>8, <1>11, <1>13, <2>1, <2>2, MergeNodesIs DEF w, z
<1>15. f[<<DataOf(l, t), DataOf(l, u)>>] = g[S]
  BY <1>6, <1>8, <1>11 DEF S
<1>16. SortedTo(l, z, s, w.list, w.head, g[S])
  BY <1>14, <1>15
<1>17. Unmoved(k, z, Members(s))
  <2>1. /\ Unmoved(k, r, Members(s)) /\ Unmoved(r, first.list, Members(a))
        /\ Unmoved(first.list, z, Members(b))
    BY <1>3, <1>8, <1>11 DEF z
  <2>2. Members(s) = Members(a) \cup Members(b)
    BY <1>3
  <2>3. \A x \in N \ Members(s) :
          /\ z.next[x] = first.list.next[x] /\ z.prev[x] = first.list.prev[x]
          /\ first.list.next[x] = r.next[x] /\ first.list.prev[x] = r.prev[x]
          /\ r.next[x] = k.next[x] /\ r.prev[x] = k.prev[x]
    BY <1>9, <2>1, <2>2 DEF Unmoved
  <2>4. \A x \in N \ Members(s) : z.next[x] = k.next[x] /\ z.prev[x] = k.prev[x]
    BY <2>3
  <2> QED
    BY <1>9, <2>4 DEF Unmoved
<1>18. SortedTo(l, k, s, w.list, w.head, g[S])
  <2>1. Nodes(z) = N
    BY <1>11, Fields DEF z
  <2>2. PICK v \in Seq(Nodes(l)) :
          /\ v # <<>> /\ w.head = v[1] /\ IsChain(w.list, v) /\ w.list \in Relinked(l)
          /\ Members(v) = Members(s) /\ Len(v) = Len(s)
          /\ Unmoved(z, w.list, Members(s)) /\ DataOf(l, v) = g[S]
    BY <1>16 DEF SortedTo
  <2>3. Unmoved(k, w.list, Members(s))
    BY <1>9, <1>17, <2>1, <2>2 DEF Unmoved
  <2> QED
    BY <2>2, <2>3 DEF SortedTo
<1>19. w = MergeNodes(second.list, first.head, second.head)
  BY <1>8, <1>11 DEF w
<1> QED
  BY <1>18, <1>19 DEF Returns, k, S

(* CallsOn: calls on one node more.                                        *)
LEMMA CallsOn ==
  ASSUME NEW l, NEW D, Sortable(l, D), NEW f, Merges(f, D), NEW g, Sorts(g, f, D),
         NEW h, NEW m, m \in Nat, Calls(l, g, h, m), NEW c, NEW s, Given(l, c, s), Len(s) <= m + 1
  PROVE  Returns(l, g, c, s, SortOne(h, m + 1, c))
<1> DEFINE N == Nodes(l)
           k == c.list
           q == Half(s)
           middle == AfterMiddle(k, c.head)
           i == middle.node
           S == DataOf(l, s)
           n == Len(s)
<1>1. /\ Numbered(l) /\ Holds(l, N, D) /\ k \in Relinked(l) /\ s \in Seq(N) /\ IsChain(k, s)
      /\ s # <<>> /\ c.head = s[1] /\ Len(s) <= Len(l.data)
  BY DEF Given, Sortable
<1>2. i = At(s, q + 1) /\ middle.count = q
  <2> DEFINE e == Len(l.data)
  <2>1. e \in Nat /\ Nodes(l) = 1 .. e
    BY <1>1 DEF Numbered
  <2> HIDE DEF k
  <2>2. AfterMiddle(k, s[1]).node = At(s, Half(s) + 1) /\ AfterMiddle(k, s[1]).count = Half(s)
    <3>1. Len(l.data) = e /\ Len(s) <= e
      BY <1>1
    <3> HIDE DEF e
    <3> QED
      BY <1>1, <2>1, <3>1, MiddleIs
  <2> QED
    BY <1>1, <2>2
<1>3. /\ S \in Seq(D) /\ Len(S) = Len(s) /\ \A p \in 1 .. Len(s) : S[p] = l.data[s[p]]
  BY <1>1, DataIs
<1>4. g[S] = SortStep(g, f, S)
  BY <1>3 DEF Sorts
<1>5. n \in Nat \ {0}
  BY <1>1
<1>6. m + 1 # 0
  OBVIOUS
<1> HIDE DEF k, q, S
<1>7. CASE n = 1
  <2>1. q = 1
    BY <1>7 DEF Half, q
  <2>2. i = NULL
    <3>1. q + 1 \notin 1 .. Len(s)
      BY <1>7, <2>1
    <3> QED
      BY <1>2, <3>1 DEF At
  <2>3. g[S] = S
    BY <1>3, <1>4, <1>7 DEF SortStep
  <2>4. SortOne(h, m + 1, c) = c
    BY <2>2 DEF SortOne, k
  <2>5. Returns(l, g, c, s, c)
    BY <2>3, LeftAlone DEF S
  <2> QED
    BY <2>4, <2>5
<1>8. CASE n = 2
  <2>1. q = 1
    BY <1>8 DEF Half, q
  <2>2. 1 \in 1 .. Len(s) /\ 2 \in 1 .. Len(s) /\ 1 + 1 = 2 /\ 2 + 1 \notin 1 .. Len(s)
    BY <1>8
  <2>3. i = s[2] /\ i # NULL /\ k.next[i] = NULL /\ middle.count = 1
    <3>1. i = s[2]
      BY <1>2, <2>1, <2>2 DEF At
    <3>2. s[2] # NULL /\ k.next[s[2]] = At(s, 2 + 1)
      BY <1>1, <2>2, NextOf
    <3>3. At(s, 2 + 1) = NULL
      BY <2>2 DEF At
    <3> QED
      BY <1>2, <2>1, <3>1, <3>2, <3>3
  <2>4. cmp(k, c.head, i) = pred_cmp(S[1], S[2])
    <3>1. k.data = l.data
      BY <1>1, Fields
    <3> QED
      BY <1>1, <1>3, <2>2, <2>3, <3>1 DEF cmp
  <2> DEFINE more == pred_cmp(S[1], S[2]) > 0
  <2>5. /\ more => SortOne(h, m + 1, c) = Sorted(SwapTwo(k, c.head, i), i)
        /\ ~ more => SortOne(h, m + 1, c) = c
    BY <2>3, <2>4 DEF SortOne, k
  <2>6. /\ more => g[S] = <<S[2], S[1]>>
        /\ ~ more => g[S] = S
    BY <1>3, <1>4, <1>8 DEF SortStep
  <2> HIDE DEF more
  <2>7. CASE more
    <3>1. g[DataOf(l, s)] = <<l.data[s[2]], l.data[s[1]]>>
      BY <1>3, <2>2, <2>6, <2>7 DEF S
    <3>2. Returns(l, g, c, s, Sorted(SwapTwo(c.list, c.head, s[2]), s[2]))
      BY <1>8, <3>1, SwapSorts
    <3> QED
      BY <2>3, <2>5, <2>7, <3>2 DEF k
  <2>8. CASE ~ more
    <3>1. g[DataOf(l, s)] = DataOf(l, s)
      BY <2>6, <2>8 DEF S
    <3> QED
      BY <2>5, <2>8, <3>1, LeftAlone
  <2> QED
    BY <2>7, <2>8
<1>9. CASE ~ (n = 1) /\ ~ (n = 2)
  <2>1. /\ q \in 1 .. n - 1 /\ q <= m /\ n - q <= m /\ q > 1 /\ q \in Nat
    <3>1. \A e \in Nat \ {0} : ~ (e = 1) /\ ~ (e = 2) =>
            LET o == (e + 1) \div 2 IN o \in 1 .. e - 1 /\ o + 1 <= e /\ o > 1 /\ o \in Nat
      OBVIOUS
    <3>2. q = (n + 1) \div 2
      BY DEF Half, q
    <3>3. q \in 1 .. n - 1 /\ q + 1 <= n /\ q > 1 /\ q \in Nat
      BY <1>5, <1>9, <3>1, <3>2
    <3>4. n <= m + 1
      OBVIOUS
    <3> QED
      BY <1>5, <3>3, <3>4
  <2>2. i = s[q + 1] /\ i # NULL
    <3>1. q + 1 \in 1 .. Len(s)
      BY <1>5, <2>1
    <3>2. s[q + 1] # NULL
      BY <1>1, <3>1, NextOf
    <3> QED
      BY <1>2, <3>1, <3>2 DEF At
  <2> DEFINE first == h[Sorted(Split(c.list, i), c.head)]
             second == h[Sorted(first.list, i)]
  <2>3. middle.count > 1
    BY <1>2, <2>1
  <2>4. SortOne(h, m + 1, c) = MergeNodes(second.list, first.head, second.head)
    BY <2>2, <2>3 DEF SortOne, k
  <2>5. g[S] = f[<<g[SubSeq(S, 1, q)], g[SubSeq(S, q + 1, Len(s))]>>]
    <3>1. Half(S) = q
      BY <1>3 DEF Half, q
    <3>2. ~ (Len(S) <= 1) /\ ~ (Len(S) = 2)
      BY <1>3, <1>5, <1>9
    <3> QED
      BY <1>3, <1>4, <3>1, <3>2 DEF SortStep
  <2> HIDE DEF first, second, i
  <2>6. Returns(l, g, c, s, MergeNodes(second.list, first.head, second.head))
    BY <2>1, <2>2, <2>5, SplitSorts DEF S, first, second
  <2> QED
    BY <2>4, <2>6
<1> QED
  BY <1>7, <1>8, <1>9

(* The calls of a sort, whatever the depth.                                *)
Pairs(l) == [list : Relinked(l), head : Nodes(l)]

IsNodeSort(l, g, d) ==
  g = [depth \in 0 .. d |-> [c \in Pairs(l) |-> SortOne(g[depth - 1], depth, c)]]

(* NodeSortExists: the calls are well-founded.                             *)
LEMMA NodeSortExists ==
  ASSUME NEW l, NEW n \in Nat
  PROVE  \E g : IsNodeSort(l, g, n)
<1> DEFINE S == {i \in Nat : \E g : IsNodeSort(l, g, i)}
           P == Pairs(l)
<1>1. \A x, y, c : SortOne(x, 0, c) = SortOne(y, 0, c)
  BY DEF SortOne
<1>2. 0 \in S
  <2> DEFINE g == [depth \in 0 .. 0 |-> [c \in P |-> SortOne(0, depth, c)]]
  <2>1. IsNodeSort(l, g, 0)
    <3>1. \A depth \in 0 .. 0 : depth = 0
      OBVIOUS
    <3>2. g = [depth \in 0 .. 0 |-> [c \in P |-> SortOne(g[depth - 1], depth, c)]]
      <4>1. \A depth \in 0 .. 0 : \A c \in P : SortOne(0, depth, c) = SortOne(g[depth - 1], depth, c)
        BY <1>1, <3>1
      <4> QED
        BY <4>1
    <3> QED
      BY <3>2 DEF IsNodeSort
  <2> QED
    BY <2>1
<1>3. ASSUME NEW i \in Nat, i \in S PROVE i + 1 \in S
  <2>1. PICK g : IsNodeSort(l, g, i)
    BY <1>3
  <2> DEFINE calls(v, depth) == [c \in P |-> SortOne(v, depth, c)]
             u == [depth \in 0 .. i + 1 |-> IF depth = i + 1 THEN calls(g[i], i + 1) ELSE g[depth]]
  <2>2. \A depth \in 0 .. i : g[depth] = calls(g[depth - 1], depth)
    BY <2>1 DEF IsNodeSort
  <2>3. \A x, y : calls(x, 0) = calls(y, 0)
    BY <1>1
  <2> HIDE DEF calls
  <2>4. ASSUME NEW depth \in 0 .. i + 1 PROVE u[depth] = calls(u[depth - 1], depth)
    <3>1. CASE depth = i + 1
      <4>1. depth - 1 = i /\ i \in 0 .. i + 1 /\ i # i + 1
        BY <3>1
      <4> QED
        BY <3>1, <4>1
    <3>2. CASE depth # i + 1 /\ depth # 0
      <4>1. depth \in 0 .. i /\ depth - 1 \in 0 .. i + 1 /\ depth - 1 # i + 1
        BY <3>2
      <4> QED
        BY <2>2, <3>2, <4>1
    <3>3. CASE depth = 0
      <4>1. 0 \in 0 .. i /\ 0 # i + 1
        OBVIOUS
      <4> DEFINE x == g[0 - 1]
                 y == u[0 - 1]
      <4>2. u[0] = calls(x, 0)
        BY <2>2, <3>3, <4>1
      <4> HIDE DEF x, y
      <4>3. u[0] = calls(y, 0)
        BY <2>3, <4>2
      <4> QED
        BY <3>3, <4>3 DEF y
    <3> QED
      BY <3>1, <3>2, <3>3
  <2>5. u = [depth \in 0 .. i + 1 |-> u[depth]]
    OBVIOUS
  <2> HIDE DEF u
  <2>6. u = [depth \in 0 .. i + 1 |-> calls(u[depth - 1], depth)]
    BY <2>4, <2>5
  <2>7. IsNodeSort(l, u, i + 1)
    BY <2>6 DEF IsNodeSort, calls
  <2> QED
    BY <2>7
<1> HIDE DEF S
<1>4. Nat \subseteq S
  BY <1>2, <1>3, NatSetInduction
<1> QED
  BY <1>4 DEF S

(* SortNodesIs: nodelist_mergesort on nodes (ListSort) leaves a chain of   *)
(* the nodes it was given, prev the inverse of next, whose predicates are  *)
(* in the order that the sort on sequences gives, and does not touch the   *)
(* nodes outside of the chain.                                             *)
THEOREM SortNodesIs ==
  ASSUME NEW l, NEW D, Sortable(l, D), NEW f, Merges(f, D), NEW g, Sorts(g, f, D),
         NEW s, Given(l, Sorted(l, s[1]), s)
  PROVE  Returns(l, g, Sorted(l, s[1]), s, SortNodes(l, s[1]))
<1> DEFINE n == Len(l.data)
           sort == CHOOSE x : IsNodeSort(l, x, n)
           c0 == Sorted(l, s[1])
<1>1. SortNodes(l, s[1]) = sort[n][c0]
  BY DEF SortNodes, IsNodeSort, SortOne, Pairs
<1>2. n \in Nat
  BY DEF Sortable, Numbered
<1> HIDE DEF n
<1>3. IsNodeSort(l, sort, n)
  <2>1. \E x : IsNodeSort(l, x, n)
    BY <1>2, NodeSortExists
  <2> QED
    BY <2>1
<1> HIDE DEF sort, c0
<1>4. \A depth \in 0 .. n : \A c \in Pairs(l) : sort[depth][c] = SortOne(sort[depth - 1], depth, c)
  <2> DEFINE calls(v, depth) == [c \in Pairs(l) |-> SortOne(v, depth, c)]
  <2>1. sort = [depth \in 0 .. n |-> calls(sort[depth - 1], depth)]
    BY <1>3 DEF IsNodeSort
  <2> HIDE DEF calls
  <2>2. \A depth \in 0 .. n : sort[depth] = calls(sort[depth - 1], depth)
    BY <2>1
  <2>3. ASSUME NEW depth \in 0 .. n, NEW c \in Pairs(l), NEW v PROVE calls(v, depth)[c] = SortOne(v, depth, c)
    BY DEF calls
  <2> QED
    BY <2>2, <2>3
<1>5. \A c, t : Given(l, c, t) => c \in Pairs(l) /\ Len(t) \in Nat \ {0}
  <2>1. ASSUME NEW c, NEW t, Given(l, c, t) PROVE c \in Pairs(l) /\ Len(t) \in Nat \ {0}
    <3>1. c.list \in Relinked(l) /\ c.head \in Nodes(l) /\ c = [list |-> c.list, head |-> c.head]
      BY <2>1 DEF Given
    <3>2. c \in Pairs(l)
      BY <3>1 DEF Pairs
    <3>3. t \in Seq(Nodes(l)) /\ t # <<>>
      BY <2>1 DEF Given
    <3>4. Len(t) \in Nat \ {0}
      BY <3>3
    <3> QED
      BY <3>2, <3>4
  <2> QED
    BY <2>1
<1> DEFINE T == {d \in Nat : d <= n => Calls(l, g, sort[d], d)}
<1>6. 0 \in T
  <2>1. Calls(l, g, sort[0], 0)
    BY <1>5 DEF Calls
  <2> QED
    BY <2>1
<1>7. ASSUME NEW d \in Nat, d \in T PROVE d + 1 \in T
  <2> SUFFICES ASSUME d + 1 <= n PROVE Calls(l, g, sort[d + 1], d + 1)
    OBVIOUS
  <2>1. d <= n /\ d + 1 \in 0 .. n /\ (d + 1) - 1 = d
    BY <1>2
  <2> DEFINE h == sort[d]
  <2>2. Calls(l, g, h, d)
    BY <1>7, <2>1
  <2>3. \A c \in Pairs(l) : sort[d + 1][c] = SortOne(h, d + 1, c)
    BY <1>4, <2>1
  <2> HIDE DEF h
  <2>4. ASSUME NEW c, NEW t, Given(l, c, t), Len(t) <= d + 1
        PROVE  Returns(l, g, c, t, sort[d + 1][c])
    <3>1. Returns(l, g, c, t, SortOne(h, d + 1, c))
      BY <2>2, <2>4, CallsOn
    <3>2. c \in Pairs(l)
      BY <1>5, <2>4
    <3> QED
      BY <2>3, <3>1, <3>2
  <2> QED
    BY <2>4 DEF Calls
<1> HIDE DEF T
<1>8. Nat \subseteq T
  BY <1>6, <1>7, NatSetInduction
<1>9. Calls(l, g, sort[n], n)
  BY <1>2, <1>8 DEF T
<1>10. Len(s) <= n /\ Given(l, c0, s)
  BY DEF Given, c0, n
<1>11. Returns(l, g, c0, s, sort[n][c0])
  BY <1>9, <1>10 DEF Calls
<1> QED
  BY <1>1, <1>11 DEF c0

=============================================================================
