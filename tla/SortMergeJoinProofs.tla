------------------------- MODULE SortMergeJoinProofs -------------------------
(***************************************************************************)
(* The sort-merge join of any two columns, for any radix, any number of    *)
(* chunks and any limit of buckets.                                        *)
(*                                                                         *)
(* The calls of a radix sort nest: the range of one is the bucket its      *)
(* caller is at.  The invariant says of every call which of the two arrays *)
(* its buckets are in: outside of the bucket it waits for, all tuples of   *)
(* its range are settled there, by the chunks from its own on, and what is *)
(* left of that bucket is placed by all chunks.  Whatever the innermost    *)
(* call writes, to either array, stays within its own range, where no call *)
(* around it expects anything.                                             *)
(***************************************************************************)
EXTENDS SortMergeJoin, FiniteSetTheorems, FunctionTheorems, WellFoundedInduction, TLAPS

QI == INSTANCE QuickSortProofs

-----------------------------------------------------------------------------
(***************************************************************************)
(* A pass of a radix sort is described by where every tuple belongs.       *)
(* Below(V, c, v) counts the tuples of V that come, by the chunks from c   *)
(* on, before those with the value v there; these have the region from     *)
(* Below(V, c, v) to Below(V, c, v + 1) for themselves (Region).  A tuple  *)
(* in the region of its own value is placed, by the chunks from c on       *)
(* (Placed); when all are placed by the chunks from 0 on, the array is     *)
(* sorted.                                                                 *)
(***************************************************************************)

Below(V, c, v) == Cardinality({u \in V : Shifted(u.key, c) < v})

Region(V, c, v) == Extent(Below(V, c, v), Below(V, c, v + 1))

GroupOf(V, c, v) == {u \in V : Shifted(u.key, c) = v}

Placed(V, c, f, x) == f[x] \in V /\ x \in Within(Region(V, c, Shifted(f[x].key, c)))

(* The tuples of f at the positions S are placed, each of them once.       *)
Settled(V, c, f, S) ==
  /\ \A x \in S : Placed(V, c, f, x)
  /\ \A x, y \in S : f[x] = f[y] => x = y

(* The positions of a range whose tuples have a chunk.                     *)
WithChunk(f, c, r, p) == {x \in Within(r) : get_chunk(f[x].key, c) = p}

(* The value of the chunks from one on: that of the chunks above it, and   *)
(* its own.                                                                *)
Value(v, p) == v * Radix + p

(* A finite set of tuples whose keys fit in the chunks.                    *)
Keyed(V) ==
  /\ IsFiniteSet(V)
  /\ \A u \in V : u.key \in Nat /\ Shifted(u.key, FirstChunk + 1) = 0

-----------------------------------------------------------------------------
(* Least: a set of natural numbers has a least one.                        *)
LEMMA Least ==
  ASSUME NEW T \in SUBSET Nat, T # {}
  PROVE  \E x \in T : \A y \in T : x <= y
<1> DEFINE R == OpToRel(<, Nat)
<1>1. PICK x \in T : \A y \in T : ~ (<<y, x>> \in R)
  <2> HIDE DEF R
  <2> QED
    BY WFMin, NatLessThanWellFounded DEF R
<1>2. ASSUME NEW y \in T, y < x PROVE <<y, x>> \in R
  BY <1>2 DEF OpToRel
<1>3. \A y \in T : x \in Nat /\ y \in Nat /\ ~ (y < x)
  BY <1>1, <1>2
<1> HIDE DEF R
<1> QED
  BY <1>1, <1>3

(* NatSetInduction: induction, with a set in place of a predicate.         *)
LEMMA NatSetInduction ==
  ASSUME NEW S, 0 \in S, \A n \in Nat : n \in S => n + 1 \in S
  PROVE  Nat \subseteq S
<1> DEFINE T == {n \in Nat : n \notin S}
<1>1. CASE T # {}
  <2>1. PICK x \in T : \A y \in T : x <= y
    <3>1. T \in SUBSET Nat
      OBVIOUS
    <3> HIDE DEF T
    <3> QED
      BY <1>1, <3>1, Least
  <2>2. x # 0 /\ x \in Nat
    OBVIOUS
  <2>3. x - 1 \in T
    OBVIOUS
  <2> QED
    BY <2>1, <2>2, <2>3
<1> QED
  BY <1>1

(* Digits: what division by the radix splits a number into.                *)
LEMMA Digits ==
  ASSUME NEW h \in Nat
  PROVE  /\ h \div Radix \in Nat
         /\ h % Radix \in 0 .. Radix - 1
         /\ h = (h \div Radix) * Radix + (h % Radix)
<1>1. Radix \in Nat /\ Radix # 0
  BY ChunkAssumption
<1>2. \A r \in Nat : r # 0 => h \div r \in Nat /\ h % r \in 0 .. r - 1
  OBVIOUS
<1>3. \A r \in Nat : r # 0 => h = (h \div r) * r + (h % r)
  BY <1>2
<1> QED
  BY <1>1, <1>2, <1>3

(* ValuesInOrder: the values with the same chunks above follow one another.       *)
LEMMA ValuesInOrder ==
  ASSUME NEW v \in Nat
  PROVE  /\ \A p \in 0 .. Radix : Value(v, p) \in Nat
         /\ \A p \in 0 .. Radix - 1 : Value(v, p + 1) = Value(v, p) + 1
         /\ \A p, q \in 0 .. Radix : p <= q => Value(v, p) <= Value(v, q)
         /\ Value(v + 1, 0) = Value(v, Radix)
<1>1. Radix \in Nat /\ v * Radix \in Nat
  BY ChunkAssumption
<1>2. (v + 1) * Radix = v * Radix + Radix
  BY <1>1
<1> DEFINE b == v * Radix
<1> HIDE DEF b
<1>3. /\ b \in Nat /\ \A p : Value(v, p) = b + p
      /\ Value(v + 1, 0) = b + Radix
  BY <1>1, <1>2 DEF Value, b
<1> QED
  BY <1>1, <1>3

(* DigitsInOrder: a number comes before a value when its digits do.        *)
LEMMA DigitsInOrder ==
  ASSUME NEW h \in Nat, NEW v \in Nat, NEW p \in 0 .. Radix
  PROVE  /\ h < Value(v, p) <=> h \div Radix < v \/ (h \div Radix = v /\ h % Radix < p)
         /\ p < Radix => (h = Value(v, p) <=> h \div Radix = v /\ h % Radix = p)
<1> DEFINE a == h \div Radix
           d == h % Radix
           r == Radix
<1>1. a \in Nat /\ d \in 0 .. r - 1 /\ h = a * r + d /\ r \in Nat /\ p \in 0 .. r
  BY Digits, ChunkAssumption
<1> HIDE DEF a, d, r
<1>2. \A x, y, z \in Nat : x < y => x * z + z <= y * z
  OBVIOUS
<1>3. \A x, z \in Nat : x * z \in Nat
  OBVIOUS
<1>4. a < v => a * r + r <= v * r
  BY <1>1, <1>2
<1>5. v < a => v * r + r <= a * r
  BY <1>1, <1>2
<1>6. a * r \in Nat /\ v * r \in Nat
  BY <1>1, <1>3
<1> DEFINE ar == a * r
           vr == v * r
<1> HIDE DEF ar, vr
<1>7. /\ a < v => ar + r <= vr
      /\ v < a => vr + r <= ar
      /\ a = v => ar = vr
      /\ ar \in Nat /\ vr \in Nat /\ h = ar + d
  BY <1>1, <1>4, <1>5, <1>6 DEF ar, vr
<1>8. h < vr + p <=> a < v \/ (a = v /\ d < p)
  BY <1>1, <1>7
<1>9. p < r => (h = vr + p <=> a = v /\ d = p)
  BY <1>1, <1>7
<1> QED
  BY <1>8, <1>9 DEF a, d, r, vr, Value

(* ShiftedSteps: a key shifted by one chunk more is divided once more.     *)
LEMMA ShiftedSteps ==
  ASSUME NEW key \in Nat
  PROVE  /\ Shifted(key, 0) = key
         /\ \A c \in 0 .. FirstChunk : Shifted(key, c + 1) = Shifted(key, c) \div Radix
         /\ \A c \in 0 .. FirstChunk + 1 : Shifted(key, c) \in Nat
<1> DEFINE D == 0 .. FirstChunk + 1
           Eq(g, N) == /\ g \in [0 .. N -> Nat]
                       /\ \A c \in 0 .. N : g[c] = IF c = 0 THEN key ELSE g[c - 1] \div Radix
           S == {n \in Nat : \E g : Eq(g, n)}
<1>0. FirstChunk \in Nat /\ Radix \in Nat /\ Radix # 0
  BY ChunkAssumption
<1>1. 0 \in S
  <2> DEFINE g == [c \in 0 .. 0 |-> key]
  <2>1. Eq(g, 0)
    OBVIOUS
  <2> QED
    BY <2>1
<1>2. ASSUME NEW n \in Nat, n \in S PROVE n + 1 \in S
  <2>1. PICK g : Eq(g, n)
    BY <1>2
  <2> DEFINE h == [c \in 0 .. n + 1 |-> IF c <= n THEN g[c] ELSE g[n] \div Radix]
  <2>2. g[n] \div Radix \in Nat
    BY <2>1, Digits
  <2>3. Eq(h, n + 1)
    BY <1>0, <2>1, <2>2
  <2> HIDE DEF h, Eq
  <2> QED
    BY <2>3
<1>3. PICK g : Eq(g, FirstChunk + 1)
  <2> HIDE DEF S
  <2>1. FirstChunk + 1 \in S
    BY <1>0, <1>1, <1>2, NatSetInduction
  <2> QED
    BY <2>1 DEF S
<1> DEFINE f == CHOOSE f : f = [c \in D |-> IF c = 0 THEN key ELSE f[c - 1] \div Radix]
<1>4. g = [c \in D |-> IF c = 0 THEN key ELSE g[c - 1] \div Radix]
  BY <1>3
<1>5. f = [c \in D |-> IF c = 0 THEN key ELSE f[c - 1] \div Radix]
  <2> HIDE DEF Eq
  <2> QED
    BY <1>4
<1>6. \A c : Shifted(key, c) = f[c]
  BY DEF Shifted
<1> HIDE DEF f, Eq
<1>7. /\ f[0] = key
      /\ \A c \in 0 .. FirstChunk : f[c + 1] = f[c] \div Radix
  BY <1>0, <1>5
<1> DEFINE T == {c \in Nat : c <= FirstChunk + 1 => f[c] \in Nat}
<1>8. Nat \subseteq T
  <2>1. 0 \in T
    BY <1>7
  <2>2. ASSUME NEW c \in Nat, c \in T PROVE c + 1 \in T
    BY <1>0, <1>7, <2>2
  <2> HIDE DEF T
  <2> QED
    BY <2>1, <2>2, NatSetInduction
<1> QED
  BY <1>0, <1>6, <1>7, <1>8

(* Chunks: the chunk of a key and what is above it are the digits of what  *)
(* is left when the chunks below are shifted out.                          *)
LEMMA Chunks ==
  ASSUME NEW key \in Nat, NEW c \in 0 .. FirstChunk
  PROVE  /\ Shifted(key, c) \in Nat /\ Shifted(key, c + 1) \in Nat
         /\ get_chunk(key, c) \in 0 .. Radix - 1
         /\ \A v \in Nat, p \in 0 .. Radix :
              /\ Shifted(key, c) < Value(v, p) <=>
                   \/ Shifted(key, c + 1) < v
                   \/ Shifted(key, c + 1) = v /\ get_chunk(key, c) < p
              /\ p < Radix =>
                   (Shifted(key, c) = Value(v, p) <=>
                      Shifted(key, c + 1) = v /\ get_chunk(key, c) = p)
<1> DEFINE h == Shifted(key, c)
<1>1. h \in Nat /\ Shifted(key, c + 1) = h \div Radix /\ get_chunk(key, c) = h % Radix
  BY ShiftedSteps, ChunkAssumption DEF get_chunk
<1> HIDE DEF h
<1>2. /\ h \div Radix \in Nat /\ h % Radix \in 0 .. Radix - 1
      /\ \A v \in Nat, p \in 0 .. Radix :
           /\ h < Value(v, p) <=> h \div Radix < v \/ (h \div Radix = v /\ h % Radix < p)
           /\ p < Radix => (h = Value(v, p) <=> h \div Radix = v /\ h % Radix = p)
  BY <1>1, Digits, DigitsInOrder
<1> QED
  BY <1>1, <1>2, Zenon DEF h

(* ChunkOf: the value of a chunk and of those above it, taken apart.       *)
LEMMA ChunkOf ==
  ASSUME NEW key \in Nat, NEW c \in 0 .. FirstChunk, NEW v \in Nat, NEW p \in 0 .. Radix - 1
  PROVE  /\ Shifted(key, c) = Value(v, p) =>
              Shifted(key, c + 1) = v /\ get_chunk(key, c) = p
         /\ Shifted(key, c + 1) = v /\ get_chunk(key, c) = p =>
              Shifted(key, c) = Value(v, p)
<1>1. p \in 0 .. Radix /\ p < Radix
  BY ChunkAssumption
<1>2. Shifted(key, c) = Value(v, p) => Shifted(key, c + 1) = v
  BY <1>1, Chunks
<1>3. Shifted(key, c) = Value(v, p) => get_chunk(key, c) = p
  BY <1>1, Chunks
<1>4. Shifted(key, c + 1) = v /\ get_chunk(key, c) = p => Shifted(key, c) = Value(v, p)
  BY <1>1, Chunks
<1> QED
  BY <1>2, <1>3, <1>4

(* ShiftedInOrder: shifting keeps the order of keys.                       *)
LEMMA ShiftedInOrder ==
  ASSUME NEW a \in Nat, NEW b \in Nat, a <= b, NEW c \in 0 .. FirstChunk + 1
  PROVE  Shifted(a, c) <= Shifted(b, c)
<1> DEFINE S == {n \in Nat : n <= FirstChunk + 1 => Shifted(a, n) <= Shifted(b, n)}
<1>0. FirstChunk \in Nat /\ Radix \in Nat \ {0}
  BY ChunkAssumption
<1>1. 0 \in S
  BY ShiftedSteps
<1>2. ASSUME NEW n \in Nat, n \in S PROVE n + 1 \in S
  <2> SUFFICES ASSUME n + 1 <= FirstChunk + 1 PROVE Shifted(a, n + 1) <= Shifted(b, n + 1)
    OBVIOUS
  <2>1. n \in 0 .. FirstChunk /\ Shifted(a, n) <= Shifted(b, n)
    BY <1>0, <1>2
  <2> DEFINE x == Shifted(a, n)
             y == Shifted(b, n)
             v == Shifted(a, n + 1)
             w == Shifted(b, n + 1)
  <2>2. x \in Nat /\ y \in Nat /\ v \in Nat /\ w \in Nat
    BY <2>1, Chunks
  <2> DEFINE da == get_chunk(a, n)
             db == get_chunk(b, n)
  <2>0. 0 \in 0 .. Radix /\ da \in Nat /\ db \in Nat
    BY <1>0, <2>1, Chunks
  <2>3. x < Value(v, 0) <=> v < v \/ (v = v /\ da < 0)
    BY <2>0, <2>1, <2>2, Chunks
  <2>4. y < Value(v, 0) <=> w < v \/ (w = v /\ db < 0)
    BY <2>0, <2>1, <2>2, Chunks
  <2>5. Value(v, 0) \in Nat
    BY <1>0, <2>2, ValuesInOrder
  <2> HIDE DEF x, y, v, w, da, db
  <2> QED
    BY <2>0, <2>1, <2>2, <2>3, <2>4, <2>5 DEF x, y, v, w
<1> HIDE DEF S
<1>3. Nat \subseteq S
  BY <1>1, <1>2, NatSetInduction
<1> QED
  BY <1>0, <1>3 DEF S

-----------------------------------------------------------------------------
(* Counted: how many tuples come before a value, and how the values that   *)
(* follow add to them.                                                     *)
LEMMA Counted ==
  ASSUME NEW V, Keyed(V), NEW c \in 0 .. FirstChunk + 1, NEW v \in Nat, NEW w \in Nat, v <= w
  PROVE  /\ Below(V, c, 0) = 0
         /\ Below(V, c, v) \in Nat
         /\ Below(V, c, v) <= Cardinality(V)
         /\ Cardinality({u \in V : v <= Shifted(u.key, c) /\ Shifted(u.key, c) < w}) \in Nat
         /\ Below(V, c, w) = Below(V, c, v)
              + Cardinality({u \in V : v <= Shifted(u.key, c) /\ Shifted(u.key, c) < w})
<1> DEFINE A == {u \in V : Shifted(u.key, c) < v}
           B == {u \in V : v <= Shifted(u.key, c) /\ Shifted(u.key, c) < w}
           C == {u \in V : Shifted(u.key, c) < w}
           N == {u \in V : Shifted(u.key, c) < 0}
<1>0. \A u \in V : Shifted(u.key, c) \in Nat
  BY ShiftedSteps DEF Keyed
<1>1. IsFiniteSet(V) /\ A \in SUBSET V /\ B \in SUBSET V
  BY DEF Keyed
<1>2. C = A \cup B /\ A \cap B = {} /\ N = {}
  BY <1>0
<1> HIDE DEF A, B, C, N
<1>3. IsFiniteSet(A) /\ IsFiniteSet(B) /\ Cardinality(A) <= Cardinality(V)
  BY <1>1, FS_Subset
<1>4. Cardinality(A) \in Nat /\ Cardinality(B) \in Nat /\ Cardinality({}) = 0
  BY <1>3, FS_CardinalityType, FS_EmptySet
<1>5. Cardinality(C) = Cardinality(A) + Cardinality(B) - Cardinality(A \cap B)
  BY <1>2, <1>3, FS_Union
<1>6. Cardinality(A \cap B) = 0 /\ Cardinality(N) = 0
  BY <1>2, <1>4
<1>7. Cardinality(C) = Cardinality(A) + Cardinality(B)
  BY <1>4, <1>5, <1>6
<1> QED
  BY <1>3, <1>4, <1>6, <1>7 DEF A, B, C, N, Below

(* RegionSize: a value has a region as long as there are tuples with it.   *)
LEMMA RegionSize ==
  ASSUME NEW V, Keyed(V), NEW c \in 0 .. FirstChunk + 1, NEW v \in Nat
  PROVE  /\ IsFiniteSet(GroupOf(V, c, v)) /\ Cardinality(GroupOf(V, c, v)) \in Nat
         /\ Below(V, c, v) \in Nat /\ Below(V, c, v + 1) \in Nat
         /\ Below(V, c, v + 1) = Below(V, c, v) + Cardinality(GroupOf(V, c, v))
<1>1. GroupOf(V, c, v) = {u \in V : v <= Shifted(u.key, c) /\ Shifted(u.key, c) < v + 1}
  BY ShiftedSteps DEF GroupOf, Keyed
<1>2. IsFiniteSet(GroupOf(V, c, v))
  BY FS_Subset DEF GroupOf, Keyed
<1> QED
  BY <1>1, <1>2, Counted

(* RegionsApart: the regions of two values share no position.              *)
LEMMA RegionsApart ==
  ASSUME NEW V, Keyed(V), NEW c \in 0 .. FirstChunk + 1, NEW v \in Nat, NEW w \in Nat,
         NEW x, x \in Within(Region(V, c, v)), x \in Within(Region(V, c, w))
  PROVE  v = w
<1>1. ASSUME NEW a \in Nat, NEW b \in Nat, a < b, x \in Within(Region(V, c, a)),
             x \in Within(Region(V, c, b))
      PROVE  FALSE
  <2> DEFINE s == a + 1
             more == Cardinality({u \in V : s <= Shifted(u.key, c) /\ Shifted(u.key, c) < b})
  <2>0. s \in Nat /\ s <= b
    BY <1>1
  <2>1. /\ Below(V, c, s) \in Nat /\ more \in Nat
        /\ Below(V, c, b) = Below(V, c, s) + more
    <3> HIDE DEF s
    <3> QED
      BY <2>0, Counted
  <2>2. x \in Below(V, c, a) .. Below(V, c, a + 1) - 1
        /\ x \in Below(V, c, b) .. Below(V, c, b + 1) - 1
    BY <1>1 DEF Within, Region, Extent
  <2>3. Below(V, c, s) <= Below(V, c, b)
    <3> HIDE DEF more, s
    <3> QED
      BY <2>1
  <2> QED
    BY <2>1, <2>2, <2>3
<1> QED
  BY <1>1

(* BelowUp: the tuples before a value of the chunks above a chunk are      *)
(* those before its first value with the chunk.                            *)
LEMMA BelowUp ==
  ASSUME NEW V, Keyed(V), NEW c \in 0 .. FirstChunk, NEW v \in Nat
  PROVE  /\ Below(V, c + 1, v) = Below(V, c, Value(v, 0))
         /\ Below(V, c + 1, v + 1) = Below(V, c, Value(v, Radix))
<1>1. Radix \in Nat \ {0}
  BY ChunkAssumption
<1>2. ASSUME NEW u \in V
      PROVE  /\ Shifted(u.key, c + 1) < v <=> Shifted(u.key, c) < Value(v, 0)
             /\ Shifted(u.key, c + 1) < v + 1 <=> Shifted(u.key, c) < Value(v, Radix)
  <2>1. u.key \in Nat
    BY DEF Keyed
  <2> DEFINE h == Shifted(u.key, c)
             a == Shifted(u.key, c + 1)
             d == get_chunk(u.key, c)
  <2>2. /\ h < Value(v, 0) <=> a < v \/ (a = v /\ d < 0)
        /\ h < Value(v, Radix) <=> a < v \/ (a = v /\ d < Radix)
    <3>1. 0 \in 0 .. Radix /\ Radix \in 0 .. Radix
      BY <1>1
    <3> QED
      BY <2>1, <3>1, Chunks
  <2>3. h \in Nat /\ a \in Nat /\ d \in 0 .. Radix - 1
    BY <2>1, Chunks
  <2> HIDE DEF h, a, d
  <2> QED
    BY <1>1, <2>2, <2>3 DEF h, a
<1> QED
  BY <1>2 DEF Below

(* BelowGrows: a greater value has no fewer tuples before it.              *)
LEMMA BelowGrows ==
  ASSUME NEW V, Keyed(V), NEW c \in 0 .. FirstChunk + 1, NEW v \in Nat, NEW w \in Nat, v <= w
  PROVE  /\ Below(V, c, v) \in Nat /\ Below(V, c, w) \in Nat
         /\ Below(V, c, v) <= Below(V, c, w)
<1> DEFINE more == Cardinality({u \in V : v <= Shifted(u.key, c) /\ Shifted(u.key, c) < w})
<1>1. Below(V, c, v) \in Nat /\ more \in Nat /\ Below(V, c, w) = Below(V, c, v) + more
  BY Counted
<1> HIDE DEF more
<1> QED
  BY <1>1

(* RegionInside: the region of a value is inside that of the chunks above. *)
LEMMA RegionInside ==
  ASSUME NEW V, Keyed(V), NEW c \in 0 .. FirstChunk, NEW v \in Nat, NEW p \in 0 .. Radix - 1
  PROVE  /\ Value(v, p) \in Nat /\ Value(v, p) + 1 = Value(v, p + 1)
         /\ Below(V, c + 1, v) \in Nat /\ Below(V, c + 1, v + 1) \in Nat
         /\ Below(V, c, Value(v, p)) \in Nat /\ Below(V, c, Value(v, p) + 1) \in Nat
         /\ Below(V, c + 1, v) <= Below(V, c, Value(v, p))
         /\ Below(V, c, Value(v, p) + 1) <= Below(V, c + 1, v + 1)
<1>0. Radix \in Nat /\ c \in 0 .. FirstChunk + 1
  BY ChunkAssumption
<1>1. /\ 0 \in 0 .. Radix /\ p \in 0 .. Radix /\ p + 1 \in 0 .. Radix /\ Radix \in 0 .. Radix
      /\ 0 <= p /\ p + 1 <= Radix
  BY <1>0
<1>2. Value(v, p + 1) = Value(v, p) + 1
  BY ValuesInOrder
<1>3. \A q \in 0 .. Radix : Value(v, q) \in Nat
  BY ValuesInOrder
<1>4. \A q, n \in 0 .. Radix : q <= n => Value(v, q) <= Value(v, n)
  BY ValuesInOrder
<1>5. Value(v, 0) <= Value(v, p) /\ Value(v, p + 1) <= Value(v, Radix)
  BY <1>1, <1>4
<1>6. /\ Below(V, c, Value(v, 0)) <= Below(V, c, Value(v, p))
      /\ Below(V, c, Value(v, 0)) \in Nat /\ Below(V, c, Value(v, p)) \in Nat
  BY <1>0, <1>1, <1>3, <1>5, BelowGrows
<1>7. /\ Below(V, c, Value(v, p + 1)) <= Below(V, c, Value(v, Radix))
      /\ Below(V, c, Value(v, p + 1)) \in Nat /\ Below(V, c, Value(v, Radix)) \in Nat
  BY <1>0, <1>1, <1>3, <1>5, BelowGrows
<1> QED
  BY <1>1, <1>2, <1>3, <1>6, <1>7, BelowUp

(* Coarser: what is placed by the chunks from one on is placed by those    *)
(* above it.                                                               *)
LEMMA Coarser ==
  ASSUME NEW V, Keyed(V), NEW c \in 0 .. FirstChunk, NEW f, NEW x, Placed(V, c, f, x)
  PROVE  Placed(V, c + 1, f, x)
<1> DEFINE h == Shifted(f[x].key, c)
           a == Shifted(f[x].key, c + 1)
           d == get_chunk(f[x].key, c)
<1>0. f[x] \in V /\ f[x].key \in Nat /\ x \in Below(V, c, h) .. Below(V, c, h + 1) - 1
  BY DEF Keyed, Placed, Within, Region, Extent
<1>1. h \in Nat /\ a \in Nat /\ d \in 0 .. Radix - 1
  BY <1>0, Chunks
<1>2. h = Value(a, d)
  <2>1. d \in 0 .. Radix /\ d < Radix
    BY <1>1, ChunkAssumption
  <2> QED
    BY <1>0, <1>1, <2>1, Chunks, ZenonT(40)
<1> HIDE DEF h, a, d
<1>3. /\ Below(V, c + 1, a) <= Below(V, c, h) /\ Below(V, c, h + 1) <= Below(V, c + 1, a + 1)
      /\ Below(V, c + 1, a) \in Nat /\ Below(V, c, h) \in Nat
      /\ Below(V, c, h + 1) \in Nat /\ Below(V, c + 1, a + 1) \in Nat
  BY <1>1, <1>2, RegionInside
<1>4. x \in Below(V, c + 1, a) .. Below(V, c + 1, a + 1) - 1
  BY <1>0, <1>3
<1> QED
  BY <1>0, <1>4 DEF Placed, Within, Region, Extent, a

(* InRegion: only tuples with the value are placed in its region.          *)
LEMMA InRegion ==
  ASSUME NEW V, Keyed(V), NEW c \in 0 .. FirstChunk + 1, NEW v \in Nat, NEW f,
         NEW x \in Within(Region(V, c, v)), Placed(V, c, f, x)
  PROVE  f[x] \in GroupOf(V, c, v)
<1>1. f[x] \in V /\ Shifted(f[x].key, c) \in Nat
  BY ShiftedSteps DEF Placed, Keyed
<1>2. Shifted(f[x].key, c) = v
  BY <1>1, RegionsApart DEF Placed
<1> QED
  BY <1>1, <1>2 DEF GroupOf

(* Filled: when all of a region is settled it holds all the tuples with    *)
(* its value.                                                              *)
LEMMA Filled ==
  ASSUME NEW V, Keyed(V), NEW c \in 0 .. FirstChunk + 1, NEW v \in Nat, NEW f,
         Settled(V, c, f, Within(Region(V, c, v)))
  PROVE  {f[x] : x \in Within(Region(V, c, v))} = GroupOf(V, c, v)
<1> DEFINE R == Within(Region(V, c, v))
           G == GroupOf(V, c, v)
           g == [x \in R |-> f[x]]
<1>1. \A x \in R : f[x] \in G
  BY InRegion DEF Settled
<1>2. \A x, y \in R : f[x] = f[y] => x = y
  BY DEF Settled
<1>3. IsFiniteSet(G) /\ Cardinality(R) = Cardinality(G)
  <2> DEFINE a == Below(V, c, v)
             b == Below(V, c, v + 1)
  <2>1. IsFiniteSet(G) /\ a \in Nat /\ b \in Nat /\ b = a + Cardinality(G)
        /\ Cardinality(G) \in Nat
    BY RegionSize
  <2>2. R = a .. b - 1
    BY DEF Within, Region, Extent
  <2> HIDE DEF a, b, R, G
  <2>3. a \in Int /\ b - 1 \in Int
    BY <2>1
  <2>4. Cardinality(a .. b - 1) = IF a > b - 1 THEN 0 ELSE (b - 1) - a + 1
    BY <2>3, FS_Interval
  <2> QED
    BY <2>1, <2>2, <2>4
<1> HIDE DEF R, G
<1>4. g \in [R -> G] /\ \A x, y \in R : g[x] = g[y] => x = y
  BY <1>1, <1>2
<1> HIDE DEF g
<1>5. g \in Injection(R, G)
  BY <1>4, Fun_IsInj
<1>6. g \in Surjection(R, G)
  BY <1>3, <1>5, FS_Injection
<1>7. \A t \in G : \E x \in R : g[x] = t
  BY <1>6 DEF Surjection
<1>8. \A t \in G : \E x \in R : f[x] = t
  BY <1>7 DEF g
<1> QED
  BY <1>1, <1>8 DEF R, G

(* Joined: a settled region next to settled positions.                     *)
LEMMA Joined ==
  ASSUME NEW V, Keyed(V), NEW c \in 0 .. FirstChunk + 1, NEW v \in Nat, NEW f, NEW S,
         Settled(V, c, f, Within(Region(V, c, v))), Settled(V, c, f, S \ Within(Region(V, c, v)))
  PROVE  Settled(V, c, f, S)
<1> DEFINE R == Within(Region(V, c, v))
<1>1. \A x \in S : Placed(V, c, f, x)
  BY DEF Settled
<1>2. ASSUME NEW x \in S, NEW y \in S, f[x] = f[y], x \in R, y \notin R PROVE FALSE
  <2>1. Shifted(f[x].key, c) = v /\ f[y] \in V
    BY <1>1, <1>2, InRegion DEF GroupOf, Placed
  <2>2. y \in Within(Region(V, c, v))
    BY <1>1, <1>2, <2>1 DEF Placed
  <2> QED
    BY <1>2, <2>2
<1>3. \A x, y \in S : f[x] = f[y] => x = y
  BY <1>2 DEF Settled
<1> QED
  BY <1>1, <1>3 DEF Settled

-----------------------------------------------------------------------------
(* RunningSumIs: the sum in front of a prefix grows by its histogram.      *)
LEMMA RunningSumIs ==
  ASSUME NEW h, NEW f \in [0 .. Radix -> Int], f[0] = 0,
         \A p \in 0 .. Radix - 1 : f[p + 1] = f[p] + h[p]
  PROVE  \A p \in 0 .. Radix : RunningSum(h)[p] = f[p]
<1> DEFINE g == RunningSum(h)
<1>0. Radix \in Nat
  BY ChunkAssumption
<1>1. f = [p \in 0 .. Radix |-> IF p = 0 THEN 0 ELSE f[p - 1] + h[p - 1]]
  <2>1. ASSUME NEW p \in 0 .. Radix PROVE f[p] = IF p = 0 THEN 0 ELSE f[p - 1] + h[p - 1]
    <3>1. CASE p # 0
      <4>1. p - 1 \in 0 .. Radix - 1 /\ (p - 1) + 1 = p
        BY <1>0, <3>1
      <4> QED
        BY <3>1, <4>1
    <3> QED
      BY <3>1
  <2> QED
    BY <2>1
<1>2. g = [p \in 0 .. Radix |-> IF p = 0 THEN 0 ELSE g[p - 1] + h[p - 1]]
  BY <1>1 DEF RunningSum
<1> HIDE DEF g
<1> DEFINE S == {p \in Nat : p <= Radix => g[p] = f[p]}
<1>3. 0 \in S
  BY <1>0, <1>2
<1>4. ASSUME NEW p \in Nat, p \in S PROVE p + 1 \in S
  <2> SUFFICES ASSUME p + 1 <= Radix PROVE g[p + 1] = f[p + 1]
    OBVIOUS
  <2>1. p \in 0 .. Radix - 1 /\ p + 1 \in 0 .. Radix /\ p + 1 # 0 /\ (p + 1) - 1 = p
    BY <1>0
  <2>2. g[p + 1] = g[(p + 1) - 1] + h[(p + 1) - 1]
    BY <1>2, <2>1
  <2>3. g[p + 1] = g[p] + h[p] /\ g[p] = f[p]
    BY <1>0, <1>4, <2>1, <2>2
  <2> QED
    BY <2>1, <2>3
<1> HIDE DEF S
<1>5. Nat \subseteq S
  BY <1>3, <1>4, NatSetInduction
<1> QED
  BY <1>0, <1>5 DEF S, g

(* ByChunk: the tuples of a settled region that have a chunk are those     *)
(* with the value it makes, each at one position.                          *)
LEMMA ByChunk ==
  ASSUME NEW V, Keyed(V), NEW c \in 0 .. FirstChunk, NEW v \in Nat, NEW src,
         Settled(V, c + 1, src, Within(Region(V, c + 1, v)))
  PROVE  /\ \A x \in Within(Region(V, c + 1, v)) :
              /\ src[x] \in V /\ src[x].key \in Nat
              /\ get_chunk(src[x].key, c) \in 0 .. Radix - 1
              /\ Shifted(src[x].key, c) = Value(v, get_chunk(src[x].key, c))
         /\ \A p \in 0 .. Radix - 1 :
              /\ IsFiniteSet(WithChunk(src, c, Region(V, c + 1, v), p))
              /\ Cardinality(WithChunk(src, c, Region(V, c + 1, v), p))
                   = Cardinality(GroupOf(V, c, Value(v, p)))
<1> DEFINE R == Within(Region(V, c + 1, v))
<1>0. c + 1 \in 0 .. FirstChunk + 1 /\ Radix \in Nat
  BY ChunkAssumption
<1>1. \A x \in R : src[x] \in GroupOf(V, c + 1, v)
  BY <1>0, InRegion DEF Settled
<1>2. \A t \in GroupOf(V, c + 1, v) : \E x \in R : src[x] = t
  BY <1>0, Filled
<1>3. \A x, y \in R : src[x] = src[y] => x = y
  BY DEF Settled
<1>4. IsFiniteSet(R)
  <2>1. Below(V, c + 1, v) \in Int /\ Below(V, c + 1, v + 1) - 1 \in Int
    BY <1>0, RegionSize
  <2>2. R = Below(V, c + 1, v) .. Below(V, c + 1, v + 1) - 1
    BY DEF Within, Region, Extent
  <2> QED
    BY <2>1, <2>2, FS_Interval
<1>5. ASSUME NEW t \in V, NEW p \in 0 .. Radix - 1
      PROVE  t \in GroupOf(V, c, Value(v, p)) <=>
               t \in GroupOf(V, c + 1, v) /\ get_chunk(t.key, c) = p
  <2>1. t.key \in Nat /\ p \in 0 .. Radix /\ p < Radix
    BY <1>0 DEF Keyed
  <2>2. /\ Shifted(t.key, c) = Value(v, p) =>
             Shifted(t.key, c + 1) = v /\ get_chunk(t.key, c) = p
        /\ Shifted(t.key, c + 1) = v /\ get_chunk(t.key, c) = p =>
             Shifted(t.key, c) = Value(v, p)
    BY <2>1, ChunkOf
  <2> QED
    BY <2>2 DEF GroupOf
<1>6. ASSUME NEW x \in R
      PROVE  /\ src[x] \in V /\ src[x].key \in Nat
             /\ get_chunk(src[x].key, c) \in 0 .. Radix - 1
             /\ Shifted(src[x].key, c) = Value(v, get_chunk(src[x].key, c))
  <2>1. src[x] \in V /\ src[x].key \in Nat
    BY <1>1, <1>6 DEF GroupOf, Keyed
  <2>2. get_chunk(src[x].key, c) \in 0 .. Radix - 1
    BY <2>1, Chunks
  <2> QED
    BY <1>1, <1>5, <1>6, <2>1, <2>2 DEF GroupOf
<1>7. ASSUME NEW p \in 0 .. Radix - 1
      PROVE  /\ IsFiniteSet(WithChunk(src, c, Region(V, c + 1, v), p))
             /\ Cardinality(WithChunk(src, c, Region(V, c + 1, v), p))
                  = Cardinality(GroupOf(V, c, Value(v, p)))
  <2> DEFINE A == {x \in R : get_chunk(src[x].key, c) = p}
             B == GroupOf(V, c, Value(v, p))
             g == [x \in A |-> src[x]]
  <2>1. IsFiniteSet(A)
    BY <1>4, FS_Subset
  <2>2. \A x \in A : src[x] \in B
    BY <1>1, <1>5, <1>6
  <2>3. \A t \in B : \E x \in A : src[x] = t
    <3>1. SUFFICES ASSUME NEW t \in B PROVE \E x \in A : src[x] = t
      OBVIOUS
    <3>2. t \in V /\ t \in GroupOf(V, c + 1, v) /\ get_chunk(t.key, c) = p
      BY <1>5 DEF GroupOf
    <3>3. PICK x \in R : src[x] = t
      BY <1>2, <3>2
    <3> QED
      BY <3>2, <3>3
  <2>4. \A x, y \in A : src[x] = src[y] => x = y
    BY <1>3
  <2> HIDE DEF A, B, R
  <2>5. /\ g \in [A -> B] /\ \A x, y \in A : g[x] = g[y] => x = y
        /\ \A t \in B : \E x \in A : g[x] = t
    BY <2>2, <2>3, <2>4
  <2> HIDE DEF g
  <2>6. g \in Bijection(A, B)
    BY <2>5, Fun_IsBij
  <2>7. Cardinality(B) = Cardinality(A)
    BY <2>1, <2>6, FS_Bijection DEF ExistsBijection
  <2> QED
    BY <2>1, <2>7 DEF A, B, R, WithChunk
<1> QED
  BY <1>6, <1>7

(* Sums: what set_histogram and set_prefix_sum make of a settled region.   *)
LEMMA Sums ==
  ASSUME NEW V, Keyed(V), NEW c \in 0 .. FirstChunk, NEW v \in Nat, NEW src,
         Settled(V, c + 1, src, Within(Region(V, c + 1, v)))
  PROVE  LET h == set_histogram(src, c, Region(V, c + 1, v))
         IN  /\ DOMAIN h = 0 .. Radix - 1
             /\ \A p \in 0 .. Radix - 1 :
                  /\ h[p] = Cardinality(GroupOf(V, c, Value(v, p)))
                  /\ RunningSum(h)[p] = Below(V, c, Value(v, p)) - Below(V, c + 1, v)
<1> DEFINE h == set_histogram(src, c, Region(V, c + 1, v))
           f == [p \in 0 .. Radix |-> Below(V, c, Value(v, p)) - Below(V, c + 1, v)]
<1>0. Radix \in Nat /\ c \in 0 .. FirstChunk + 1
  BY ChunkAssumption
<1>1. DOMAIN h = 0 .. Radix - 1
  BY DEF set_histogram
<1>2. ASSUME NEW p \in 0 .. Radix - 1 PROVE h[p] = Cardinality(GroupOf(V, c, Value(v, p)))
  <2>1. h[p] = Cardinality(WithChunk(src, c, Region(V, c + 1, v), p))
    BY DEF set_histogram, WithChunk
  <2> HIDE DEF h
  <2> QED
    BY <2>1, ByChunk
<1>3. ASSUME NEW p \in 0 .. Radix PROVE Value(v, p) \in Nat /\ Below(V, c, Value(v, p)) \in Nat
  <2>1. Value(v, p) \in Nat
    BY ValuesInOrder
  <2> QED
    BY <1>0, <2>1, RegionSize
<1>4. Below(V, c + 1, v) \in Nat /\ Below(V, c + 1, v) = Below(V, c, Value(v, 0))
  <2>1. 0 \in 0 .. Radix
    BY <1>0
  <2> QED
    BY <1>3, <2>1, BelowUp
<1>5. f \in [0 .. Radix -> Int] /\ f[0] = 0
  BY <1>0, <1>3, <1>4
<1>6. ASSUME NEW p \in 0 .. Radix - 1 PROVE f[p + 1] = f[p] + h[p]
  <2>1. p \in 0 .. Radix /\ p + 1 \in 0 .. Radix
    BY <1>0
  <2>2. Value(v, p) \in Nat /\ Value(v, p + 1) = Value(v, p) + 1
    BY <1>3, <2>1, ValuesInOrder
  <2>3. /\ Below(V, c, Value(v, p) + 1) = Below(V, c, Value(v, p)) + h[p]
        /\ Cardinality(GroupOf(V, c, Value(v, p))) \in Nat
    BY <1>0, <1>2, <2>2, RegionSize
  <2>4. /\ f[p + 1] = Below(V, c, Value(v, p) + 1) - Below(V, c + 1, v)
        /\ f[p] = Below(V, c, Value(v, p)) - Below(V, c + 1, v)
        /\ Below(V, c, Value(v, p)) \in Nat
    BY <1>3, <2>1, <2>2
  <2>5. h[p] \in Nat
    BY <1>2, <2>3
  <2> HIDE DEF f, h
  <2> QED
    BY <1>4, <2>3, <2>4, <2>5
<1> HIDE DEF f, h
<1>7. \A p \in 0 .. Radix : RunningSum(h)[p] = f[p]
  BY <1>5, <1>6, RunningSumIs
<1>8. ASSUME NEW p \in 0 .. Radix - 1
      PROVE  RunningSum(h)[p] = Below(V, c, Value(v, p)) - Below(V, c + 1, v)
  <2>1. p \in 0 .. Radix
    BY <1>0
  <2> QED
    BY <1>7, <2>1 DEF f
<1> QED
  BY <1>1, <1>2, <1>8 DEF h

(* The offsets of the buckets of a region: the end of its bucket for a     *)
(* prefix that occurs, 0 for any other.                                    *)
OffsetsOf(V, c, v, offsets) ==
  /\ offsets \in [0 .. Radix - 1 -> Nat]
  /\ \A p \in 0 .. Radix - 1 :
       \/ /\ offsets[p] = 0
          /\ GroupOf(V, c, Value(v, p)) = {}
       \/ /\ offsets[p] > 0
          /\ Below(V, c + 1, v) + offsets[p] = Below(V, c, Value(v, p) + 1)

(* OffsetsAre: the offsets that the pass leaves.                           *)
LEMMA OffsetsAre ==
  ASSUME NEW V, Keyed(V), NEW c \in 0 .. FirstChunk, NEW v \in Nat, NEW src,
         Settled(V, c + 1, src, Within(Region(V, c + 1, v)))
  PROVE  OffsetsOf(V, c, v, Offsets(src, c, Region(V, c + 1, v)))
<1> DEFINE r == Region(V, c + 1, v)
           h == set_histogram(src, c, r)
           offsets == Offsets(src, c, r)
<1>0. Radix \in Nat /\ c \in 0 .. FirstChunk + 1
  BY ChunkAssumption
<1>1. DOMAIN h = 0 .. Radix - 1
  BY Sums
<1>2. /\ DOMAIN offsets = 0 .. Radix - 1
      /\ offsets = [p \in 0 .. Radix - 1 |-> (IF h[p] = 0 THEN 0 ELSE RunningSum(h)[p]) + h[p]]
  BY <1>1 DEF Offsets, set_prefix_sum
<1>3. ASSUME NEW p \in 0 .. Radix - 1
      PROVE  /\ offsets[p] \in Nat
             /\ \/ /\ offsets[p] = 0
                   /\ GroupOf(V, c, Value(v, p)) = {}
                \/ /\ offsets[p] > 0
                   /\ Below(V, c + 1, v) + offsets[p] = Below(V, c, Value(v, p) + 1)
  <2> DEFINE n == Value(v, p)
             g == Cardinality(GroupOf(V, c, n))
  <2>1. n \in Nat /\ Below(V, c + 1, v) <= Below(V, c, n) /\ Below(V, c + 1, v) \in Nat
    BY RegionInside
  <2>2. /\ IsFiniteSet(GroupOf(V, c, n)) /\ g \in Nat /\ Below(V, c, n) \in Nat
        /\ Below(V, c, n + 1) = Below(V, c, n) + g
    BY <1>0, <2>1, RegionSize
  <2>3. h[p] = g /\ RunningSum(h)[p] = Below(V, c, n) - Below(V, c + 1, v)
    BY Sums
  <2>4. offsets[p] = (IF h[p] = 0 THEN 0 ELSE RunningSum(h)[p]) + h[p]
    BY <1>2
  <2>5. g = 0 => GroupOf(V, c, n) = {}
    BY <2>2, FS_EmptySet
  <2> HIDE DEF n, g, h, offsets
  <2>6. CASE g = 0
    BY <2>3, <2>4, <2>5, <2>6 DEF n
  <2>7. CASE g # 0
    <3>1. offsets[p] = Below(V, c, n) - Below(V, c + 1, v) + g
      BY <2>3, <2>4, <2>7
    <3>2. Below(V, c + 1, v) + offsets[p] = Below(V, c, n + 1) /\ offsets[p] \in Nat
          /\ offsets[p] > 0
      BY <2>1, <2>2, <2>7, <3>1
    <3> QED
      BY <3>2 DEF n
  <2> QED
    BY <2>6, <2>7
<1> HIDE DEF offsets
<1>4. offsets \in [0 .. Radix - 1 -> Nat]
  BY <1>2, <1>3
<1> QED
  BY <1>3, <1>4 DEF offsets, OffsetsOf

-----------------------------------------------------------------------------
(* The tuples of the prefix of tuple o that the pass has met before it.    *)
Earlier(src, c, r, o) ==
  {k \in r.start .. o - 1 : get_chunk(src[k].key, c) = get_chunk(src[o].key, c)}

(* RegionBounds: the bounds of a region, as numbers.                       *)
LEMMA RegionBounds ==
  ASSUME NEW V, Keyed(V), NEW c \in 0 .. FirstChunk + 1, NEW v \in Nat
  PROVE  /\ Region(V, c, v).start = Below(V, c, v) /\ Region(V, c, v).start \in Nat
         /\ Region(V, c, v).end = Below(V, c, v + 1) /\ Region(V, c, v).end \in Nat
         /\ Region(V, c, v).start <= Region(V, c, v).end
         /\ Within(Region(V, c, v)) = Below(V, c, v) .. Below(V, c, v + 1) - 1
         /\ IsFiniteSet(Within(Region(V, c, v)))
         /\ Within(Region(V, c, v)) \subseteq Nat
<1>1. /\ Region(V, c, v).start = Below(V, c, v) /\ Region(V, c, v).end = Below(V, c, v + 1)
      /\ Within(Region(V, c, v)) = Below(V, c, v) .. Below(V, c, v + 1) - 1
  BY DEF Within, Region, Extent
<1>2. /\ Below(V, c, v) \in Nat /\ Below(V, c, v + 1) \in Nat
      /\ Below(V, c, v) <= Below(V, c, v + 1)
  BY RegionSize
<1>3. Below(V, c, v) \in Int /\ Below(V, c, v + 1) - 1 \in Int
  BY <1>2
<1>4. IsFiniteSet(Below(V, c, v) .. Below(V, c, v + 1) - 1)
  BY <1>3, FS_Interval
<1> QED
  BY <1>1, <1>2, <1>4

(* EarlierOnes: those before a tuple are fewer than all of its prefix, and *)
(* fewer than those before a later tuple of the prefix.                    *)
LEMMA EarlierOnes ==
  ASSUME NEW V, Keyed(V), NEW c \in 0 .. FirstChunk, NEW v \in Nat, NEW src,
         Settled(V, c + 1, src, Within(Region(V, c + 1, v))),
         NEW o \in Within(Region(V, c + 1, v))
  PROVE  LET r == Region(V, c + 1, v)
             p == get_chunk(src[o].key, c)
             before == Cardinality(Earlier(src, c, r, o))
         IN  /\ before \in Nat
             /\ before < Cardinality(WithChunk(src, c, r, p))
             /\ \A k \in Within(r) :
                  o < k /\ get_chunk(src[k].key, c) = p
                    => before < Cardinality(Earlier(src, c, r, k))
<1> DEFINE r == Region(V, c + 1, v)
           p == get_chunk(src[o].key, c)
           B == Earlier(src, c, r, o)
           A == WithChunk(src, c, r, p)
<1>0. c + 1 \in 0 .. FirstChunk + 1
  BY ChunkAssumption
<1>1. p \in 0 .. Radix - 1
  BY ByChunk
<1>2. IsFiniteSet(A)
  BY <1>1, ByChunk
<1>3. r.start \in Nat /\ r.end \in Nat /\ Within(r) = r.start .. r.end - 1
  BY <1>0, RegionBounds DEF Within
<1>4. ASSUME NEW S, IsFiniteSet(S), B \subseteq S, o \in S
      PROVE  Cardinality(B) \in Nat /\ Cardinality(B) < Cardinality(S)
  <2>1. B \in SUBSET S /\ S # B
    BY <1>3, <1>4 DEF Earlier
  <2> HIDE DEF B
  <2>2. IsFiniteSet(B) /\ Cardinality(B) <= Cardinality(S) /\ Cardinality(S) # Cardinality(B)
    BY <1>4, <2>1, FS_Subset
  <2> QED
    BY <1>4, <2>2, FS_CardinalityType
<1>5. B \subseteq A /\ o \in A
  BY <1>3 DEF Earlier, WithChunk
<1>6. ASSUME NEW k \in Within(r), o < k, get_chunk(src[k].key, c) = p
      PROVE  Cardinality(B) < Cardinality(Earlier(src, c, r, k))
  <2>1. Earlier(src, c, r, k) \in SUBSET A
    BY <1>3, <1>6 DEF Earlier, WithChunk
  <2>2. IsFiniteSet(Earlier(src, c, r, k))
    BY <1>2, <2>1, FS_Subset
  <2>3. B \subseteq Earlier(src, c, r, k) /\ o \in Earlier(src, c, r, k)
    BY <1>3, <1>6 DEF Earlier
  <2> QED
    BY <1>4, <2>2, <2>3
<1> QED
  BY <1>2, <1>4, <1>5, <1>6

(* IndexAt: the pass puts a tuple into the region of its own value, behind *)
(* those of its prefix that it has met before.                             *)
LEMMA IndexAt ==
  ASSUME NEW V, Keyed(V), NEW c \in 0 .. FirstChunk, NEW v \in Nat, NEW src,
         Settled(V, c + 1, src, Within(Region(V, c + 1, v))),
         NEW o \in Within(Region(V, c + 1, v))
  PROVE  LET r == Region(V, c + 1, v)
             n == Value(v, get_chunk(src[o].key, c))
         IN  /\ n \in Nat
             /\ Below(V, c, n) \in Nat
             /\ Cardinality(Earlier(src, c, r, o)) \in Nat
             /\ Index(src, c, r, o) = Below(V, c, n) + Cardinality(Earlier(src, c, r, o))
             /\ Index(src, c, r, o) \in Within(Region(V, c, n))
             /\ Index(src, c, r, o) \in Within(r)
<1> DEFINE r == Region(V, c + 1, v)
           p == get_chunk(src[o].key, c)
           n == Value(v, p)
           before == Cardinality(Earlier(src, c, r, o))
           h == set_histogram(src, c, r)
           g == Cardinality(GroupOf(V, c, n))
<1>0. c \in 0 .. FirstChunk + 1 /\ c + 1 \in 0 .. FirstChunk + 1
  BY ChunkAssumption
<1>1. p \in 0 .. Radix - 1
  BY ByChunk
<1>2. /\ n \in Nat /\ Below(V, c + 1, v) \in Nat /\ Below(V, c + 1, v + 1) \in Nat
      /\ Below(V, c + 1, v) <= Below(V, c, n)
      /\ Below(V, c, n + 1) <= Below(V, c + 1, v + 1)
  BY <1>1, RegionInside
<1>3. /\ Below(V, c, n) \in Nat /\ Below(V, c, n + 1) \in Nat /\ g \in Nat
      /\ Below(V, c, n + 1) = Below(V, c, n) + g
  BY <1>0, <1>2, RegionSize
<1>4. before \in Nat /\ before < g
  <2>1. before \in Nat /\ before < Cardinality(WithChunk(src, c, r, p))
    BY EarlierOnes
  <2>2. Cardinality(WithChunk(src, c, r, p)) = g
    BY <1>1, ByChunk
  <2> QED
    BY <2>1, <2>2
<1>5. /\ DOMAIN h = 0 .. Radix - 1 /\ h[p] = g
      /\ RunningSum(h)[p] = Below(V, c, n) - Below(V, c + 1, v)
  BY <1>1, Sums
<1>6. set_prefix_sum(h)[p] = IF h[p] = 0 THEN 0 ELSE RunningSum(h)[p]
  BY <1>1, <1>5 DEF set_prefix_sum
<1>7. Index(src, c, r, o) = r.start + set_prefix_sum(h)[p] + before
  BY DEF Index, Earlier
<1>8. r.start = Below(V, c + 1, v)
  BY <1>0, RegionBounds
<1>9. /\ Within(Region(V, c, n)) = Below(V, c, n) .. Below(V, c, n + 1) - 1
      /\ Within(r) = Below(V, c + 1, v) .. Below(V, c + 1, v + 1) - 1
  BY <1>0, <1>2, RegionBounds
<1> HIDE DEF p, n, before, h, g, r
<1>10. Index(src, c, r, o) = Below(V, c, n) + before
  BY <1>2, <1>3, <1>4, <1>5, <1>6, <1>7, <1>8
<1>11. Index(src, c, r, o) \in Within(Region(V, c, n)) /\ Index(src, c, r, o) \in Within(r)
  BY <1>2, <1>3, <1>4, <1>9, <1>10, SMTT(20)
<1> QED
  BY <1>2, <1>3, <1>4, <1>10, <1>11 DEF p, n, before, r

(* IndexOnce: no two tuples go to the same position.                       *)
LEMMA IndexOnce ==
  ASSUME NEW V, Keyed(V), NEW c \in 0 .. FirstChunk, NEW v \in Nat, NEW src,
         Settled(V, c + 1, src, Within(Region(V, c + 1, v))),
         NEW o \in Within(Region(V, c + 1, v)), NEW k \in Within(Region(V, c + 1, v)),
         Index(src, c, Region(V, c + 1, v), o) = Index(src, c, Region(V, c + 1, v), k)
  PROVE  o = k
<1> DEFINE r == Region(V, c + 1, v)
           P(x) == get_chunk(src[x].key, c)
<1>0. c \in 0 .. FirstChunk + 1 /\ c + 1 \in 0 .. FirstChunk + 1 /\ Radix \in Nat
  BY ChunkAssumption
<1>1. \A x \in Within(r) : P(x) \in 0 .. Radix - 1
  BY ByChunk
<1>2. \A x \in Within(r) :
        /\ Value(v, P(x)) \in Nat
        /\ Below(V, c, Value(v, P(x))) \in Nat
        /\ Cardinality(Earlier(src, c, r, x)) \in Nat
        /\ Index(src, c, r, x) = Below(V, c, Value(v, P(x))) + Cardinality(Earlier(src, c, r, x))
        /\ Index(src, c, r, x) \in Within(Region(V, c, Value(v, P(x))))
  BY IndexAt
<1>3. Value(v, P(o)) = Value(v, P(k))
  BY <1>0, <1>2, RegionsApart
<1>4. P(o) = P(k)
  <2>1. v * Radix \in Nat
    BY <1>0
  <2> DEFINE b == v * Radix
  <2> HIDE DEF b, P
  <2>2. \A q : Value(v, q) = b + q
    BY DEF Value, b
  <2> QED
    BY <1>0, <1>1, <1>3, <2>1, <2>2 DEF b
<1>5. \A x, y \in Within(r) :
        x < y /\ P(y) = P(x) => Cardinality(Earlier(src, c, r, x)) < Cardinality(Earlier(src, c, r, y))
  BY EarlierOnes
<1>6. Within(r) \subseteq Nat
  BY <1>0, RegionBounds
<1> HIDE DEF r, P
<1>7. o \in Within(r) /\ k \in Within(r) /\ Index(src, c, r, o) = Index(src, c, r, k)
  BY DEF r
<1>8. Cardinality(Earlier(src, c, r, o)) = Cardinality(Earlier(src, c, r, k))
  BY <1>2, <1>3, <1>7
<1> QED
  BY <1>2, <1>4, <1>5, <1>6, <1>7, <1>8

(* Distributes: a pass puts every tuple of the range into the region of    *)
(* its own value and leaves the rest of the other array alone.             *)
THEOREM Distributes ==
  ASSUME NEW V, Keyed(V), NEW c \in 0 .. FirstChunk, NEW v \in Nat, NEW src,
         Settled(V, c + 1, src, Within(Region(V, c + 1, v))),
         NEW dst, Within(Region(V, c + 1, v)) \subseteq DOMAIN dst
  PROVE  LET r == Region(V, c + 1, v)
             after == Distributed(src, dst, c, r)
         IN  /\ DOMAIN after = DOMAIN dst
             /\ \A x \in DOMAIN dst \ Within(r) : after[x] = dst[x]
             /\ \A x \in Within(r) : \E o \in Within(r) : after[x] = src[o]
             /\ Settled(V, c, after, Within(r))
<1> DEFINE r == Region(V, c + 1, v)
           R == Within(r)
           to == [o \in R |-> Index(src, c, r, o)]
           after == Distributed(src, dst, c, r)
           From(x) == {o \in R : Index(src, c, r, o) = x}
<1>0. c \in 0 .. FirstChunk + 1 /\ c + 1 \in 0 .. FirstChunk + 1
  BY ChunkAssumption
<1>1. IsFiniteSet(R) /\ R \subseteq Nat
  BY <1>0, RegionBounds
<1>2. \A o \in R : Index(src, c, r, o) \in R
  BY IndexAt
<1>3. \A o, k \in R : Index(src, c, r, o) = Index(src, c, r, k) => o = k
  BY IndexOnce
<1>4. /\ DOMAIN after = DOMAIN dst
      /\ \A x \in DOMAIN dst :
           after[x] = IF From(x) = {} THEN dst[x] ELSE src[Max(From(x))]
  BY DEF Distributed
<1>5. \A x \in R : \E o \in R : Index(src, c, r, o) = x
  <2>1. to \in [R -> R] /\ \A o, k \in R : to[o] = to[k] => o = k
    BY <1>2, <1>3
  <2> HIDE DEF to, R
  <2>2. to \in Injection(R, R)
    BY <2>1, Fun_IsInj
  <2>3. to \in Surjection(R, R)
    BY <1>1, <2>2, FS_Injection
  <2>4. \A x \in R : \E o \in R : to[o] = x
    BY <2>3 DEF Surjection
  <2> QED
    BY <2>4 DEF to
<1>6. ASSUME NEW o \in R
      PROVE  after[Index(src, c, r, o)] = src[o]
  <2> DEFINE x == Index(src, c, r, o)
  <2>1. From(x) = {o} /\ x \in DOMAIN dst
    BY <1>2, <1>3
  <2>2. Max({o}) = o
    BY <1>1 DEF Max
  <2> HIDE DEF x, From, R
  <2>3. after[x] = src[Max({o})]
    BY <1>4, <2>1
  <2> QED
    BY <2>2, <2>3 DEF x
<1>7. \A x \in DOMAIN dst \ R : after[x] = dst[x]
  <2>1. \A x \in DOMAIN dst \ R : From(x) = {}
    BY <1>2
  <2> QED
    BY <1>4, <2>1
<1>8. ASSUME NEW o \in R PROVE Placed(V, c, after, Index(src, c, r, o))
  <2> DEFINE n == Value(v, get_chunk(src[o].key, c))
  <2>1. src[o] \in V /\ Shifted(src[o].key, c) = n
    BY ByChunk
  <2>2. Index(src, c, r, o) \in Within(Region(V, c, n))
    BY IndexAt
  <2> HIDE DEF n, r, after, R
  <2> QED
    BY <1>6, <2>1, <2>2 DEF Placed
<1>9. \A o, k \in R : src[o] = src[k] => o = k
  BY DEF Settled
<1> HIDE DEF r, R, to, after, From
<1>10. \A x \in R : Placed(V, c, after, x)
  BY <1>5, <1>8
<1>11. ASSUME NEW x \in R, NEW y \in R, after[x] = after[y] PROVE x = y
  <2>1. PICK o \in R : Index(src, c, r, o) = x
    BY <1>5
  <2>2. PICK k \in R : Index(src, c, r, k) = y
    BY <1>5
  <2>3. o = k
    BY <1>6, <1>9, <1>11, <2>1, <2>2
  <2> QED
    BY <2>1, <2>2, <2>3
<1>12. Settled(V, c, after, R)
  BY <1>10, <1>11 DEF Settled
<1>13. \A x \in R : \E o \in R : after[x] = src[o]
  BY <1>5, <1>6
<1> QED
  BY <1>4, <1>7, <1>12, <1>13 DEF r, R, after

-----------------------------------------------------------------------------
(* NextPrefixIs: the next prefix that occurs; none before it does.         *)
LEMMA NextPrefixIs ==
  ASSUME NEW offsets \in [0 .. Radix - 1 -> Nat], NEW p \in 0 .. Radix
  PROVE  /\ NextPrefix(offsets, p) \in 0 .. Radix /\ p <= NextPrefix(offsets, p)
         /\ NextPrefix(offsets, p) < Radix => offsets[NextPrefix(offsets, p)] > 0
         /\ \A q \in 0 .. Radix - 1 :
              p <= q /\ q < NextPrefix(offsets, p) => offsets[q] = 0
<1> DEFINE T == {q \in p .. Radix - 1 : offsets[q] > 0} \cup {Radix}
<1>0. Radix \in Nat
  BY ChunkAssumption
<1>1. T \in SUBSET Nat /\ T # {}
  BY <1>0
<1>2. \E x \in T : \A y \in T : x <= y
  <2> HIDE DEF T
  <2> QED
    BY <1>1, Least
<1>3. NextPrefix(offsets, p) \in T /\ \A y \in T : NextPrefix(offsets, p) <= y
  <2>1. NextPrefix(offsets, p) = CHOOSE x \in T : \A y \in T : x <= y
    BY DEF NextPrefix, Min
  <2> HIDE DEF T
  <2> QED
    BY <1>2, <2>1
<1> DEFINE n == NextPrefix(offsets, p)
<1> HIDE DEF n
<1>4. n \in T /\ \A y \in T : n <= y
  BY <1>3 DEF n
<1>5. n \in 0 .. Radix /\ p <= n /\ (n < Radix => offsets[n] > 0)
  BY <1>0, <1>4
<1>6. ASSUME NEW q \in 0 .. Radix - 1, p <= q, q < n PROVE offsets[q] = 0
  BY <1>0, <1>4, <1>5, <1>6
<1> QED
  BY <1>5, <1>6 DEF n

(* Skipped: prefixes that do not occur take no room.                       *)
LEMMA Skipped ==
  ASSUME NEW V, Keyed(V), NEW c \in 0 .. FirstChunk, NEW v \in Nat,
         NEW p \in 0 .. Radix, NEW n \in 0 .. Radix, p <= n,
         \A q \in 0 .. Radix - 1 : p <= q /\ q < n => GroupOf(V, c, Value(v, q)) = {}
  PROVE  Below(V, c, Value(v, n)) = Below(V, c, Value(v, p))
<1>0. c \in 0 .. FirstChunk + 1 /\ Radix \in Nat
  BY ChunkAssumption
<1> DEFINE S == {m \in Nat : m <= n /\ p <= m => Below(V, c, Value(v, m)) = Below(V, c, Value(v, p))}
<1>1. 0 \in S
  BY <1>0
<1>2. ASSUME NEW m \in Nat, m \in S PROVE m + 1 \in S
  <2> SUFFICES ASSUME m + 1 <= n, p <= m + 1
               PROVE  Below(V, c, Value(v, m + 1)) = Below(V, c, Value(v, p))
    OBVIOUS
  <2>1. CASE m + 1 = p
    BY <2>1
  <2>2. CASE m + 1 # p
    <3>1. m \in 0 .. Radix - 1 /\ p <= m /\ m < n /\ m <= n
      BY <1>0, <2>2
    <3>2. Below(V, c, Value(v, m)) = Below(V, c, Value(v, p))
      BY <1>2, <3>1
    <3>3. Value(v, m) \in Nat /\ Value(v, m + 1) = Value(v, m) + 1
      <4>1. m \in 0 .. Radix
        BY <1>0, <3>1
      <4> QED
        BY <3>1, <4>1, ValuesInOrder
    <3>4. GroupOf(V, c, Value(v, m)) = {}
      BY <3>1
    <3>5. /\ Below(V, c, Value(v, m) + 1)
               = Below(V, c, Value(v, m)) + Cardinality(GroupOf(V, c, Value(v, m)))
          /\ Below(V, c, Value(v, m)) \in Nat
      BY <1>0, <3>3, RegionSize
    <3>6. Cardinality(GroupOf(V, c, Value(v, m))) = 0
      BY <3>4, FS_EmptySet
    <3> QED
      BY <3>2, <3>3, <3>5, <3>6
  <2> QED
    BY <2>1, <2>2
<1> HIDE DEF S
<1>3. Nat \subseteq S
  BY <1>1, <1>2, NatSetInduction
<1> QED
  BY <1>0, <1>3 DEF S

-----------------------------------------------------------------------------
(* SettledSame: what is settled stays so where nothing has changed.        *)
LEMMA SettledSame ==
  ASSUME NEW V, NEW c, NEW f, NEW S, Settled(V, c, f, S), NEW g, NEW T \in SUBSET S,
         \A x \in T : g[x] = f[x]
  PROVE  Settled(V, c, g, T)
BY DEF Settled, Placed

(* SwapSettled: two tuples in one region may change places.                *)
LEMMA SwapSettled ==
  ASSUME NEW V, Keyed(V), NEW c \in 0 .. FirstChunk + 1, NEW w \in Nat,
         NEW f, NEW S \in SUBSET DOMAIN f, Settled(V, c, f, S),
         Within(Region(V, c, w)) \subseteq S,
         NEW a \in Within(Region(V, c, w)), NEW b \in Within(Region(V, c, w))
  PROVE  Settled(V, c, Quick!Swapped(f, a, b), S)
<1> DEFINE g == Quick!Swapped(f, a, b)
<1>1. /\ g[a] = f[b] /\ g[b] = f[a] /\ \A x \in S \ {a, b} : g[x] = f[x]
      /\ a \in S /\ b \in S
  BY DEF Quick!Swapped
<1>2. f[a] \in GroupOf(V, c, w) /\ f[b] \in GroupOf(V, c, w)
  BY <1>1, InRegion DEF Settled
<1> HIDE DEF g
<1>3. ASSUME NEW x \in S PROVE Placed(V, c, g, x)
  <2>1. CASE x \in {a, b}
    BY <1>1, <1>2, <2>1 DEF Placed, GroupOf
  <2>2. CASE x \notin {a, b}
    BY <1>1, <2>2 DEF Placed, Settled
  <2> QED
    BY <2>1, <2>2
<1>4. \A x, y \in S : g[x] = g[y] => x = y
  BY <1>1 DEF Settled
<1> QED
  BY <1>3, <1>4 DEF Settled, g

(* The tuples at the positions S.                                          *)
Held(f, S) == {f[x] : x \in S}

(* ImageSize: as many tuples as positions, when none is at two of them.    *)
LEMMA ImageSize ==
  ASSUME NEW a \in Int, NEW b \in Int, NEW f,
         \A x, y \in a .. b : f[x] = f[y] => x = y
  PROVE  /\ IsFiniteSet(Held(f, a .. b))
         /\ Cardinality(Held(f, a .. b)) = IF a > b THEN 0 ELSE b - a + 1
<1> DEFINE S == a .. b
           T == Held(f, S)
           g == [x \in S |-> f[x]]
<1>1. IsFiniteSet(S) /\ Cardinality(S) = IF a > b THEN 0 ELSE b - a + 1
  BY FS_Interval
<1>2. g \in [S -> T] /\ (\A x, y \in S : g[x] = g[y] => x = y) /\ \A t \in T : \E x \in S : g[x] = t
  BY DEF Held
<1> HIDE DEF g, T, S
<1>3. g \in Bijection(S, T)
  BY <1>2, Fun_IsBij
<1>4. IsFiniteSet(T) /\ Cardinality(T) = Cardinality(S)
  BY <1>1, <1>3, FS_Bijection DEF ExistsBijection
<1> QED
  BY <1>1, <1>4 DEF S, T

(* OrderedPlaced: a settled region whose keys are in order is placed by    *)
(* all chunks; quick sort does that for the small buckets.                 *)
LEMMA OrderedPlaced ==
  ASSUME NEW V, Keyed(V), NEW c \in 0 .. FirstChunk + 1, NEW v \in Nat, NEW f,
         Settled(V, c, f, Within(Region(V, c, v))),
         \A a, b \in Within(Region(V, c, v)) : a <= b => f[a].key <= f[b].key,
         NEW x \in Within(Region(V, c, v))
  PROVE  Placed(V, 0, f, x)
<1> DEFINE R == Within(Region(V, c, v))
           s == Below(V, c, v)
           k == f[x].key
           L == {u \in V : Shifted(u.key, c) < v}
           P1 == Held(f, s .. x - 1)
           P2 == Held(f, s .. x)
           B1 == {u \in V : Shifted(u.key, 0) < k}
           B2 == {u \in V : Shifted(u.key, 0) < k + 1}
<1>0. /\ s \in Nat /\ R \subseteq Nat /\ s <= x /\ x \in Nat
      /\ \A y \in s .. x : y \in R
      /\ \A y \in R : y \in Nat /\ s <= y
  <2>0. /\ Region(V, c, v).start = Below(V, c, v) /\ Region(V, c, v).start \in Nat
        /\ Region(V, c, v).end = Below(V, c, v + 1) /\ Region(V, c, v).end \in Nat
        /\ Within(Region(V, c, v)) = Below(V, c, v) .. Below(V, c, v + 1) - 1
        /\ Within(Region(V, c, v)) \subseteq Nat
    <3> HIDE DEF R, s
    <3> QED
      BY RegionBounds
  <2>1. /\ s \in Nat /\ R \subseteq Nat /\ R = s .. Below(V, c, v + 1) - 1
        /\ Below(V, c, v + 1) \in Nat
    BY <2>0
  <2> HIDE DEF s, R
  <2>2. x \in R
    BY DEF R
  <2> QED
    BY <2>1, <2>2
<1>1. \A y \in R : f[y] \in GroupOf(V, c, v)
  BY InRegion DEF Settled
<1>2. \A t \in GroupOf(V, c, v) : \E y \in R : f[y] = t
  BY Filled
<1>3. \A u \in V : u.key \in Nat /\ Shifted(u.key, 0) = u.key /\ Shifted(u.key, c) \in Nat
  BY ShiftedSteps DEF Keyed
<1>4. f[x] \in V /\ k \in Nat /\ Shifted(k, c) = v
  BY <1>1, <1>3 DEF GroupOf
<1>5. \A u \in V : /\ u.key <= k => Shifted(u.key, c) <= v
                   /\ k <= u.key => v <= Shifted(u.key, c)
  BY <1>3, <1>4, ShiftedInOrder
<1>6. \A y, z \in R : f[y] = f[z] => y = z
  BY DEF Settled
<1>7. \A y, z \in R : y <= z => f[y].key <= f[z].key
  OBVIOUS
<1>8. x \in R /\ IsFiniteSet(V)
  BY DEF Keyed
<1>9. Cardinality(L) = s
  BY DEF Below
<1> HIDE DEF R, s, k
<1>10. B1 \subseteq L \cup P1
  <2> SUFFICES ASSUME NEW u \in B1, u \notin L PROVE u \in P1
    OBVIOUS
  <2>1. u \in V /\ u.key < k /\ Shifted(u.key, c) = v
    BY <1>3, <1>4, <1>5
  <2>2. PICK y \in R : f[y] = u
    BY <1>2, <2>1 DEF GroupOf
  <2>3. ~ (x <= y)
    <3>1. x <= y => k <= u.key
      BY <1>7, <1>8, <2>2 DEF k
    <3>2. u.key \in Nat
      BY <1>3, <2>1
    <3> QED
      BY <1>4, <2>1, <3>1, <3>2
  <2>4. y \in Nat /\ y < x /\ s <= y
    BY <1>0, <2>2, <2>3
  <2> QED
    BY <1>0, <2>2, <2>4 DEF Held
<1>11. L \cup P2 \subseteq B2
  <2>1. ASSUME NEW u \in L PROVE u \in B2
    BY <1>3, <1>4, <1>5
  <2>2. ASSUME NEW y \in s .. x PROVE f[y] \in B2
    <3>1. y \in R /\ y <= x
      BY <1>0
    <3>2. f[y] \in V /\ f[y].key <= k
      BY <1>1, <1>7, <1>8, <3>1 DEF GroupOf, k
    <3> QED
      BY <1>3, <1>4, <3>2
  <2> QED
    BY <2>1, <2>2 DEF Held
<1>12. L \cap P1 = {} /\ L \cap P2 = {} /\ L \in SUBSET V
  <2>1. \A y \in s .. x : f[y] \in V /\ Shifted(f[y].key, c) = v
    BY <1>0, <1>1 DEF GroupOf
  <2>2. \A y \in s .. x - 1 : y \in s .. x
    BY <1>0
  <2>3. ~ (v < v)
    OBVIOUS
  <2> QED
    BY <2>1, <2>2, <2>3 DEF Held
<1>13. /\ IsFiniteSet(P1) /\ Cardinality(P1) = x - s
       /\ IsFiniteSet(P2) /\ Cardinality(P2) = x - s + 1
  <2>1. \A y, z \in s .. x : f[y] = f[z] => y = z
    BY <1>0, <1>6
  <2>2. s \in Int /\ x \in Int /\ x - 1 \in Int /\ \A y \in s .. x - 1 : y \in s .. x
    BY <1>0
  <2>3. IsFiniteSet(P2) /\ Cardinality(P2) = IF s > x THEN 0 ELSE x - s + 1
    BY <2>1, <2>2, ImageSize
  <2>4. \A w \in Int : (\A y, z \in s .. w : f[y] = f[z] => y = z)
          => /\ IsFiniteSet(Held(f, s .. w))
             /\ Cardinality(Held(f, s .. w)) = IF s > w THEN 0 ELSE w - s + 1
    BY <2>2, ImageSize
  <2>5. IsFiniteSet(P1) /\ Cardinality(P1) = IF s > x - 1 THEN 0 ELSE (x - 1) - s + 1
    BY <2>1, <2>2, <2>4
  <2> HIDE DEF P1, P2
  <2> QED
    BY <1>0, <2>3, <2>5
<1>14. B1 \in SUBSET V /\ B2 \in SUBSET V
  OBVIOUS
<1> HIDE DEF L, P1, P2, B1, B2
<1>15. IsFiniteSet(L) /\ IsFiniteSet(B2) /\ IsFiniteSet(B1)
  BY <1>8, <1>12, <1>14, FS_Subset
<1>16. Cardinality({}) = 0
  BY FS_EmptySet
<1>17. /\ IsFiniteSet(L \cup P1) /\ Cardinality(L \cup P1) = x
       /\ Cardinality(L \cup P2) = x + 1
  <2>1. /\ Cardinality(L \cup P1) = Cardinality(L) + Cardinality(P1) - Cardinality(L \cap P1)
        /\ Cardinality(L \cup P2) = Cardinality(L) + Cardinality(P2) - Cardinality(L \cap P2)
        /\ IsFiniteSet(L \cup P1)
    BY <1>13, <1>15, FS_Union
  <2>2. Cardinality(L \cap P1) = 0 /\ Cardinality(L \cap P2) = 0
    BY <1>12, <1>16
  <2> QED
    BY <1>0, <1>9, <1>13, <2>1, <2>2
<1>18. Cardinality(B1) <= x
  BY <1>10, <1>17, FS_Subset
<1>19. x + 1 <= Cardinality(B2)
  BY <1>11, <1>15, <1>17, FS_Subset
<1>20. Cardinality(B1) \in Nat /\ Cardinality(B2) \in Nat
  BY <1>15, FS_CardinalityType
<1>21. Below(V, 0, k) = Cardinality(B1) /\ Below(V, 0, k + 1) = Cardinality(B2)
  BY DEF Below, B1, B2
<1>22. x \in Below(V, 0, k) .. Below(V, 0, k + 1) - 1
  BY <1>0, <1>18, <1>19, <1>20, <1>21
<1>23. Shifted(f[x].key, 0) = k
  BY <1>3, <1>4 DEF k
<1> QED
  BY <1>4, <1>22, <1>23 DEF Placed, Within, Region, Extent

(* Whole: the chunks above the first have one value, and its region is the *)
(* whole array.                                                            *)
LEMMA Whole ==
  ASSUME NEW V, Keyed(V)
  PROVE  Region(V, FirstChunk + 1, 0) = Extent(0, Cardinality(V))
<1>1. {u \in V : Shifted(u.key, FirstChunk + 1) < 0} = {}
  BY DEF Keyed
<1>2. {u \in V : Shifted(u.key, FirstChunk + 1) < 0 + 1} = V
  BY DEF Keyed
<1>3. Cardinality({}) = 0
  BY FS_EmptySet
<1>4. Below(V, FirstChunk + 1, 0) = 0 /\ Below(V, FirstChunk + 1, 0 + 1) = Cardinality(V)
  BY <1>1, <1>2, <1>3 DEF Below
<1> QED
  BY <1>4 DEF Region

(* AllPlaced: when every tuple is placed by all chunks, the array is the   *)
(* set of tuples in the order of its keys.                                 *)
THEOREM AllPlaced ==
  ASSUME NEW V, Keyed(V), NEW f, Settled(V, 0, f, 0 .. Cardinality(V) - 1)
  PROVE  /\ Quick!Ordered(f, Extent(0, Cardinality(V)))
         /\ {f[x] : x \in 0 .. Cardinality(V) - 1} = V
<1> DEFINE n == Cardinality(V)
           S == 0 .. n - 1
           g == [x \in S |-> f[x]]
<1>1. n \in Nat /\ IsFiniteSet(V)
  BY FS_CardinalityType DEF Keyed
<1>2. \A x \in S : Placed(V, 0, f, x)
  BY DEF Settled
<1>3. \A x, y \in S : f[x] = f[y] => x = y
  BY DEF Settled
<1>4. ASSUME NEW a \in S, NEW b \in S, a <= b PROVE f[a].key <= f[b].key
  <2> DEFINE k == f[a].key
             m == f[b].key
             s == m + 1
  <2>0. 0 \in 0 .. FirstChunk + 1
    BY ChunkAssumption
  <2>1. k \in Nat /\ m \in Nat /\ Shifted(k, 0) = k /\ Shifted(m, 0) = m
    BY <1>2, ShiftedSteps DEF Placed, Keyed
  <2>2. /\ a \in Below(V, 0, k) .. Below(V, 0, k + 1) - 1
        /\ b \in Below(V, 0, m) .. Below(V, 0, m + 1) - 1
    BY <1>2, <2>1 DEF Placed, Within, Region, Extent
  <2> HIDE DEF k, m
  <2>3. ASSUME s <= k PROVE FALSE
    <3>1. s \in Nat
      BY <2>1
    <3>2. Below(V, 0, s) <= Below(V, 0, k) /\ Below(V, 0, s) \in Nat /\ Below(V, 0, k) \in Nat
      <4> HIDE DEF s
      <4> QED
        BY <2>0, <2>1, <2>3, <3>1, BelowGrows
    <3> QED
      BY <1>1, <1>4, <2>2, <3>2
  <2> QED
    BY <2>1, <2>3 DEF k, m
<1>5. {f[x] : x \in S} = V
  <2>1. g \in [S -> V] /\ \A x, y \in S : g[x] = g[y] => x = y
    BY <1>2, <1>3 DEF Placed
  <2> HIDE DEF g
  <2>2. g \in Injection(S, V)
    BY <2>1, Fun_IsInj
  <2>3. Cardinality(S) = n
    <3>1. 0 \in Int /\ n - 1 \in Int
      BY <1>1
    <3>2. Cardinality(0 .. n - 1) = IF 0 > n - 1 THEN 0 ELSE (n - 1) - 0 + 1
      BY <3>1, FS_Interval
    <3> QED
      BY <1>1, <3>2
  <2>4. g \in Surjection(S, V)
    BY <1>1, <2>2, <2>3, FS_Injection
  <2>5. \A t \in V : \E x \in S : g[x] = t
    BY <2>4 DEF Surjection
  <2> QED
    BY <1>2, <2>5 DEF g, Placed
<1> QED
  BY <1>4, <1>5 DEF Quick!Ordered, Quick!Within, Extent

-----------------------------------------------------------------------------
(* The calls *)

Ranges == [start : Nat, end : Nat]

FrameType ==
  [chunk : 0 .. FirstChunk, range : Ranges,
   offsets : {<<>>} \cup [0 .. Radix - 1 -> Nat], prefix : 0 .. Radix,
   bucket : Ranges, step : {"pass", "split", "bucket", "called"}]

(* A call that is about to read its range from src. *)
Ready(V, fr, src) ==
  /\ fr.step = "pass"
  /\ fr.bucket = Extent(fr.range.start, fr.range.start)
  /\ \E v \in Nat : fr.range = Region(V, fr.chunk + 1, v)
  /\ Settled(V, fr.chunk + 1, src, Within(fr.range))

(* A call after its pass: the offsets, and the bucket it is at. *)
Buckets(V, fr) ==
  \E v \in Nat :
    /\ fr.range = Region(V, fr.chunk + 1, v)
    /\ OffsetsOf(V, fr.chunk, v, fr.offsets)
    /\ fr.prefix < Radix => fr.offsets[fr.prefix] > 0
    /\ fr.bucket.end = Below(V, fr.chunk, Value(v, fr.prefix))
    /\ fr.range.start <= fr.bucket.start /\ fr.bucket.start <= fr.bucket.end

OneBucket(V, fr) == \E w \in Nat : fr.bucket = Region(V, fr.chunk, w)

(* The tuples at S are settled in dst, and those up to done are placed by  *)
(* all chunks, in dst and in copy.                                         *)
Split(V, fr, dst, copy, S, done) ==
  /\ Buckets(V, fr)
  /\ Settled(V, fr.chunk, dst, S)
  /\ \A x \in fr.range.start .. done - 1 : Placed(V, 0, dst, x) /\ copy[x] = dst[x]

(* A call that waits for the one that sorts its bucket. *)
Waiting(V, fr, dst, copy) ==
  /\ fr.step = "called"
  /\ OneBucket(V, fr)
  /\ Split(V, fr, dst, copy, Within(fr.range) \ Within(fr.bucket), fr.bucket.start)

-----------------------------------------------------------------------------
(* A call after its pass. *)
Passed(fr, offsets) ==
  [fr EXCEPT !.offsets = offsets, !.step = "split", !.prefix = NextPrefix(offsets, 0)]

(* PassSplits: the pass of a call whose range is complete settles it in    *)
(* the other array, with the first bucket ahead.                           *)
LEMMA PassSplits ==
  ASSUME NEW V, Keyed(V), NEW fr \in FrameType, NEW src, Ready(V, fr, src),
         NEW dst, Within(fr.range) \subseteq DOMAIN dst,
         NEW offsets, offsets = Offsets(src, fr.chunk, fr.range),
         NEW to, to = Passed(fr, offsets),
         NEW after, after = Distributed(src, dst, fr.chunk, fr.range)
  PROVE  /\ to \in FrameType
         /\ to.chunk = fr.chunk /\ to.range = fr.range /\ to.step = "split"
         /\ \A copy : Split(V, to, after, copy, Within(to.range), to.bucket.end)
         /\ DOMAIN after = DOMAIN dst
         /\ \A x \in DOMAIN dst \ Within(fr.range) : after[x] = dst[x]
         /\ \A x \in Within(fr.range) : after[x] \in Held(src, Within(fr.range))
<1> DEFINE c == fr.chunk
<1>0. /\ c \in 0 .. FirstChunk /\ c \in 0 .. FirstChunk + 1 /\ c + 1 \in 0 .. FirstChunk + 1
      /\ Radix \in Nat
  BY ChunkAssumption DEF FrameType
<1>1. PICK v \in Nat : fr.range = Region(V, c + 1, v)
  BY DEF Ready
<1>2. Settled(V, c + 1, src, Within(Region(V, c + 1, v)))
  BY <1>1 DEF Ready
<1>3. OffsetsOf(V, c, v, offsets)
  BY <1>0, <1>1, <1>2, OffsetsAre
<1>4. offsets \in [0 .. Radix - 1 -> Nat]
  BY <1>3 DEF OffsetsOf
<1> DEFINE n == NextPrefix(offsets, 0)
<1>5. /\ n \in 0 .. Radix /\ 0 <= n
      /\ n < Radix => offsets[n] > 0
      /\ \A q \in 0 .. Radix - 1 : 0 <= q /\ q < n => offsets[q] = 0
  <2>1. 0 \in 0 .. Radix
    BY <1>0
  <2> QED
    BY <1>4, <2>1, NextPrefixIs
<1> HIDE DEF n
<1>6. Below(V, c, Value(v, n)) = Below(V, c, Value(v, 0))
  <2>1. 0 \in 0 .. Radix
    BY <1>0
  <2>2. \A q \in 0 .. Radix - 1 : 0 <= q /\ q < n => GroupOf(V, c, Value(v, q)) = {}
    BY <1>3, <1>5 DEF OffsetsOf
  <2> QED
    BY <1>0, <1>5, <2>1, <2>2, Skipped
<1>7. Below(V, c + 1, v) = Below(V, c, Value(v, 0)) /\ fr.range.start = Below(V, c + 1, v)
  <2>1. Below(V, c + 1, v) = Below(V, c, Value(v, 0))
    BY <1>0, BelowUp
  <2>2. Region(V, c + 1, v).start = Below(V, c + 1, v)
    BY <1>0, RegionBounds
  <2> QED
    BY <1>1, <2>1, <2>2
<1>8. /\ to \in FrameType
      /\ to.chunk = c /\ to.range = fr.range /\ to.step = "split" /\ to.bucket = fr.bucket
      /\ to.offsets = offsets /\ to.prefix = n
  BY <1>4, <1>5 DEF FrameType, Passed, n
<1>9. to.bucket.start = fr.range.start /\ to.bucket.end = fr.range.start
  BY <1>8 DEF Ready, Extent
<1>10. fr.range.start \in Nat
  BY DEF FrameType, Ranges
<1>11. Buckets(V, to)
  <2> HIDE DEF c
  <2>1. /\ to.range = Region(V, to.chunk + 1, v)
        /\ OffsetsOf(V, to.chunk, v, to.offsets)
        /\ to.prefix < Radix => to.offsets[to.prefix] > 0
        /\ to.bucket.end = Below(V, to.chunk, Value(v, to.prefix))
    BY <1>1, <1>3, <1>5, <1>6, <1>7, <1>8, <1>9
  <2>2. to.range.start <= to.bucket.start /\ to.bucket.start <= to.bucket.end
    BY <1>8, <1>9, <1>10
  <2> QED
    BY <2>1, <2>2 DEF Buckets
<1>12. /\ DOMAIN after = DOMAIN dst
       /\ \A x \in DOMAIN dst \ Within(fr.range) : after[x] = dst[x]
       /\ \A x \in Within(fr.range) : after[x] \in Held(src, Within(fr.range))
       /\ Settled(V, c, after, Within(fr.range))
  <2>1. /\ DOMAIN after = DOMAIN dst
        /\ \A x \in DOMAIN dst \ Within(fr.range) : after[x] = dst[x]
        /\ \A x \in Within(fr.range) : \E y \in Within(fr.range) : after[x] = src[y]
        /\ Settled(V, c, after, Within(fr.range))
    BY <1>0, <1>1, <1>2, Distributes
  <2> QED
    BY <2>1 DEF Held
<1>13. \A x \in to.range.start .. to.bucket.end - 1 : FALSE
  BY <1>8, <1>9, <1>10
<1> QED
  BY <1>8, <1>11, <1>12, <1>13 DEF Split

(* BucketBounds: the bucket is within the range.                           *)
LEMMA BucketBounds ==
  ASSUME NEW V, Keyed(V), NEW fr \in FrameType, Buckets(V, fr)
  PROVE  /\ fr.range.start \in Nat /\ fr.range.end \in Nat
         /\ fr.bucket.start \in Nat /\ fr.bucket.end \in Nat
         /\ fr.range.start <= fr.bucket.start /\ fr.bucket.start <= fr.bucket.end
         /\ fr.bucket.end <= fr.range.end
<1>0. /\ fr.range \in Ranges /\ fr.bucket \in Ranges /\ fr.chunk \in 0 .. FirstChunk
      /\ fr.chunk \in 0 .. FirstChunk + 1 /\ fr.chunk + 1 \in 0 .. FirstChunk + 1
      /\ fr.prefix \in 0 .. Radix /\ Radix \in 0 .. Radix /\ fr.prefix <= Radix
  BY ChunkAssumption DEF FrameType
<1>1. /\ fr.range.start \in Nat /\ fr.range.end \in Nat
      /\ fr.bucket.start \in Nat /\ fr.bucket.end \in Nat
  BY <1>0 DEF Ranges
<1>2. PICK v \in Nat :
        /\ fr.range = Region(V, fr.chunk + 1, v)
        /\ fr.bucket.end = Below(V, fr.chunk, Value(v, fr.prefix))
        /\ fr.range.start <= fr.bucket.start /\ fr.bucket.start <= fr.bucket.end
  BY DEF Buckets
<1>3. Value(v, fr.prefix) \in Nat /\ Value(v, Radix) \in Nat
  BY <1>0, ValuesInOrder
<1>4. Value(v, fr.prefix) <= Value(v, Radix)
  BY <1>0, ValuesInOrder
<1>5. Below(V, fr.chunk, Value(v, fr.prefix)) <= Below(V, fr.chunk, Value(v, Radix))
  BY <1>0, <1>3, <1>4, BelowGrows
<1>6. fr.range.end = Below(V, fr.chunk, Value(v, Radix))
  <2>1. Region(V, fr.chunk + 1, v).end = Below(V, fr.chunk + 1, v + 1)
    BY <1>0, RegionBounds
  <2>2. Below(V, fr.chunk + 1, v + 1) = Below(V, fr.chunk, Value(v, Radix))
    BY <1>0, BelowUp
  <2> QED
    BY <1>2, <2>1, <2>2
<1> QED
  BY <1>1, <1>2, <1>5, <1>6

(* NextBucketIs: the bucket after the one the call is at is the region of  *)
(* the next prefix that occurs.                                            *)
LEMMA NextBucketIs ==
  ASSUME NEW V, Keyed(V), Frame \in FrameType, Buckets(V, Frame), MoreBuckets,
         NEW step \in {"split", "bucket", "called"},
         NEW to, to = AtBucket(step)
  PROVE  /\ to \in FrameType
         /\ to.chunk = Frame.chunk /\ to.range = Frame.range /\ to.step = step
         /\ to.bucket = NextBucket /\ to.bucket.start = Frame.bucket.end
         /\ Buckets(V, to) /\ OneBucket(V, to)
<1> DEFINE c == Frame.chunk
           p == Frame.prefix
           n == NextPrefix(Frame.offsets, p + 1)
<1>0. /\ Frame.range \in Ranges /\ Frame.bucket \in Ranges /\ c \in 0 .. FirstChunk
      /\ c \in 0 .. FirstChunk + 1 /\ c + 1 \in 0 .. FirstChunk + 1
      /\ p \in 0 .. Radix /\ Radix \in 0 .. Radix /\ Radix \in Nat
  BY ChunkAssumption DEF FrameType
<1>1. PICK v \in Nat :
        /\ Frame.range = Region(V, c + 1, v)
        /\ OffsetsOf(V, c, v, Frame.offsets)
        /\ p < Radix => Frame.offsets[p] > 0
        /\ Frame.bucket.end = Below(V, c, Value(v, p))
        /\ Frame.range.start <= Frame.bucket.start /\ Frame.bucket.start <= Frame.bucket.end
  BY DEF Buckets
<1>2. /\ Frame.range.start = Below(V, c + 1, v) /\ Frame.range.start \in Nat
      /\ Frame.range.end = Below(V, c + 1, v + 1) /\ Frame.range.end \in Nat
      /\ Frame.bucket.start \in Nat /\ Frame.bucket.end \in Nat
  <2>1. /\ Region(V, c + 1, v).start = Below(V, c + 1, v)
        /\ Region(V, c + 1, v).end = Below(V, c + 1, v + 1)
    BY <1>0, RegionBounds
  <2> QED
    BY <1>0, <1>1, <2>1 DEF Ranges
<1>3. p # Radix
  <2>1. Below(V, c + 1, v + 1) = Below(V, c, Value(v, Radix))
    BY <1>0, BelowUp
  <2> HIDE DEF c, p
  <2>2. p = Radix => Frame.bucket.end = Frame.range.end
    BY <1>1, <1>2, <2>1
  <2> QED
    BY <1>2, <2>2 DEF MoreBuckets
<1>4. p \in 0 .. Radix - 1 /\ p < Radix /\ p + 1 \in 0 .. Radix
  BY <1>0, <1>3
<1>5. Frame.offsets \in [0 .. Radix - 1 -> Nat]
  BY <1>1 DEF OffsetsOf
<1>6. Value(v, p) \in Nat /\ Value(v, p + 1) = Value(v, p) + 1
  BY <1>0, <1>4, ValuesInOrder
<1>7. Frame.range.start + Frame.offsets[p] = Below(V, c, Value(v, p) + 1)
  BY <1>1, <1>2, <1>4 DEF OffsetsOf
<1>8. NextBucket = Region(V, c, Value(v, p))
  BY <1>1, <1>3, <1>7 DEF NextBucket, Region
<1>9. /\ NextBucket.start = Below(V, c, Value(v, p))
      /\ NextBucket.end = Below(V, c, Value(v, p) + 1)
      /\ NextBucket.start \in Nat /\ NextBucket.end \in Nat
      /\ NextBucket.start <= NextBucket.end
  BY <1>0, <1>6, <1>8, RegionBounds
<1>10. NextBucket \in Ranges
  BY <1>9 DEF NextBucket, Extent, Ranges
<1>11. /\ n \in 0 .. Radix /\ p + 1 <= n
       /\ n < Radix => Frame.offsets[n] > 0
       /\ \A q \in 0 .. Radix - 1 : p + 1 <= q /\ q < n => Frame.offsets[q] = 0
  <2> DEFINE m == p + 1
  <2>1. m \in 0 .. Radix
    BY <1>4
  <2> HIDE DEF m
  <2>2. /\ NextPrefix(Frame.offsets, m) \in 0 .. Radix /\ m <= NextPrefix(Frame.offsets, m)
        /\ NextPrefix(Frame.offsets, m) < Radix => Frame.offsets[NextPrefix(Frame.offsets, m)] > 0
        /\ \A q \in 0 .. Radix - 1 : m <= q /\ q < NextPrefix(Frame.offsets, m) => Frame.offsets[q] = 0
    BY <1>5, <2>1, NextPrefixIs
  <2> QED
    BY <2>2 DEF m
<1> HIDE DEF n
<1>12. Below(V, c, Value(v, n)) = Below(V, c, Value(v, p + 1))
  <2>1. \A q \in 0 .. Radix - 1 : p + 1 <= q /\ q < n => GroupOf(V, c, Value(v, q)) = {}
    BY <1>1, <1>11 DEF OffsetsOf
  <2> DEFINE m == p + 1
  <2>2. m \in 0 .. Radix /\ n \in 0 .. Radix /\ m <= n /\ c \in 0 .. FirstChunk
    BY <1>0, <1>4, <1>11
  <2>3. \A q \in 0 .. Radix - 1 : m <= q /\ q < n => GroupOf(V, c, Value(v, q)) = {}
    BY <2>1
  <2> HIDE DEF m, c, p
  <2>4. Below(V, c, Value(v, n)) = Below(V, c, Value(v, m))
    BY <2>2, <2>3, Skipped
  <2> QED
    BY <2>4 DEF m
<1>13. /\ to \in FrameType
       /\ to.chunk = c /\ to.range = Frame.range /\ to.step = step /\ to.bucket = NextBucket
       /\ to.offsets = Frame.offsets /\ to.prefix = n
  BY <1>3, <1>10, <1>11 DEF AtBucket, FrameType, n
<1>14. to.bucket.end = Below(V, c, Value(v, n))
  BY <1>6, <1>9, <1>12, <1>13
<1>15. to.range.start <= to.bucket.start /\ to.bucket.start <= to.bucket.end
  BY <1>1, <1>2, <1>9, <1>13
<1>16. Buckets(V, to)
  BY <1>1, <1>11, <1>13, <1>14, <1>15 DEF Buckets
<1>17. OneBucket(V, to)
  BY <1>6, <1>8, <1>13 DEF OneBucket
<1>18. to.bucket.start = Frame.bucket.end
  BY <1>1, <1>9, <1>13
<1> QED
  BY <1>13, <1>16, <1>17, <1>18

(* SplitSame: what a call has settled and placed stays so where neither    *)
(* array has changed.                                                      *)
LEMMA SplitSame ==
  ASSUME NEW V, NEW fr, NEW dst, NEW copy, NEW S, NEW done, Split(V, fr, dst, copy, S, done),
         NEW to, to.chunk = fr.chunk, to.range = fr.range, Buckets(V, to),
         NEW dst2, NEW copy2, NEW T \in SUBSET S,
         \A x \in T : dst2[x] = dst[x],
         \A x \in fr.range.start .. done - 1 : dst2[x] = dst[x] /\ copy2[x] = copy[x]
  PROVE  Split(V, to, dst2, copy2, T, done)
<1>1. Settled(V, to.chunk, dst2, T)
  BY SettledSame DEF Split
<1>2. \A x \in to.range.start .. done - 1 : Placed(V, 0, dst2, x) /\ copy2[x] = dst2[x]
  BY DEF Split, Placed
<1> QED
  BY <1>1, <1>2 DEF Split

(* WaitingSame: nothing a call waits for depends on its bucket.            *)
LEMMA WaitingSame ==
  ASSUME NEW V, Keyed(V), NEW fr \in FrameType, NEW dst, NEW copy, Waiting(V, fr, dst, copy),
         NEW dst2, NEW copy2,
         \A x \in Within(fr.range) \ Within(fr.bucket) : dst2[x] = dst[x] /\ copy2[x] = copy[x]
  PROVE  Waiting(V, fr, dst2, copy2)
<1>1. /\ fr.step = "called" /\ OneBucket(V, fr) /\ Buckets(V, fr)
      /\ Split(V, fr, dst, copy, Within(fr.range) \ Within(fr.bucket), fr.bucket.start)
  BY DEF Waiting, Split
<1>2. \A x \in fr.range.start .. fr.bucket.start - 1 : x \in Within(fr.range) \ Within(fr.bucket)
  BY <1>1, BucketBounds DEF Within
<1>3. Split(V, fr, dst2, copy2, Within(fr.range) \ Within(fr.bucket), fr.bucket.start)
  BY <1>1, <1>2, SplitSame
<1> QED
  BY <1>1, <1>3 DEF Waiting

(* BucketDone: a bucket that is placed by all chunks is behind the call.   *)
LEMMA BucketDone ==
  ASSUME NEW V, Keyed(V), NEW fr \in FrameType, NEW dst, NEW copy, NEW S,
         Split(V, fr, dst, copy, S, fr.bucket.start),
         \A x \in Within(fr.bucket) : Placed(V, 0, dst, x) /\ copy[x] = dst[x]
  PROVE  Split(V, fr, dst, copy, S, fr.bucket.end)
<1>1. /\ fr.bucket.start \in Nat /\ fr.bucket.end \in Nat /\ fr.range.start \in Nat
  BY BucketBounds DEF Split
<1>2. \A x \in fr.range.start .. fr.bucket.end - 1 :
        x \in fr.range.start .. fr.bucket.start - 1 \/ x \in Within(fr.bucket)
  BY <1>1 DEF Within
<1> QED
  BY <1>2 DEF Split

(* CoarserSettled: settled by the chunks from one on, hence by those above.*)
LEMMA CoarserSettled ==
  ASSUME NEW V, Keyed(V), NEW c \in 0 .. FirstChunk, NEW f, NEW S, Settled(V, c, f, S)
  PROVE  Settled(V, c + 1, f, S)
BY Coarser DEF Settled

(* In the bucket B what was in from, outside of it what was there before.  *)
Brought(R, B, dst, copy, from, dst2, copy2) ==
  \A x \in R :
    IF x \in B THEN dst2[x] = from[x] /\ copy2[x] = dst2[x]
    ELSE dst2[x] = dst[x] /\ copy2[x] = copy[x]

(* Returned: a call that has placed its whole range, the bucket its caller *)
(* is at, lets the caller go on behind that bucket, once the bucket is     *)
(* copied to the array the caller's buckets are in.                        *)
LEMMA Returned ==
  ASSUME NEW V, Keyed(V), NEW fr \in FrameType, NEW dst, NEW copy, Waiting(V, fr, dst, copy),
         NEW inner \in FrameType, inner.range = fr.bucket, fr.chunk = inner.chunk + 1,
         NEW from, NEW copy1,
         Split(V, inner, from, copy1, Within(inner.range), inner.range.end),
         NEW to, to = [fr EXCEPT !.step = "split"],
         NEW dst2, NEW copy2,
         Brought(Within(fr.range), Within(fr.bucket), dst, copy, from, dst2, copy2)
  PROVE  /\ to \in FrameType
         /\ to.step = "split" /\ to.chunk = fr.chunk /\ to.range = fr.range /\ to.bucket = fr.bucket
         /\ Split(V, to, dst2, copy2, Within(to.range), to.bucket.end)
<1> DEFINE c == fr.chunk
           B == Within(fr.bucket)
           R == Within(fr.range)
<1>0. /\ fr.range \in Ranges /\ fr.bucket \in Ranges /\ c \in 0 .. FirstChunk + 1
      /\ inner.chunk \in 0 .. FirstChunk
  BY ChunkAssumption DEF FrameType
<1>1. /\ fr.step = "called" /\ OneBucket(V, fr) /\ Buckets(V, fr)
      /\ Split(V, fr, dst, copy, R \ B, fr.bucket.start)
  BY DEF Waiting, Split
<1>2. /\ fr.range.start \in Nat /\ fr.range.end \in Nat
      /\ fr.bucket.start \in Nat /\ fr.bucket.end \in Nat
      /\ fr.range.start <= fr.bucket.start /\ fr.bucket.start <= fr.bucket.end
      /\ fr.bucket.end <= fr.range.end
  BY <1>1, BucketBounds
<1>3. \A x \in R : IF x \in B THEN dst2[x] = from[x] /\ copy2[x] = dst2[x]
                     ELSE dst2[x] = dst[x] /\ copy2[x] = copy[x]
  BY DEF Brought
<1>4. B \subseteq R
  BY <1>2 DEF Within
<1>5. /\ to \in FrameType /\ to.step = "split" /\ to.chunk = fr.chunk /\ to.range = fr.range
      /\ to.bucket = fr.bucket /\ to.offsets = fr.offsets /\ to.prefix = fr.prefix
  BY DEF FrameType
<1>6. Buckets(V, to)
  BY <1>1, <1>5 DEF Buckets
<1>7. PICK w \in Nat : fr.bucket = Region(V, c, w)
  BY <1>1 DEF OneBucket
<1>8. Settled(V, c, from, B)
  BY <1>0, CoarserSettled DEF Split
<1> HIDE DEF B, R
<1>9. Settled(V, c, dst2, B)
  BY <1>4, <1>8, <1>3, SettledSame
<1>10. Settled(V, c, dst2, R \ B)
  <2>1. Settled(V, c, dst, R \ B)
    BY <1>1 DEF Split
  <2>2. \A x \in R \ B : dst2[x] = dst[x]
    BY <1>3
  <2> QED
    BY <2>1, <2>2, SettledSame
<1>11. Settled(V, c, dst2, R)
  <2>1. B = Within(Region(V, c, w))
    BY <1>7 DEF B
  <2> HIDE DEF c
  <2> QED
    BY <1>0, <1>9, <1>10, <2>1, Joined
<1>12. ASSUME NEW x \in fr.range.start .. fr.bucket.end - 1
       PROVE  Placed(V, 0, dst2, x) /\ copy2[x] = dst2[x]
  <2>1. CASE x \in B
    <3>1. dst2[x] = from[x] /\ copy2[x] = dst2[x]
      BY <1>4, <1>3, <2>1
    <3>2. x \in inner.range.start .. inner.range.end - 1
      BY <2>1 DEF B, Within
    <3>3. inner.range.start .. inner.range.end - 1 = fr.bucket.start .. fr.bucket.end - 1
      OBVIOUS
    <3>4. Placed(V, 0, from, x)
      BY <3>2 DEF Split
    <3> QED
      BY <3>1, <3>4 DEF Placed
  <2>2. CASE x \notin B
    <3>1. x \in R /\ x \in fr.range.start .. fr.bucket.start - 1
      BY <1>2, <2>2 DEF B, R, Within
    <3>2. dst2[x] = dst[x] /\ copy2[x] = copy[x]
      BY <1>3, <2>2, <3>1
    <3>3. Placed(V, 0, dst, x) /\ copy[x] = dst[x]
      BY <1>1, <3>1 DEF Split
    <3> QED
      BY <3>2, <3>3 DEF Placed
  <2> QED
    BY <2>1, <2>2
<1>13. Split(V, to, dst2, copy2, Within(to.range), to.bucket.end)
  BY <1>5, <1>6, <1>11, <1>12 DEF Split, R
<1> QED
  BY <1>5, <1>13

-----------------------------------------------------------------------------
(* The invariant of a sort.                                                *)
Sorting == phase \in {"sort_left", "sort_right"}

Mode == <<route, left, right, phase>>

Tuples == Values(Column)

Rows == DOMAIN Column

(* The array that a call distributes to, and the one it reads: by the      *)
(* chunk in the matrix, by the depth of the call in the tables, where      *)
(* every call exchanges the two.                                           *)
Target(fr, k) ==
  IF InMatrix THEN (IF Odd(fr.chunk) THEN other ELSE tuples)
  ELSE (IF Odd(k) THEN tuples ELSE other)

Source(fr, k) ==
  IF InMatrix THEN (IF Odd(fr.chunk) THEN tuples ELSE other)
  ELSE (IF Odd(k) THEN other ELSE tuples)

(* In the matrix, what is done is in the column in any case. *)
Copy(f) == IF InMatrix THEN tuples ELSE f

(* The calls that wait, each for the one in front of it. *)
StackInv ==
  /\ frames \in Seq(FrameType)
  /\ \A k \in 2 .. Len(frames) :
       /\ Waiting(Tuples, frames[k], Target(frames[k], k), Copy(Target(frames[k], k)))
       /\ frames[k].bucket = frames[k - 1].range
       /\ frames[k].chunk = frames[k - 1].chunk + 1
  /\ \A k, l \in 1 .. Len(frames) :
       l < k => Within(frames[l].range) \subseteq Within(frames[k].bucket)
  /\ \A k \in 1 .. Len(frames) : Within(frames[k].range) \subseteq Rows
  /\ frames # <<>> => frames[Len(frames)].range = Extent(0, Size(Column))

(* The call that runs: before its pass, between two buckets, or at one.    *)
BeforePass ==
  /\ calls = <<>>
  /\ Ready(Tuples, Frame, Source(Frame, 1))

BetweenBuckets ==
  /\ calls = <<>> /\ Frame.step = "split"
  /\ Split(Tuples, Frame, Target(Frame, 1), Copy(Target(Frame, 1)),
           Within(Frame.range), Frame.bucket.end)

AtOneBucket ==
  /\ IF InMatrix THEN Frame.step = "bucket" ELSE Frame.step = "split" /\ calls # <<>>
  /\ OneBucket(Tuples, Frame)
  /\ Split(Tuples, Frame, Target(Frame, 1), Copy(Target(Frame, 1)),
           Within(Frame.range), Frame.bucket.start)

TopInv == frames # <<>> => BeforePass \/ BetweenBuckets \/ AtOneBucket

ArraysInv == tuples \in [Rows -> Quick!Tuple] /\ other \in [Rows -> Quick!Tuple]

(* Quick sort runs on the bucket of the innermost call. *)
QuickInv ==
  calls # <<>> =>
    /\ frames # <<>> /\ AtOneBucket
    /\ asked = Frame.bucket
    /\ QI!IInv

SortedInv ==
  frames = <<>> =>
    /\ Settled(Tuples, 0, tuples, Rows)
    /\ ~InMatrix => next.tuples = Size(Column)

SortInv == ArraysInv /\ StackInv /\ TopInv /\ QuickInv /\ SortedInv

ScanInv ==
  /\ scan \in [running : BOOLEAN, i : Nat, j : Nat]
  /\ ~scan.running => scan = Quick!Idle
  /\ calls = <<>> => ~scan.running

-----------------------------------------------------------------------------
(* Columns: the tuples of a column are a finite set that fits in the       *)
(* chunks, as many as it has rows.                                         *)
LEMMA Columns ==
  ASSUME NEW f \in Lefts \cup Rights
  PROVE  /\ Keyed(Values(f))
         /\ Cardinality(Values(f)) = Size(f) /\ Size(f) \in Nat
         /\ DOMAIN f = 0 .. Size(f) - 1
         /\ f \in [DOMAIN f -> Quick!Tuple]
         /\ \A x \in DOMAIN f : f[x] \in Values(f)
         /\ \A x, y \in DOMAIN f : f[x] = f[y] => x = y
         /\ \A u \in Values(f) : u \in Quick!Tuple
         /\ \A t, u \in Values(f) : t.payload = u.payload => t = u
<1>1. /\ IsFiniteSet(DOMAIN f)
      /\ f \in [0 .. Size(f) - 1 -> Quick!Tuple]
      /\ \A x \in DOMAIN f : f[x].payload = x /\ Shifted(f[x].key, FirstChunk + 1) = 0
  BY ColumnAssumption DEF Size
<1>2. DOMAIN f = 0 .. Size(f) - 1 /\ Size(f) \in Nat
  BY <1>1, FS_CardinalityType DEF Size
<1>3. \A x, y \in DOMAIN f : f[x] = f[y] => x = y
  BY <1>1
<1>4. Values(f) = Held(f, 0 .. Size(f) - 1)
  BY <1>2 DEF Values, Held
<1>5. IsFiniteSet(Values(f)) /\ Cardinality(Values(f)) = Size(f)
  <2> DEFINE b == Size(f) - 1
  <2>1. 0 \in Int /\ b \in Int
    BY <1>2
  <2>2. \A x, y \in 0 .. b : f[x] = f[y] => x = y
    BY <1>2, <1>3
  <2>3. b = Size(f) - 1
    OBVIOUS
  <2> HIDE DEF b
  <2>4. IsFiniteSet(Held(f, 0 .. b)) /\ Cardinality(Held(f, 0 .. b)) = IF 0 > b THEN 0 ELSE b - 0 + 1
    BY <2>1, <2>2, ImageSize
  <2> QED
    BY <1>2, <1>4, <2>3, <2>4
<1>6. \A u \in Values(f) : \E x \in DOMAIN f : u = f[x]
  BY DEF Values
<1>7. \A x \in DOMAIN f : f[x] \in Values(f) /\ f[x] \in Quick!Tuple
  BY <1>1 DEF Values
<1>8. \A u \in Values(f) : u \in Quick!Tuple /\ u.key \in Nat /\ Shifted(u.key, FirstChunk + 1) = 0
  BY <1>1, <1>6, <1>7 DEF Quick!Tuple
<1>9. \A t, u \in Values(f) : t.payload = u.payload => t = u
  BY <1>1, <1>6
<1> QED
  BY <1>1, <1>2, <1>3, <1>5, <1>7, <1>8, <1>9 DEF Keyed

(* Replaced: what the stack of calls is after its first call was changed.  *)
LEMMA Replaced ==
  ASSUME NEW S, NEW q \in Seq(S), q # <<>>, NEW a \in S
  PROVE  /\ <<a>> \o Tail(q) \in Seq(S)
         /\ Len(<<a>> \o Tail(q)) = Len(q) /\ Len(q) \in Nat /\ Len(q) >= 1
         /\ <<a>> \o Tail(q) # <<>>
         /\ (<<a>> \o Tail(q))[1] = a
         /\ \A k \in 2 .. Len(q) : (<<a>> \o Tail(q))[k] = q[k]
<1>1. Tail(q) \in Seq(S) /\ Len(Tail(q)) = Len(q) - 1 /\ Len(q) \in Nat /\ Len(q) >= 1
  OBVIOUS
<1>2. \A k \in 1 .. Len(q) - 1 : Tail(q)[k] = q[k + 1]
  OBVIOUS
<1>3. <<a>> \in Seq(S) /\ Len(<<a>>) = 1
  OBVIOUS
<1> DEFINE t == Tail(q)
           n == Len(q)
<1> HIDE DEF t, n
<1>4. t \in Seq(S) /\ Len(t) = n - 1 /\ n \in Nat /\ n >= 1 /\ \A k \in 1 .. n - 1 : t[k] = q[k + 1]
  BY <1>1, <1>2 DEF t, n
<1>5. /\ <<a>> \o t \in Seq(S) /\ Len(<<a>> \o t) = n /\ <<a>> \o t # <<>>
      /\ (<<a>> \o t)[1] = a
  BY <1>3, <1>4
<1>6. \A k \in 2 .. n : (<<a>> \o t)[k] = t[k - 1]
  BY <1>3, <1>4
<1>7. \A k \in 2 .. n : k - 1 \in 1 .. n - 1 /\ (k - 1) + 1 = k
  BY <1>4
<1>8. \A k \in 2 .. n : (<<a>> \o t)[k] = q[k]
  BY <1>4, <1>6, <1>7
<1> QED
  BY <1>4, <1>5, <1>8 DEF t, n

(* Pushed: a call was put in front.                                        *)
LEMMA Pushed ==
  ASSUME NEW S, NEW q \in Seq(S), q # <<>>, NEW a \in S, NEW b \in S
  PROVE  LET s == <<b>> \o (<<a>> \o Tail(q))
         IN  /\ s \in Seq(S) /\ s # <<>>
             /\ Len(s) = Len(q) + 1 /\ Len(q) \in Nat /\ Len(q) >= 1
             /\ s[1] = b /\ s[2] = a
             /\ \A k \in 3 .. Len(q) + 1 : s[k] = q[k - 1]
<1> DEFINE t == <<a>> \o Tail(q)
           n == Len(q)
<1>1. /\ t \in Seq(S) /\ Len(t) = n /\ n \in Nat /\ n >= 1 /\ t[1] = a
      /\ \A k \in 2 .. n : t[k] = q[k]
  BY Replaced
<1> HIDE DEF t, n
<1>2. <<b>> \in Seq(S) /\ Len(<<b>>) = 1
  OBVIOUS
<1>3. /\ <<b>> \o t \in Seq(S) /\ Len(<<b>> \o t) = n + 1 /\ <<b>> \o t # <<>>
      /\ (<<b>> \o t)[1] = b
  BY <1>1, <1>2
<1>4. \A k \in 2 .. n + 1 : (<<b>> \o t)[k] = t[k - 1]
  BY <1>1, <1>2
<1>5. (<<b>> \o t)[2] = a
  <2>1. 2 \in 2 .. n + 1 /\ 2 - 1 = 1
    BY <1>1
  <2> QED
    BY <1>1, <1>4, <2>1
<1>6. ASSUME NEW k \in 3 .. n + 1 PROVE (<<b>> \o t)[k] = q[k - 1]
  <2>1. k \in 2 .. n + 1 /\ k - 1 \in 2 .. n
    BY <1>1
  <2> QED
    BY <1>1, <1>4, <2>1
<1> QED
  BY <1>1, <1>3, <1>5, <1>6 DEF t, n

(* Popped: the first call was taken off, and the one behind it changed.    *)
LEMMA Popped ==
  ASSUME NEW S, NEW q \in Seq(S), q # <<>>, Len(q) # 1, NEW a \in S
  PROVE  LET s == <<a>> \o Tail(Tail(q))
         IN  /\ s \in Seq(S) /\ s # <<>>
             /\ Len(s) = Len(q) - 1 /\ Len(q) \in Nat /\ Len(q) >= 2
             /\ s[1] = a
             /\ \A k \in 2 .. Len(q) - 1 : s[k] = q[k + 1]
<1> DEFINE t == Tail(q)
           n == Len(q)
<1>1. /\ t \in Seq(S) /\ Len(t) = n - 1 /\ n \in Nat /\ n >= 2 /\ t # <<>>
      /\ \A k \in 1 .. n - 1 : t[k] = q[k + 1]
  <2>0. Tail(q) \in Seq(S) /\ Len(Tail(q)) = Len(q) - 1 /\ Len(q) \in Nat /\ Len(q) >= 1
    OBVIOUS
  <2>1. Tail(q) \in Seq(S) /\ Len(Tail(q)) = Len(q) - 1 /\ Len(q) \in Nat /\ Len(q) >= 2
    BY <2>0
  <2>2. \A k \in 1 .. Len(q) - 1 : Tail(q)[k] = q[k + 1]
    OBVIOUS
  <2>3. Len(<<>>) = 0
    OBVIOUS
  <2>4. Tail(q) # <<>>
    BY <2>1, <2>3
  <2> QED
    BY <2>1, <2>2, <2>4
<1> HIDE DEF t, n
<1>2. /\ <<a>> \o Tail(t) \in Seq(S) /\ <<a>> \o Tail(t) # <<>>
      /\ Len(<<a>> \o Tail(t)) = Len(t)
      /\ (<<a>> \o Tail(t))[1] = a
      /\ \A k \in 2 .. Len(t) : (<<a>> \o Tail(t))[k] = t[k]
  BY <1>1, Replaced
<1>3. ASSUME NEW k \in 2 .. n - 1 PROVE (<<a>> \o Tail(t))[k] = q[k + 1]
  <2>1. k \in 2 .. Len(t) /\ k \in 1 .. n - 1
    BY <1>1
  <2> QED
    BY <1>1, <1>2, <2>1
<1> QED
  BY <1>1, <1>2, <1>3 DEF t, n

-----------------------------------------------------------------------------
(* Settings: what the steps of a sort leave as it is.                      *)
LEMMA Settings ==
  ASSUME UNCHANGED Mode
  PROVE  /\ Column' = Column /\ Tuples' = Tuples /\ Rows' = Rows
         /\ InMatrix' = InMatrix /\ Sorting' = Sorting
         /\ Size(Column)' = Size(Column)
BY DEF Mode, Column, Tuples, Rows, Values, InMatrix, Sorting, Size

(* OneColumn: the column that is sorted.                                   *)
LEMMA OneColumn ==
  ASSUME left \in Lefts, right \in Rights
  PROVE  /\ Keyed(Tuples) /\ Cardinality(Tuples) = Size(Column) /\ Size(Column) \in Nat
         /\ Rows = 0 .. Size(Column) - 1
         /\ \A u \in Tuples : u \in Quick!Tuple
<1>1. Column \in Lefts \cup Rights
  BY DEF Column
<1> QED
  BY <1>1, Columns DEF Tuples, Rows

(* StackKept: a step that changes the arrays in the range of the innermost *)
(* call only does not touch what the calls around it wait for.             *)
LEMMA StackKept ==
  ASSUME Keyed(Tuples), StackInv, frames # <<>>, UNCHANGED Mode,
         frames' \in Seq(FrameType), Len(frames') = Len(frames),
         \A k \in 2 .. Len(frames) : frames'[k] = frames[k],
         frames'[1].range = Frame.range, frames'[1].chunk = Frame.chunk,
         \A x \in Rows \ Within(Frame.range) : tuples'[x] = tuples[x] /\ other'[x] = other[x]
  PROVE  StackInv'
<1> DEFINE n == Len(frames)
<1>0. n \in Nat /\ n >= 1 /\ 1 \in 1 .. n
  BY DEF StackInv
<1>1. \A k \in 1 .. n : frames[k] \in FrameType
  BY DEF StackInv
<1>2. ASSUME NEW k \in 1 .. n
      PROVE  frames'[k].range = frames[k].range /\ frames'[k].chunk = frames[k].chunk
  <2>1. k = 1 \/ k \in 2 .. n
    BY <1>0
  <2> QED
    BY <2>1 DEF Frame
<1>3. ASSUME NEW k \in 2 .. n
      PROVE  /\ Waiting(Tuples, frames[k], Target(frames[k], k)', Copy(Target(frames[k], k))')
             /\ frames'[k] = frames[k] /\ frames'[k].bucket = frames'[k - 1].range
             /\ frames'[k].chunk = frames'[k - 1].chunk + 1
  <2> DEFINE fr == frames[k]
             dst == Target(fr, k)
             copy == Copy(dst)
  <2>1. k \in 1 .. n /\ 1 < k /\ k - 1 \in 1 .. n
    BY <1>0
  <2>2. Waiting(Tuples, fr, dst, copy) /\ fr \in FrameType
    BY <1>1, <2>1 DEF StackInv
  <2>3. Within(Frame.range) \subseteq Within(fr.bucket) /\ Within(fr.range) \subseteq Rows
    BY <1>0, <2>1 DEF StackInv, Frame
  <2>4. \A x \in Within(fr.range) \ Within(fr.bucket) :
          tuples'[x] = tuples[x] /\ other'[x] = other[x]
    BY <2>3
  <2>5. \A x \in Within(fr.range) \ Within(fr.bucket) :
          Target(fr, k)'[x] = dst[x] /\ Copy(Target(fr, k))'[x] = copy[x]
    <3>1. InMatrix' = InMatrix /\ frames'[k] = frames[k]
      BY Settings
    <3> QED
      BY <2>4, <3>1 DEF Target, Copy
  <2>6. frames'[k] = fr /\ fr.bucket = frames[k - 1].range /\ fr.chunk = frames[k - 1].chunk + 1
    BY DEF StackInv
  <2>7. Waiting(Tuples, fr, Target(fr, k)', Copy(Target(fr, k))')
    <3> HIDE DEF fr, dst, copy
    <3> QED
      BY <2>2, <2>5, WaitingSame
  <2> QED
    BY <1>2, <2>1, <2>6, <2>7
<1>4. \A k \in 2 .. n : frames'[k] = frames[k] /\ frames'[k].bucket = frames[k].bucket
  OBVIOUS
<1>5. \A k, l \in 1 .. n : l < k => Within(frames'[l].range) \subseteq Within(frames'[k].bucket)
  <2> SUFFICES ASSUME NEW k \in 1 .. n, NEW l \in 1 .. n, l < k
               PROVE  Within(frames'[l].range) \subseteq Within(frames'[k].bucket)
    OBVIOUS
  <2>1. k \in 2 .. n
    BY <1>0
  <2> QED
    BY <1>2, <1>4, <2>1 DEF StackInv
<1>6. \A k \in 1 .. n : Within(frames'[k].range) \subseteq Rows
  BY <1>2 DEF StackInv
<1>7. frames'[n].range = Extent(0, Size(Column))
  BY <1>0, <1>2 DEF StackInv
<1> QED
  BY <1>3, <1>5, <1>6, <1>7, Settings DEF StackInv

(* OddAlternates: neighbours in depth, or in chunk, are not both odd.      *)
LEMMA OddAlternates ==
  /\ Odd(1) /\ ~Odd(2)
  /\ \A k \in Int : Odd(k) <=> ~Odd(k - 1)
<1>1. 1 % 2 = 1 /\ 2 % 2 = 0
  OBVIOUS
<1>2. \A k \in Int : k % 2 = 1 <=> (k - 1) % 2 # 1
  OBVIOUS
<1> QED
  BY <1>1, <1>2 DEF Odd

(* Tables change places with every call, the arrays of the matrix do not.  *)
Exchange ==
  IF InMatrix THEN UNCHANGED <<tuples, other>> ELSE tuples' = other /\ other' = tuples

(* StackPushed: a call for the bucket that the innermost call is at.       *)
LEMMA StackPushed ==
  ASSUME Keyed(Tuples), StackInv, frames # <<>>, UNCHANGED Mode, Exchange,
         NEW fr \in FrameType, fr.range = Frame.range, fr.chunk = Frame.chunk,
         NEW call \in FrameType, call.range = fr.bucket, fr.chunk = call.chunk + 1,
         frames' = <<call>> \o (<<fr>> \o Tail(frames)),
         Waiting(Tuples, fr, Target(Frame, 1), Copy(Target(Frame, 1)))
  PROVE  StackInv'
<1> DEFINE n == Len(frames)
<1>0. n \in Nat /\ n >= 1 /\ 1 \in 1 .. n /\ frames[1] = Frame
  BY DEF StackInv, Frame
<1>1. \A k \in 1 .. n : frames[k] \in FrameType
  BY DEF StackInv
<1>2. /\ frames' \in Seq(FrameType) /\ frames' # <<>> /\ Len(frames') = n + 1
      /\ frames'[1] = call /\ frames'[2] = fr
      /\ \A k \in 3 .. n + 1 : frames'[k] = frames[k - 1]
  BY Pushed DEF StackInv
<1>3. InMatrix' = InMatrix /\ Tuples' = Tuples /\ Rows' = Rows /\ Size(Column)' = Size(Column)
  BY Settings
<1>4. Within(fr.bucket) \subseteq Within(fr.range)
  <2>1. Buckets(Tuples, fr)
    BY DEF Waiting, Split
  <2> QED
    BY <2>1, BucketBounds DEF Within
<1>5. /\ ~Odd(2) /\ Odd(1)
      /\ \A k \in 3 .. n + 1 : Odd(k) <=> ~Odd(k - 1)
  <2>1. \A k \in 3 .. n + 1 : k \in Int
    BY <1>0
  <2> HIDE DEF n
  <2> QED
    BY <2>1, OddAlternates
<1>6. ASSUME NEW k \in 2 .. n + 1
      PROVE  /\ Waiting(Tuples, frames'[k], Target(frames[k], k)', Copy(Target(frames[k], k))')
             /\ frames'[k].bucket = frames'[k - 1].range
             /\ frames'[k].chunk = frames'[k - 1].chunk + 1
  <2>1. CASE k = 2
    <3>1. /\ Target(frames[k], k)' = Target(Frame, 1)
          /\ Copy(Target(frames[k], k))' = Copy(Target(Frame, 1))
      BY <1>2, <1>3, <1>5, <2>1 DEF Target, Copy, Exchange
    <3> QED
      BY <1>2, <2>1, <3>1
  <2>2. CASE k # 2
    <3>1. /\ k \in 3 .. n + 1 /\ k - 1 \in 2 .. n /\ k - 1 \in 1 .. n
          /\ frames'[k] = frames[k - 1]
      BY <1>2, <2>2
    <3>2. /\ Target(frames[k], k)' = Target(frames[k - 1], k - 1)
          /\ Copy(Target(frames[k], k))' = Copy(Target(frames[k - 1], k - 1))
      BY <1>3, <1>5, <3>1 DEF Target, Copy, Exchange
    <3>3. /\ Waiting(Tuples, frames[k - 1], Target(frames[k - 1], k - 1), Copy(Target(frames[k - 1], k - 1)))
          /\ frames[k - 1].bucket = frames[(k - 1) - 1].range
          /\ frames[k - 1].chunk = frames[(k - 1) - 1].chunk + 1
      BY <3>1 DEF StackInv
    <3>4. frames'[k - 1].range = frames[(k - 1) - 1].range /\ frames'[k - 1].chunk = frames[(k - 1) - 1].chunk
      <4>1. CASE k = 3
        <5>1. k - 1 = 2 /\ (k - 1) - 1 = 1
          BY <4>1
        <5> QED
          BY <1>0, <1>2, <5>1
      <4>2. CASE k # 3
        <5>1. k - 1 \in 3 .. n + 1
          BY <3>1, <4>2
        <5> QED
          BY <1>2, <5>1
      <4> QED
        BY <4>1, <4>2
    <3> QED
      BY <3>1, <3>2, <3>3, <3>4
  <2> QED
    BY <2>1, <2>2
<1>7. ASSUME NEW k \in 1 .. n + 1, NEW l \in 1 .. n + 1, l < k
      PROVE  Within(frames'[l].range) \subseteq Within(frames'[k].bucket)
  <2>1. CASE k = 2
    <3>1. l = 1
      BY <1>7, <2>1
    <3> QED
      BY <1>2, <2>1, <3>1
  <2>2. CASE k # 2
    <3>1. k \in 3 .. n + 1 /\ k - 1 \in 2 .. n /\ k - 1 \in 1 .. n
      BY <1>7, <2>2
    <3>2. \A m \in 1 .. n : m < k - 1 => Within(frames[m].range) \subseteq Within(frames[k - 1].bucket)
      BY <3>1 DEF StackInv
    <3>3. Within(frames[1].range) \subseteq Within(frames[k - 1].bucket)
      BY <1>0, <3>1, <3>2
    <3>4. CASE l \in {1, 2}
      <4>1. Within(frames'[l].range) \subseteq Within(frames[1].range)
        BY <1>0, <1>2, <1>4, <3>4
      <4> QED
        BY <1>2, <3>1, <3>3, <4>1
    <3>5. CASE l \notin {1, 2}
      <4>1. l \in 3 .. n + 1 /\ l - 1 \in 1 .. n /\ l - 1 < k - 1
        BY <1>0, <1>7, <3>5
      <4> QED
        BY <1>2, <3>1, <3>2, <4>1
    <3> QED
      BY <3>4, <3>5
  <2> QED
    BY <2>1, <2>2
<1>8. ASSUME NEW k \in 1 .. n + 1 PROVE Within(frames'[k].range) \subseteq Rows
  <2>1. Within(Frame.range) \subseteq Rows
    BY <1>0 DEF StackInv
  <2>2. CASE k \in {1, 2}
    BY <1>2, <1>4, <2>1, <2>2
  <2>3. CASE k \notin {1, 2}
    <3>1. k \in 3 .. n + 1 /\ k - 1 \in 1 .. n
      BY <1>0, <2>3
    <3> QED
      BY <1>2, <3>1 DEF StackInv
  <2> QED
    BY <2>2, <2>3
<1>9. frames'[n + 1].range = Extent(0, Size(Column))
  <2>1. frames[n].range = Extent(0, Size(Column))
    BY DEF StackInv
  <2>2. CASE n = 1
    BY <1>0, <1>2, <2>1, <2>2
  <2>3. CASE n # 1
    <3>1. n + 1 \in 3 .. n + 1 /\ (n + 1) - 1 = n
      <4> HIDE DEF n
      <4> QED
        BY <1>0, <2>3
    <3> QED
      BY <1>2, <2>1, <3>1
  <2> QED
    BY <2>2, <2>3
<1> HIDE DEF n
<1> QED
  BY <1>2, <1>3, <1>6, <1>7, <1>8, <1>9 DEF StackInv

(* ExchangedOutside: the same, outside of a set of positions.              *)
ExchangedOutside(S) ==
  \A x \in Rows \ S :
    IF InMatrix THEN tuples'[x] = tuples[x] /\ other'[x] = other[x]
    ELSE tuples'[x] = other[x] /\ other'[x] = tuples[x]

(* StackPopped: the innermost call returns to the one that waits for it.   *)
LEMMA StackPopped ==
  ASSUME Keyed(Tuples), StackInv, frames # <<>>, Len(frames) # 1, UNCHANGED Mode,
         ExchangedOutside(Within(frames[2].bucket)),
         frames' = <<[frames[2] EXCEPT !.step = "split"]>> \o Tail(Tail(frames))
  PROVE  /\ StackInv'
         /\ Len(frames) \in Nat /\ Len(frames) >= 2 /\ frames' # <<>>
         /\ frames[1] \in FrameType /\ frames[2] \in FrameType
         /\ frames'[1] = [frames[2] EXCEPT !.step = "split"]
         /\ frames[2].bucket = frames[1].range /\ frames[2].chunk = frames[1].chunk + 1
         /\ Waiting(Tuples, frames[2], Target(frames[2], 2), Copy(Target(frames[2], 2)))
         /\ Within(frames[2].range) \subseteq Rows
<1> DEFINE n == Len(frames)
           to == [frames[2] EXCEPT !.step = "split"]
<1>0. n \in Nat /\ n >= 2 /\ 1 \in 1 .. n /\ 2 \in 1 .. n /\ 2 \in 2 .. n
  <2>1. frames \in Seq(FrameType)
    BY DEF StackInv
  <2>2. n \in Nat /\ n >= 1
    BY <2>1
  <2> QED
    BY <2>2
<1>1. \A k \in 1 .. n : frames[k] \in FrameType
  BY DEF StackInv
<1>2. /\ to \in FrameType /\ to.range = frames[2].range /\ to.chunk = frames[2].chunk
      /\ to.bucket = frames[2].bucket
  <2>1. frames[2] \in FrameType
    BY <1>0, <1>1
  <2> QED
    BY <2>1 DEF FrameType
<1>3. /\ frames' \in Seq(FrameType) /\ frames' # <<>> /\ Len(frames') = n - 1
      /\ frames'[1] = to
      /\ \A k \in 2 .. n - 1 : frames'[k] = frames[k + 1]
  <2> HIDE DEF to
  <2>1. frames' = <<to>> \o Tail(Tail(frames))
    BY DEF to
  <2>2. frames \in Seq(FrameType)
    BY DEF StackInv
  <2> DEFINE q == <<to>> \o Tail(Tail(frames))
  <2>3. /\ q \in Seq(FrameType) /\ q # <<>> /\ Len(q) = Len(frames) - 1 /\ q[1] = to
        /\ \A k \in 2 .. Len(frames) - 1 : q[k] = frames[k + 1]
    BY <1>2, <2>2, Popped
  <2> HIDE DEF q
  <2>4. frames' = q
    BY <2>1 DEF q
  <2> QED
    BY <2>3, <2>4
<1>4. InMatrix' = InMatrix /\ Tuples' = Tuples /\ Rows' = Rows /\ Size(Column)' = Size(Column)
  BY Settings
<1>5. /\ frames[2].bucket = frames[1].range /\ frames[2].chunk = frames[1].chunk + 1
      /\ Waiting(Tuples, frames[2], Target(frames[2], 2), Copy(Target(frames[2], 2)))
  <2>1. 2 - 1 = 1
    OBVIOUS
  <2> QED
    BY <1>0, <2>1 DEF StackInv
<1>6. ASSUME NEW k \in 1 .. n - 1
      PROVE  frames'[k].range = frames[k + 1].range /\ frames'[k].chunk = frames[k + 1].chunk
             /\ frames'[k].bucket = frames[k + 1].bucket
  <2>1. CASE k = 1
    <3>1. k + 1 = 2
      BY <2>1
    <3> HIDE DEF to
    <3> QED
      BY <1>2, <1>3, <2>1, <3>1
  <2>2. CASE k # 1
    <3>1. k \in 2 .. n - 1
      <4> HIDE DEF n
      <4> QED
        BY <1>0, <2>2
    <3> QED
      BY <1>3, <3>1
  <2> QED
    BY <2>1, <2>2
<1> HIDE DEF n, to
<1>7. ASSUME NEW k \in 2 .. n - 1
      PROVE  /\ Waiting(Tuples, frames'[k], Target(frames[k], k)', Copy(Target(frames[k], k))')
             /\ frames'[k].bucket = frames'[k - 1].range
             /\ frames'[k].chunk = frames'[k - 1].chunk + 1
  <2> DEFINE m == k + 1
             fr == frames[m]
             dst == Target(fr, m)
             copy == Copy(dst)
  <2>1. m \in 2 .. n /\ m \in 1 .. n /\ 1 < m /\ m - 1 = k /\ k - 1 \in 1 .. n - 1 /\ (k - 1) + 1 = k
    BY <1>0
  <2>2. /\ Waiting(Tuples, fr, dst, copy) /\ fr \in FrameType
        /\ fr.bucket = frames[m - 1].range /\ fr.chunk = frames[m - 1].chunk + 1
    <3> HIDE DEF m
    <3> QED
      BY <1>1, <2>1 DEF StackInv, n
  <2>3. Within(frames[2].bucket) \subseteq Within(fr.bucket) /\ Within(fr.range) \subseteq Rows
    <3> HIDE DEF m
    <3> QED
      BY <1>0, <1>5, <2>1 DEF StackInv, n
  <2>4. Odd(m) <=> ~Odd(k)
    BY <2>1, OddAlternates
  <2>5. frames'[k] = fr
    BY <1>3
  <2>6. \A x \in Within(fr.range) \ Within(fr.bucket) :
          Target(frames[k], k)'[x] = dst[x] /\ Copy(Target(frames[k], k))'[x] = copy[x]
    <3>1. \A x \in Within(fr.range) \ Within(fr.bucket) :
            IF InMatrix THEN tuples'[x] = tuples[x] /\ other'[x] = other[x]
            ELSE tuples'[x] = other[x] /\ other'[x] = tuples[x]
      BY <2>3 DEF ExchangedOutside
    <3> HIDE DEF m, fr
    <3> QED
      BY <1>4, <2>4, <2>5, <3>1 DEF Target, Copy
  <2>7. Waiting(Tuples, fr, Target(frames[k], k)', Copy(Target(frames[k], k))')
    <3> DEFINE dst2 == Target(frames[k], k)'
               copy2 == Copy(Target(frames[k], k))'
    <3>1. \A x \in Within(fr.range) \ Within(fr.bucket) : dst2[x] = dst[x] /\ copy2[x] = copy[x]
      BY <2>6
    <3> HIDE DEF m, fr, dst, copy, dst2, copy2
    <3>2. Waiting(Tuples, fr, dst2, copy2)
      BY <2>2, <3>1, WaitingSame
    <3> QED
      BY <3>2 DEF dst2, copy2
  <2>8. frames'[k - 1].range = frames[k].range /\ frames'[k - 1].chunk = frames[k].chunk
    BY <1>6, <2>1
  <2> QED
    BY <2>1, <2>2, <2>5, <2>7, <2>8
<1>8. ASSUME NEW k \in 1 .. n - 1, NEW l \in 1 .. n - 1, l < k
      PROVE  Within(frames'[l].range) \subseteq Within(frames'[k].bucket)
  <2>1. k + 1 \in 1 .. n /\ l + 1 \in 1 .. n /\ l + 1 < k + 1
    BY <1>0, <1>8
  <2>2. Within(frames[l + 1].range) \subseteq Within(frames[k + 1].bucket)
    BY <2>1 DEF StackInv, n
  <2> QED
    BY <1>6, <2>2
<1>9. ASSUME NEW k \in 1 .. n - 1 PROVE Within(frames'[k].range) \subseteq Rows
  <2>1. k + 1 \in 1 .. n
    BY <1>0
  <2> QED
    BY <1>6, <2>1 DEF StackInv, n
<1>10. frames'[n - 1].range = Extent(0, Size(Column))
  <2>1. n - 1 \in 1 .. n - 1 /\ (n - 1) + 1 = n
    BY <1>0
  <2> QED
    BY <1>6, <2>1 DEF StackInv, n
<1>11. Within(frames[2].range) \subseteq Rows
  BY <1>0 DEF StackInv, n
<1>12. StackInv'
  BY <1>3, <1>4, <1>7, <1>8, <1>9, <1>10 DEF StackInv
<1> QED
  BY <1>0, <1>1, <1>3, <1>5, <1>11, <1>12 DEF n, to

-----------------------------------------------------------------------------
(* The innermost call distributes to the first of the two arrays. *)
ToTuples == IF InMatrix THEN ~Odd(Frame.chunk) ELSE TRUE

(* TopArrays: the arrays of the innermost call.                            *)
LEMMA TopArrays ==
  /\ Target(Frame, 1) = IF ToTuples THEN tuples ELSE other
  /\ Source(Frame, 1) = IF ToTuples THEN other ELSE tuples
BY OddAlternates DEF Target, Source, ToTuples

(* TopCall: the innermost call is on the stack, with its range in the rows.*)
LEMMA TopCall ==
  ASSUME StackInv, frames # <<>>
  PROVE  /\ Frame \in FrameType /\ frames \in Seq(FrameType)
         /\ Len(frames) \in Nat /\ Len(frames) >= 1
         /\ Within(Frame.range) \subseteq Rows
<1>1. frames \in Seq(FrameType)
  BY DEF StackInv
<1>2. Len(frames) \in Nat /\ Len(frames) >= 1
  BY <1>1
<1>3. 1 \in 1 .. Len(frames)
  BY <1>2
<1> QED
  BY <1>1, <1>2, <1>3 DEF StackInv, Frame

(* SameArrays: they stay the same ones as long as the call runs.           *)
LEMMA SameArrays ==
  ASSUME UNCHANGED Mode, Frame'.chunk = Frame.chunk
  PROVE  /\ ToTuples' = ToTuples
         /\ (Target(Frame, 1))' = IF ToTuples THEN tuples' ELSE other'
<1>1. InMatrix' = InMatrix
  BY Settings
<1>2. ToTuples' = ToTuples
  BY <1>1, Zenon DEF ToTuples
<1>3. Odd(1)
  BY OddAlternates
<1> QED
  BY <1>1, <1>2, <1>3 DEF Target, ToTuples

(* PassStep: the pass of a call, in either sort.                           *)
LEMMA PassStep ==
  ASSUME Keyed(Tuples), SortInv, At("pass"), UNCHANGED Mode, UNCHANGED calls,
         IF ToTuples
           THEN /\ tuples' = Distributed(other, tuples, Frame.chunk, Frame.range)
                /\ frames' = AfterPass(other) /\ UNCHANGED other
           ELSE /\ other' = Distributed(tuples, other, Frame.chunk, Frame.range)
                /\ frames' = AfterPass(tuples) /\ UNCHANGED tuples
  PROVE  SortInv'
<1> DEFINE src == IF ToTuples THEN other ELSE tuples
           dst == IF ToTuples THEN tuples ELSE other
           offsets == Offsets(src, Frame.chunk, Frame.range)
           after == Distributed(src, dst, Frame.chunk, Frame.range)
           to == Passed(Frame, offsets)
           copy == (Copy(Target(Frame, 1)))'
<1>0. frames # <<>> /\ calls = <<>> /\ Frame.step = "pass" /\ StackInv
  BY DEF At, SortInv
<1>1. /\ Frame \in FrameType /\ frames \in Seq(FrameType)
      /\ Within(Frame.range) \subseteq Rows
  BY <1>0, TopCall
<1>2. Ready(Tuples, Frame, src)
  <2>1. BeforePass
    BY <1>0 DEF SortInv, TopInv, BetweenBuckets, AtOneBucket
  <2> QED
    BY <2>1, TopArrays DEF BeforePass
<1>3. src \in [Rows -> Quick!Tuple] /\ dst \in [Rows -> Quick!Tuple]
  BY DEF SortInv, ArraysInv
<1>4. frames' = <<to>> \o Tail(frames)
  BY DEF AfterPass, Resume, Passed
<1>5. /\ ToTuples => tuples' = after /\ other' = other
      /\ ~ToTuples => other' = after /\ tuples' = tuples
      /\ ToTuples => dst = tuples
      /\ ~ToTuples => dst = other
  OBVIOUS
<1>6. DOMAIN dst = Rows
  BY <1>3
<1> HIDE DEF src, dst, offsets, after, to, copy
<1>13. /\ offsets = Offsets(src, Frame.chunk, Frame.range)
       /\ after = Distributed(src, dst, Frame.chunk, Frame.range)
       /\ to = Passed(Frame, offsets)
  BY DEF offsets, after, to
<1>7. /\ to \in FrameType
      /\ to.chunk = Frame.chunk /\ to.range = Frame.range /\ to.step = "split"
      /\ \A b : Split(Tuples, to, after, b, Within(to.range), to.bucket.end)
      /\ DOMAIN after = DOMAIN dst
      /\ \A x \in DOMAIN dst \ Within(Frame.range) : after[x] = dst[x]
      /\ \A x \in Within(Frame.range) : after[x] \in Held(src, Within(Frame.range))
  <2>1. Within(Frame.range) \subseteq DOMAIN dst
    BY <1>1, <1>6
  <2>2. to \in FrameType /\ to.chunk = Frame.chunk /\ to.range = Frame.range /\ to.step = "split"
    BY <1>1, <1>2, <1>13, <2>1, PassSplits
  <2>3. \A b : Split(Tuples, to, after, b, Within(to.range), to.bucket.end)
    BY <1>1, <1>2, <1>13, <2>1, PassSplits
  <2>4. DOMAIN after = DOMAIN dst
    BY <1>1, <1>2, <1>13, <2>1, PassSplits
  <2>5. \A x \in DOMAIN dst \ Within(Frame.range) : after[x] = dst[x]
    BY <1>1, <1>2, <1>13, <2>1, PassSplits
  <2>6. \A x \in Within(Frame.range) : after[x] \in Held(src, Within(Frame.range))
    BY <1>1, <1>2, <1>13, <2>1, PassSplits
  <2> QED
    BY <2>2, <2>3, <2>4, <2>5, <2>6
<1>8. after \in [Rows -> Quick!Tuple]
  <2>1. \A x \in Rows : after[x] \in Quick!Tuple
    BY <1>1, <1>3, <1>6, <1>7 DEF Held
  <2>2. after = [x \in Rows |-> after[x]]
    BY <1>6 DEF after, Distributed
  <2> QED
    BY <2>1, <2>2
<1>9. /\ frames' \in Seq(FrameType) /\ Len(frames') = Len(frames) /\ frames' # <<>>
      /\ frames'[1] = to
      /\ \A k \in 2 .. Len(frames) : frames'[k] = frames[k]
  BY <1>0, <1>1, <1>4, <1>7, Replaced
<1>10. ArraysInv'
  BY <1>5, <1>8, Settings DEF SortInv, ArraysInv
<1>11. StackInv'
  <2>1. \A x \in Rows \ Within(Frame.range) : tuples'[x] = tuples[x] /\ other'[x] = other[x]
    BY <1>5, <1>6, <1>7
  <2> QED
    BY <1>0, <1>7, <1>9, <2>1, StackKept
<1>12. BetweenBuckets'
  <2>1. Frame' = to
    BY <1>9 DEF Frame
  <2>2. ToTuples' = ToTuples /\ (Target(Frame, 1))' = IF ToTuples THEN tuples' ELSE other'
    BY <1>7, <2>1, SameArrays
  <2>3. (Target(Frame, 1))' = after
    BY <1>5, <2>2
  <2> QED
    BY <1>0, <1>7, <2>1, <2>3, Settings DEF BetweenBuckets, copy
<1> QED
  BY <1>0, <1>9, <1>10, <1>11, <1>12 DEF SortInv, TopInv, QuickInv, SortedInv

(* Resumed: the innermost call goes on, and what it has changed is in its  *)
(* own range.                                                              *)
LEMMA Resumed ==
  ASSUME Keyed(Tuples), StackInv, frames # <<>>, UNCHANGED Mode,
         NEW to \in FrameType, to.range = Frame.range, to.chunk = Frame.chunk,
         frames' = <<to>> \o Tail(frames),
         \A x \in Rows \ Within(Frame.range) : tuples'[x] = tuples[x] /\ other'[x] = other[x]
  PROVE  StackInv' /\ frames' # <<>> /\ Frame' = to
<1>1. frames \in Seq(FrameType)
  BY DEF StackInv
<1>2. /\ frames' \in Seq(FrameType) /\ Len(frames') = Len(frames) /\ frames' # <<>>
      /\ frames'[1] = to
      /\ \A k \in 2 .. Len(frames) : frames'[k] = frames[k]
  BY <1>1, Replaced
<1>3. StackInv'
  BY <1>2, StackKept
<1> QED
  BY <1>2, <1>3 DEF Frame

(* NextIs: a call between two buckets that goes on to the next one.        *)
LEMMA NextIs ==
  ASSUME Keyed(Tuples), SortInv, At("split"), MoreBuckets,
         NEW step \in {"split", "bucket", "called"}, NEW to, to = AtBucket(step)
  PROVE  /\ to \in FrameType
         /\ to.chunk = Frame.chunk /\ to.range = Frame.range
         /\ to.step = step /\ to.bucket = NextBucket
         /\ OneBucket(Tuples, to) /\ Buckets(Tuples, to)
         /\ Split(Tuples, to, Target(Frame, 1), Copy(Target(Frame, 1)),
                  Within(to.range), to.bucket.start)
         /\ to.bucket.start \in Nat /\ to.bucket.end \in Nat
         /\ to.bucket.start <= to.bucket.end
         /\ Within(to.bucket) \subseteq Within(to.range)
         /\ Within(to.range) \subseteq Rows
         /\ calls = <<>> /\ frames # <<>>
<1>1. frames # <<>> /\ calls = <<>> /\ Frame.step = "split" /\ StackInv
  BY DEF At, SortInv
<1>2. Split(Tuples, Frame, Target(Frame, 1), Copy(Target(Frame, 1)),
            Within(Frame.range), Frame.bucket.end)
  BY <1>1 DEF SortInv, TopInv, BeforePass, Ready, BetweenBuckets, AtOneBucket
<1>3. Frame \in FrameType /\ Within(Frame.range) \subseteq Rows
  BY <1>1, TopCall
<1>4. Buckets(Tuples, Frame)
  BY <1>2 DEF Split
<1>5. /\ to \in FrameType
      /\ to.chunk = Frame.chunk /\ to.range = Frame.range /\ to.step = step
      /\ to.bucket = NextBucket /\ to.bucket.start = Frame.bucket.end
      /\ Buckets(Tuples, to) /\ OneBucket(Tuples, to)
  BY <1>3, <1>4, NextBucketIs
<1>6. /\ to.bucket.start \in Nat /\ to.bucket.end \in Nat
      /\ to.bucket.start <= to.bucket.end
      /\ to.range.start \in Nat /\ to.range.end \in Nat
      /\ to.range.start <= to.bucket.start /\ to.bucket.end <= to.range.end
  BY <1>5, BucketBounds
<1>7. Within(to.bucket) \subseteq Within(to.range)
  BY <1>6 DEF Within
<1>8. Split(Tuples, to, Target(Frame, 1), Copy(Target(Frame, 1)),
            Within(to.range), to.bucket.start)
  <2> DEFINE dst == Target(Frame, 1)
             copy == Copy(Target(Frame, 1))
  <2> HIDE DEF dst, copy
  <2>1. Split(Tuples, Frame, dst, copy, Within(Frame.range), Frame.bucket.end)
    BY <1>2 DEF dst, copy
  <2>2. Split(Tuples, to, dst, copy, Within(Frame.range), Frame.bucket.end)
    BY <1>5, <2>1 DEF Split
  <2> QED
    BY <1>5, <2>2 DEF dst, copy
<1> QED
  BY <1>1, <1>3, <1>5, <1>6, <1>7, <1>8

(* QuickStarts: quick sort is called for a bucket.                         *)
LEMMA QuickStarts ==
  ASSUME NEW r, r.start \in Nat, r.end \in Nat, r.start <= r.end,
         r = Extent(r.start, r.end), Within(r) \subseteq Rows,
         NEW n \in Nat, Rows = 0 .. n - 1,
         tuples' \in [Rows -> Quick!Tuple],
         calls' = <<r>>, asked' = r, original' = tuples', UNCHANGED scan,
         ScanInv, calls = <<>>
  PROVE  QI!IInv' /\ ScanInv' /\ calls' # <<>>
<1>1. scan' = QI!Idle
  BY DEF ScanInv, Quick!Idle, QI!Idle
<1>2. tuples' \in QI!Tables
  BY DEF QI!Tables, QI!Tuple, Quick!Tuple
<1>3. r = QI!Extent(r.start, r.end)
  BY DEF Extent, QI!Extent
<1>4. QI!Within(r) \subseteq DOMAIN tuples'
  BY DEF QI!Within, Within
<1>5. QI!Init'
  BY <1>1, <1>2, <1>3, <1>4 DEF QI!Init
<1>6. QI!IInv'
  BY <1>5, QI!InitIInv, PTL
<1>7. calls' # <<>>
  OBVIOUS
<1> QED
  BY <1>6, <1>7 DEF ScanInv

(* SmallInTable: a small bucket of a table goes to quick sort.             *)
LEMMA SmallInTable ==
  ASSUME left \in Lefts, right \in Rights, SortInv, ScanInv, ~InMatrix, UNCHANGED Mode,
         At("split"), MoreBuckets, QuickSortOf(tuples, NextBucket),
         frames' = Resume(AtBucket("split")), UNCHANGED <<tuples, other>>
  PROVE  SortInv' /\ ScanInv'
<1> DEFINE to == AtBucket("split")
<1>0. to = AtBucket("split") /\ frames' = <<to>> \o Tail(frames)
  BY DEF Resume
<1> HIDE DEF to
<1>1. /\ Keyed(Tuples) /\ Size(Column) \in Nat /\ Rows = 0 .. Size(Column) - 1
  BY OneColumn
<1>2. /\ to \in FrameType
      /\ to.chunk = Frame.chunk /\ to.range = Frame.range /\ to.bucket = NextBucket
      /\ to.step = "split"
      /\ OneBucket(Tuples, to)
      /\ Split(Tuples, to, Target(Frame, 1), Copy(Target(Frame, 1)),
               Within(to.range), to.bucket.start)
      /\ to.bucket.start \in Nat /\ to.bucket.end \in Nat
      /\ to.bucket.start <= to.bucket.end
      /\ Within(to.bucket) \subseteq Within(to.range) /\ Within(to.range) \subseteq Rows
      /\ calls = <<>> /\ frames # <<>>
  BY <1>0, <1>1, NextIs
<1>3. StackInv' /\ frames' # <<>> /\ Frame' = to
  BY <1>0, <1>1, <1>2, Resumed DEF SortInv
<1>4. ArraysInv'
  BY Settings DEF SortInv, ArraysInv
<1>5. QI!IInv' /\ ScanInv' /\ calls' # <<>> /\ asked' = to.bucket
  <2>1. NextBucket = Extent(NextBucket.start, NextBucket.end)
    BY DEF NextBucket, Extent
  <2>2. tuples' \in [Rows -> Quick!Tuple]
    BY DEF SortInv, ArraysInv
  <2> DEFINE r == NextBucket
  <2>3. /\ r.start \in Nat /\ r.end \in Nat /\ r.start <= r.end
        /\ r = Extent(r.start, r.end) /\ Within(r) \subseteq Rows
        /\ calls' = <<r>> /\ asked' = r /\ original' = tuples' /\ UNCHANGED scan
    BY <1>2, <2>1 DEF QuickSortOf
  <2> HIDE DEF r
  <2>4. QI!IInv' /\ ScanInv' /\ calls' # <<>>
    BY <1>1, <1>2, <2>2, <2>3, QuickStarts
  <2> QED
    BY <1>2, <2>3, <2>4 DEF r
<1>6. AtOneBucket'
  <2>1. Target(Frame, 1)' = Target(Frame, 1) /\ Copy(Target(Frame, 1))' = Copy(Target(Frame, 1))
    BY OddAlternates, Settings DEF Target, Copy
  <2>2. /\ Tuples' = Tuples /\ ~InMatrix'
    BY Settings
  <2> QED
    BY <1>2, <1>3, <1>5, <2>1, <2>2 DEF AtOneBucket
<1> QED
  BY <1>2, <1>3, <1>4, <1>5, <1>6 DEF SortInv, TopInv, QuickInv, SortedInv

(* CallMade: the innermost call makes one for the bucket it is at.         *)
LEMMA CallMade ==
  ASSUME left \in Lefts, right \in Rights, SortInv, frames # <<>>, calls = <<>>,
         UNCHANGED Mode, UNCHANGED calls, Exchange,
         NEW fr \in FrameType, fr.range = Frame.range, fr.chunk = Frame.chunk,
         fr.step = "called", Frame.chunk # 0, OneBucket(Tuples, fr),
         Split(Tuples, fr, Target(Frame, 1), Copy(Target(Frame, 1)),
               Within(fr.range), fr.bucket.start),
         NEW call, call = Call(Frame.chunk - 1, fr.bucket),
         frames' = <<call>> \o (<<fr>> \o Tail(frames))
  PROVE  SortInv'
<1>0. Keyed(Tuples) /\ StackInv
  BY OneColumn DEF SortInv
<1>1. /\ fr.chunk \in 0 .. FirstChunk /\ fr.bucket \in Ranges /\ fr.chunk # 0
      /\ FirstChunk \in Nat /\ Radix \in Nat
  BY ChunkAssumption DEF FrameType
<1>2. /\ call \in FrameType /\ call.range = fr.bucket
      /\ call.chunk = fr.chunk - 1 /\ fr.chunk = call.chunk + 1
      /\ call.step = "pass" /\ call.bucket = Extent(call.range.start, call.range.start)
  BY <1>1 DEF FrameType, Call, Extent, Ranges
<1> DEFINE dst == Target(Frame, 1)
           copy == Copy(Target(Frame, 1))
<1>3. /\ Within(fr.range) \subseteq Rows /\ frames \in Seq(FrameType)
  BY <1>0, TopCall
<1>4. Buckets(Tuples, fr) /\ Settled(Tuples, fr.chunk, dst, Within(fr.range))
  BY DEF Split
<1>5. Within(fr.bucket) \subseteq Within(fr.range)
  BY <1>0, <1>4, BucketBounds DEF Within
<1>6. Waiting(Tuples, fr, dst, copy)
  <2> HIDE DEF dst, copy
  <2> DEFINE T == Within(fr.range) \ Within(fr.bucket)
  <2>1. T \in SUBSET Within(fr.range)
    OBVIOUS
  <2>2. Split(Tuples, fr, dst, copy, Within(fr.range), fr.bucket.start)
    BY DEF dst, copy
  <2> HIDE DEF T
  <2>3. Split(Tuples, fr, dst, copy, T, fr.bucket.start)
    BY <1>4, <2>1, <2>2, SplitSame
  <2> QED
    BY <2>3 DEF T, Waiting
<1>7. StackInv'
  BY <1>0, <1>2, <1>6, StackPushed
<1>8. Frame' = call /\ frames' # <<>>
  <2> DEFINE q == <<call>> \o (<<fr>> \o Tail(frames))
  <2>1. q[1] = call /\ q # <<>>
    BY <1>2, <1>3, Pushed
  <2> HIDE DEF q
  <2>2. frames' = q
    BY DEF q
  <2> QED
    BY <2>1, <2>2 DEF Frame
<1>9. Tuples' = Tuples /\ Rows' = Rows /\ InMatrix' = InMatrix
  BY Settings
<1>10. Source(Frame, 1)' = dst
  <2>1. Odd(fr.chunk) <=> ~Odd(call.chunk)
    <3>1. fr.chunk \in Int
      BY <1>1
    <3> QED
      BY <1>2, <3>1, OddAlternates
  <2> QED
    BY <1>8, <1>9, <2>1, OddAlternates DEF Source, Target, Exchange
<1>11. Ready(Tuples, call, dst)
  <2>1. \E w \in Nat : call.range = Region(Tuples, call.chunk + 1, w)
    BY <1>2 DEF OneBucket
  <2>2. Settled(Tuples, call.chunk + 1, dst, Within(call.range))
    <3> HIDE DEF dst
    <3> QED
      BY <1>2, <1>4, <1>5, SettledSame
  <2> QED
    BY <1>2, <2>1, <2>2 DEF Ready
<1>12. BeforePass'
  BY <1>8, <1>9, <1>10, <1>11 DEF BeforePass
<1>13. ArraysInv'
  BY <1>9 DEF SortInv, ArraysInv, Exchange
<1> QED
  BY <1>7, <1>8, <1>12, <1>13 DEF SortInv, TopInv, QuickInv, SortedInv

(* LargeInTable: a large bucket of a table is sorted by the next chunk.    *)
LEMMA LargeInTable ==
  ASSUME left \in Lefts, right \in Rights, SortInv, ~InMatrix, UNCHANGED Mode,
         UNCHANGED calls, At("split"), MoreBuckets, Frame.chunk # 0,
         frames' = <<Call(Frame.chunk - 1, NextBucket)>> \o Resume(AtBucket("called")),
         tuples' = other, other' = tuples
  PROVE  SortInv'
<1> DEFINE to == AtBucket("called")
           call == Call(Frame.chunk - 1, to.bucket)
<1>0. to = AtBucket("called")
  OBVIOUS
<1>1. Keyed(Tuples)
  BY OneColumn
<1> HIDE DEF to
<1>2. /\ to \in FrameType
      /\ to.chunk = Frame.chunk /\ to.range = Frame.range /\ to.bucket = NextBucket
      /\ to.step = "called"
      /\ OneBucket(Tuples, to)
      /\ Split(Tuples, to, Target(Frame, 1), Copy(Target(Frame, 1)),
               Within(to.range), to.bucket.start)
      /\ calls = <<>> /\ frames # <<>>
  BY <1>0, <1>1, NextIs
<1>3. frames' = <<call>> \o (<<to>> \o Tail(frames))
  BY <1>0, <1>2 DEF Resume
<1>4. Exchange
  BY DEF Exchange
<1> QED
  BY <1>2, <1>3, <1>4, CallMade

(* SplitDone: below chunk 0 there is nothing left to sort a bucket by.       *)
LEMMA SplitDone ==
  ASSUME NEW V, Keyed(V), NEW fr \in FrameType, NEW dst, NEW copy,
         Split(V, fr, dst, copy, Within(fr.range), fr.bucket.start),
         fr.chunk = 0, \A x \in Within(fr.range) : copy[x] = dst[x]
  PROVE  Split(V, fr, dst, copy, Within(fr.range), fr.bucket.end)
<1>1. Within(fr.bucket) \subseteq Within(fr.range)
  BY BucketBounds DEF Within, Split
<1>2. \A x \in Within(fr.range) : Placed(V, 0, dst, x)
  BY DEF Split, Settled
<1> QED
  BY <1>1, <1>2, BucketDone

(* LastInTable: after the last chunk, a large bucket is left as it is.     *)
LEMMA LastInTable ==
  ASSUME left \in Lefts, right \in Rights, SortInv, ~InMatrix, UNCHANGED Mode,
         UNCHANGED calls, At("split"), MoreBuckets, Frame.chunk = 0,
         frames' = Resume(AtBucket("split")), UNCHANGED <<tuples, other>>
  PROVE  SortInv'
<1> DEFINE to == AtBucket("split")
           dst == Target(Frame, 1)
<1>0. to = AtBucket("split") /\ frames' = <<to>> \o Tail(frames)
  BY DEF Resume
<1>1. Keyed(Tuples)
  BY OneColumn
<1> HIDE DEF to
<1>2. /\ to \in FrameType
      /\ to.chunk = Frame.chunk /\ to.range = Frame.range /\ to.step = "split"
      /\ Split(Tuples, to, Target(Frame, 1), Copy(Target(Frame, 1)),
               Within(to.range), to.bucket.start)
      /\ calls = <<>> /\ frames # <<>>
  BY <1>0, <1>1, NextIs
<1>3. StackInv' /\ frames' # <<>> /\ Frame' = to
  BY <1>0, <1>1, <1>2, Resumed DEF SortInv
<1>4. ArraysInv'
  BY Settings DEF SortInv, ArraysInv
<1>5. Split(Tuples, to, dst, dst, Within(to.range), to.bucket.end)
  <2>1. Split(Tuples, to, dst, dst, Within(to.range), to.bucket.start)
    BY <1>2 DEF Copy
  <2> HIDE DEF dst
  <2> QED
    BY <1>1, <1>2, <2>1, SplitDone
<1>6. BetweenBuckets'
  <2>1. Target(Frame, 1)' = dst /\ Copy(Target(Frame, 1))' = dst /\ Tuples' = Tuples
    BY Settings DEF Target, Copy
  <2> QED
    BY <1>2, <1>3, <1>5, <2>1 DEF BetweenBuckets
<1> QED
  BY <1>2, <1>3, <1>4, <1>6 DEF SortInv, TopInv, QuickInv, SortedInv

(* AllBehind: a call that has no bucket left has placed its range.         *)
LEMMA AllBehind ==
  ASSUME Keyed(Tuples), SortInv, At("split"), ~MoreBuckets
  PROVE  /\ calls = <<>> /\ frames # <<>>
         /\ frames \in Seq(FrameType) /\ Frame \in FrameType
         /\ Len(frames) \in Nat /\ Len(frames) >= 1
         /\ Split(Tuples, Frame, Target(Frame, 1), Copy(Target(Frame, 1)),
                  Within(Frame.range), Frame.range.end)
<1>1. frames # <<>> /\ calls = <<>> /\ Frame.step = "split" /\ StackInv
  BY DEF At, SortInv
<1>2. Split(Tuples, Frame, Target(Frame, 1), Copy(Target(Frame, 1)),
            Within(Frame.range), Frame.bucket.end)
  BY <1>1 DEF SortInv, TopInv, BeforePass, Ready, BetweenBuckets, AtOneBucket
<1>3. /\ Frame \in FrameType /\ frames \in Seq(FrameType)
      /\ Len(frames) \in Nat /\ Len(frames) >= 1
  BY <1>1, TopCall
<1>4. Buckets(Tuples, Frame)
  BY <1>2 DEF Split
<1>5. Frame.bucket.end \in Nat /\ Frame.range.end \in Nat /\ Frame.bucket.end <= Frame.range.end
  BY <1>3, <1>4, BucketBounds
<1>6. Frame.bucket.end = Frame.range.end
  BY <1>5 DEF MoreBuckets
<1> QED
  BY <1>1, <1>2, <1>3, <1>6

(* LastReturn: the outermost call has returned, the column is sorted.      *)
LEMMA LastReturn ==
  ASSUME left \in Lefts, right \in Rights, SortInv, At("split"), ~MoreBuckets,
         Len(frames) = 1, UNCHANGED Mode, UNCHANGED calls, frames' = <<>>,
         UNCHANGED <<tuples, other>>,
         ~InMatrix => next'.tuples = Frame.range.end - Frame.range.start
  PROVE  SortInv'
<1>1. /\ Keyed(Tuples) /\ Size(Column) \in Nat /\ Rows = 0 .. Size(Column) - 1
  BY OneColumn
<1>2. /\ calls = <<>> /\ frames # <<>>
      /\ Split(Tuples, Frame, Target(Frame, 1), Copy(Target(Frame, 1)),
               Within(Frame.range), Frame.range.end)
  BY <1>1, AllBehind
<1>3. Frame.range = Extent(0, Size(Column))
  BY <1>2 DEF SortInv, StackInv, Frame
<1>4. Frame.range.start = 0 /\ Frame.range.end = Size(Column) /\ Within(Frame.range) = Rows
  BY <1>1, <1>3 DEF Extent, Within
<1>5. Copy(Target(Frame, 1)) = tuples
  BY OddAlternates DEF Copy, Target
<1> DEFINE dst == Target(Frame, 1)
<1>6. /\ \A x \in Rows : Placed(Tuples, 0, dst, x) /\ tuples[x] = dst[x]
      /\ \A x, y \in Rows : dst[x] = dst[y] => x = y
  BY <1>1, <1>2, <1>4, <1>5 DEF Split, Settled
<1> HIDE DEF dst
<1>7. Settled(Tuples, 0, tuples, Rows)
  <2>1. \A x \in Rows : Placed(Tuples, 0, tuples, x)
    BY <1>6 DEF Placed
  <2>2. \A x, y \in Rows : tuples[x] = tuples[y] => x = y
    BY <1>6
  <2> QED
    BY <2>1, <2>2 DEF Settled
<1>8. /\ Tuples' = Tuples /\ Rows' = Rows /\ InMatrix' = InMatrix
      /\ Size(Column)' = Size(Column)
  BY Settings
<1>9. SortedInv'
  BY <1>1, <1>4, <1>7, <1>8 DEF SortedInv
<1>10. StackInv'
  <2>1. frames' \in Seq(FrameType) /\ Len(frames') = 0
    OBVIOUS
  <2>2. ~ (2 <= 0) /\ ~ (1 <= 0)
    OBVIOUS
  <2> QED
    BY <2>1, <2>2 DEF StackInv
<1>11. ArraysInv'
  BY <1>8 DEF SortInv, ArraysInv
<1> QED
  BY <1>2, <1>9, <1>10, <1>11 DEF SortInv, TopInv, QuickInv

(* ReturnToCaller: another call returns to the one that waits for it, with *)
(* the bucket in the array of that one.                                    *)
LEMMA ReturnToCaller ==
  ASSUME left \in Lefts, right \in Rights, SortInv, At("split"), ~MoreBuckets,
         Len(frames) # 1, UNCHANGED Mode, UNCHANGED calls,
         frames' = <<[frames[2] EXCEPT !.step = "split"]>> \o Tail(Tail(frames)),
         ExchangedOutside(Within(frames[2].bucket)), ArraysInv',
         \A x \in Within(frames[2].bucket) :
           /\ Target(Frame, 1)'[x] = Target(Frame, 1)[x]
           /\ Copy(Target(Frame, 1))'[x] = Target(Frame, 1)'[x]
  PROVE  SortInv'
<1> DEFINE fr == frames[2]
           inner == Frame
           to == [fr EXCEPT !.step = "split"]
           dst == Target(fr, 2)
           copy == Copy(Target(fr, 2))
           from == Target(Frame, 1)
           copy1 == Copy(Target(Frame, 1))
           dst2 == Target(Frame, 1)'
           copy2 == Copy(Target(Frame, 1))'
<1>0. Keyed(Tuples) /\ StackInv
  BY OneColumn DEF SortInv
<1>1. /\ calls = <<>> /\ frames # <<>>
      /\ Split(Tuples, inner, from, copy1, Within(inner.range), inner.range.end)
  BY <1>0, AllBehind
<1>2. /\ StackInv' /\ frames' # <<>>
      /\ inner \in FrameType /\ fr \in FrameType
      /\ frames'[1] = to
      /\ inner.range = fr.bucket /\ fr.chunk = inner.chunk + 1
      /\ Waiting(Tuples, fr, dst, copy)
      /\ Within(fr.range) \subseteq Rows
  BY <1>0, <1>1, StackPopped DEF Frame
<1>3. to.chunk = fr.chunk
  BY <1>2 DEF FrameType
<1>4. Tuples' = Tuples /\ Rows' = Rows /\ InMatrix' = InMatrix
  BY Settings
<1>5. ASSUME NEW x \in Within(fr.range)
      PROVE  IF x \in Within(fr.bucket) THEN dst2[x] = from[x] /\ copy2[x] = dst2[x]
             ELSE dst2[x] = dst[x] /\ copy2[x] = copy[x]
  <2>1. CASE x \in Within(fr.bucket)
    BY <2>1
  <2>2. CASE x \notin Within(fr.bucket)
    <3>1. x \in Rows \ Within(fr.bucket)
      BY <1>2, <2>2
    <3>2. IF InMatrix THEN tuples'[x] = tuples[x] /\ other'[x] = other[x]
          ELSE tuples'[x] = other[x] /\ other'[x] = tuples[x]
      BY <3>1 DEF ExchangedOutside
    <3>3. Frame' = to
      BY <1>2 DEF Frame
    <3> HIDE DEF to
    <3>4. dst2[x] = dst[x] /\ copy2[x] = copy[x]
      BY <1>3, <1>4, <3>2, <3>3, OddAlternates DEF Target, Copy
    <3> QED
      BY <2>2, <3>4
  <2> QED
    BY <2>1, <2>2
<1>6. /\ to.step = "split"
      /\ Split(Tuples, to, dst2, copy2, Within(to.range), to.bucket.end)
  <2> DEFINE a == to
  <2>1. a = [fr EXCEPT !.step = "split"]
    OBVIOUS
  <2> HIDE DEF fr, inner, dst, copy, from, copy1, dst2, copy2, a
  <2>2. /\ Keyed(Tuples) /\ fr \in FrameType /\ Waiting(Tuples, fr, dst, copy)
        /\ inner \in FrameType /\ inner.range = fr.bucket /\ fr.chunk = inner.chunk + 1
        /\ Split(Tuples, inner, from, copy1, Within(inner.range), inner.range.end)
    BY <1>0, <1>1, <1>2
  <2>3. Brought(Within(fr.range), Within(fr.bucket), dst, copy, from, dst2, copy2)
    BY <1>5 DEF Brought
  <2>4. a.step = "split"
    BY <2>1, <2>2, <2>3, Returned
  <2>5. Split(Tuples, a, dst2, copy2, Within(a.range), a.bucket.end)
    BY <2>1, <2>2, <2>3, Returned
  <2> QED
    BY <2>4, <2>5 DEF a
<1>7. BetweenBuckets'
  <2>1. Frame' = to
    BY <1>2 DEF Frame
  <2> HIDE DEF to
  <2> QED
    BY <1>1, <1>4, <1>6, <2>1 DEF BetweenBuckets
<1> QED
  BY <1>1, <1>2, <1>7 DEF SortInv, TopInv, QuickInv, SortedInv

(* OtherStep: what a call has split does not depend on where it is.        *)
LEMMA OtherStep ==
  ASSUME NEW fr \in FrameType, NEW step \in {"pass", "split", "bucket", "called"},
         NEW to, to = [fr EXCEPT !.step = step]
  PROVE  /\ to \in FrameType /\ to.step = step
         /\ to.chunk = fr.chunk /\ to.range = fr.range /\ to.bucket = fr.bucket
         /\ \A V : OneBucket(V, fr) => OneBucket(V, to)
         /\ \A V, dst, copy, S, done :
              Split(V, fr, dst, copy, S, done) => Split(V, to, dst, copy, S, done)
<1>1. /\ to \in FrameType /\ to.step = step
      /\ to.chunk = fr.chunk /\ to.range = fr.range /\ to.bucket = fr.bucket
      /\ to.offsets = fr.offsets /\ to.prefix = fr.prefix
  BY DEF FrameType
<1>2. \A V : Buckets(V, fr) => Buckets(V, to)
  BY <1>1 DEF Buckets
<1>3. \A V : OneBucket(V, fr) => OneBucket(V, to)
  BY <1>1 DEF OneBucket
<1> QED
  BY <1>1, <1>2, <1>3 DEF Split

(* MatrixBucketStep: the next bucket of a column, small or large.          *)
LEMMA MatrixBucketStep ==
  ASSUME left \in Lefts, right \in Rights, SortInv, ScanInv, InMatrix, UNCHANGED Mode,
         MatrixBucket
  PROVE  SortInv' /\ ScanInv'
<1> DEFINE to == AtBucket("bucket")
           r == NextBucket
<1>0. /\ At("split") /\ MoreBuckets
      /\ to = AtBucket("bucket") /\ frames' = <<to>> \o Tail(frames)
      /\ other' = other
  BY DEF MatrixBucket, Resume
<1> HIDE DEF to
<1>1. /\ Keyed(Tuples) /\ Size(Column) \in Nat /\ Rows = 0 .. Size(Column) - 1
  BY OneColumn
<1>2. /\ to \in FrameType
      /\ to.chunk = Frame.chunk /\ to.range = Frame.range /\ to.step = "bucket"
      /\ to.bucket = r
      /\ OneBucket(Tuples, to) /\ Buckets(Tuples, to)
      /\ Split(Tuples, to, Target(Frame, 1), Copy(Target(Frame, 1)),
               Within(to.range), to.bucket.start)
      /\ to.bucket.start \in Nat /\ to.bucket.end \in Nat
      /\ to.bucket.start <= to.bucket.end
      /\ Within(to.bucket) \subseteq Within(to.range) /\ Within(to.range) \subseteq Rows
      /\ calls = <<>> /\ frames # <<>>
  BY <1>0, <1>1, NextIs
<1>3. r = Extent(r.start, r.end)
  BY DEF NextBucket, Extent
<1>4. \/ Small(r) /\ QuickSortOf(tuples', r)
         /\ tuples' = IF Odd(Frame.chunk) THEN Copied(other, tuples, r) ELSE tuples
      \/ UNCHANGED <<calls, scan, tuples>>
  BY DEF MatrixBucket, quick
<1> HIDE DEF r
<1>5. tuples \in [Rows -> Quick!Tuple] /\ other \in [Rows -> Quick!Tuple]
  BY DEF SortInv, ArraysInv
<1>6. /\ tuples' \in [Rows -> Quick!Tuple]
      /\ \A x \in Rows \ Within(r) : tuples'[x] = tuples[x]
      /\ ~Odd(Frame.chunk) => tuples' = tuples
  BY <1>4, <1>5 DEF Copied
<1>7. StackInv' /\ frames' # <<>> /\ Frame' = to
  <2>1. \A x \in Rows \ Within(Frame.range) : tuples'[x] = tuples[x] /\ other'[x] = other[x]
    BY <1>0, <1>2, <1>6
  <2> QED
    BY <1>0, <1>1, <1>2, <2>1, Resumed DEF SortInv
<1>8. ArraysInv'
  BY <1>0, <1>5, <1>6, Settings DEF ArraysInv
<1>9. /\ ScanInv'
      /\ calls' # <<>> => asked' = r /\ QI!IInv'
  <2>1. CASE UNCHANGED <<calls, scan, tuples>>
    BY <1>2, <2>1 DEF ScanInv
  <2>2. CASE QuickSortOf(tuples', r)
    <3>1. /\ r.start \in Nat /\ r.end \in Nat /\ r.start <= r.end
          /\ Within(r) \subseteq Rows
          /\ calls' = <<r>> /\ asked' = r /\ original' = tuples' /\ UNCHANGED scan
      BY <1>2, <2>2 DEF QuickSortOf
    <3>2. QI!IInv' /\ ScanInv'
      BY <1>1, <1>2, <1>3, <1>6, <3>1, QuickStarts
    <3> QED
      BY <3>1, <3>2
  <2> QED
    BY <1>4, <2>1, <2>2
<1>10. AtOneBucket'
  <2>1. /\ Tuples' = Tuples /\ InMatrix' = InMatrix
    BY Settings
  <2> DEFINE dst == Target(Frame, 1)
             dst2 == Target(Frame, 1)'
             copy2 == Copy(Target(Frame, 1))'
             done == to.bucket.start
             S == Within(to.range)
  <2>2. /\ dst2 = dst /\ Copy(dst) = tuples /\ copy2 = tuples'
    BY <1>0, <1>2, <1>6, <1>7, <2>1 DEF Target, Copy
  <2>3. to.range.start \in Nat /\ to.range.end \in Nat /\ done <= to.range.end
    BY <1>1, <1>2, BucketBounds
  <2>4. \A x \in to.range.start .. done - 1 : x \in Rows \ Within(r)
    BY <1>2, <2>3 DEF Within
  <2> HIDE DEF dst, dst2, copy2, done, S
  <2>5. /\ Split(Tuples, to, dst, tuples, S, done) /\ S \in SUBSET S
        /\ \A x \in S : dst2[x] = dst[x]
        /\ \A x \in to.range.start .. done - 1 : dst2[x] = dst[x] /\ copy2[x] = tuples[x]
    BY <1>2, <1>6, <2>2, <2>4 DEF dst, S, done
  <2>6. Split(Tuples, to, dst2, copy2, S, done)
    BY <1>2, <2>5, SplitSame
  <2> QED
    BY <1>2, <1>7, <2>1, <2>6 DEF AtOneBucket, dst2, copy2, S, done
<1>11. QuickInv'
  BY <1>2, <1>7, <1>9, <1>10 DEF QuickInv
<1> QED
  BY <1>7, <1>8, <1>9, <1>10, <1>11 DEF SortInv, TopInv, SortedInv

(* MatrixRecurseStep: the bucket of a column goes to the next chunk, or    *)
(* there is none.                                                          *)
LEMMA MatrixRecurseStep ==
  ASSUME left \in Lefts, right \in Rights, SortInv, InMatrix, UNCHANGED Mode,
         MatrixRecurse
  PROVE  SortInv'
<1>0. /\ frames # <<>> /\ calls = <<>> /\ Frame.step = "bucket" /\ calls' = calls
      /\ tuples' = tuples /\ other' = other
  BY DEF MatrixRecurse, At, quick
<1>1. Keyed(Tuples) /\ StackInv
  BY OneColumn DEF SortInv
<1>2. AtOneBucket
  BY <1>0 DEF SortInv, TopInv, BeforePass, Ready, BetweenBuckets
<1>3. Frame \in FrameType /\ OneBucket(Tuples, Frame)
  BY <1>0, <1>1, <1>2, TopCall DEF AtOneBucket
<1>4. Split(Tuples, Frame, Target(Frame, 1), Copy(Target(Frame, 1)),
            Within(Frame.range), Frame.bucket.start)
  BY <1>2 DEF AtOneBucket
<1>5. CASE Frame.chunk = 0
  <2> DEFINE to == [Frame EXCEPT !.step = "split"]
             dst == Target(Frame, 1)
  <2>1. frames' = <<to>> \o Tail(frames) /\ to = [Frame EXCEPT !.step = "split"]
    BY <1>5 DEF MatrixRecurse, Resume
  <2>2. ~Odd(0)
    BY OddAlternates
  <2>3. dst = tuples /\ Copy(dst) = dst
    BY <1>5, <2>2 DEF Target, Copy
  <2> HIDE DEF to, dst
  <2>4. /\ to \in FrameType /\ to.step = "split" /\ to.chunk = Frame.chunk
        /\ to.range = Frame.range /\ to.bucket = Frame.bucket
        /\ Split(Tuples, to, dst, dst, Within(to.range), to.bucket.start)
    BY <1>3, <1>4, <2>1, <2>3, OtherStep DEF dst
  <2>5. Split(Tuples, to, dst, dst, Within(to.range), to.bucket.end)
    BY <1>1, <1>5, <2>4, SplitDone
  <2>6. StackInv' /\ frames' # <<>> /\ Frame' = to
    BY <1>0, <1>1, <2>1, <2>4, Resumed
  <2>7. /\ Tuples' = Tuples /\ InMatrix' = InMatrix
    BY Settings
  <2>8. Target(Frame, 1)' = dst /\ Copy(Target(Frame, 1))' = dst
    BY <1>0, <1>5, <2>2, <2>3, <2>4, <2>6, <2>7 DEF Target, Copy
  <2>9. BetweenBuckets'
    BY <1>0, <2>4, <2>5, <2>6, <2>7, <2>8 DEF BetweenBuckets
  <2>10. ArraysInv'
    BY <1>0, Settings DEF SortInv, ArraysInv
  <2> QED
    BY <1>0, <2>6, <2>9, <2>10 DEF SortInv, TopInv, QuickInv, SortedInv
<1>6. CASE Frame.chunk # 0
  <2> DEFINE fr == [Frame EXCEPT !.step = "called"]
             call == Call(Frame.chunk - 1, fr.bucket)
  <2>1. frames' = <<Call(Frame.chunk - 1, Frame.bucket)>> \o (<<fr>> \o Tail(frames))
        /\ fr = [Frame EXCEPT !.step = "called"]
    BY <1>6 DEF MatrixRecurse, Resume
  <2> HIDE DEF fr
  <2>2. /\ fr \in FrameType /\ fr.step = "called" /\ fr.chunk = Frame.chunk
        /\ fr.range = Frame.range /\ fr.bucket = Frame.bucket
    BY <1>3, <2>1, OtherStep
  <2>3. OneBucket(Tuples, fr)
    BY <1>3, <2>1, OtherStep
  <2>4. Split(Tuples, fr, Target(Frame, 1), Copy(Target(Frame, 1)),
              Within(fr.range), fr.bucket.start)
    BY <1>3, <1>4, <2>1, <2>2, OtherStep
  <2>5. Exchange
    BY <1>0 DEF Exchange
  <2>6. frames' = <<call>> \o (<<fr>> \o Tail(frames))
    BY <2>1, <2>2
  <2> QED
    BY <1>0, <1>6, <2>2, <2>3, <2>4, <2>5, <2>6, CallMade
<1> QED
  BY <1>5, <1>6

(* QuickMoves: a step of the quick sort below a radix sort.                *)
LEMMA QuickMoves ==
  ASSUME QI!IInv, Quick!Next, ScanInv
  PROVE  /\ QI!IInv' /\ asked' = asked /\ calls # <<>> /\ ScanInv'
         /\ \/ tuples' = tuples
            \/ \E x, y \in Within(asked) : tuples' = Quick!Swapped(tuples, x, y)
<1>1. QI!Next
  BY DEF QI!Next, QI!Return, QI!Partition, QI!Scan, QI!Place, QI!Last, QI!Swapped, QI!Trivial,
         QI!Extent, QI!Idle, Quick!Next, Quick!Return, Quick!Partition, Quick!Scan, Quick!Place,
         Quick!Last, Quick!Swapped, Quick!Trivial, Quick!Extent, Quick!Idle
<1>2. QI!IInv'
  BY <1>1, QI!ReturnStep, QI!PartitionStep, QI!ScanStep, QI!PlaceStep DEF QI!Next
<1>3. \/ tuples' = tuples
      \/ \E x, y \in Within(asked) : tuples' = Quick!Swapped(tuples, x, y)
  <2>1. \/ tuples' = tuples
        \/ \E x, y \in QI!Within(asked) : tuples' = QI!Swapped(tuples, x, y)
    BY <1>1, QI!SwapsInside
  <2> QED
    BY <2>1 DEF QI!Within, Within, QI!Swapped, Quick!Swapped
<1>4. asked' = asked /\ calls # <<>>
  BY DEF Quick!Next, Quick!Return, Quick!Partition, Quick!Scan, Quick!Place
<1>5. scan' \in [running : BOOLEAN, i : Nat, j : Nat]
  BY <1>2 DEF QI!IInv, QI!TypeInv
<1>6. scan \in [running : BOOLEAN, i : Nat, j : Nat]
  BY DEF ScanInv
<1>7. (~scan'.running => scan' = Quick!Idle) /\ (calls' = <<>> => ~scan'.running)
  <2>1. CASE Quick!Return
    BY <2>1 DEF Quick!Return, ScanInv
  <2>2. CASE Quick!Partition
    BY <2>2 DEF Quick!Partition
  <2>3. CASE Quick!Scan
    <3>1. scan'.running = scan.running /\ scan.running /\ calls # <<>> /\ calls' = calls
      BY <1>6, <2>3 DEF Quick!Scan
    <3> QED
      BY <3>1
  <2>4. CASE Quick!Place
    BY <2>4 DEF Quick!Place, Quick!Idle
  <2> QED
    BY <2>1, <2>2, <2>3, <2>4 DEF Quick!Next
<1> QED
  BY <1>2, <1>3, <1>4, <1>5, <1>7 DEF ScanInv

(* QuickStep: quick sort moves tuples within the bucket of the innermost   *)
(* call, and when it returns to table_sort the bucket is placed.           *)
LEMMA QuickStep ==
  ASSUME left \in Lefts, right \in Rights, SortInv, ScanInv, UNCHANGED Mode, QuickSortStep
  PROVE  SortInv' /\ ScanInv'
<1>0. Quick!Next /\ other' = other /\ frames' = frames /\ next' = next
  BY DEF QuickSortStep
<1>1. /\ Keyed(Tuples) /\ Size(Column) \in Nat /\ Rows = 0 .. Size(Column) - 1
  BY OneColumn
<1>2. calls # <<>>
  BY <1>0 DEF Quick!Next, Quick!Return, Quick!Partition, Quick!Scan, Quick!Place
<1>3. frames # <<>> /\ AtOneBucket /\ asked = Frame.bucket /\ QI!IInv /\ StackInv
  BY <1>2 DEF SortInv, QuickInv
<1>4. /\ QI!IInv' /\ asked' = asked /\ ScanInv'
      /\ \/ tuples' = tuples
         \/ \E x, y \in Within(asked) : tuples' = Quick!Swapped(tuples, x, y)
  BY <1>0, <1>3, QuickMoves
<1>5. /\ Frame \in FrameType /\ frames \in Seq(FrameType) /\ Len(frames) \in Nat
      /\ Within(Frame.range) \subseteq Rows
  BY <1>3, TopCall
<1> DEFINE dst == Target(Frame, 1)
           copy == Copy(Target(Frame, 1))
           R == Within(Frame.range)
           B == Within(Frame.bucket)
           done == Frame.bucket.start
<1>6. Split(Tuples, Frame, dst, copy, R, done)
  BY <1>3 DEF AtOneBucket
<1>7. PICK w \in Nat : Frame.bucket = Region(Tuples, Frame.chunk, w)
  BY <1>3 DEF AtOneBucket, OneBucket
<1>8. Buckets(Tuples, Frame)
  BY <1>6 DEF Split
<1>9. /\ Frame.range.start \in Nat /\ Frame.range.end \in Nat
      /\ Frame.bucket.start \in Nat /\ Frame.bucket.end \in Nat
      /\ Frame.range.start <= Frame.bucket.start /\ Frame.bucket.start <= Frame.bucket.end
      /\ Frame.bucket.end <= Frame.range.end
  BY <1>1, <1>5, <1>8, BucketBounds
<1>10. /\ B \subseteq R
       /\ \A x \in Frame.range.start .. done - 1 : x \in R /\ x \notin B
  BY <1>9 DEF Within
<1>11. tuples \in [Rows -> Quick!Tuple] /\ other \in [Rows -> Quick!Tuple]
  BY DEF SortInv, ArraysInv
<1> HIDE DEF R, B
<1>12. /\ tuples' \in [Rows -> Quick!Tuple]
       /\ \A x \in Rows \ B : tuples'[x] = tuples[x]
  <2>1. B \subseteq Rows
    BY <1>5, <1>10 DEF R
  <2>2. CASE tuples' = tuples
    BY <1>11, <2>2
  <2>3. CASE \E x, y \in Within(asked) : tuples' = Quick!Swapped(tuples, x, y)
    <3>1. PICK x, y \in B : tuples' = Quick!Swapped(tuples, x, y)
      BY <1>3, <2>3 DEF B
    <3> QED
      BY <1>11, <2>1, <3>1 DEF Quick!Swapped
  <2> QED
    BY <1>4, <2>2, <2>3
<1>13. /\ Tuples' = Tuples /\ Rows' = Rows /\ InMatrix' = InMatrix /\ Frame' = Frame
  BY <1>0, Settings DEF Frame
<1>14. ArraysInv'
  BY <1>0, <1>11, <1>12, <1>13 DEF ArraysInv
<1>15. StackInv'
  <2>1. \A x \in Rows \ Within(Frame.range) : tuples'[x] = tuples[x] /\ other'[x] = other[x]
    BY <1>0, <1>10, <1>12 DEF R
  <2> QED
    BY <1>0, <1>1, <1>3, <1>5, <2>1, StackKept DEF Frame
<1>16. Split(Tuples, Frame, dst', copy', R, done)
  <2>1. Settled(Tuples, Frame.chunk, dst', R)
    <3>1. Settled(Tuples, Frame.chunk, dst, R)
      BY <1>6 DEF Split
    <3>2. CASE dst' = dst
      BY <3>1, <3>2
    <3>3. CASE dst' # dst
      <4>1. dst = tuples /\ dst' = tuples'
        BY <1>0, <1>13, <3>3 DEF Target
      <4>2. PICK x, y \in B : tuples' = Quick!Swapped(tuples, x, y)
        BY <1>3, <1>4, <3>3, <4>1 DEF B
      <4>3. /\ Frame.chunk \in 0 .. FirstChunk + 1 /\ R \in SUBSET DOMAIN tuples
            /\ B = Within(Region(Tuples, Frame.chunk, w))
        <5>1. Frame.chunk \in 0 .. FirstChunk + 1
          BY <1>5, ChunkAssumption DEF FrameType
        <5>2. DOMAIN tuples = Rows
          BY <1>11
        <5>3. R \subseteq Rows
          BY <1>5 DEF R
        <5>4. B = Within(Region(Tuples, Frame.chunk, w))
          BY <1>7 DEF B
        <5> QED
          BY <5>1, <5>2, <5>3, <5>4
      <4>4. Settled(Tuples, Frame.chunk, tuples, R)
        BY <3>1, <4>1
      <4> HIDE DEF dst
      <4>5. Settled(Tuples, Frame.chunk, Quick!Swapped(tuples, x, y), R)
        BY <1>1, <1>7, <1>10, <4>2, <4>3, <4>4, SwapSettled
      <4> QED
        BY <4>1, <4>2, <4>5
    <3> QED
      BY <3>2, <3>3
  <2>2. ASSUME NEW x \in Frame.range.start .. done - 1
        PROVE  Placed(Tuples, 0, dst', x) /\ copy'[x] = dst'[x]
    <3>1. x \in Rows \ B
      BY <1>5, <1>10 DEF R
    <3>2. tuples'[x] = tuples[x] /\ other'[x] = other[x]
      BY <1>0, <1>12, <3>1
    <3>3. dst'[x] = dst[x] /\ copy'[x] = copy[x]
      BY <1>0, <1>13, <3>2 DEF Target, Copy
    <3>4. Placed(Tuples, 0, dst, x) /\ copy[x] = dst[x]
      BY <1>6 DEF Split
    <3> HIDE DEF dst, copy
    <3> QED
      BY <3>3, <3>4 DEF Placed
  <2> QED
    BY <1>8, <2>1, <2>2 DEF Split
<1>17. CASE InMatrix \/ calls' # <<>>
  <2>1. AtOneBucket'
    BY <1>0, <1>3, <1>13, <1>16, <1>17 DEF AtOneBucket, R
  <2>2. QuickInv'
    BY <1>0, <1>3, <1>4, <1>13, <2>1 DEF QuickInv
  <2> QED
    BY <1>0, <1>3, <1>4, <1>14, <1>15, <2>1, <2>2 DEF SortInv, TopInv, SortedInv
<1>18. CASE ~InMatrix /\ calls' = <<>>
  <2>1. copy' = dst' /\ dst' = tuples'
    BY <1>13, <1>18, OddAlternates DEF Copy, Target
  <2>2. QI!RangeSorted'
    BY <1>4, QI!SortedWhenDone, PTL
  <2>3. \A a, b \in B : a <= b => tuples'[a].key <= tuples'[b].key
    BY <1>3, <1>4, <1>18, <2>2 DEF QI!RangeSorted, QI!Ordered, QI!Within, Within, B
  <2>4. Settled(Tuples, Frame.chunk, tuples', B)
    <3>1. Settled(Tuples, Frame.chunk, tuples', R)
      BY <1>16, <2>1 DEF Split
    <3> QED
      BY <1>10, <3>1, SettledSame
  <2>5. \A x \in B : Placed(Tuples, 0, tuples', x)
    <3>1. /\ Frame.chunk \in 0 .. FirstChunk + 1 /\ B = Within(Region(Tuples, Frame.chunk, w))
      <4>1. Frame.chunk \in 0 .. FirstChunk
        BY <1>5 DEF FrameType
      <4>2. \A k \in 0 .. FirstChunk : k \in 0 .. FirstChunk + 1
        BY ChunkAssumption
      <4> QED
        BY <1>7, <4>1, <4>2 DEF B
    <3> QED
      BY <1>1, <2>3, <2>4, <3>1, OrderedPlaced
  <2>6. Split(Tuples, Frame, tuples', tuples', R, Frame.bucket.end)
    <3>1. Split(Tuples, Frame, tuples', tuples', R, Frame.bucket.start)
      BY <1>16, <2>1
    <3> QED
      BY <1>1, <1>5, <2>5, <3>1, BucketDone DEF B
  <2>7. BetweenBuckets'
    BY <1>3, <1>13, <1>18, <2>1, <2>6 DEF BetweenBuckets, AtOneBucket, R
  <2> QED
    BY <1>0, <1>3, <1>4, <1>14, <1>15, <1>18, <2>7 DEF SortInv, TopInv, QuickInv, SortedInv
<1> QED
  BY <1>17, <1>18

(* WaitingRows: the bucket of the call that waits for the innermost one.   *)
LEMMA WaitingRows ==
  ASSUME Keyed(Tuples), SortInv, At("split"), Len(frames) # 1
  PROVE  /\ frames[2] \in FrameType /\ frames[1] \in FrameType
         /\ frames[2].chunk = frames[1].chunk + 1
         /\ Within(frames[2].bucket) \subseteq Rows
<1>1. StackInv /\ frames # <<>>
  BY DEF SortInv, At
<1>2. frames \in Seq(FrameType) /\ Len(frames) \in Nat /\ Len(frames) >= 1
  BY <1>1, TopCall
<1>3. 1 \in 1 .. Len(frames) /\ 2 \in 1 .. Len(frames) /\ 2 \in 2 .. Len(frames) /\ 2 - 1 = 1
  <2> DEFINE n == Len(frames)
  <2>1. n \in Nat /\ n >= 1 /\ n # 1
    BY <1>2
  <2> HIDE DEF n
  <2>2. 1 \in 1 .. n /\ 2 \in 1 .. n /\ 2 \in 2 .. n /\ 2 - 1 = 1
    BY <2>1
  <2> QED
    BY <2>2 DEF n
<1>4. /\ frames[2] \in FrameType /\ frames[1] \in FrameType
      /\ Within(frames[1].range) \subseteq Rows
      /\ frames[2].bucket = frames[1].range /\ frames[2].chunk = frames[1].chunk + 1
  BY <1>1, <1>2, <1>3 DEF StackInv
<1> QED
  BY <1>4

(* CallerChunk: the chunk of the call that waits for the innermost one.    *)
LEMMA CallerChunk ==
  ASSUME Keyed(Tuples), SortInv, At("split"), Len(frames) # 1,
         frames' = <<[frames[2] EXCEPT !.step = "split"]>> \o Tail(Tail(frames))
  PROVE  Frame'.chunk = frames[2].chunk /\ (Odd(frames[2].chunk) <=> ~Odd(Frame.chunk))
<1> DEFINE fr == frames[2]
           to == [fr EXCEPT !.step = "split"]
<1>1. fr \in FrameType /\ frames[1] \in FrameType /\ fr.chunk = frames[1].chunk + 1
  BY WaitingRows
<1>2. to \in FrameType /\ to.chunk = fr.chunk
  <2> HIDE DEF fr
  <2> QED
    BY <1>1 DEF FrameType
<1>3. frames \in Seq(FrameType) /\ frames # <<>>
  BY DEF SortInv, StackInv, At
<1> HIDE DEF to
<1> DEFINE q == <<to>> \o Tail(Tail(frames))
<1>4. q[1] = to
  BY <1>2, <1>3, Popped
<1>5. frames' = q
  BY DEF to
<1>6. Frame'.chunk = fr.chunk
  BY <1>2, <1>4, <1>5 DEF Frame
<1>7. Odd(fr.chunk) <=> ~Odd(Frame.chunk)
  <2>1. Frame.chunk \in Int /\ fr.chunk \in Int /\ fr.chunk - 1 = Frame.chunk
    BY <1>1 DEF FrameType, Frame
  <2> HIDE DEF fr
  <2> QED
    BY <2>1, OddAlternates
<1> QED
  BY <1>6, <1>7

(* TableStep: every step of table_sort keeps the invariant.                *)
LEMMA TableStep ==
  ASSUME left \in Lefts, right \in Rights, SortInv, ScanInv, ~InMatrix, UNCHANGED Mode,
         TableSortStep
  PROVE  SortInv' /\ ScanInv'
<1>0. Keyed(Tuples)
  BY OneColumn
<1>1. CASE TablePass
  <2>1. ToTuples
    BY DEF ToTuples
  <2>2. UNCHANGED <<calls, scan>>
    BY <1>1 DEF TablePass, quick
  <2>3. SortInv'
    BY <1>0, <1>1, <2>1, <2>2, PassStep DEF TablePass
  <2> QED
    BY <2>2, <2>3 DEF ScanInv
<1>2. CASE TableBucket
  <2>1. At("split") /\ MoreBuckets
    BY <1>2 DEF TableBucket
  <2>2. CASE Small(NextBucket)
    <3>1. /\ QuickSortOf(tuples, NextBucket) /\ frames' = Resume(AtBucket("split"))
          /\ UNCHANGED <<tuples, other>>
      BY <1>2, <2>2 DEF TableBucket
    <3> QED
      BY <2>1, <3>1, SmallInTable
  <2>3. CASE ~Small(NextBucket)
    <3>1. UNCHANGED <<calls, scan>>
      BY <1>2, <2>3 DEF TableBucket, quick
    <3>2. CASE Frame.chunk = 0
      <4>1. frames' = Resume(AtBucket("split")) /\ UNCHANGED <<tuples, other>>
        BY <1>2, <2>3, <3>2 DEF TableBucket
      <4>2. SortInv'
        BY <2>1, <3>1, <3>2, <4>1, LastInTable
      <4> QED
        BY <3>1, <4>2 DEF ScanInv
    <3>3. CASE Frame.chunk # 0
      <4>1. /\ frames' = <<Call(Frame.chunk - 1, NextBucket)>> \o Resume(AtBucket("called"))
            /\ tuples' = other /\ other' = tuples
        BY <1>2, <2>3, <3>3 DEF TableBucket
      <4>2. SortInv'
        BY <2>1, <3>1, <3>3, <4>1, LargeInTable
      <4> QED
        BY <3>1, <4>2 DEF ScanInv
    <3> QED
      BY <3>2, <3>3
  <2> QED
    BY <2>2, <2>3
<1>3. CASE TableReturn
  <2>1. At("split") /\ ~MoreBuckets /\ UNCHANGED <<calls, scan>>
    BY <1>3 DEF TableReturn, quick
  <2>2. CASE Len(frames) = 1
    <3>1. /\ frames' = <<>> /\ UNCHANGED <<tuples, other>>
          /\ next' = [next EXCEPT !.tuples = Frame.range.end - Frame.range.start]
      BY <1>3, <2>2 DEF TableReturn
    <3>2. CASE next'.tuples = Frame.range.end - Frame.range.start
      <4>1. SortInv'
        BY <2>1, <2>2, <3>1, <3>2, LastReturn
      <4> QED
        BY <2>1, <4>1 DEF ScanInv
    <3> QED
      BY <3>1, <3>2
  <2>3. CASE Len(frames) # 1
    <3>1. /\ frames' = <<[frames[2] EXCEPT !.step = "split"]>> \o Tail(Tail(frames))
          /\ tuples' = Copied(tuples, other, frames[2].bucket)
          /\ other' = tuples
      BY <1>3, <2>3 DEF TableReturn
    <3> DEFINE B == Within(frames[2].bucket)
    <3>2. tuples \in [Rows -> Quick!Tuple] /\ other \in [Rows -> Quick!Tuple]
      BY DEF SortInv, ArraysInv
    <3>3. /\ tuples' \in [Rows -> Quick!Tuple]
          /\ \A x \in Rows : tuples'[x] = IF x \in B THEN tuples[x] ELSE other[x]
      BY <3>1, <3>2 DEF Copied
    <3>4. ArraysInv'
      BY <3>1, <3>2, <3>3, Settings DEF ArraysInv
    <3>5. ExchangedOutside(B)
      BY <3>1, <3>3 DEF ExchangedOutside
    <3>6. B \subseteq Rows
      BY <1>0, <2>1, <2>3, WaitingRows
    <3>7. \A x \in B :
            /\ Target(Frame, 1)'[x] = Target(Frame, 1)[x]
            /\ Copy(Target(Frame, 1))'[x] = Target(Frame, 1)'[x]
      BY <3>3, <3>6, OddAlternates, Settings DEF Target, Copy
    <3>8. SortInv'
      BY <2>1, <2>3, <3>1, <3>4, <3>5, <3>7, ReturnToCaller
    <3> QED
      BY <2>1, <3>8 DEF ScanInv
  <2> QED
    BY <2>2, <2>3
<1> QED
  BY <1>1, <1>2, <1>3 DEF TableSortStep

(* MatrixStep: every step of matrix_sort keeps it.                         *)
LEMMA MatrixStep ==
  ASSUME left \in Lefts, right \in Rights, SortInv, ScanInv, InMatrix, UNCHANGED Mode,
         MatrixSortStep
  PROVE  SortInv' /\ ScanInv'
<1>0. Keyed(Tuples)
  BY OneColumn
<1>1. CASE MatrixPass
  <2>1. ToTuples <=> ~Odd(Frame.chunk)
    BY DEF ToTuples
  <2>2. UNCHANGED <<calls, scan>> /\ At("pass")
    BY <1>1 DEF MatrixPass, quick
  <2>3. IF ToTuples
          THEN /\ tuples' = Distributed(other, tuples, Frame.chunk, Frame.range)
               /\ frames' = AfterPass(other) /\ UNCHANGED other
          ELSE /\ other' = Distributed(tuples, other, Frame.chunk, Frame.range)
               /\ frames' = AfterPass(tuples) /\ UNCHANGED tuples
    BY <1>1, <2>1 DEF MatrixPass
  <2>4. SortInv'
    BY <1>0, <2>2, <2>3, PassStep
  <2> QED
    BY <2>2, <2>4 DEF ScanInv
<1>2. CASE MatrixBucket
  BY <1>2, MatrixBucketStep
<1>3. CASE MatrixRecurse
  <2>1. UNCHANGED <<calls, scan>>
    BY <1>3 DEF MatrixRecurse, quick
  <2>2. SortInv'
    BY <1>3, MatrixRecurseStep
  <2> QED
    BY <2>1, <2>2 DEF ScanInv
<1>4. CASE MatrixReturn
  <2>1. At("split") /\ ~MoreBuckets /\ UNCHANGED <<calls, scan>>
    BY <1>4 DEF MatrixReturn, quick
  <2>2. CASE Len(frames) = 1
    <3>1. frames' = <<>> /\ UNCHANGED <<tuples, other>>
      BY <1>4, <2>2 DEF MatrixReturn
    <3>2. SortInv'
      BY <2>1, <2>2, <3>1, LastReturn
    <3> QED
      BY <2>1, <3>2 DEF ScanInv
  <2>3. CASE Len(frames) # 1
    <3> DEFINE fr == frames[2]
               B == Within(fr.bucket)
    <3>1. frames' = <<[fr EXCEPT !.step = "split"]>> \o Tail(Tail(frames))
      BY <1>4, <2>3 DEF MatrixReturn
    <3>2. IF Odd(fr.chunk) THEN other' = Copied(tuples, other, fr.bucket) /\ tuples' = tuples
          ELSE tuples' = Copied(other, tuples, fr.bucket) /\ other' = other
      BY <1>4, <2>3 DEF MatrixReturn
    <3>3. tuples \in [Rows -> Quick!Tuple] /\ other \in [Rows -> Quick!Tuple]
      BY DEF SortInv, ArraysInv
    <3>4. /\ tuples' \in [Rows -> Quick!Tuple] /\ other' \in [Rows -> Quick!Tuple]
          /\ \A x \in Rows :
               IF Odd(fr.chunk)
                 THEN /\ other'[x] = IF x \in B THEN tuples[x] ELSE other[x]
                      /\ tuples'[x] = tuples[x]
                 ELSE /\ tuples'[x] = IF x \in B THEN other[x] ELSE tuples[x]
                      /\ other'[x] = other[x]
      BY <3>2, <3>3 DEF Copied
    <3>5. ArraysInv'
      BY <3>4, Settings DEF ArraysInv
    <3>6. ExchangedOutside(B)
      BY <3>4 DEF ExchangedOutside
    <3>7. B \subseteq Rows
      BY <1>0, <2>1, <2>3, WaitingRows
    <3>8. /\ Frame'.chunk = fr.chunk
          /\ Odd(fr.chunk) <=> ~Odd(Frame.chunk)
          /\ InMatrix' = InMatrix
      BY <1>0, <2>1, <2>3, <3>1, <3>6, CallerChunk, Settings
    <3>9. \A x \in B :
            /\ Target(Frame, 1)'[x] = Target(Frame, 1)[x]
            /\ Copy(Target(Frame, 1))'[x] = Target(Frame, 1)'[x]
      <4> HIDE DEF fr, B
      <4>1. CASE Odd(fr.chunk)
        <5>1. /\ Target(Frame, 1) = tuples /\ Target(Frame, 1)' = other'
              /\ Copy(Target(Frame, 1))' = tuples'
          <6>1. Odd(Frame'.chunk) /\ ~Odd(Frame.chunk) /\ InMatrix'
            BY <3>8, <4>1, Zenon
          <6> QED
            BY <6>1 DEF Target, Copy
        <5> QED
          BY <3>4, <3>7, <4>1, <5>1
      <4>2. CASE ~Odd(fr.chunk)
        <5>1. /\ Target(Frame, 1) = other /\ Target(Frame, 1)' = tuples'
              /\ Copy(Target(Frame, 1))' = tuples'
          <6>1. ~Odd(Frame'.chunk) /\ Odd(Frame.chunk) /\ InMatrix'
            BY <3>8, <4>2, Zenon
          <6> QED
            BY <6>1 DEF Target, Copy
        <5> QED
          BY <3>4, <3>7, <4>2, <5>1
      <4> QED
        BY <4>1, <4>2
    <3>10. SortInv'
      BY <2>1, <2>3, <3>1, <3>5, <3>6, <3>9, ReturnToCaller
    <3> QED
      BY <2>1, <3>10 DEF ScanInv
  <2> QED
    BY <2>2, <2>3
<1> QED
  BY <1>1, <1>2, <1>3, <1>4 DEF MatrixSortStep

-----------------------------------------------------------------------------
(* Loaded: a sort starts on a column that is whole in the array it reads.  *)
LEMMA Loaded ==
  ASSUME NEW column \in Lefts \cup Rights, Column' = column,
         calls' = <<>>,
         tuples' \in [DOMAIN column -> Quick!Tuple], other' \in [DOMAIN column -> Quick!Tuple],
         frames' = <<Call(FirstChunk, Extent(0, Size(column)))>>,
         Source(Frame, 1)' = column
  PROVE  SortInv'
<1> DEFINE call == Call(FirstChunk, Extent(0, Size(column)))
           V == Values(column)
<1>1. /\ Keyed(V) /\ Cardinality(V) = Size(column) /\ Size(column) \in Nat
      /\ DOMAIN column = 0 .. Size(column) - 1
      /\ \A x \in DOMAIN column : column[x] \in V
      /\ \A x, y \in DOMAIN column : column[x] = column[y] => x = y
  BY Columns
<1>2. Tuples' = V /\ Rows' = DOMAIN column /\ Size(Column)' = Size(column)
  BY DEF Tuples, Rows, Size, Values
<1>3. /\ call \in FrameType /\ call.step = "pass" /\ call.chunk = FirstChunk
      /\ call.range = Extent(0, Size(column))
      /\ call.bucket = Extent(call.range.start, call.range.start)
      /\ FirstChunk + 1 \in 0 .. FirstChunk + 1
  BY <1>1, ChunkAssumption DEF FrameType, Call, Extent, Ranges
<1>4. Within(call.range) = DOMAIN column
  BY <1>1, <1>3 DEF Within, Extent
<1> HIDE DEF V
<1>5. call.range = Region(V, FirstChunk + 1, 0)
  BY <1>1, <1>3, Whole
<1>6. Settled(V, FirstChunk + 1, column, DOMAIN column)
  <2>1. ASSUME NEW x \in DOMAIN column PROVE Placed(V, FirstChunk + 1, column, x)
    <3>1. column[x] \in V /\ Shifted(column[x].key, FirstChunk + 1) = 0
      BY <1>1 DEF Keyed
    <3>2. x \in Within(Region(V, FirstChunk + 1, 0))
      BY <1>4, <1>5
    <3> QED
      BY <3>1, <3>2 DEF Placed
  <2> QED
    BY <1>1, <2>1 DEF Settled
<1>7. Ready(V, call, column)
  <2> HIDE DEF call
  <2>1. 0 \in Nat
    OBVIOUS
  <2> QED
    BY <1>3, <1>4, <1>5, <1>6, <2>1 DEF Ready
<1> HIDE DEF call
<1>8. frames' = <<call>>
  BY DEF call
<1>9. /\ frames' \in Seq(FrameType) /\ Len(frames') = 1 /\ frames'[1] = call /\ frames' # <<>>
  BY <1>3, <1>8
<1>10. Frame' = call
  BY <1>9 DEF Frame
<1>11. BeforePass'
  BY <1>2, <1>7, <1>10 DEF BeforePass
<1>12. StackInv'
  <2>1. \A k \in 2 .. 1 : FALSE
    OBVIOUS
  <2>2. \A k \in 1 .. 1 : k = 1
    OBVIOUS
  <2>3. \A k, l \in 1 .. 1 : ~ (l < k)
    BY <2>2
  <2> QED
    BY <1>2, <1>3, <1>4, <1>9, <2>1, <2>2, <2>3 DEF StackInv
<1>13. ArraysInv'
  BY <1>2 DEF ArraysInv
<1> QED
  BY <1>9, <1>11, <1>12, <1>13 DEF SortInv, TopInv, QuickInv, SortedInv

(* What a sort is to leave: the column in the order of its keys, every row *)
(* once.                                                                   *)
IsSortOf(f, size, column) == Merge!SortedTable(f, size) /\ OrderOf(f, size, column)

(* SortEnds: a sort whose calls have all returned.                         *)
LEMMA SortEnds ==
  ASSUME left \in Lefts, right \in Rights, SortInv, frames = <<>>
  PROVE  /\ IsSortOf(tuples, Size(Column), Column)
         /\ Size(tuples) = Size(Column)
         /\ ~InMatrix => next.tuples = Size(Column)
<1> DEFINE n == Size(Column)
<1>1. Column \in Lefts \cup Rights
  BY DEF Column
<1>2. /\ Keyed(Tuples) /\ Cardinality(Tuples) = n /\ n \in Nat /\ Rows = 0 .. n - 1
      /\ \A t, u \in Tuples : t.payload = u.payload => t = u
  BY <1>1, Columns DEF Tuples, Rows
<1>3. /\ Settled(Tuples, 0, tuples, Rows)
      /\ tuples \in [Rows -> Quick!Tuple]
      /\ ~InMatrix => next.tuples = n
  BY DEF SortInv, SortedInv, ArraysInv
<1>4. /\ Quick!Ordered(tuples, Extent(0, n))
      /\ {tuples[x] : x \in 0 .. n - 1} = Tuples
  <2>1. Settled(Tuples, 0, tuples, 0 .. Cardinality(Tuples) - 1)
    BY <1>2, <1>3
  <2>2. /\ Quick!Ordered(tuples, Extent(0, Cardinality(Tuples)))
        /\ {tuples[x] : x \in 0 .. Cardinality(Tuples) - 1} = Tuples
    BY <1>2, <2>1, AllPlaced
  <2> QED
    BY <1>2, <2>2
<1>5. DOMAIN tuples = Rows /\ Values(tuples) = Tuples
  BY <1>2, <1>3, <1>4 DEF Values
<1>6. Size(tuples) = n
  BY <1>5 DEF Size, Rows
<1>7. OrderOf(tuples, n, Column)
  BY <1>4, <1>5 DEF OrderOf, Tuples
<1>8. Merge!SortedTable(tuples, n)
  <2>1. tuples \in [0 .. n - 1 -> Merge!Tuple]
    BY <1>2, <1>3 DEF Merge!Tuple, Quick!Tuple
  <2>2. \A x, y \in 0 .. n - 1 : x <= y => tuples[x].key <= tuples[y].key
    <3>1. Quick!Within(Extent(0, n)) = 0 .. n - 1
      BY DEF Quick!Within, Extent
    <3> QED
      BY <1>4, <3>1 DEF Quick!Ordered
  <2>3. \A x, y \in 0 .. n - 1 : tuples[x].payload = tuples[y].payload => x = y
    <3>1. \A x \in Rows : tuples[x] \in Tuples
      BY <1>3 DEF Settled, Placed
    <3>2. \A x, y \in Rows : tuples[x] = tuples[y] => x = y
      BY <1>3 DEF Settled
    <3> QED
      BY <1>2, <3>1, <3>2
  <2> HIDE DEF n
  <2> QED
    BY <1>2, <2>1, <2>2, <2>3 DEF Merge!SortedTable
<1> QED
  BY <1>3, <1>6, <1>7, <1>8 DEF IsSortOf

-----------------------------------------------------------------------------
(***************************************************************************)
(* The merge of two sorted inputs of any size yields every pair of rows    *)
(* with equal keys once.                                                   *)
(***************************************************************************)

RowsA == 0 .. size_a - 1

RowsB == 0 .. size_b - 1

PairOf(x, y) == <<table_a[x].payload, table_b[y].payload>>

(* Inside the product of two runs: the pairs it has come to. *)
InProduct(x, y) ==
  /\ pc = "product"
  /\ \/ i_a <= x /\ x < i /\ i_b <= y /\ y < e_b
     \/ x = i /\ i_b <= y /\ y < j

Emitted(x, y) ==
  /\ Merge!key_a(x) = Merge!key_b(y)
  /\ (x < i_a /\ y < i_b) \/ InProduct(x, y)

MergeTypeInv ==
  /\ Merge!SortedTable(table_a, size_a) /\ Merge!SortedTable(table_b, size_b)
  /\ i_a \in Nat /\ e_a \in Nat /\ i_b \in Nat /\ e_b \in Nat
  /\ i \in Nat /\ j \in Nat
  /\ pc \in {"loop", "runs", "product", "done"}
  /\ result \in Seq(Nat \X Nat)

(* i_a and e_a delimit a run, i_b and e_b another. *)
MergeRunInv ==
  /\ i_a <= size_a /\ i_b <= size_b
  /\ pc \in {"runs", "product"} =>
       /\ i_a < e_a /\ e_a <= size_a
       /\ i_b < e_b /\ e_b <= size_b
       /\ \A x \in RowsA : i_a <= x /\ x < e_a => Merge!key_a(x) = Merge!key_a(i_a)
       /\ \A y \in RowsB : i_b <= y /\ y < e_b => Merge!key_b(y) = Merge!key_b(i_b)
  /\ pc = "product" =>
       /\ ~Merge!MoreA /\ ~Merge!MoreB
       /\ Merge!key_a(i_a) = Merge!key_b(i_b)
       /\ i_a <= i /\ i <= e_a
       /\ i_b <= j /\ j < e_b
       /\ i = e_a => j = i_b
  /\ pc = "done" => i_a = size_a \/ i_b = size_b

(* What is behind one index is below all that is before the other. *)
MergeBehindInv ==
  /\ \A x \in RowsA, y \in RowsB : x < i_a /\ i_b <= y => Merge!key_a(x) < Merge!key_b(y)
  /\ \A x \in RowsA, y \in RowsB : i_a <= x /\ y < i_b => Merge!key_b(y) < Merge!key_a(x)

MergeResultInv ==
  /\ \A k \in DOMAIN result :
       \E x \in RowsA, y \in RowsB : Emitted(x, y) /\ result[k] = PairOf(x, y)
  /\ \A x \in RowsA, y \in RowsB :
       Emitted(x, y) => \E k \in DOMAIN result : result[k] = PairOf(x, y)
  /\ \A k, l \in DOMAIN result : result[k] = result[l] => k = l

MergeIInv == MergeTypeInv /\ MergeRunInv /\ MergeBehindInv /\ MergeResultInv

-----------------------------------------------------------------------------
(* The start satisfies the invariant. *)
LEMMA MergeStarts == Merge!Init => MergeIInv
<1> SUFFICES ASSUME Merge!Init PROVE MergeIInv
  OBVIOUS
<1> USE DEF Merge!Init, Merge!Start
<1>1. MergeTypeInv
  BY DEF MergeTypeInv, Merge!SortedTable
<1>2. MergeRunInv
  BY DEF MergeRunInv, Merge!SortedTable
<1>3. MergeBehindInv
  BY DEF MergeBehindInv, RowsA, RowsB
<1>4. MergeResultInv
  BY DEF MergeResultInv, RowsA, RowsB, Emitted, InProduct
<1> QED
  BY <1>1, <1>2, <1>3, <1>4 DEF MergeIInv

(* A step that neither adds to the result nor changes which pairs it is to *)
(* hold keeps the part of the invariant about it.                          *)
LEMMA MergeSameResult ==
  ASSUME MergeResultInv, UNCHANGED <<Merge!inputs, result>>,
         \A x \in RowsA, y \in RowsB : Emitted(x, y)' <=> Emitted(x, y)
  PROVE  MergeResultInv'
<1>1. /\ RowsA' = RowsA /\ RowsB' = RowsB
      /\ \A x, y : PairOf(x, y)' = PairOf(x, y)
  BY DEF RowsA, RowsB, PairOf, Merge!inputs
<1>2. ASSUME NEW k \in DOMAIN result
      PROVE  \E x \in RowsA, y \in RowsB : Emitted(x, y)' /\ result[k] = PairOf(x, y)
  BY <1>2 DEF MergeResultInv
<1>3. ASSUME NEW x \in RowsA, NEW y \in RowsB, Emitted(x, y)'
      PROVE  \E k \in DOMAIN result : result[k] = PairOf(x, y)
  BY <1>3 DEF MergeResultInv
<1> QED
  BY <1>1, <1>2, <1>3 DEF MergeResultInv

LEMMA MergeTypeStep == ASSUME MergeTypeInv, MergeRunInv, Merge!Next PROVE MergeTypeInv'
<1> USE DEF MergeTypeInv
<1>0. Merge!SortedTable(table_a, size_a)' /\ Merge!SortedTable(table_b, size_b)'
  <2>1. UNCHANGED Merge!inputs
    BY DEF Merge!Next, Merge!Loop, Merge!Finish, Merge!ExtendA, Merge!ExtendB, Merge!Match,
           Merge!Skip, Merge!Emit, Merge!Advance
  <2> QED
    BY <2>1 DEF Merge!inputs, Merge!SortedTable
<1>1. CASE Merge!Loop
  BY <1>0, <1>1 DEF Merge!Loop, Merge!inputs
<1>2. CASE Merge!Finish
  BY <1>0, <1>2 DEF Merge!Finish, Merge!inputs
<1>3. CASE Merge!ExtendA
  BY <1>0, <1>3 DEF Merge!ExtendA, Merge!inputs
<1>4. CASE Merge!ExtendB
  BY <1>0, <1>4 DEF Merge!ExtendB, Merge!inputs
<1>5. CASE Merge!Match
  BY <1>0, <1>5 DEF Merge!Match, Merge!inputs
<1>6. CASE Merge!Skip
  BY <1>0, <1>6 DEF Merge!Skip, Merge!inputs
<1>7. CASE Merge!Emit
  <2>1. table_a[i].payload \in Nat /\ table_b[j].payload \in Nat
    <3>1. i \in 0 .. size_a - 1 /\ j \in 0 .. size_b - 1
      BY <1>7 DEF Merge!Emit, MergeRunInv, Merge!SortedTable
    <3> QED
      BY <3>1 DEF Merge!SortedTable, Merge!Tuple
  <2>2. result' \in Seq(Nat \X Nat)
    BY <1>7, <2>1 DEF Merge!Emit
  <2>3. i' \in Nat /\ j' \in Nat
    BY <1>7 DEF Merge!Emit
  <2> QED
    BY <1>0, <1>7, <2>2, <2>3 DEF Merge!Emit, Merge!inputs
<1>8. CASE Merge!Advance
  BY <1>0, <1>8 DEF Merge!Advance, Merge!inputs
<1> QED
  BY <1>1, <1>2, <1>3, <1>4, <1>5, <1>6, <1>7, <1>8 DEF Merge!Next

(* What a table sorted by key says of the rows inside the two inputs. *)
LEMMA KeysInOrder ==
  ASSUME MergeTypeInv
  PROVE  /\ size_a \in Nat /\ size_b \in Nat
         /\ \A x \in RowsA : Merge!key_a(x) \in Nat
         /\ \A y \in RowsB : Merge!key_b(y) \in Nat
         /\ \A x, y \in RowsA : x <= y => Merge!key_a(x) <= Merge!key_a(y)
         /\ \A x, y \in RowsB : x <= y => Merge!key_b(x) <= Merge!key_b(y)
BY DEF MergeTypeInv, Merge!SortedTable, Merge!Tuple, RowsA, RowsB, Merge!key_a, Merge!key_b

(* The loops that look for the ends of the two runs end exactly there. *)
LEMMA MergeRunStep == ASSUME MergeTypeInv, MergeRunInv, Merge!Next PROVE MergeRunInv'
<1> USE KeysInOrder DEF MergeTypeInv, MergeRunInv, RowsA, RowsB, Merge!MoreA, Merge!MoreB,
                        Merge!key_a, Merge!key_b, Merge!inputs
<1>1. CASE Merge!Loop
  BY <1>1 DEF Merge!Loop
<1>2. CASE Merge!Finish
  BY <1>2 DEF Merge!Finish
<1>3. CASE Merge!ExtendA
  BY <1>3 DEF Merge!ExtendA
<1>4. CASE Merge!ExtendB
  BY <1>4 DEF Merge!ExtendB
<1>5. CASE Merge!Match
  BY <1>5 DEF Merge!Match
<1>6. CASE Merge!Skip
  BY <1>6 DEF Merge!Skip
<1>7. CASE Merge!Emit
  BY <1>7 DEF Merge!Emit
<1>8. CASE Merge!Advance
  BY <1>8 DEF Merge!Advance
<1> QED
  BY <1>1, <1>2, <1>3, <1>4, <1>5, <1>6, <1>7, <1>8 DEF Merge!Next

(* Only Skip and Advance move the two indexes. *)
LEMMA MergeBehindStep ==
  ASSUME MergeTypeInv, MergeRunInv, MergeBehindInv, Merge!Next
  PROVE  MergeBehindInv'
<1>1. UNCHANGED <<RowsA, RowsB>> /\ \A x : UNCHANGED <<Merge!key_a(x), Merge!key_b(x)>>
  BY DEF Merge!Next, Merge!Loop, Merge!Finish, Merge!ExtendA, Merge!ExtendB, Merge!Match,
         Merge!Skip, Merge!Emit, Merge!Advance,
         Merge!inputs, RowsA, RowsB, Merge!key_a, Merge!key_b
<1>2. CASE UNCHANGED <<i_a, i_b>>
  BY <1>1, <1>2 DEF MergeBehindInv
<1>3. CASE Merge!Skip
  <2>1. CASE Merge!key_a(i_a) < Merge!key_b(i_b) /\ i_a' = e_a /\ UNCHANGED i_b
    <3>1. /\ i_a \in RowsA /\ i_b \in RowsB /\ i_a < e_a
          /\ \A x \in RowsA : i_a <= x /\ x < e_a => Merge!key_a(x) = Merge!key_a(i_a)
      BY <1>3, KeysInOrder DEF Merge!Skip, MergeTypeInv, MergeRunInv, RowsA, RowsB
    <3>2. ASSUME NEW x \in RowsA, NEW y \in RowsB, x < e_a, i_b <= y
          PROVE  Merge!key_a(x) < Merge!key_b(y)
      <4>1. Merge!key_b(i_b) <= Merge!key_b(y)
        BY <3>1, <3>2, KeysInOrder
      <4>2. CASE x < i_a
        BY <3>2, <4>2 DEF MergeBehindInv
      <4>3. CASE i_a <= x
        BY <2>1, <3>1, <3>2, <4>1, <4>3, KeysInOrder
      <4> QED
        BY <3>2, <4>2, <4>3 DEF MergeTypeInv, RowsA
    <3>3. ASSUME NEW x \in RowsA, NEW y \in RowsB, e_a <= x, y < i_b
          PROVE  Merge!key_b(y) < Merge!key_a(x)
      <4>1. i_a <= x
        BY <3>1, <3>3 DEF MergeTypeInv, RowsA
      <4> QED
        BY <3>3, <4>1 DEF MergeBehindInv
    <3> QED
      BY <1>1, <2>1, <3>2, <3>3 DEF MergeBehindInv
  <2>2. CASE Merge!key_a(i_a) > Merge!key_b(i_b) /\ i_b' = e_b /\ UNCHANGED i_a
    <3>1. /\ i_b \in RowsB /\ i_a \in RowsA /\ i_b < e_b
          /\ \A y \in RowsB : i_b <= y /\ y < e_b => Merge!key_b(y) = Merge!key_b(i_b)
      BY <1>3, KeysInOrder DEF Merge!Skip, MergeTypeInv, MergeRunInv, RowsB, RowsA
    <3>2. ASSUME NEW y \in RowsB, NEW x \in RowsA, y < e_b, i_a <= x
          PROVE  Merge!key_b(y) < Merge!key_a(x)
      <4>1. Merge!key_a(i_a) <= Merge!key_a(x)
        BY <3>1, <3>2, KeysInOrder
      <4>2. CASE y < i_b
        BY <3>2, <4>2 DEF MergeBehindInv
      <4>3. CASE i_b <= y
        BY <2>2, <3>1, <3>2, <4>1, <4>3, KeysInOrder
      <4> QED
        BY <3>2, <4>2, <4>3 DEF MergeTypeInv, RowsB
    <3>3. ASSUME NEW y \in RowsB, NEW x \in RowsA, e_b <= y, x < i_a
          PROVE  Merge!key_a(x) < Merge!key_b(y)
      <4>1. i_b <= y
        BY <3>1, <3>3 DEF MergeTypeInv, RowsB
      <4> QED
        BY <3>3, <4>1 DEF MergeBehindInv
    <3> QED
      BY <1>1, <2>2, <3>2, <3>3 DEF MergeBehindInv
  <2> QED
    BY <1>3, <2>1, <2>2 DEF Merge!Skip
<1>4. CASE Merge!Advance
  <2>1. i_a' = e_a /\ i_b' = e_b /\ pc = "product"
    BY <1>4 DEF Merge!Advance
  <2>2. ASSUME NEW x \in RowsA, NEW y \in RowsB, x < e_a, e_b <= y
        PROVE  Merge!key_a(x) < Merge!key_b(y)
    <3>1. i_a \in RowsA /\ i_b \in RowsB /\ e_b \in RowsB /\ i_b <= e_b /\ i_b <= y
      BY <2>1, <2>2, KeysInOrder DEF MergeTypeInv, MergeRunInv, RowsA, RowsB
    <3>2. /\ Merge!key_b(i_b) <= Merge!key_b(e_b)
          /\ Merge!key_b(e_b) <= Merge!key_b(y)
          /\ Merge!key_b(i_b) # Merge!key_b(e_b)
      BY <2>1, <2>2, <3>1, KeysInOrder DEF MergeRunInv, Merge!MoreB, RowsB
    <3>3. CASE x < i_a
      BY <3>1, <3>3 DEF MergeBehindInv
    <3>4. CASE i_a <= x
      <4>1. Merge!key_a(x) = Merge!key_b(i_b)
        BY <2>1, <2>2, <3>4 DEF MergeRunInv
      <4> QED
        BY <3>1, <3>2, <4>1, KeysInOrder
    <3> QED
      BY <3>3, <3>4 DEF MergeTypeInv, RowsA
  <2>3. ASSUME NEW x \in RowsA, NEW y \in RowsB, y < e_b, e_a <= x
        PROVE  Merge!key_b(y) < Merge!key_a(x)
    <3>1. i_b \in RowsB /\ i_a \in RowsA /\ e_a \in RowsA /\ i_a <= e_a /\ i_a <= x
      BY <2>1, <2>3, KeysInOrder DEF MergeTypeInv, MergeRunInv, RowsB, RowsA
    <3>2. /\ Merge!key_a(i_a) <= Merge!key_a(e_a)
          /\ Merge!key_a(e_a) <= Merge!key_a(x)
          /\ Merge!key_a(i_a) # Merge!key_a(e_a)
      BY <2>1, <2>3, <3>1, KeysInOrder DEF MergeRunInv, Merge!MoreA, RowsA
    <3>3. CASE y < i_b
      BY <3>1, <3>3 DEF MergeBehindInv
    <3>4. CASE i_b <= y
      <4>1. Merge!key_b(y) = Merge!key_a(i_a)
        BY <2>1, <2>3, <3>4 DEF MergeRunInv
      <4> QED
        BY <3>1, <3>2, <4>1, KeysInOrder
    <3> QED
      BY <3>3, <3>4 DEF MergeTypeInv, RowsB
  <2> QED
    BY <1>1, <2>1, <2>2, <2>3 DEF MergeBehindInv
<1> QED
  BY <1>2, <1>3, <1>4 DEF Merge!Next, Merge!Loop, Merge!Finish, Merge!ExtendA, Merge!ExtendB,
                          Merge!Match, Merge!Emit

(* The pair that Emit appends was not in the result, and becomes part of   *)
(* what it is to hold.                                                     *)
LEMMA EmitStep ==
  ASSUME MergeTypeInv, MergeRunInv, MergeResultInv, Merge!Emit
  PROVE  MergeResultInv'
<1> DEFINE new == PairOf(i, j)
<1>1. /\ UNCHANGED <<RowsA, RowsB>>
      /\ \A x : UNCHANGED <<Merge!key_a(x), Merge!key_b(x)>>
      /\ \A x, y : UNCHANGED PairOf(x, y)
  BY DEF Merge!Emit, Merge!inputs, RowsA, RowsB, Merge!key_a, Merge!key_b, PairOf
<1>2. i \in RowsA /\ j \in RowsB /\ Merge!key_a(i) = Merge!key_b(j)
  BY DEF Merge!Emit, MergeTypeInv, MergeRunInv, RowsA, RowsB, Merge!SortedTable
<1>3. /\ Len(result) \in Nat /\ DOMAIN result = 1 .. Len(result)
      /\ DOMAIN result' = 1 .. Len(result) + 1
      /\ \A k \in DOMAIN result : result'[k] = result[k]
      /\ result'[Len(result) + 1] = new
  <2>1. result' = Append(result, new)
    BY DEF Merge!Emit, PairOf
  <2>2. PICK s \in Seq(Nat \X Nat) : s = result
    BY DEF MergeTypeInv
  <2> HIDE DEF new
  <2>3. /\ Len(s) \in Nat /\ DOMAIN s = 1 .. Len(s)
        /\ DOMAIN Append(s, new) = 1 .. Len(s) + 1
        /\ \A k \in DOMAIN s : Append(s, new)[k] = s[k]
        /\ Append(s, new)[Len(s) + 1] = new
    OBVIOUS
  <2> QED
    BY <2>1, <2>2, <2>3
<1>4. ASSUME NEW x \in RowsA, NEW y \in RowsB
      PROVE  Emitted(x, y)' <=> Emitted(x, y) \/ (x = i /\ y = j)
  BY <1>1, <1>2 DEF Merge!Emit, MergeTypeInv, MergeRunInv, Emitted, InProduct, RowsA, RowsB,
                    Merge!SortedTable
<1>5. ~Emitted(i, j)
  BY DEF Merge!Emit, MergeTypeInv, MergeRunInv, Emitted, InProduct
<1>6. ASSUME NEW x \in RowsA, NEW y \in RowsB, PairOf(x, y) = new
      PROVE  x = i /\ y = j
  BY <1>2, <1>6 DEF MergeTypeInv, Merge!SortedTable, PairOf, RowsA, RowsB
<1>7. ASSUME NEW k \in DOMAIN result PROVE result[k] # new
  BY <1>5, <1>6 DEF MergeResultInv
<1>8. ASSUME NEW k \in DOMAIN result'
      PROVE  \E x \in RowsA, y \in RowsB : Emitted(x, y)' /\ result'[k] = PairOf(x, y)
  <2>1. CASE k \in DOMAIN result
    BY <1>3, <1>4, <2>1 DEF MergeResultInv
  <2>2. CASE k = Len(result) + 1
    BY <1>2, <1>3, <1>4, <2>2
  <2> QED
    BY <1>3, <2>1, <2>2
<1>9. ASSUME NEW x \in RowsA, NEW y \in RowsB, Emitted(x, y)'
      PROVE  \E k \in DOMAIN result' : result'[k] = PairOf(x, y)
  <2>1. CASE Emitted(x, y)
    <3>1. PICK k \in DOMAIN result : result[k] = PairOf(x, y)
      BY <2>1 DEF MergeResultInv
    <3> QED
      BY <1>3, <3>1
  <2>2. CASE x = i /\ y = j
    BY <1>3, <2>2
  <2> QED
    BY <1>4, <1>9, <2>1, <2>2
<1>10. ASSUME NEW k \in DOMAIN result', NEW l \in DOMAIN result', result'[k] = result'[l]
       PROVE  k = l
  <2>1. CASE k \in DOMAIN result /\ l \in DOMAIN result
    BY <1>3, <1>10, <2>1 DEF MergeResultInv
  <2>2. CASE k = Len(result) + 1 \/ l = Len(result) + 1
    BY <1>3, <1>7, <1>10, <2>2
  <2> QED
    BY <1>3, <2>1, <2>2
<1> QED
  BY <1>1, <1>8, <1>9, <1>10 DEF MergeResultInv

LEMMA MergeResultStep == ASSUME MergeIInv, Merge!Next PROVE MergeResultInv'
<1> USE DEF MergeIInv
<1>1. CASE Merge!Emit
  BY <1>1, EmitStep
<1>2. CASE ~Merge!Emit
  <2>1. UNCHANGED <<Merge!inputs, result>>
    BY <1>2 DEF Merge!Next, Merge!Loop, Merge!Finish, Merge!ExtendA, Merge!ExtendB, Merge!Match,
                Merge!Skip, Merge!Advance
  <2>2. UNCHANGED <<RowsA, RowsB>> /\ \A x : UNCHANGED <<Merge!key_a(x), Merge!key_b(x)>>
    BY <2>1 DEF Merge!inputs, RowsA, RowsB, Merge!key_a, Merge!key_b
  <2>3. ASSUME NEW x \in RowsA, NEW y \in RowsB
        PROVE  Emitted(x, y)' <=> Emitted(x, y)
    <3>0. /\ x \in Nat /\ y \in Nat
          /\ Merge!key_a(x) \in Nat /\ Merge!key_b(y) \in Nat
      BY KeysInOrder DEF RowsA, RowsB
    <3>1. CASE Merge!Loop \/ Merge!Finish \/ Merge!ExtendA \/ Merge!ExtendB
      BY <2>2, <3>1 DEF Merge!Loop, Merge!Finish, Merge!ExtendA, Merge!ExtendB, Emitted, InProduct
    <3>2. CASE Merge!Match
      BY <2>2, <3>0, <3>2 DEF Merge!Match, Emitted, InProduct, MergeTypeInv
    <3>3. CASE Merge!Skip
      BY <2>2, <3>0, <3>3, KeysInOrder
      DEF Merge!Skip, Emitted, InProduct, MergeTypeInv, MergeRunInv, MergeBehindInv, RowsA, RowsB
    <3>4. CASE Merge!Advance
      BY <2>2, <3>0, <3>4 DEF Merge!Advance, Emitted, InProduct, MergeTypeInv, MergeRunInv,
                              MergeBehindInv
    <3> QED
      BY <1>2, <3>1, <3>2, <3>3, <3>4 DEF Merge!Next
  <2> QED
    BY <2>1, <2>3, MergeSameResult
<1> QED
  BY <1>1, <1>2

-----------------------------------------------------------------------------
(* Invariance: every state the merge of two sorted inputs reaches          *)
(* satisfies MergeIInv.                                                         *)
THEOREM MergeInvariance == Merge!Spec => []MergeIInv
<1>1. MergeIInv /\ [Merge!Next]_(Merge!vars) => MergeIInv'
  <2>1. CASE Merge!Next
    BY <2>1, MergeTypeStep, MergeRunStep, MergeBehindStep, MergeResultStep DEF MergeIInv
  <2>2. CASE UNCHANGED Merge!vars
    BY <2>2 DEF Merge!vars, MergeIInv, MergeTypeInv, MergeRunInv, MergeBehindInv, MergeResultInv,
                Emitted, InProduct,
                PairOf, RowsA, RowsB, Merge!MoreA, Merge!MoreB, Merge!key_a, Merge!key_b
  <2> QED
    BY <2>1, <2>2
<1> QED
  BY <1>1, MergeStarts, PTL DEF Merge!Spec

(* When an input is used up, every pair of equal keys is behind both       *)
(* indexes: MergeBehindInv leaves no partner for a row that was not reached.    *)
LEMMA DoneEmitted ==
  ASSUME MergeIInv, pc = "done", NEW x \in RowsA, NEW y \in RowsB
  PROVE  Emitted(x, y) <=> Merge!key_a(x) = Merge!key_b(y)
<1> USE DEF MergeIInv
<1>1. x \in Nat /\ y \in Nat /\ x < size_a /\ y < size_b
  BY KeysInOrder DEF RowsA, RowsB
<1>2. Merge!key_a(x) \in Nat /\ Merge!key_b(y) \in Nat
  BY KeysInOrder
<1>3. ASSUME Merge!key_a(x) = Merge!key_b(y) PROVE x < i_a /\ y < i_b
  BY <1>1, <1>2, <1>3 DEF MergeTypeInv, MergeRunInv, MergeBehindInv, Merge!SortedTable
<1> QED
  BY <1>3 DEF Emitted, InProduct

(* ExactWhenDone: with both inputs behind the indexes, the pairs emitted   *)
(* are those of equal keys.                                                *)
LEMMA MergeExactWhenDone == ASSUME MergeIInv PROVE Merge!MergeExact
<1> SUFFICES ASSUME pc = "done"
             PROVE  /\ Merge!Pairs = Merge!Matches
                    /\ \A k, l \in DOMAIN result : result[k] = result[l] => k = l
  BY DEF Merge!MergeExact
<1>1. ASSUME NEW p \in Merge!Pairs PROVE p \in Merge!Matches
  <2>1. PICK k \in DOMAIN result : p = result[k]
    BY <1>1 DEF Merge!Pairs
  <2>2. PICK x \in RowsA, y \in RowsB : Emitted(x, y) /\ p = PairOf(x, y)
    BY <2>1 DEF MergeIInv, MergeResultInv
  <2>3. Merge!key_a(x) = Merge!key_b(y)
    BY <2>2 DEF Emitted
  <2> DEFINE m == <<x, y>>
  <2>4. m \in RowsA \X RowsB /\ m[1] = x /\ m[2] = y
    OBVIOUS
  <2> HIDE DEF m
  <2> QED
    BY <2>2, <2>3, <2>4 DEF Merge!Matches, PairOf, RowsA, RowsB
<1>2. ASSUME NEW p \in Merge!Matches PROVE p \in Merge!Pairs
  <2>1. PICK x \in RowsA, y \in RowsB : Merge!key_a(x) = Merge!key_b(y) /\ p = PairOf(x, y)
    BY <1>2 DEF Merge!Matches, PairOf, RowsA, RowsB
  <2>2. Emitted(x, y)
    BY <2>1, DoneEmitted
  <2> QED
    BY <2>1, <2>2 DEF MergeIInv, MergeResultInv, Merge!Pairs
<1>3. \A k, l \in DOMAIN result : result[k] = result[l] => k = l
  BY DEF MergeIInv, MergeResultInv
<1> QED
  BY <1>1, <1>2, <1>3

(* MergeCorrect: the loop of join and mx_join, given inputs of any size in *)
(* the order of their keys, ends with every pair of rows with equal keys,  *)
(* each once, and no other pair (MergeExact).                              *)
THEOREM MergeCorrect == Merge!Spec => []Merge!MergeExact
  BY MergeExactWhenDone, MergeInvariance, PTL

-----------------------------------------------------------------------------
(* The invariant of a join.                                                *)
Phases == {"load_left", "sort_left", "load_right", "sort_right", "merge", "aborted"}

TypedArrays ==
  /\ \E n \in Nat : tuples \in [0 .. n - 1 -> Quick!Tuple] /\ other \in [0 .. n - 1 -> Quick!Tuple]
  /\ next \in [tuples : Nat, other : Nat]

TablesInv ==
  /\ Merge!SortedTable(table_a, size_a) /\ Merge!SortedTable(table_b, size_b)
  /\ phase \in {"load_right", "sort_right", "merge"} => IsSortOf(table_a, size_a, left)
  /\ phase = "merge" => IsSortOf(table_b, size_b, right)

MergeInv == IF phase = "merge" THEN MergeIInv ELSE Merge!Start /\ pc = "loop"

JoinInv ==
  /\ route \in {"join", "mx_join"} /\ left \in Lefts /\ right \in Rights
  /\ phase \in Phases
  /\ TypedArrays
  /\ IF Sorting THEN SortInv ELSE calls = <<>> /\ frames = <<>>
  /\ ScanInv
  /\ TablesInv
  /\ MergeInv

(* InitJoinInv: the start satisfies the invariant.                         *)
LEMMA InitJoinInv == Init => JoinInv
<1> SUFFICES ASSUME Init PROVE JoinInv
  OBVIOUS
<1>1. /\ route \in {"join", "mx_join"} /\ left \in Lefts /\ right \in Rights
      /\ phase = "load_left"
      /\ tuples = <<>> /\ other = <<>> /\ next = [tuples |-> 0, other |-> 0]
      /\ calls = <<>> /\ frames = <<>> /\ scan = Quick!Idle
      /\ table_a = <<>> /\ table_b = <<>> /\ size_a = 0 /\ size_b = 0
      /\ Merge!Start /\ pc = "loop"
  BY DEF Init
<1>2. \A T : <<>> \in [0 .. 0 - 1 -> T]
  <2>1. 0 .. 0 - 1 = {}
    OBVIOUS
  <2> QED
    BY <2>1
<1>3. TypedArrays
  BY <1>1, <1>2 DEF TypedArrays
<1>4. ScanInv
  BY <1>1 DEF ScanInv, Quick!Idle
<1>5. TablesInv
  <2>1. Merge!SortedTable(<<>>, 0)
    <3>1. \A x \in 0 .. 0 - 1 : FALSE
      OBVIOUS
    <3> QED
      BY <1>2, <3>1 DEF Merge!SortedTable
  <2> QED
    BY <1>1, <2>1 DEF TablesInv
<1> QED
  BY <1>1, <1>3, <1>4, <1>5 DEF JoinInv, Phases, Sorting, MergeInv

(* LoadStep: load_table and load_matrix_full.                              *)
LEMMA LoadStep ==
  ASSUME JoinInv, LoadLeft \/ LoadRight
  PROVE  JoinInv'
<1> DEFINE column == IF phase = "load_left" THEN left ELSE right
           sort == IF phase = "load_left" THEN "sort_left" ELSE "sort_right"
<1>0. /\ phase \in {"load_left", "load_right"}
      /\ UNCHANGED <<route, left, right, sorted, merge>>
      /\ IF phase = "load_left" /\ route # "join" THEN LoadMatrix(column, sort)
         ELSE LoadTable(column, sort)
  BY DEF LoadLeft, LoadRight
<1>1. /\ route \in {"join", "mx_join"}
      /\ left \in Lefts /\ right \in Rights /\ TypedArrays /\ ScanInv /\ TablesInv
      /\ calls = <<>> /\ frames = <<>> /\ Merge!Start /\ pc = "loop"
  BY <1>0 DEF JoinInv, Sorting, MergeInv
<1>2. column \in Lefts \cup Rights
  BY <1>1
<1>3. /\ Size(column) \in Nat /\ DOMAIN column = 0 .. Size(column) - 1
      /\ column \in [DOMAIN column -> Quick!Tuple]
  <2> HIDE DEF column
  <2> QED
    BY <1>2, Columns
<1>4. UNCHANGED <<calls, scan>>
  BY <1>0 DEF LoadMatrix, LoadTable, quick
<1>5. /\ UNCHANGED <<left, right, table_a, table_b, size_a, size_b>>
      /\ Merge!Start' /\ pc' = "loop"
  BY <1>0, <1>1 DEF sorted, merge, Merge!Start
<1>6. route' \in {"join", "mx_join"} /\ left' \in Lefts /\ right' \in Rights /\ ScanInv'
  BY <1>0, <1>1, <1>4, <1>5 DEF ScanInv
<1>7. ASSUME phase' \in {sort, "aborted"} PROVE TablesInv'
  <2>1. phase' \in {"load_right", "sort_right", "merge"} => phase = "load_right"
    BY <1>0, <1>7
  <2>2. phase' # "merge"
    BY <1>7
  <2> QED
    BY <1>1, <1>5, <2>1, <2>2 DEF TablesInv
<1>8. CASE phase' = sort
  <2>1. /\ tuples' = column
        /\ other' = IF phase = "load_left" /\ route # "join" THEN Zeroes(column) ELSE column
        /\ next' = [tuples |-> Size(column), other |-> Size(column)]
        /\ frames' = <<Call(FirstChunk, Extent(0, Size(column)))>>
    BY <1>0, <1>8 DEF LoadMatrix, LoadTable, Begin
  <2>2. Column' = column
    BY <1>0, <1>5, <1>8 DEF Column
  <2>3. Zeroes(column) \in [DOMAIN column -> Quick!Tuple]
    BY DEF Zeroes, Quick!Tuple
  <2>4. /\ tuples' \in [DOMAIN column -> Quick!Tuple]
        /\ other' \in [DOMAIN column -> Quick!Tuple]
    <3> HIDE DEF column
    <3> QED
      BY <1>3, <2>1, <2>3
  <2>5. Source(Frame, 1)' = column
    <3>1. Frame'.chunk = FirstChunk
      <4>1. frames'[1] = Call(FirstChunk, Extent(0, Size(column)))
        BY <2>1
      <4> QED
        BY <4>1 DEF Frame, Call
    <3>2. Odd(FirstChunk) /\ Odd(1)
      BY ChunkAssumption, OddAlternates DEF Odd
    <3> HIDE DEF column
    <3>3. CASE InMatrix'
      <4>1. tuples' = column
        BY <2>1
      <4>2. Odd(Frame'.chunk)
        BY <3>1, <3>2
      <4> QED
        BY <3>3, <4>1, <4>2 DEF Source
    <3>4. CASE ~InMatrix'
      <4>1. other' = column
        BY <1>0, <1>8, <2>1, <3>4, <1>1 DEF InMatrix
      <4> QED
        BY <3>2, <3>4, <4>1 DEF Source
    <3> QED
      BY <3>3, <3>4
  <2>6. SortInv'
    <3> HIDE DEF column
    <3> QED
      BY <1>1, <1>2, <1>4, <2>1, <2>2, <2>4, <2>5, Loaded
  <2>7. TypedArrays'
    <3> HIDE DEF column
    <3> QED
      BY <1>3, <2>1, <2>4 DEF TypedArrays
  <2> QED
    BY <1>5, <1>6, <1>7, <1>8, <2>6, <2>7 DEF JoinInv, Phases, Sorting, MergeInv
<1>9. CASE phase' # sort
  <2>1. phase' = "aborted" /\ UNCHANGED <<tuples, other, next, frames>>
    BY <1>0, <1>9 DEF LoadMatrix, LoadTable
  <2>2. TypedArrays'
    BY <1>1, <2>1 DEF TypedArrays
  <2> QED
    BY <1>1, <1>4, <1>5, <1>6, <1>7, <2>1, <2>2 DEF JoinInv, Phases, Sorting, MergeInv
<1> QED
  BY <1>8, <1>9

(* NextTyped: the sizes of the tables stay natural numbers.                *)
LEMMA NextTyped ==
  ASSUME left \in Lefts, right \in Rights, SortInv, next \in [tuples : Nat, other : Nat],
         IF InMatrix THEN MatrixSortStep ELSE TableSortStep
  PROVE  next' \in [tuples : Nat, other : Nat]
<1>0. Keyed(Tuples)
  BY OneColumn
<1>1. CASE TableReturn
  <2>1. At("split") /\ ~MoreBuckets
    BY <1>1 DEF TableReturn
  <2> DEFINE length == Frame.range.end - Frame.range.start
  <2>2. length \in Nat
    <3>1. /\ Frame \in FrameType
          /\ Split(Tuples, Frame, Target(Frame, 1), Copy(Target(Frame, 1)),
                   Within(Frame.range), Frame.range.end)
      BY <1>0, <2>1, AllBehind
    <3>2. Buckets(Tuples, Frame)
      BY <3>1 DEF Split
    <3>3. /\ Frame.range.start \in Nat /\ Frame.range.end \in Nat
          /\ Frame.bucket.start \in Nat /\ Frame.bucket.end \in Nat
          /\ Frame.range.start <= Frame.bucket.start /\ Frame.bucket.start <= Frame.bucket.end
          /\ Frame.bucket.end <= Frame.range.end
      BY <1>0, <3>1, <3>2, BucketBounds
    <3> QED
      BY <3>3
  <2>3. CASE Len(frames) = 1
    <3>1. next' = [next EXCEPT !.tuples = length]
      BY <1>1, <2>3 DEF TableReturn
    <3> HIDE DEF length
    <3> QED
      BY <2>2, <3>1
  <2>4. CASE Len(frames) # 1
    <3>1. next' = [tuples |-> MaxOf(next.other, frames[2].bucket.end), other |-> length]
      BY <1>1, <2>4 DEF TableReturn
    <3>2. frames[2].bucket.end \in Nat
      <4>1. frames[2] \in FrameType
        BY <1>0, <2>1, <2>4, WaitingRows
      <4> QED
        BY <4>1 DEF FrameType, Ranges
    <3>3. MaxOf(next.other, frames[2].bucket.end) \in Nat
      BY <3>2 DEF MaxOf
    <3> HIDE DEF length
    <3> QED
      BY <2>2, <3>1, <3>3
  <2> QED
    BY <2>3, <2>4
<1>2. CASE TableBucket
  BY <1>2 DEF TableBucket
<1>3. CASE TablePass
  BY <1>3 DEF TablePass
<1>4. CASE MatrixSortStep
  BY <1>4 DEF MatrixSortStep, MatrixPass, MatrixBucket, MatrixRecurse, MatrixReturn
<1> QED
  BY <1>1, <1>2, <1>3, <1>4 DEF TableSortStep

(* SortStep: the steps of a sort, those of its quick sorts and the others. *)
LEMMA SortStep ==
  ASSUME JoinInv, Sort \/ SortBucket
  PROVE  JoinInv'
<1>0. /\ Sorting /\ UNCHANGED <<route, left, right, phase, sorted, merge>>
  BY DEF Sort, SortBucket, Sorting
<1>1. /\ route \in {"join", "mx_join"} /\ left \in Lefts /\ right \in Rights
      /\ TypedArrays /\ SortInv /\ ScanInv /\ TablesInv
      /\ phase # "merge" /\ Merge!Start /\ pc = "loop"
      /\ next \in [tuples : Nat, other : Nat]
  BY <1>0 DEF JoinInv, Sorting, MergeInv, TypedArrays
<1>2. UNCHANGED Mode
  BY <1>0 DEF Mode
<1>3. /\ UNCHANGED <<route, left, right, phase, table_a, table_b, size_a, size_b>>
      /\ Merge!Start' /\ pc' = "loop"
  BY <1>0, <1>1 DEF sorted, merge, Merge!Start
<1>4. SortInv' /\ ScanInv' /\ next' \in [tuples : Nat, other : Nat]
  <2>1. CASE Sort
    <3>1. IF InMatrix THEN MatrixSortStep ELSE TableSortStep
      BY <2>1 DEF Sort
    <3>2. next' \in [tuples : Nat, other : Nat]
      BY <1>1, <3>1, NextTyped
    <3>3. SortInv' /\ ScanInv'
      BY <1>1, <1>2, <3>1, TableStep, MatrixStep
    <3> QED
      BY <3>2, <3>3
  <2>2. CASE SortBucket
    <3>1. QuickSortStep
      BY <2>2 DEF SortBucket
    <3>2. SortInv' /\ ScanInv'
      BY <1>1, <1>2, <3>1, QuickStep
    <3> QED
      BY <1>1, <3>1, <3>2 DEF QuickSortStep
  <2> QED
    BY <2>1, <2>2
<1>5. TypedArrays'
  <2>1. left' \in Lefts /\ right' \in Rights /\ ArraysInv'
    BY <1>1, <1>3, <1>4 DEF SortInv
  <2>2. Size(Column)' \in Nat /\ Rows' = 0 .. Size(Column)' - 1
    <3>1. Size(Column) \in Nat /\ Rows = 0 .. Size(Column) - 1
      BY <1>1, OneColumn
    <3> QED
      BY <1>2, <3>1, Settings
  <2>3. /\ tuples' \in [0 .. Size(Column)' - 1 -> Quick!Tuple]
        /\ other' \in [0 .. Size(Column)' - 1 -> Quick!Tuple]
    BY <2>1, <2>2 DEF ArraysInv
  <2> QED
    BY <1>4, <2>2, <2>3 DEF TypedArrays
<1>6. TablesInv'
  BY <1>1, <1>3 DEF TablesInv
<1> QED
  BY <1>0, <1>1, <1>3, <1>4, <1>5, <1>6, Settings, <1>2 DEF JoinInv, Sorting, MergeInv, Phases

(* SortedStep: a sort is over; after the second one the merge starts.      *)
LEMMA SortedStep ==
  ASSUME JoinInv, SortedLeft \/ SortedRight
  PROVE  JoinInv'
<1>1. /\ UNCHANGED <<sorting, route, left, right, merge>>
      /\ Sorting /\ frames = <<>> /\ calls = <<>>
  BY DEF SortedLeft, SortedRight, Sorted, Sorting
<1>2. /\ route \in {"join", "mx_join"} /\ left \in Lefts /\ right \in Rights
      /\ TypedArrays /\ SortInv /\ ScanInv /\ TablesInv
      /\ phase # "merge" /\ Merge!Start /\ pc = "loop"
  BY <1>1 DEF JoinInv, Sorting, MergeInv
<1>3. /\ IsSortOf(tuples, Size(Column), Column)
      /\ Size(tuples) = Size(Column)
      /\ ~InMatrix => next.tuples = Size(Column)
  BY <1>1, <1>2, SortEnds
<1>4. /\ UNCHANGED <<tuples, other, next, calls, scan, frames, route, left, right>>
      /\ Merge!Start' /\ pc' = "loop"
  BY <1>1, <1>2 DEF sorting, merge, Merge!Start
<1>5. TypedArrays' /\ ScanInv'
  BY <1>2, <1>4 DEF TypedArrays, ScanInv
<1>6. CASE SortedLeft
  <2>1. /\ phase = "sort_left" /\ phase' = "load_right"
        /\ table_a' = tuples /\ size_a' = IF InMatrix THEN Size(tuples) ELSE next.tuples
        /\ table_b' = table_b /\ size_b' = size_b
    BY <1>6 DEF SortedLeft
  <2>2. size_a' = Size(Column) /\ Column = left
    BY <1>3, <2>1 DEF Column
  <2>3. IsSortOf(table_a', size_a', left')
    BY <1>3, <1>4, <2>1, <2>2
  <2>4. TablesInv'
    BY <1>2, <2>1, <2>3 DEF TablesInv, IsSortOf
  <2> QED
    BY <1>1, <1>2, <1>4, <1>5, <2>1, <2>4 DEF JoinInv, Sorting, MergeInv, Phases
<1>7. CASE SortedRight
  <2>1. /\ phase = "sort_right" /\ phase' = "merge"
        /\ table_b' = tuples /\ size_b' = next.tuples
        /\ table_a' = table_a /\ size_a' = size_a
    BY <1>7 DEF SortedRight
  <2>2. size_b' = Size(Column) /\ Column = right
    BY <1>3, <2>1 DEF Column, InMatrix
  <2>3. IsSortOf(table_b', size_b', right') /\ IsSortOf(table_a', size_a', left')
    BY <1>2, <1>3, <1>4, <2>1, <2>2 DEF TablesInv
  <2>4. TablesInv'
    BY <2>1, <2>3 DEF TablesInv, IsSortOf
  <2>5. MergeIInv'
    <3>1. Merge!SortedTable(table_a', size_a') /\ Merge!SortedTable(table_b', size_b')
      BY <2>3 DEF IsSortOf
    <3>2. Merge!Start'
      BY <1>4
    <3>3. Merge!Init'
      BY <1>4, <3>1, <3>2 DEF Merge!Init, Merge!SortedTable
    <3> QED
      BY <3>3, MergeStarts, PTL
  <2> QED
    BY <1>1, <1>2, <1>4, <1>5, <2>1, <2>4, <2>5 DEF JoinInv, Sorting, MergeInv, Phases
<1> QED
  BY <1>6, <1>7

(* JoinStep: the merge.                                                    *)
LEMMA JoinStep ==
  ASSUME JoinInv, Join
  PROVE  JoinInv'
<1>1. phase = "merge" /\ Merge!Next /\ UNCHANGED <<sorting, route, left, right, phase>>
  BY DEF Join
<1>2. /\ TypedArrays /\ calls = <<>> /\ frames = <<>> /\ ScanInv /\ TablesInv /\ MergeIInv
      /\ route \in {"join", "mx_join"} /\ left \in Lefts /\ right \in Rights
  BY <1>1 DEF JoinInv, Sorting, MergeInv
<1>4. MergeIInv'
  BY <1>1, <1>2, MergeTypeStep, MergeRunStep, MergeBehindStep, MergeResultStep DEF MergeIInv
<1>5. UNCHANGED <<table_a, table_b, size_a, size_b>>
  BY <1>1 DEF Merge!Next, Merge!Loop, Merge!Finish, Merge!ExtendA, Merge!ExtendB, Merge!Match,
              Merge!Skip, Merge!Emit,
         Merge!Advance, Merge!inputs
<1>6. UNCHANGED <<tuples, other, next, calls, scan, frames, route, left, right, phase>>
  BY <1>1 DEF sorting
<1>7. TypedArrays' /\ ScanInv' /\ TablesInv'
  BY <1>2, <1>5, <1>6 DEF TypedArrays, ScanInv, TablesInv
<1> QED
  BY <1>1, <1>2, <1>4, <1>6, <1>7 DEF JoinInv, Sorting, MergeInv, Phases

(* Stutter: the invariant is about nothing but the variables.              *)
LEMMA Stutter ==
  ASSUME JoinInv, UNCHANGED vars
  PROVE  JoinInv'
<1>1. /\ UNCHANGED <<tuples, calls, scan, asked, original, other, next, frames>>
      /\ UNCHANGED <<route, left, right, phase, table_a, table_b, size_a, size_b>>
      /\ UNCHANGED <<i_a, e_a, i_b, e_b, i, j, pc, result>>
  BY DEF vars, sorting, sorted, merge
<1>2. UNCHANGED Mode
  BY <1>1 DEF Mode
<1>3. /\ Tuples' = Tuples /\ Rows' = Rows /\ InMatrix' = InMatrix /\ Sorting' = Sorting
      /\ Column' = Column /\ Size(Column)' = Size(Column) /\ Frame' = Frame
  BY <1>1, <1>2, Settings DEF Frame
<1>4. /\ Target(Frame, 1)' = Target(Frame, 1) /\ Source(Frame, 1)' = Source(Frame, 1)
      /\ Copy(Target(Frame, 1))' = Copy(Target(Frame, 1))
  BY <1>1, <1>3 DEF Target, Source, Copy
<1>5. QI!IInv => QI!IInv'
  BY <1>1 DEF QI!IInv, QI!TypeInv, QI!CallsInv, QI!ScanInv, QI!OrderInv, QI!KeepInv,
              QI!Together, QI!Apart, QI!Within, QI!Trivial
<1>6. MergeIInv => MergeIInv'
  BY <1>1 DEF MergeIInv, MergeTypeInv, MergeRunInv, MergeBehindInv, MergeResultInv, Emitted,
              InProduct, PairOf, RowsA, RowsB, Merge!MoreA, Merge!MoreB, Merge!key_a, Merge!key_b
<1>7. StackInv => StackInv'
  <2> SUFFICES ASSUME StackInv PROVE StackInv'
    OBVIOUS
  <2>1. \A k : /\ Target(frames[k], k)' = Target(frames[k], k)
               /\ Copy(Target(frames[k], k))' = Copy(Target(frames[k], k))
    BY <1>1, <1>3 DEF Target, Copy
  <2> QED
    BY <1>1, <1>3, <2>1 DEF StackInv
<1>8. SortInv => SortInv'
  <2>1. ArraysInv => ArraysInv'
    BY <1>1, <1>3 DEF ArraysInv
  <2>2. (BeforePass => BeforePass') /\ (BetweenBuckets => BetweenBuckets')
    BY <1>1, <1>3, <1>4 DEF BeforePass, BetweenBuckets
  <2>3. AtOneBucket => AtOneBucket'
    BY <1>1, <1>3, <1>4 DEF AtOneBucket
  <2>4. TopInv => TopInv'
    BY <1>1, <2>2, <2>3 DEF TopInv
  <2>5. QuickInv => QuickInv'
    BY <1>1, <1>3, <1>5, <2>3 DEF QuickInv
  <2>6. SortedInv => SortedInv'
    BY <1>1, <1>3 DEF SortedInv
  <2> QED
    BY <1>7, <2>1, <2>4, <2>5, <2>6 DEF SortInv
<1>9. ScanInv' /\ TypedArrays' /\ TablesInv'
  BY <1>1 DEF JoinInv, ScanInv, TypedArrays, TablesInv
<1>10. MergeInv'
  BY <1>1, <1>6 DEF JoinInv, MergeInv, Merge!Start
<1>11. IF Sorting THEN SortInv' ELSE calls' = <<>> /\ frames' = <<>>
  BY <1>1, <1>8 DEF JoinInv
<1>12. Sorting' <=> Sorting
  BY <1>1 DEF Sorting
<1>13. /\ route' \in {"join", "mx_join"} /\ left' \in Lefts /\ right' \in Rights
       /\ phase' \in Phases
  BY <1>1 DEF JoinInv, Phases
<1> QED
  BY <1>9, <1>10, <1>11, <1>12, <1>13 DEF JoinInv

(* Invariance: the invariant holds in every join of any two columns.       *)
THEOREM Invariance == Spec => []JoinInv
<1>1. JoinInv /\ [Next]_vars => JoinInv'
  BY LoadStep, SortStep, SortedStep, JoinStep, Stutter DEF Next
<1> QED
  BY <1>1, InitJoinInv, PTL DEF Spec

-----------------------------------------------------------------------------
(* TypedWhenInv: the types of all variables, from the invariant.            *)
LEMMA TypedWhenInv == ASSUME JoinInv PROVE TypeOK
<1>1. PICK n \in Nat :
        tuples \in [0 .. n - 1 -> Quick!Tuple] /\ other \in [0 .. n - 1 -> Quick!Tuple]
  BY DEF JoinInv, TypedArrays
<1>2. /\ left \in Lefts /\ right \in Rights /\ phase \in Phases
      /\ next \in [tuples : Nat, other : Nat]
      /\ Merge!SortedTable(table_a, size_a) /\ Merge!SortedTable(table_b, size_b)
      /\ ScanInv /\ MergeInv
  BY DEF JoinInv, TypedArrays, TablesInv
<1>3. /\ i_a \in Nat /\ e_a \in Nat /\ i_b \in Nat /\ e_b \in Nat /\ i \in Nat /\ j \in Nat
      /\ pc \in {"loop", "runs", "product", "done"}
  <2>1. CASE phase = "merge"
    BY <1>2, <2>1 DEF MergeInv, MergeIInv, MergeTypeInv
  <2>2. CASE phase # "merge"
    BY <1>2, <2>2 DEF MergeInv, Merge!Start
  <2> QED
    BY <2>1, <2>2
<1>4. \A f \in {tuples, other, table_a, table_b} : \A x \in DOMAIN f :
        f[x].key \in Nat /\ f[x].payload \in Nat
  <2>1. \A x \in DOMAIN tuples : tuples[x].key \in Nat /\ tuples[x].payload \in Nat
    BY <1>1 DEF Quick!Tuple
  <2>2. \A x \in DOMAIN other : other[x].key \in Nat /\ other[x].payload \in Nat
    BY <1>1 DEF Quick!Tuple
  <2>3. \A x \in DOMAIN table_a : table_a[x].key \in Nat /\ table_a[x].payload \in Nat
    BY <1>2 DEF Merge!SortedTable, Merge!Tuple
  <2>4. \A x \in DOMAIN table_b : table_b[x].key \in Nat /\ table_b[x].payload \in Nat
    BY <1>2 DEF Merge!SortedTable, Merge!Tuple
  <2> QED
    BY <2>1, <2>2, <2>3, <2>4
<1>5. size_a \in Nat /\ size_b \in Nat
  BY <1>2 DEF Merge!SortedTable
<1>6. \A k \in DOMAIN calls : Within(calls[k]) \subseteq DOMAIN tuples
  <2>1. CASE calls = <<>>
    BY <2>1
  <2>2. CASE calls # <<>>
    <3>1. QI!IInv
      BY <2>2 DEF JoinInv, SortInv, QuickInv
    <3>2. /\ calls \in Seq(QI!Ranges) /\ asked \in QI!Ranges
          /\ QI!Within(asked) \subseteq DOMAIN tuples
          /\ \A k \in DOMAIN calls : asked.start <= calls[k].start /\ calls[k].end <= asked.end
      BY <3>1 DEF QI!IInv, QI!TypeInv, QI!CallsInv
    <3>3. \A k \in DOMAIN calls : calls[k] \in QI!Ranges
      BY <3>2
    <3>4. asked.start \in Nat /\ asked.end \in Nat
      BY <3>2 DEF QI!Ranges
    <3> SUFFICES ASSUME NEW k \in DOMAIN calls, NEW x \in Within(calls[k])
                 PROVE  x \in DOMAIN tuples
      OBVIOUS
    <3>5. calls[k].start \in Nat /\ calls[k].end \in Nat
      BY <3>3 DEF QI!Ranges
    <3>6. x \in QI!Within(asked)
      BY <3>2, <3>4, <3>5 DEF Within, QI!Within
    <3> QED
      BY <3>2, <3>6
  <2> QED
    BY <2>1, <2>2
<1>7. \A k \in DOMAIN frames :
        /\ frames[k].chunk \in 0 .. FirstChunk
        /\ Within(frames[k].range) \subseteq DOMAIN tuples
        /\ frames[k].prefix \in 0 .. Radix
        /\ frames[k].step \in {"pass", "split", "bucket", "called"}
  <2>1. CASE frames = <<>>
    BY <2>1
  <2>2. CASE frames # <<>>
    <3>1. StackInv /\ ArraysInv
      BY <2>2 DEF JoinInv, SortInv
    <3>2. DOMAIN tuples = Rows
      BY <3>1 DEF ArraysInv
    <3>3. DOMAIN frames = 1 .. Len(frames)
      BY <3>1 DEF StackInv
    <3>4. \A k \in DOMAIN frames :
            frames[k] \in FrameType /\ Within(frames[k].range) \subseteq Rows
      BY <3>1, <3>3 DEF StackInv
    <3> QED
      BY <3>2, <3>4 DEF FrameType
  <2> QED
    BY <2>1, <2>2
<1>8. DOMAIN tuples = DOMAIN other
  BY <1>1
<1>9. scan.i \in Nat /\ scan.j \in Nat /\ scan.running \in BOOLEAN
  BY <1>2 DEF ScanInv
<1>10. next.tuples \in Nat /\ next.other \in Nat
  BY <1>2
<1> QED
  BY <1>2, <1>3, <1>4, <1>5, <1>6, <1>7, <1>8, <1>9, <1>10 DEF TypeOK, Phases

(* Typed: every index that the two sorts and the merge compute is a row    *)
(* number, and every range of a call lies within the tables.               *)
THEOREM Typed == Spec => []TypeOK
  BY Invariance, TypedWhenInv, PTL

-----------------------------------------------------------------------------
(* OrderedWhenInv: what the sorts left is what the invariant says of it.   *)
LEMMA OrderedWhenInv == ASSUME JoinInv PROVE InOrder
BY DEF JoinInv, TablesInv, IsSortOf, InOrder

(* SortsInOrder: of any column, table_sort_wrapper and mx_radix leave its  *)
(* tuples in the order of their keys, and as many of them.                 *)
THEOREM SortsInOrder == Spec => []InOrder
  BY Invariance, OrderedWhenInv, PTL

(* CompleteWhenInv: a range that is settled by the chunks above is filled  *)
(* with the tuples that share them.                                        *)
LEMMA CompleteWhenInv == ASSUME JoinInv PROVE BucketComplete
<1> SUFFICES ASSUME At("pass")
             PROVE  LET src == IF InMatrix /\ Odd(Frame.chunk) THEN tuples ELSE other
                        in  == {src[x] : x \in Within(Frame.range)}
                    IN  /\ Cardinality(in) = Frame.range.end - Frame.range.start
                        /\ \A t \in in :
                             in = {u \in Values(Column) : Above(u.key, Frame.chunk)
                                                            = Above(t.key, Frame.chunk)}
  BY DEF BucketComplete
<1> DEFINE src == IF InMatrix /\ Odd(Frame.chunk) THEN tuples ELSE other
           in == {src[x] : x \in Within(Frame.range)}
           c == Frame.chunk
           V == Values(Column)
<1>1. frames # <<>> /\ Frame.step = "pass"
  BY DEF At
<1>2. SortInv /\ left \in Lefts /\ right \in Rights
  BY <1>1 DEF JoinInv
<1>3. Keyed(V)
  BY <1>2, OneColumn DEF Tuples
<1>4. c \in 0 .. FirstChunk
  <2>1. Len(frames) \in Nat /\ Len(frames) >= 1 /\ frames \in Seq(FrameType)
    BY <1>1, <1>2 DEF SortInv, StackInv
  <2>2. Frame \in FrameType
    BY <2>1 DEF Frame
  <2> QED
    BY <2>2 DEF FrameType
<1>5. c + 1 \in 0 .. FirstChunk + 1 /\ c \in Nat
  BY <1>4, ChunkAssumption
<1>6. Ready(V, Frame, Source(Frame, 1))
  BY <1>1, <1>2 DEF SortInv, TopInv, BeforePass, BetweenBuckets, AtOneBucket, Tuples
<1>7. Source(Frame, 1) = src
  BY OddAlternates DEF Source
<1> HIDE DEF src, in
<1>8. PICK v \in Nat : Frame.range = Region(V, c + 1, v)
  BY <1>6 DEF Ready
<1>9. Settled(V, c + 1, src, Within(Region(V, c + 1, v)))
  BY <1>6, <1>7, <1>8 DEF Ready
<1>10. in = GroupOf(V, c + 1, v)
  BY <1>3, <1>5, <1>8, <1>9, Filled DEF in
<1>11. Cardinality(in) = Frame.range.end - Frame.range.start
  <2>1. /\ Below(V, c + 1, v + 1) = Below(V, c + 1, v) + Cardinality(GroupOf(V, c + 1, v))
        /\ Cardinality(GroupOf(V, c + 1, v)) \in Nat /\ Below(V, c + 1, v) \in Nat
    BY <1>3, <1>5, RegionSize
  <2>2. /\ Region(V, c + 1, v).start = Below(V, c + 1, v)
        /\ Region(V, c + 1, v).end = Below(V, c + 1, v + 1)
    BY <1>3, <1>5, RegionBounds
  <2>3. Frame.range.end - Frame.range.start = Cardinality(GroupOf(V, c + 1, v))
    BY <1>8, <2>1, <2>2
  <2> QED
    BY <1>10, <2>3
<1>12. \A t \in in : in = {u \in V : Above(u.key, c) = Above(t.key, c)}
  <2> SUFFICES ASSUME NEW t \in in
               PROVE  in = {u \in V : Above(u.key, c) = Above(t.key, c)}
    OBVIOUS
  <2>1. Shifted(t.key, c + 1) = v
    BY <1>10 DEF GroupOf
  <2> QED
    BY <1>10, <2>1 DEF GroupOf, Above
<1> QED
  BY <1>11, <1>12 DEF src, in

(* BucketsComplete: every call of table_sort and of matrix_sort finds its  *)
(* bucket whole in the array it reads, however deep it is and whichever of *)
(* the buckets before it were copied back.                                 *)
THEOREM BucketsComplete == Spec => []BucketComplete
  BY Invariance, CompleteWhenInv, PTL

-----------------------------------------------------------------------------
(* SameSorted: what is proved of quick sort is said of it here.            *)
LEMMA SameSorted == QI!RangeSorted => Quick!RangeSorted
<1>1. \A f, r : QI!Ordered(f, r) <=> Quick!Ordered(f, r)
  BY DEF QI!Ordered, QI!Within, Quick!Ordered, Quick!Within
<1>2. \A f, t : QI!Occurrences(f, t) = Quick!Occurrences(f, t)
  BY DEF QI!Occurrences, Quick!Occurrences, QI!Cardinality, Quick!Cardinality
<1>3. \A f : QI!Range(f) = Quick!Range(f)
  BY DEF QI!Range, Quick!Range
<1>4. \A f, g : QI!Reordered(f, g) <=> Quick!Reordered(f, g)
  BY <1>2, <1>3 DEF QI!Reordered, Quick!Reordered
<1>5. \A r : QI!Within(r) = Quick!Within(r)
  BY DEF QI!Within, Quick!Within
<1> QED
  BY <1>1, <1>4, <1>5 DEF QI!RangeSorted, Quick!RangeSorted

(* SortedAfter: a step of quick sort, and the range it was called for.     *)
LEMMA SortedAfter ==
  ASSUME JoinInv, SortBucket
  PROVE  Quick!RangeSorted'
<1>1. phase \in {"sort_left", "sort_right"} /\ QuickSortStep
  BY DEF SortBucket
<1>2. SortInv /\ ScanInv
  BY <1>1 DEF JoinInv, Sorting
<1>3. Quick!Next
  BY <1>1 DEF QuickSortStep
<1>4. calls # <<>>
  BY <1>3 DEF Quick!Next, Quick!Return, Quick!Partition, Quick!Scan, Quick!Place
<1>5. QI!IInv
  BY <1>2, <1>4 DEF SortInv, QuickInv
<1>6. QI!IInv'
  BY <1>2, <1>3, <1>5, QuickMoves
<1>7. (QI!IInv => Quick!RangeSorted)'
  BY QI!SortedWhenDone, SameSorted, PTL
<1> QED
  BY <1>6, <1>7

(* BucketsSorted: quick sort, called by either radix sort on any bucket,   *)
(* leaves that bucket in order and nothing else changed.                   *)
THEOREM BucketsSorted == Spec => BucketSorted
<1>1. JoinInv /\ [Next]_vars => [SortBucket => Quick!RangeSorted']_vars
  BY SortedAfter
<1> QED
  BY <1>1, Invariance, PTL DEF Spec, BucketSorted

-----------------------------------------------------------------------------
(* RowsOf: the tuples of a sorted table are those at its rows.           *)
LEMMA RowsOf ==
  ASSUME NEW f, NEW size, NEW column, IsSortOf(f, size, column)
  PROVE  /\ \A x \in 0 .. size - 1 : f[x] \in Values(column)
         /\ \A t \in Values(column) : \E x \in 0 .. size - 1 : t = f[x]
<1>1. DOMAIN f = 0 .. size - 1 /\ Values(f) = Values(column)
  BY DEF IsSortOf, OrderOf, Merge!SortedTable
<1> QED
  BY <1>1 DEF Values

(* ExactWhenInv: the merge joins the rows of the sorted tables, and these  *)
(* are the rows of the columns.                                            *)
LEMMA ExactWhenInv == ASSUME JoinInv PROVE JoinExact
<1> SUFFICES ASSUME pc = "done"
             PROVE  /\ Merge!Pairs =
                         {<<ab[1].payload, ab[2].payload>> :
                            ab \in {ab \in Values(left) \X Values(right) : ab[1].key = ab[2].key}}
                    /\ Len(result) = Cardinality(Merge!Pairs)
  BY DEF JoinExact
<1> DEFINE Equal == {ab \in Values(left) \X Values(right) : ab[1].key = ab[2].key}
<1>1. phase = "merge" /\ MergeIInv
  BY DEF JoinInv, MergeInv
<1>2. IsSortOf(table_a, size_a, left) /\ IsSortOf(table_b, size_b, right)
  BY <1>1 DEF JoinInv, TablesInv
<1>3. /\ Merge!Pairs = Merge!Matches
      /\ \A k, l \in DOMAIN result : result[k] = result[l] => k = l
  BY <1>1, MergeExactWhenDone DEF Merge!MergeExact
<1>5. Merge!Matches = {<<ab[1].payload, ab[2].payload>> : ab \in Equal}
  <2>1. ASSUME NEW m \in (0 .. size_a - 1) \X (0 .. size_b - 1),
               table_a[m[1]].key = table_b[m[2]].key
        PROVE  <<table_a[m[1]], table_b[m[2]]>> \in Equal
    BY <1>2, <2>1, RowsOf
  <2>2. ASSUME NEW ab \in Equal
        PROVE  \E m \in (0 .. size_a - 1) \X (0 .. size_b - 1) :
                 ab[1] = table_a[m[1]] /\ ab[2] = table_b[m[2]]
    <3>1. PICK x \in 0 .. size_a - 1 : ab[1] = table_a[x]
      BY <1>2, RowsOf
    <3>2. PICK y \in 0 .. size_b - 1 : ab[2] = table_b[y]
      BY <1>2, RowsOf
    <3> WITNESS <<x, y>> \in (0 .. size_a - 1) \X (0 .. size_b - 1)
    <3> QED
      BY <3>1, <3>2
  <2>3. Merge!Matches = {<<table_a[m[1]].payload, table_b[m[2]].payload>> :
                        m \in {p \in (0 .. size_a - 1) \X (0 .. size_b - 1) :
                                 table_a[p[1]].key = table_b[p[2]].key}}
    BY DEF Merge!Matches, Merge!key_a, Merge!key_b
  <2>4. ASSUME NEW q \in Merge!Matches
        PROVE  q \in {<<ab[1].payload, ab[2].payload>> : ab \in Equal}
    <3>1. PICK m \in (0 .. size_a - 1) \X (0 .. size_b - 1) :
            /\ table_a[m[1]].key = table_b[m[2]].key
            /\ q = <<table_a[m[1]].payload, table_b[m[2]].payload>>
      BY <2>3
    <3> DEFINE w == <<table_a[m[1]], table_b[m[2]]>>
    <3>2. w \in Equal
      BY <2>1, <3>1
    <3>3. q = <<w[1].payload, w[2].payload>>
      BY <3>1
    <3> HIDE DEF w, Equal
    <3> QED
      BY <3>2, <3>3
  <2>5. ASSUME NEW q \in {<<ab[1].payload, ab[2].payload>> : ab \in Equal}
        PROVE  q \in Merge!Matches
    <3>1. PICK ab \in Equal : q = <<ab[1].payload, ab[2].payload>>
      OBVIOUS
    <3>2. PICK m \in (0 .. size_a - 1) \X (0 .. size_b - 1) :
            ab[1] = table_a[m[1]] /\ ab[2] = table_b[m[2]]
      BY <2>2
    <3>3. ab[1].key = ab[2].key
      OBVIOUS
    <3> QED
      BY <2>3, <3>1, <3>2, <3>3
  <2> QED
    BY <2>4, <2>5
<1>6. Len(result) = Cardinality(Merge!Pairs)
  <2>1. Len(result) \in Nat /\ DOMAIN result = 1 .. Len(result)
    BY <1>1 DEF MergeIInv, MergeTypeInv
  <2> DEFINE n == Len(result)
  <2>2. Merge!Pairs = Held(result, 1 .. n)
    BY <2>1 DEF Merge!Pairs, Held
  <2>3. \A x, y \in 1 .. n : result[x] = result[y] => x = y
    BY <1>3, <2>1
  <2>4. n \in Int /\ 1 \in Int
    BY <2>1
  <2> HIDE DEF n
  <2>5. Cardinality(Held(result, 1 .. n)) = IF 1 > n THEN 0 ELSE n - 1 + 1
    BY <2>3, <2>4, ImageSize
  <2>6. n \in Nat
    BY <2>1 DEF n
  <2>7. Cardinality(Held(result, 1 .. n)) = n
    BY <2>5, <2>6
  <2> QED
    BY <2>2, <2>7 DEF n
<1> QED
  BY <1>3, <1>5, <1>6

(* JoinsExactly: of any two columns, join and mx_join yield the pairs of   *)
(* rows with equal keys, each pair once, however many keys repeat.         *)
THEOREM JoinsExactly == Spec => []JoinExact
  BY Invariance, ExactWhenInv, PTL
=============================================================================
