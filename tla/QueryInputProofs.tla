-------------------------- MODULE QueryInputProofs --------------------------
(***************************************************************************)
(* What main reads from any well-written input, with any files and any     *)
(* sizes of the buffers: the relations keep their numbers, the lists of    *)
(* predicates are linked, ordered and filled as the lines say, and the     *)
(* batches are the lines in their order.  The sort of the joins leaves the *)
(* lists such that list_free frees every node once.                        *)
(*                                                                         *)
(* A list is described by the sequence of its nodes from head to tail      *)
(* (Linked); the lemmas on list_t say how an insertion changes it.  What   *)
(* the sort does to one is in ListSortProofs.                              *)
(***************************************************************************)
EXTENDS QueryInput, ListSortProofs

(* l has the fields of a list.                                             *)
IsRecord(l) ==
  l = [head |-> l.head, tail |-> l.tail, length |-> l.length,
       data |-> l.data, next |-> l.next, prev |-> l.prev]

(* The nodes of l, with data from D, are linked in the order s.            *)
Linked(l, s, D) ==
  /\ l.data \in Seq(D) /\ Len(l.data) = Len(s)
  /\ l.length = Len(s)
  /\ s \in Seq(1 .. Len(s))
  /\ \A p, q \in 1 .. Len(s) : s[p] = s[q] => p = q
  /\ l.next \in [1 .. Len(s) -> 0 .. Len(s)]
  /\ l.prev \in [1 .. Len(s) -> 0 .. Len(s)]
  /\ l.head = IF s = <<>> THEN NULL ELSE s[1]
  /\ l.tail = IF s = <<>> THEN NULL ELSE s[Len(s)]
  /\ s # <<>> => l.next[s[Len(s)]] = NULL
  /\ \A p \in 1 .. Len(s) - 1 : l.next[s[p]] = s[p + 1] /\ l.prev[s[p + 1]] = s[p]
  /\ IsRecord(l)

(* A walk along next meets the nodes of l in the order s; nothing is said  *)
(* of prev and of the tail.                                                *)
Threaded(l, s) ==
  /\ l.data \in [1 .. Len(s) -> Range(l.data)] /\ l.length = Len(s)
  /\ s \in Seq(1 .. Len(s))
  /\ \A p, q \in 1 .. Len(s) : s[p] = s[q] => p = q
  /\ l.next \in [1 .. Len(s) -> 0 .. Len(s)]
  /\ l.prev \in [1 .. Len(s) -> 0 .. Len(s)]
  /\ l.head = IF s = <<>> THEN NULL ELSE s[1]
  /\ l.tail \in 0 .. Len(s)
  /\ s # <<>> => l.next[s[Len(s)]] = NULL
  /\ \A p \in 1 .. Len(s) - 1 : l.next[s[p]] = s[p + 1]

-----------------------------------------------------------------------------
(* Sets and sequences *)

-----------------------------------------------------------------------------
(* Lists *)

(* AddedAtEnd: list_add_end puts the new node behind the others.           *)
LEMMA AddedAtEnd ==
  ASSUME NEW l, NEW s, NEW D, Linked(l, s, D), NEW v \in D
  PROVE  Linked(list_add_end(l, v), Append(s, Len(s) + 1), D)
<1> DEFINE n == Len(s)
           t == Append(s, n + 1)
           k == list_add_end(l, v)
<1>1. n \in Nat /\ s \in Seq(1 .. n) /\ l.data \in Seq(D) /\ Len(l.data) = n
  BY DEF Linked
<1>2. t \in Seq(1 .. n + 1) /\ Len(t) = n + 1 /\ t[n + 1] = n + 1 /\ t # <<>>
  <2>1. 1 .. n \subseteq 1 .. n + 1 /\ n + 1 \in 1 .. n + 1
    BY <1>1
  <2> DEFINE old == 1 .. n
             new == 1 .. n + 1
             e   == n + 1
  <2> HIDE DEF old, new, e
  <2>2. old \subseteq new /\ e \in new /\ s \in Seq(old)
    BY <1>1, <2>1 DEF old, new, e
  <2>3. /\ Append(s, e) \in Seq(new) /\ Len(Append(s, e)) = Len(s) + 1
        /\ Append(s, e)[Len(s) + 1] = e /\ Append(s, e) # <<>>
    BY <2>2, AppendIs
  <2> QED
    BY <2>3 DEF new, e
<1>3. \A p \in 1 .. n : t[p] = s[p] /\ s[p] \in 1 .. n
  BY <1>1
<1>4. k.data = Append(l.data, v) /\ k.data \in Seq(D) /\ Len(k.data) = n + 1
  BY <1>1 DEF list_add_end
<1>5. k.length = n + 1
  BY DEF list_add_end, Linked
<1>6. \A p, q \in 1 .. n + 1 : t[p] = t[q] => p = q
  <2> SUFFICES ASSUME NEW p \in 1 .. n + 1, NEW q \in 1 .. n + 1, t[p] = t[q] PROVE p = q
    OBVIOUS
  <2>1. CASE p = n + 1 \/ q = n + 1
    <3>1. \A o \in 1 .. n + 1 : o = n + 1 \/ o \in 1 .. n
      BY <1>1
    <3>2. \A o \in 1 .. n : t[o] # n + 1
      <4>1. \A o \in 1 .. n : t[o] \in 1 .. n
        BY <1>3
      <4>2. n + 1 \notin 1 .. n
        BY <1>1
      <4> QED
        BY <4>1, <4>2
    <3>3. t[n + 1] = n + 1
      BY <1>2
    <3> HIDE DEF t, n
    <3> QED
      BY <2>1, <3>1, <3>2, <3>3
  <2>2. CASE p # n + 1 /\ q # n + 1
    <3>1. p \in 1 .. n /\ q \in 1 .. n
      BY <1>1, <2>2
    <3>2. s[p] = s[q]
      BY <1>3, <3>1
    <3> QED
      BY <3>1, <3>2 DEF Linked
  <2> QED
    BY <2>1, <2>2
<1> DEFINE nexts == [m \in 1 .. n |-> IF m = l.tail THEN n + 1 ELSE l.next[m]]
<1>7. nexts \in Seq(0 .. n + 1) /\ Len(nexts) = n /\ l.prev \in Seq(0 .. n + 1) /\ Len(l.prev) = n
  <2>1. l.next \in [1 .. n -> 0 .. n] /\ l.prev \in [1 .. n -> 0 .. n]
    BY DEF Linked
  <2>2. 0 .. n \subseteq 0 .. n + 1 /\ n + 1 \in 0 .. n + 1
    BY <1>1
  <2>3. l.prev \in [1 .. n -> 0 .. n + 1]
    BY <2>1, <2>2
  <2>4. nexts \in [1 .. n -> 0 .. n + 1]
    BY <2>1, <2>2
  <2> HIDE DEF n, nexts
  <2> QED
    BY <1>1, <2>3, <2>4, FunctionIsSeq
<1>8. k.next = Append(nexts, NULL) /\ k.prev = Append(l.prev, l.tail)
  BY <1>1 DEF list_add_end, Nodes, NewNode
<1>9. l.tail \in 0 .. n
  BY <1>1, <1>3 DEF Linked, NULL
<1>10. /\ k.next \in [1 .. n + 1 -> 0 .. n + 1]
       /\ k.prev \in [1 .. n + 1 -> 0 .. n + 1]
       /\ k.next[n + 1] = NULL /\ k.prev[n + 1] = l.tail
       /\ \A m \in 1 .. n : k.next[m] = nexts[m] /\ k.prev[m] = l.prev[m]
  <2> HIDE DEF nexts, k, n
  <2>1. NULL \in 0 .. n + 1 /\ l.tail \in 0 .. n + 1
    BY <1>1, <1>9 DEF NULL
  <2>2. k.next \in Seq(0 .. n + 1) /\ Len(k.next) = n + 1 /\ k.next[n + 1] = NULL
    BY <1>7, <1>8, <2>1, AppendIs
  <2>3. k.prev \in Seq(0 .. n + 1) /\ Len(k.prev) = n + 1 /\ k.prev[n + 1] = l.tail
    BY <1>7, <1>8, <2>1, AppendIs
  <2>4. \A m \in 1 .. n : k.next[m] = nexts[m] /\ k.prev[m] = l.prev[m]
    BY <1>7, <1>8, <2>1, AppendIs
  <2>5. k.next \in [1 .. n + 1 -> 0 .. n + 1] /\ k.prev \in [1 .. n + 1 -> 0 .. n + 1]
    BY <2>2, <2>3, LenProperties
  <2> QED
    BY <2>2, <2>3, <2>4, <2>5
<1>11. k.head = t[1] /\ k.tail = n + 1
  <2>1. CASE s = <<>>
    BY <1>1, <1>2, <2>1 DEF Linked, list_add_end, NULL, NewNode
  <2>2. CASE s # <<>>
    BY <1>1, <1>2, <1>3, <2>2 DEF Linked, list_add_end, NULL, NewNode
  <2> QED
    BY <2>1, <2>2
<1>12. ASSUME NEW p \in 1 .. n PROVE k.next[t[p]] = t[p + 1] /\ k.prev[t[p + 1]] = t[p]
  <2>1. s # <<>> /\ l.tail = s[n]
    BY <1>1 DEF Linked
  <2>2. CASE p = n
    BY <1>1, <1>2, <1>3, <1>10, <2>1, <2>2
  <2>3. CASE p # n
    <3>1. p \in 1 .. n - 1 /\ p + 1 \in 1 .. n /\ n \in 1 .. n
      BY <1>1, <2>3
    <3>2. s[p] # s[n]
      BY <2>3, <3>1 DEF Linked
    <3>3. l.next[s[p]] = s[p + 1] /\ l.prev[s[p + 1]] = s[p]
      BY <3>1 DEF Linked
    <3> QED
      BY <1>3, <1>10, <2>1, <3>1, <3>2, <3>3
  <2> QED
    BY <2>2, <2>3
<1>13. IsRecord(k)
  BY DEF IsRecord, list_add_end
<1> HIDE DEF k, t, n, nexts
<1> QED
  <2>1. (n + 1) - 1 = n
    BY <1>1
  <2>2. Linked(k, t, D)
    BY <1>2, <1>4, <1>5, <1>6, <1>10, <1>11, <1>12, <1>13, <2>1 DEF Linked
  <2> QED
    BY <2>2 DEF k, t, n

(* AddedAtStart: list_add_start puts it in front of them.                  *)
LEMMA AddedAtStart ==
  ASSUME NEW l, NEW s, NEW D, Linked(l, s, D), NEW v \in D
  PROVE  Linked(list_add_start(l, v), <<Len(s) + 1>> \o s, D)
<1> DEFINE n == Len(s)
           t == <<n + 1>> \o s
           k == list_add_start(l, v)
<1>1. n \in Nat /\ s \in Seq(1 .. n) /\ l.data \in Seq(D) /\ Len(l.data) = n
  BY DEF Linked
<1>2. t \in Seq(1 .. n + 1) /\ Len(t) = n + 1 /\ t[1] = n + 1 /\ t # <<>>
  <2>1. <<n + 1>> \in Seq(1 .. n + 1) /\ s \in Seq(1 .. n + 1) /\ Len(<<n + 1>>) = 1
    BY <1>1
  <2> DEFINE one == <<n + 1>>
  <2>2. one \in Seq(1 .. n + 1) /\ Len(one) = 1 /\ one[1] = n + 1
    BY <2>1
  <2> HIDE DEF one
  <2>3. /\ one \o s \in Seq(1 .. n + 1) /\ Len(one \o s) = 1 + Len(s)
        /\ (one \o s)[1] = n + 1
    <3>1. 1 \in 1 .. Len(one) + Len(s) /\ 1 <= Len(one)
      BY <1>1, <2>2
    <3> QED
      BY <2>1, <2>2, <3>1, ConcatProperties
  <2>4. one \o s # <<>>
    BY <1>1, <2>3
  <2> QED
    BY <1>1, <2>3, <2>4 DEF one
<1>3. \A p \in 1 .. n : t[p + 1] = s[p] /\ s[p] \in 1 .. n
  <2>1. \A p \in 1 .. n : p + 1 \in 1 .. 1 + n /\ p + 1 > 1 /\ (p + 1) - 1 = p
    BY <1>1
  <2>2. \A p \in 1 .. n : s[p] \in 1 .. n
    BY <1>1
  <2> QED
    BY <1>1, <2>1, <2>2
<1>4. k.data = Append(l.data, v) /\ k.data \in Seq(D) /\ Len(k.data) = n + 1
  BY <1>1 DEF list_add_start
<1>5. k.length = n + 1
  BY DEF list_add_start, Linked
<1>6. \A p, q \in 1 .. n + 1 : t[p] = t[q] => p = q
  <2> SUFFICES ASSUME NEW p \in 1 .. n + 1, NEW q \in 1 .. n + 1, t[p] = t[q] PROVE p = q
    OBVIOUS
  <2>1. \A r \in 1 .. n + 1 : r # 1 => r - 1 \in 1 .. n /\ t[r] = s[r - 1] /\ t[r] \in 1 .. n
    <3>1. \A r \in 1 .. n + 1 : r # 1 => r - 1 \in 1 .. n /\ (r - 1) + 1 = r
      BY <1>1
    <3> QED
      BY <1>3, <3>1
  <2>2. CASE p = 1 \/ q = 1
    <3>1. n + 1 \notin 1 .. n
      BY <1>1
    <3> HIDE DEF n, t
    <3> QED
      BY <1>2, <2>1, <2>2, <3>1
  <2>3. CASE p # 1 /\ q # 1
    <3>1. p - 1 \in 1 .. n /\ q - 1 \in 1 .. n /\ s[p - 1] = s[q - 1]
      BY <2>1, <2>3
    <3>2. p - 1 = q - 1
      BY <3>1 DEF Linked
    <3> QED
      BY <1>1, <3>2
  <2> QED
    BY <2>2, <2>3
<1> DEFINE prevs == [m \in 1 .. n |-> IF m = l.head THEN n + 1 ELSE l.prev[m]]
<1>7. prevs \in Seq(0 .. n + 1) /\ Len(prevs) = n /\ l.next \in Seq(0 .. n + 1) /\ Len(l.next) = n
  <2>1. l.next \in [1 .. n -> 0 .. n] /\ l.prev \in [1 .. n -> 0 .. n]
    BY DEF Linked
  <2>2. 0 .. n \subseteq 0 .. n + 1 /\ n + 1 \in 0 .. n + 1
    BY <1>1
  <2>3. l.next \in [1 .. n -> 0 .. n + 1]
    BY <2>1, <2>2
  <2>4. prevs \in [1 .. n -> 0 .. n + 1]
    BY <2>1, <2>2
  <2> HIDE DEF n, prevs
  <2> QED
    BY <1>1, <2>3, <2>4, FunctionIsSeq
<1>8. k.next = Append(l.next, l.head) /\ k.prev = Append(prevs, l.tail)
  BY <1>1 DEF list_add_start, Nodes, NewNode
<1>9. l.tail \in 0 .. n /\ l.head \in 0 .. n
  <2>1. CASE s = <<>>
    BY <1>1, <2>1 DEF Linked, NULL
  <2>2. CASE s # <<>>
    <3>1. n \in 1 .. n /\ 1 \in 1 .. n
      BY <1>1, <2>2
    <3>2. \A p \in 1 .. n : s[p] \in 1 .. n
      BY <1>1, ElementOfSeq
    <3>3. l.head = s[1] /\ l.tail = s[n]
      BY <2>2 DEF Linked
    <3>4. 1 .. n \subseteq 0 .. n
      BY <1>1
    <3> QED
      BY <3>1, <3>2, <3>3, <3>4
  <2> QED
    BY <2>1, <2>2
<1>10. /\ k.next \in [1 .. n + 1 -> 0 .. n + 1]
       /\ k.prev \in [1 .. n + 1 -> 0 .. n + 1]
       /\ k.next[n + 1] = l.head /\ k.prev[n + 1] = l.tail
       /\ \A m \in 1 .. n : k.next[m] = l.next[m] /\ k.prev[m] = prevs[m]
  <2> HIDE DEF prevs, k, n
  <2>1. l.head \in 0 .. n + 1 /\ l.tail \in 0 .. n + 1
    BY <1>1, <1>9
  <2>2. k.next \in Seq(0 .. n + 1) /\ Len(k.next) = n + 1 /\ k.next[n + 1] = l.head
    BY <1>7, <1>8, <2>1, AppendIs
  <2>3. k.prev \in Seq(0 .. n + 1) /\ Len(k.prev) = n + 1 /\ k.prev[n + 1] = l.tail
    BY <1>7, <1>8, <2>1, AppendIs
  <2>4. \A m \in 1 .. n : k.next[m] = l.next[m] /\ k.prev[m] = prevs[m]
    BY <1>7, <1>8, <2>1, AppendIs
  <2>5. k.next \in [1 .. n + 1 -> 0 .. n + 1] /\ k.prev \in [1 .. n + 1 -> 0 .. n + 1]
    BY <2>2, <2>3, LenProperties
  <2> QED
    BY <2>2, <2>3, <2>4, <2>5
<1>11. k.head = n + 1 /\ k.tail = t[n + 1]
  <2>1. CASE s = <<>>
    BY <1>1, <1>2, <2>1 DEF Linked, list_add_start, NULL, NewNode
  <2>2. CASE s # <<>>
    BY <1>1, <1>2, <1>3, <2>2 DEF Linked, list_add_start, NULL, NewNode
  <2> QED
    BY <2>1, <2>2
<1>12. k.next[t[n + 1]] = NULL
  <2>1. CASE s = <<>>
    BY <1>1, <1>2, <1>10, <2>1 DEF Linked
  <2>2. CASE s # <<>>
    <3>1. n \in 1 .. n /\ t[n + 1] = s[n] /\ s[n] \in 1 .. n
      BY <1>1, <1>3, <2>2
    <3> QED
      BY <1>10, <2>2, <3>1 DEF Linked
  <2> QED
    BY <2>1, <2>2
<1>13. ASSUME NEW p \in 1 .. n PROVE k.next[t[p]] = t[p + 1] /\ k.prev[t[p + 1]] = t[p]
  <2>1. s # <<>> /\ l.head = s[1] /\ 1 \in 1 .. n
    BY <1>1 DEF Linked
  <2>2. CASE p = 1
    BY <1>1, <1>2, <1>3, <1>10, <2>1, <2>2
  <2>3. CASE p # 1
    <3>1. p - 1 \in 1 .. n - 1 /\ (p - 1) + 1 = p /\ p - 1 \in 1 .. n
      BY <1>1, <2>3
    <3>2. s[p] # s[1]
      BY <2>1, <2>3 DEF Linked
    <3>3. l.next[s[p - 1]] = s[p] /\ l.prev[s[p]] = s[p - 1]
      BY <3>1 DEF Linked
    <3>4. t[p] = s[p - 1] /\ s[p - 1] \in 1 .. n
      BY <1>3, <3>1
    <3> QED
      BY <1>3, <1>10, <2>1, <3>2, <3>3, <3>4
  <2> QED
    BY <2>2, <2>3
<1>14. IsRecord(k)
  BY DEF IsRecord, list_add_start
<1> HIDE DEF k, t, n, prevs
<1> QED
  <2>1. (n + 1) - 1 = n
    BY <1>1
  <2>2. Linked(k, t, D)
    BY <1>2, <1>4, <1>5, <1>6, <1>10, <1>11, <1>12, <1>13, <1>14, <2>1 DEF Linked
  <2> QED
    BY <2>2 DEF k, t, n

(* NothingLinked: the list of list_init.                                   *)
LEMMA NothingLinked == \A D : Linked(EmptyList, <<>>, D)
<1>1. <<>> \in [1 .. 0 -> 0 .. 0] /\ <<>> \in Seq(1 .. 0)
  OBVIOUS
<1> QED
  BY <1>1 DEF Linked, EmptyList, IsRecord

(* ThreadIs: a walk from the head meets the nodes in their order.          *)
LEMMA ThreadIs ==
  ASSUME NEW l, NEW s, Threaded(l, s)
  PROVE  Chain(l) = s
<1> DEFINE n == Len(s)
           step(met) == LET m == IF met = <<>> THEN l.head ELSE l.next[met[Len(met)]]
                        IN  IF m = NULL THEN met ELSE Append(met, m)
           IsWalk(f) == f = [k \in 0 .. n + 1 |-> IF k = 0 THEN <<>> ELSE step(f[k - 1])]
           w == [k \in 0 .. n + 1 |-> IF k <= n THEN SubSeq(s, 1, k) ELSE s]
           f == CHOOSE f : IsWalk(f)
<1>1. n \in Nat /\ s \in Seq(1 .. n) /\ Len(l.data) = n
  BY FunctionIsSeq DEF Threaded
<1>2. ASSUME NEW k \in 0 .. n - 1 PROVE step(SubSeq(s, 1, k)) = SubSeq(s, 1, k + 1)
  <2>1. /\ SubSeq(s, 1, k) \in Seq(1 .. n) /\ Len(SubSeq(s, 1, k)) = k
        /\ \A p \in 1 .. k : SubSeq(s, 1, k)[p] = s[p]
    <3>1. 1 \in 1 .. n + 1 /\ k \in 1 - 1 .. n /\ (k - 1) + 1 = k /\ \A p \in 1 .. k : (1 + p) - 1 = p
      BY <1>1
    <3> DEFINE nodes == 1 .. n
    <3>2. s \in Seq(nodes) /\ 1 \in 1 .. Len(s) + 1 /\ k \in 1 - 1 .. Len(s)
      BY <1>1, <3>1
    <3> HIDE DEF nodes, n
    <3>3. /\ SubSeq(s, 1, k) \in Seq(nodes) /\ Len(SubSeq(s, 1, k)) = k - 1 + 1
          /\ \A p \in 1 .. k - 1 + 1 : SubSeq(s, 1, k)[p] = s[1 + p - 1]
      BY <3>2, SubSeqIs
    <3> QED
      BY <3>1, <3>3 DEF nodes
  <2>2. SubSeq(s, 1, k + 1) = Append(SubSeq(s, 1, k), s[k + 1])
    BY <1>1
  <2>3. s[k + 1] # NULL
    BY <1>1 DEF NULL
  <2>4. CASE k = 0
    <3>1. SubSeq(s, 1, k) = <<>> /\ l.head = s[1]
      BY <1>1, <2>4 DEF Threaded
    <3> QED
      BY <2>2, <2>3, <2>4, <3>1
  <2>5. CASE k # 0
    <3>1. k \in 1 .. n - 1 /\ k \in 1 .. k
      BY <1>1, <2>5
    <3>2. SubSeq(s, 1, k) # <<>> /\ SubSeq(s, 1, k)[Len(SubSeq(s, 1, k))] = s[k]
      BY <2>1, <3>1
    <3>3. l.next[s[k]] = s[k + 1]
      BY <3>1 DEF Threaded
    <3> QED
      BY <2>2, <2>3, <3>2, <3>3
  <2> QED
    BY <2>4, <2>5
<1>3. step(s) = s
  BY <1>1 DEF Threaded
<1>4. w[0] = <<>> /\ w[n] = s /\ w[n + 1] = s /\ \A k \in 1 .. n + 1 : w[k] = step(w[k - 1])
  <2>1. w[0] = <<>> /\ w[n] = s /\ w[n + 1] = s
    BY <1>1
  <2>2. ASSUME NEW k \in 1 .. n + 1 PROVE w[k] = step(w[k - 1])
    <3>1. CASE k = n + 1
      BY <1>1, <1>3, <2>1, <3>1
    <3>2. CASE k # n + 1
      <4>1. k - 1 \in 0 .. n - 1 /\ (k - 1) + 1 = k /\ k - 1 \in 0 .. n + 1 /\ k \in 0 .. n + 1
        BY <1>1, <3>2
      <4>2. w[k] = SubSeq(s, 1, k) /\ w[k - 1] = SubSeq(s, 1, k - 1)
        BY <1>1, <3>2, <4>1
      <4> HIDE DEF w, step
      <4> QED
        BY <1>2, <4>1, <4>2
    <3> QED
      BY <3>1, <3>2
  <2> QED
    BY <2>1, <2>2
<1> HIDE DEF step
<1>5. IsWalk(w)
  <2>1. ASSUME NEW k \in 0 .. n + 1
        PROVE  w[k] = IF k = 0 THEN <<>> ELSE step(w[k - 1])
    <3> HIDE DEF w
    <3>1. k # 0 => k \in 1 .. n + 1
      BY <1>1
    <3> QED
      BY <1>4, <3>1
  <2>2. w = [k \in 0 .. n + 1 |-> w[k]]
    OBVIOUS
  <2> HIDE DEF w
  <2> QED
    BY <2>1, <2>2
<1>6. IsWalk(f)
  BY <1>5
<1> HIDE DEF f, w
<1>7. f[0] = <<>> /\ \A k \in 1 .. n + 1 : f[k] = step(f[k - 1])
  <2>1. \A k \in 0 .. n + 1 : f[k] = IF k = 0 THEN <<>> ELSE step(f[k - 1])
    BY <1>6
  <2>2. 0 \in 0 .. n + 1 /\ \A k \in 1 .. n + 1 : k \in 0 .. n + 1 /\ k # 0
    BY <1>1
  <2> QED
    BY <2>1, <2>2
<1> DEFINE S == {k \in Nat : k <= n + 1 => f[k] = w[k]}
<1>8. 0 \in S
  BY <1>4, <1>7
<1>9. ASSUME NEW k \in Nat, k \in S PROVE k + 1 \in S
  <2> SUFFICES ASSUME k + 1 <= n + 1 PROVE f[k + 1] = w[k + 1]
    OBVIOUS
  <2>1. k + 1 \in 1 .. n + 1 /\ (k + 1) - 1 = k /\ k <= n + 1
    BY <1>1
  <2> QED
    BY <1>4, <1>7, <1>9, <2>1
<1> HIDE DEF S
<1>10. Nat \subseteq S
  BY <1>8, <1>9, NatSetInduction
<1>11. f[n + 1] = s
  BY <1>1, <1>4, <1>10 DEF S
<1> QED
  BY <1>1, <1>11 DEF Chain, Walk, f, step

(* LinkedThreaded: a list that is linked both ways is linked along next.   *)
LEMMA LinkedThreaded ==
  ASSUME NEW l, NEW s, NEW D, Linked(l, s, D)
  PROVE  Threaded(l, s)
<1>1. Len(s) \in Nat /\ (s # <<>> => Len(s) # 0) /\ Len(l.data) = Len(s) /\ l.data \in Seq(D)
  BY DEF Linked
<1>2. DOMAIN l.data = 1 .. Len(s)
  BY <1>1
<1>3. l.data \in [1 .. Len(s) -> Range(l.data)]
  <2> DEFINE n == Len(s)
  <2>1. \A m \in 1 .. n : l.data[m] \in Range(l.data)
    BY <1>2 DEF Range
  <2>2. l.data = [m \in 1 .. n |-> l.data[m]]
    BY <1>1, <1>2
  <2> QED
    BY <2>1, <2>2
<1>4. l.tail \in 0 .. Len(s)
  <2>1. CASE s = <<>>
    BY <1>1, <2>1 DEF Linked, NULL
  <2>2. CASE s # <<>>
    <3>1. Len(s) \in 1 .. Len(s) /\ s \in Seq(1 .. Len(s)) /\ l.tail = s[Len(s)]
      BY <1>1, <2>2 DEF Linked
    <3>2. l.tail \in 1 .. Len(s)
      BY <3>1, ElementOfSeq
    <3> QED
      BY <1>1, <3>2
  <2> QED
    BY <2>1, <2>2
<1> QED
  BY <1>3, <1>4 DEF Linked, Threaded

(* WalkIs: so does a walk along a list that is linked both ways.           *)
LEMMA WalkIs ==
  ASSUME NEW l, NEW s, NEW D, Linked(l, s, D)
  PROVE  Chain(l) = s
BY LinkedThreaded, ThreadIs

(* GetIs: list_get finds the node at an index.                             *)
LEMMA GetIs ==
  ASSUME NEW l, NEW s, NEW D, Linked(l, s, D), NEW index \in 0 .. Len(s) - 1
  PROVE  list_get(l, index) = s[index + 1]
<1> DEFINE IsGet(f) == f = [k \in 0 .. index |-> IF k = 0 THEN l.head ELSE l.next[f[k - 1]]]
           w == [k \in 0 .. index |-> s[k + 1]]
           f == CHOOSE f : IsGet(f)
<1>1. index \in Nat /\ Len(s) \in Nat /\ s # <<>> /\ l.head = s[1]
  <2>1. s \in Seq(1 .. Len(s))
    BY DEF Linked
  <2> QED
    BY <2>1 DEF Linked
<1>2. ASSUME NEW k \in 1 .. index PROVE w[k] = l.next[w[k - 1]]
  <2>1. k \in 1 .. Len(s) - 1 /\ k - 1 \in 0 .. index /\ k \in 0 .. index /\ (k - 1) + 1 = k
    BY <1>1
  <2>2. l.next[s[k]] = s[k + 1]
    BY <2>1 DEF Linked
  <2> QED
    BY <2>1, <2>2
<1>3. w[0] = l.head
  BY <1>1
<1> HIDE DEF w
<1>4. IsGet(w)
  <2>1. ASSUME NEW k \in 0 .. index
        PROVE  w[k] = IF k = 0 THEN l.head ELSE l.next[w[k - 1]]
    <3>1. k # 0 => k \in 1 .. index
      BY <1>1
    <3> QED
      BY <1>2, <1>3, <3>1
  <2>2. w = [k \in 0 .. index |-> w[k]]
    BY DEF w
  <2> QED
    BY <2>1, <2>2
<1>5. IsGet(f)
  BY <1>4
<1> HIDE DEF f
<1>6. f[0] = l.head /\ \A k \in 1 .. index : f[k] = l.next[f[k - 1]]
  <2>1. \A k \in 0 .. index : f[k] = IF k = 0 THEN l.head ELSE l.next[f[k - 1]]
    BY <1>5
  <2>2. 0 \in 0 .. index /\ \A k \in 1 .. index : k \in 0 .. index /\ k # 0
    BY <1>1
  <2> QED
    BY <2>1, <2>2
<1> DEFINE S == {k \in Nat : k <= index => f[k] = w[k]}
<1>7. 0 \in S
  BY <1>3, <1>6
<1>8. ASSUME NEW k \in Nat, k \in S PROVE k + 1 \in S
  <2> SUFFICES ASSUME k + 1 <= index PROVE f[k + 1] = w[k + 1]
    OBVIOUS
  <2>1. k + 1 \in 1 .. index /\ (k + 1) - 1 = k /\ k <= index
    BY <1>1
  <2> QED
    BY <1>2, <1>6, <1>8, <2>1
<1> HIDE DEF S
<1>9. Nat \subseteq S
  BY <1>7, <1>8, NatSetInduction
<1>10. f[index] = w[index]
  BY <1>1, <1>9 DEF S
<1>11. w[index] = s[index + 1]
  BY <1>1 DEF w
<1> QED
  BY <1>10, <1>11 DEF list_get, f

-----------------------------------------------------------------------------
(* The list of predicates *)

(* The place of predicate m when the first k are in the list.              *)
PlaceAmong(token, k, m) ==
  Cardinality(IF Compares(token[m])
                THEN {i \in 1 .. k : i <= m \/ ~Compares(token[i])}
                ELSE {i \in 1 .. k : i >= m /\ ~Compares(token[i])})

(* The first k predicates are in the list l, each at its place.            *)
Inserted(l, token, k) ==
  \E s : /\ Linked(l, s, {pred_init(token[i]) : i \in DOMAIN token})
         /\ Len(s) = k
         /\ \A m \in 1 .. k : /\ PlaceAmong(token, k, m) \in 1 .. k
                              /\ s[PlaceAmong(token, k, m)] = m
                              /\ l.data[m] = pred_init(token[m])
         /\ k # 0 /\ Compares(token[s[1]]) => l.prev[s[1]] = NULL

(* PlacesMove: a comparison comes behind the others, anything else in      *)
(* front of them.                                                          *)
LEMMA PlacesMove ==
  ASSUME NEW token, NEW k \in Nat
  PROVE  /\ Compares(token[k + 1]) =>
              /\ PlaceAmong(token, k + 1, k + 1) = k + 1
              /\ \A m \in 1 .. k : PlaceAmong(token, k + 1, m) = PlaceAmong(token, k, m)
         /\ ~Compares(token[k + 1]) =>
              /\ PlaceAmong(token, k + 1, k + 1) = 1
              /\ \A m \in 1 .. k : PlaceAmong(token, k + 1, m) = PlaceAmong(token, k, m) + 1
<1> DEFINE Passed(n, m) ==
             IF Compares(token[m])
               THEN {i \in 1 .. n : i <= m \/ ~Compares(token[i])}
               ELSE {i \in 1 .. n : i >= m /\ ~Compares(token[i])}
<1>1. \A n, m : PlaceAmong(token, n, m) = Cardinality(Passed(n, m))
  BY DEF PlaceAmong
<1>2. IsFiniteSet(1 .. k) /\ Cardinality(1 .. k + 1) = k + 1
  BY FS_Interval
<1>3. CASE Compares(token[k + 1])
  <2>1. Passed(k + 1, k + 1) = 1 .. k + 1
    BY <1>3
  <2>2. \A m \in 1 .. k : Passed(k + 1, m) = Passed(k, m)
    BY <1>3
  <2> HIDE DEF Passed
  <2> QED
    BY <1>1, <1>2, <1>3, <2>1, <2>2
<1>4. CASE ~Compares(token[k + 1])
  <2>1. Passed(k + 1, k + 1) = {k + 1}
    BY <1>4
  <2>2. ASSUME NEW m \in 1 .. k
        PROVE  /\ Passed(k + 1, m) = Passed(k, m) \cup {k + 1}
               /\ k + 1 \notin Passed(k, m)
               /\ Passed(k, m) \subseteq 1 .. k
    BY <1>4
  <2> HIDE DEF Passed
  <2>3. ASSUME NEW m \in 1 .. k
        PROVE  Cardinality(Passed(k + 1, m)) = Cardinality(Passed(k, m)) + 1
    <3>1. IsFiniteSet(Passed(k, m))
      BY <1>2, <2>2, FS_Subset
    <3> QED
      BY <2>2, <3>1, FS_AddElement
  <2>4. Cardinality({k + 1}) = 1
    BY FS_Singleton
  <2>5. PlaceAmong(token, k + 1, k + 1) = 1
    BY <1>1, <2>1, <2>4
  <2>6. \A m \in 1 .. k : PlaceAmong(token, k + 1, m) = PlaceAmong(token, k, m) + 1
    BY <1>1, <2>3
  <2> QED
    BY <1>4, <2>5, <2>6
<1> QED
  BY <1>3, <1>4

(* InsertedNext: list_insert takes the next predicate to its place.        *)
LEMMA InsertedNext ==
  ASSUME NEW token, NEW l, NEW k \in Nat, Inserted(l, token, k), k + 1 \in DOMAIN token
  PROVE  Inserted(list_insert(l, IF is_join(token[k + 1]) THEN "LIST_END" ELSE "LIST_START",
                              pred_init(token[k + 1])),
                  token, k + 1)
<1> DEFINE D == {pred_init(token[i]) : i \in DOMAIN token}
           v == pred_init(token[k + 1])
<1>1. PICK s : /\ Linked(l, s, D)
               /\ Len(s) = k
               /\ \A m \in 1 .. k : /\ PlaceAmong(token, k, m) \in 1 .. k
                                    /\ s[PlaceAmong(token, k, m)] = m
                                    /\ l.data[m] = pred_init(token[m])
               /\ k # 0 /\ Compares(token[s[1]]) => l.prev[s[1]] = NULL
  BY DEF Inserted
<1>2. v \in D
  OBVIOUS
<1>3. s \in Seq(1 .. k) /\ l.data \in Seq(D) /\ Len(l.data) = k
  BY <1>1 DEF Linked
<1>4. is_join(token[k + 1]) <=> Compares(token[k + 1])
  BY DEF is_join, Compares
<1> HIDE DEF D, v
<1> DEFINE data == Append(l.data, v)
<1>5. data[k + 1] = v /\ \A m \in 1 .. k : data[m] = l.data[m]
  BY <1>2, <1>3, AppendIs
<1> HIDE DEF data
<1>6. CASE Compares(token[k + 1])
  <2> DEFINE t == Append(s, k + 1)
             r == list_add_end(l, v)
  <2>1. Linked(r, t, D) /\ r.data = data
    BY <1>1, <1>2, AddedAtEnd DEF list_add_end, data
  <2>2. Len(t) = k + 1 /\ t[k + 1] = k + 1 /\ \A p \in 1 .. k : t[p] = s[p]
    <3>1. s \in Seq(Nat) /\ k + 1 \in Nat
      BY <1>3
    <3> QED
      BY <1>1, <3>1, AppendIs
  <2>n. Compares(token[t[1]]) => r.prev[t[1]] = NULL
    <3> DEFINE prevs == Append(l.prev, l.tail)
    <3>1. r.prev = prevs
      BY DEF list_add_end
    <3>2. l.prev \in Seq(Nat) /\ Len(l.prev) = k /\ l.tail \in Nat
      <4>1. l.prev \in [1 .. k -> 0 .. k]
        BY <1>1 DEF Linked
      <4>2. l.prev \in [1 .. k -> Nat]
        BY <4>1
      <4>3. s # <<>> => s[k] \in Nat
        <5>1. s # <<>> => k \in 1 .. k
          BY <1>1, <1>3
        <5> QED
          BY <1>1, <1>3, <5>1, ElementOfSeq
      <4>4. l.tail \in Nat
        BY <1>1, <4>3 DEF Linked, NULL
      <4> QED
        BY <4>2, <4>4, FunctionIsSeq
    <3>3. prevs[k + 1] = l.tail /\ \A m \in 1 .. k : prevs[m] = l.prev[m]
      BY <3>2, AppendIs
    <3> HIDE DEF prevs, r, t
    <3>4. CASE k = 0
      <4>1. s = <<>>
        BY <1>1, <1>3, <3>4
      <4>2. l.tail = NULL
        BY <1>1, <4>1 DEF Linked
      <4>3. t[1] = k + 1
        BY <2>2, <3>4
      <4> QED
        BY <3>1, <3>3, <4>2, <4>3
    <3>5. CASE k # 0
      <4>1. 1 \in 1 .. k
        BY <3>5
      <4>2. t[1] = s[1] /\ s[1] \in 1 .. k
        BY <1>1, <1>3, <2>2, <4>1, ElementOfSeq
      <4>3. r.prev[t[1]] = l.prev[s[1]]
        BY <3>1, <3>3, <4>2
      <4> QED
        BY <1>1, <3>5, <4>2, <4>3
    <3> QED
      BY <3>4, <3>5
  <2> HIDE DEF r, t
  <2>3. ASSUME NEW m \in 1 .. k + 1
        PROVE  /\ PlaceAmong(token, k + 1, m) \in 1 .. k + 1
               /\ t[PlaceAmong(token, k + 1, m)] = m
               /\ r.data[m] = pred_init(token[m])
    <3>1. CASE m = k + 1
      <4>1. PlaceAmong(token, k + 1, m) = k + 1 /\ k + 1 \in 1 .. k + 1
        BY <1>6, <3>1, PlacesMove
      <4>2. t[k + 1] = m
        BY <2>2, <3>1
      <4>3. r.data[m] = pred_init(token[m])
        BY <1>5, <2>1, <3>1 DEF v
      <4> QED
        BY <4>1, <4>2, <4>3
    <3>2. CASE m # k + 1
      <4>1. m \in 1 .. k /\ 1 .. k \subseteq 1 .. k + 1
        BY <3>2
      <4>2. PlaceAmong(token, k + 1, m) = PlaceAmong(token, k, m)
        BY <1>6, <4>1, PlacesMove
      <4> QED
        BY <1>1, <1>5, <2>1, <2>2, <4>1, <4>2
    <3> QED
      BY <3>1, <3>2
  <2>4. Inserted(r, token, k + 1)
    BY <2>1, <2>2, <2>n, <2>3 DEF Inserted, D
  <2> QED
    BY <1>4, <1>6, <2>4 DEF list_insert, r, v
<1>7. CASE ~Compares(token[k + 1])
  <2> DEFINE t == <<k + 1>> \o s
             r == list_add_start(l, v)
  <2>1. Linked(r, t, D) /\ r.data = data
    BY <1>1, <1>2, AddedAtStart DEF list_add_start, data
  <2>2. Len(t) = k + 1 /\ t[1] = k + 1 /\ \A p \in 1 .. k : t[p + 1] = s[p]
    <3> DEFINE one == <<k + 1>>
    <3>1. s \in Seq(Nat) /\ one \in Seq(Nat) /\ Len(one) = 1 /\ one[1] = k + 1
      BY <1>3
    <3> HIDE DEF one
    <3>2. /\ Len(one \o s) = Len(one) + Len(s)
          /\ \A p \in 1 .. Len(one) + Len(s) :
               (one \o s)[p] = IF p <= Len(one) THEN one[p] ELSE s[p - Len(one)]
      BY <3>1, ConcatProperties
    <3>3. /\ \A p \in 1 .. k : p + 1 \in 1 .. 1 + k /\ ~(p + 1 <= 1) /\ (p + 1) - 1 = p
          /\ 1 \in 1 .. 1 + k /\ 1 + k = k + 1
      OBVIOUS
    <3>4. Len(one \o s) = k + 1 /\ (one \o s)[1] = k + 1
      BY <1>1, <3>1, <3>2, <3>3
    <3>5. ASSUME NEW p \in 1 .. k PROVE (one \o s)[p + 1] = s[p]
      <4>1. /\ p + 1 \in 1 .. Len(one) + Len(s)
            /\ ~(p + 1 <= Len(one)) /\ (p + 1) - Len(one) = p
        BY <1>1, <3>1
      <4> QED
        BY <3>2, <4>1
    <3> QED
      BY <3>4, <3>5 DEF one
  <2> HIDE DEF r, t
  <2>3. ASSUME NEW m \in 1 .. k + 1
        PROVE  /\ PlaceAmong(token, k + 1, m) \in 1 .. k + 1
               /\ t[PlaceAmong(token, k + 1, m)] = m
               /\ r.data[m] = pred_init(token[m])
    <3>1. CASE m = k + 1
      <4>1. PlaceAmong(token, k + 1, m) = 1 /\ 1 \in 1 .. k + 1
        BY <1>7, <3>1, PlacesMove
      <4>2. t[1] = m
        BY <2>2, <3>1
      <4>3. r.data[m] = pred_init(token[m])
        BY <1>5, <2>1, <3>1 DEF v
      <4> QED
        BY <4>1, <4>2, <4>3
    <3>2. CASE m # k + 1
      <4>1. m \in 1 .. k
        BY <3>2
      <4>2. PlaceAmong(token, k + 1, m) = PlaceAmong(token, k, m) + 1
        BY <1>7, <4>1, PlacesMove
      <4>3. PlaceAmong(token, k, m) \in 1 .. k /\ s[PlaceAmong(token, k, m)] = m
        BY <1>1, <4>1
      <4>4. PlaceAmong(token, k + 1, m) \in 1 .. k + 1 /\ t[PlaceAmong(token, k + 1, m)] = m
        BY <2>2, <4>2, <4>3
      <4>5. r.data[m] = pred_init(token[m])
        BY <1>1, <1>5, <2>1, <4>1
      <4> QED
        BY <4>4, <4>5
    <3> QED
      BY <3>1, <3>2
  <2>4. Inserted(r, token, k + 1)
    BY <1>7, <2>1, <2>2, <2>3 DEF Inserted, D
  <2> QED
    BY <1>4, <1>7, <2>4 DEF list_insert, r, v
<1> QED
  BY <1>6, <1>7

(* ListBuilt: the list after the predicates of a line.                     *)
LEMMA ListBuilt ==
  ASSUME NEW line, NEW n \in Nat, DOMAIN PredsOf(line) = 1 .. n, Len(PredsOf(line)) = n
  PROVE  Inserted(Predicates(line), PredsOf(line), n)
<1> DEFINE token == PredsOf(line)
           more(l, k) == list_insert(l, IF is_join(token[k]) THEN "LIST_END" ELSE "LIST_START",
                                     pred_init(token[k]))
           IsBuilt(g, m) == g = [k \in 0 .. m |-> IF k = 0 THEN EmptyList ELSE more(g[k - 1], k)]
           list == CHOOSE g : IsBuilt(g, n)
<1>1. Predicates(line) = list[n]
  BY DEF Predicates
<1> HIDE DEF more
<1> DEFINE S == {m \in Nat : \E g : IsBuilt(g, m)}
<1>2. 0 \in S
  <2> DEFINE g == [k \in 0 .. 0 |-> EmptyList]
  <2>1. IsBuilt(g, 0)
    OBVIOUS
  <2> QED
    BY <2>1
<1>3. ASSUME NEW m \in Nat, m \in S PROVE m + 1 \in S
  <2>1. PICK g : IsBuilt(g, m)
    BY <1>3
  <2> DEFINE h == [k \in 0 .. m + 1 |-> IF k = m + 1 THEN more(g[m], m + 1) ELSE g[k]]
  <2>2. ASSUME NEW k \in 0 .. m + 1 PROVE h[k] = IF k = 0 THEN EmptyList ELSE more(h[k - 1], k)
    <3>1. CASE k = m + 1
      <4>1. k - 1 = m /\ m \in 0 .. m + 1 /\ m # m + 1 /\ k # 0
        BY <3>1
      <4> QED
        BY <3>1, <4>1
    <3>2. CASE k # m + 1
      <4>1. k \in 0 .. m /\ (k # 0 => k - 1 \in 0 .. m + 1 /\ k - 1 # m + 1)
        BY <3>2
      <4>2. g[k] = IF k = 0 THEN EmptyList ELSE more(g[k - 1], k)
        BY <2>1, <4>1
      <4> QED
        BY <3>2, <4>1, <4>2
    <3> QED
      BY <3>1, <3>2
  <2>3. h = [k \in 0 .. m + 1 |-> h[k]]
    OBVIOUS
  <2> HIDE DEF h
  <2>4. IsBuilt(h, m + 1)
    BY <2>2, <2>3
  <2> QED
    BY <2>4
<1> HIDE DEF S
<1>4. Nat \subseteq S
  BY <1>2, <1>3, NatSetInduction
<1>5. IsBuilt(list, n)
  <2>1. \E g : IsBuilt(g, n)
    BY <1>4 DEF S
  <2> HIDE DEF IsBuilt
  <2> QED
    BY <2>1
<1> HIDE DEF list
<1>6. list[0] = EmptyList /\ \A k \in 1 .. n : list[k] = more(list[k - 1], k)
  <2>1. \A k \in 0 .. n : list[k] = IF k = 0 THEN EmptyList ELSE more(list[k - 1], k)
    BY <1>5
  <2>2. 0 \in 0 .. n /\ \A k \in 1 .. n : k \in 0 .. n /\ k # 0
    OBVIOUS
  <2> QED
    BY <2>1, <2>2
<1> DEFINE T == {k \in Nat : k <= n => Inserted(list[k], token, k)}
<1>7. 0 \in T
  <2>1. Linked(EmptyList, <<>>, {pred_init(token[i]) : i \in DOMAIN token})
    BY NothingLinked
  <2>2. Len(<<>>) = 0 /\ 1 .. 0 = {}
    OBVIOUS
  <2>3. Inserted(EmptyList, token, 0)
    BY <2>1, <2>2 DEF Inserted
  <2> QED
    BY <1>6, <2>3
<1>8. ASSUME NEW k \in Nat, k \in T PROVE k + 1 \in T
  <2> SUFFICES ASSUME k + 1 <= n PROVE Inserted(list[k + 1], token, k + 1)
    OBVIOUS
  <2>1. k + 1 \in 1 .. n /\ (k + 1) - 1 = k /\ k <= n
    OBVIOUS
  <2>2. Inserted(list[k], token, k) /\ k + 1 \in DOMAIN token
    BY <1>8, <2>1
  <2>3. list[k + 1] = more(list[k], k + 1)
    BY <1>6, <2>1
  <2> HIDE DEF token
  <2>4. Inserted(more(list[k], k + 1), token, k + 1)
    BY <2>2, InsertedNext DEF more
  <2> QED
    BY <2>3, <2>4
<1> HIDE DEF T
<1>9. Nat \subseteq T
  BY <1>7, <1>8, NatSetInduction
<1> QED
  BY <1>1, <1>9 DEF T

(* The p-th node holds the predicate that Arranged has there.              *)
HoldsArranged(l, line, p) ==
  \E m \in DOMAIN PredsOf(line) :
    /\ Arranged(line)[p] = PredsOf(line)[m]
    /\ l.data[Chain(l)[p]] = pred_init(PredsOf(line)[m])

(* ChainArranged: the chain of the list is the arrangement of Arranged.    *)
LEMMA ChainArranged ==
  ASSUME NEW line, NEW n \in Nat, DOMAIN PredsOf(line) = 1 .. n, NEW l,
         Inserted(l, PredsOf(line), n)
  PROVE  /\ DOMAIN Chain(l) = 1 .. n /\ Len(Chain(l)) = n
         /\ DOMAIN Arranged(line) = 1 .. n /\ Len(Arranged(line)) = n
         /\ \A p \in 1 .. n : HoldsArranged(l, line, p)
<1> DEFINE token == PredsOf(line)
<1>1. PICK s : /\ Linked(l, s, {pred_init(token[i]) : i \in DOMAIN token})
               /\ Len(s) = n
               /\ \A m \in 1 .. n : /\ PlaceAmong(token, n, m) \in 1 .. n
                                    /\ s[PlaceAmong(token, n, m)] = m
                                    /\ l.data[m] = pred_init(token[m])
  BY DEF Inserted
<1>2. Chain(l) = s /\ s \in Seq(1 .. n)
  <2>1. Chain(l) = s
    BY <1>1, WalkIs
  <2>2. s \in Seq(1 .. Len(s))
    BY <1>1 DEF Linked
  <2> QED
    BY <1>1, <2>1, <2>2
<1>3. \A m : Place(token, m) = PlaceAmong(token, n, m)
  BY DEF Place, PlaceAmong
<1>4. DOMAIN Arranged(line) = 1 .. n
  BY DEF Arranged
<1>5. ASSUME NEW p \in 1 .. n
      PROVE  /\ s[p] \in 1 .. n
             /\ Arranged(line)[p] = token[s[p]]
             /\ l.data[Chain(l)[p]] = pred_init(token[s[p]])
  <2>1. s[p] \in 1 .. n
    BY <1>2, ElementOfSeq, <1>1
  <2>2. ASSUME NEW m \in 1 .. n PROVE Place(token, m) = p <=> m = s[p]
    <3>1. Place(token, m) \in 1 .. n /\ s[Place(token, m)] = m
      BY <1>1, <1>3
    <3>2. m = s[p] => Place(token, m) = p
      BY <1>1, <3>1 DEF Linked
    <3> QED
      BY <3>1, <3>2
  <2>3. (CHOOSE m \in DOMAIN token : Place(token, m) = p) = s[p]
    BY <2>1, <2>2
  <2>4. Arranged(line)[p] = token[CHOOSE m \in DOMAIN token : Place(token, m) = p]
    BY DEF Arranged
  <2> QED
    BY <1>1, <1>2, <2>1, <2>3, <2>4
<1>6. Arranged(line) = [p \in 1 .. n |-> Arranged(line)[p]] /\ Len(Arranged(line)) = n
  BY DEF Arranged
<1>7. DOMAIN Chain(l) = 1 .. n /\ Len(Chain(l)) = n
  BY <1>1, <1>2
<1>8. \A p \in 1 .. n : HoldsArranged(l, line, p)
  BY <1>5 DEF HoldsArranged
<1> HIDE DEF token
<1> QED
  BY <1>4, <1>6, <1>7, <1>8

(* ReadAsWritten: what pred_init makes of a predicate.                     *)
LEMMA ReadAsWritten ==
  ASSUME NEW token, token.pred \in Predicate
  PROVE  SamePredicate(pred_init(token), token.pred)
<1> DEFINE written == token.pred
<1>1. /\ DOMAIN written = {"left", "op", "right"}
      /\ DOMAIN written.right = {"key", "payload"}
      /\ written.right.key \in Nat
  BY DEF Predicate, Column
<1>2. CASE written.op = "="
  BY <1>2 DEF pred_init, SamePredicate
<1>3. CASE written.op # "="
  <2> DEFINE read == [written EXCEPT !.right.key = atoi(@)]
  <2>1. pred_init(token) = read
    BY <1>3 DEF pred_init
  <2>2. /\ read.left = written.left /\ read.op = written.op
        /\ read.right.payload = written.right.payload
        /\ read.right.key = atoi(written.right.key)
    BY <1>1
  <2> HIDE DEF read
  <2>3. ASSUME NEW c \in Nat, c < IntValues \div 2 PROVE atoi(c) = c
    <3>1. IntValues \in Nat \ {0}
      BY InputAssumption
    <3>2. c % IntValues = c
      BY <2>3, <3>1
    <3> QED
      BY <2>3, <3>2 DEF atoi
  <2> QED
    BY <1>1, <1>3, <2>1, <2>2, <2>3 DEF SamePredicate, Fits
<1> QED
  BY <1>2, <1>3
-----------------------------------------------------------------------------
(* The order of the joins *)

(* FirstOrSecond: a place in two sequences is one of the first or one of   *)
(* the second.                                                             *)
LEMMA FirstOrSecond ==
  ASSUME NEW m \in Nat, NEW n \in Nat, NEW p \in 1 .. m + n
  PROVE  p \in 1 .. m \/ \E q \in 1 .. n : p = m + q
<1>1. CASE p <= m
  BY <1>1
<1>2. CASE p > m
  <2>1. p - m \in 1 .. n /\ p = m + (p - m)
    BY <1>2
  <2> QED
    BY <2>1
<1> QED
  BY <1>1, <1>2

(* DataOfBoth: the predicates of the nodes of one sequence and of another  *)
(* behind it.                                                              *)
LEMMA DataOfBoth ==
  ASSUME NEW l, NEW D, NEW N, Holds(l, N, D), NEW a, a \in Seq(N), NEW b, b \in Seq(N)
  PROVE  DataOf(l, a \o b) = DataOf(l, a) \o DataOf(l, b)
<1> DEFINE c == a \o b
           x == DataOf(l, a)
           y == DataOf(l, b)
           u == DataOf(l, c)
           w == x \o y
           m == Len(a)
           n == Len(b)
<1>0. m \in Nat /\ n \in Nat
  OBVIOUS
<1>1. c \in Seq(N) /\ Len(c) = m + n
  BY ConcatIs
<1>1a. (\A p \in 1 .. m : c[p] = a[p]) /\ (\A p \in 1 .. n : c[m + p] = b[p])
  BY ConcatIs
<1>2. x \in Seq(D) /\ Len(x) = m /\ \A p \in 1 .. m : x[p] = l.data[a[p]]
  BY DataIs
<1>3. y \in Seq(D) /\ Len(y) = n /\ \A p \in 1 .. n : y[p] = l.data[b[p]]
  BY DataIs
<1> HIDE DEF c
<1>4. u \in Seq(D) /\ Len(u) = Len(c) /\ \A p \in 1 .. Len(c) : u[p] = l.data[c[p]]
  BY <1>1, DataIs
<1> HIDE DEF x, y, u, m, n
<1>5. w \in Seq(D) /\ Len(w) = m + n
  BY <1>2, <1>3, ConcatIs
<1>5a. (\A p \in 1 .. m : w[p] = x[p]) /\ (\A p \in 1 .. n : w[m + p] = y[p])
  BY <1>2, <1>3, ConcatIs
<1> HIDE DEF w
<1>6. ASSUME NEW p \in 1 .. m + n PROVE u[p] = w[p]
  <2>1. u[p] = l.data[c[p]]
    BY <1>1, <1>4
  <2>2. CASE p \in 1 .. m
    BY <1>1a, <1>2, <1>5a, <2>1, <2>2
  <2>3. ASSUME NEW q \in 1 .. n, p = m + q PROVE u[p] = w[p]
    <3>1. c[p] = b[q] /\ w[p] = y[q] /\ y[q] = l.data[b[q]]
      BY <1>1a, <1>3, <1>5a, <2>3
    <3> QED
      BY <2>1, <3>1
  <2> QED
    BY <1>0, <2>2, <2>3, FirstOrSecond
<1>7. Len(u) = m + n
  BY <1>1, <1>4
<1>8. u = w
  BY <1>4, <1>5, <1>6, <1>7, SameSeq
<1> QED
  BY <1>8 DEF u, w, x, y, c

(* LinkedSortable: what the sort of nodes asks of a list.                  *)
LEMMA LinkedSortable ==
  ASSUME NEW l, NEW s, NEW D, Linked(l, s, D)
  PROVE  /\ Sortable(l, D) /\ Nodes(l) = 1 .. Len(s) /\ l \in Relinked(l)
         /\ Len(l.data) = Len(s) /\ Holds(l, 1 .. Len(s), D)
<1>1. Len(s) \in Nat /\ l.data \in Seq(D) /\ Len(l.data) = Len(s)
  BY DEF Linked
<1>2. Nodes(l) = 1 .. Len(s)
  BY <1>1 DEF Nodes
<1>3. Holds(l, 1 .. Len(s), D)
  <2>1. \A m \in 1 .. Len(s) : l.data[m] \in D
    BY <1>1, ElementOfSeq
  <2> QED
    BY <2>1 DEF Holds
<1>4. Sortable(l, D)
  BY <1>1, <1>2, <1>3 DEF Sortable, Numbered
<1>5. {NULL} \cup Nodes(l) = 0 .. Len(s)
  BY <1>1, <1>2 DEF NULL
<1>6. l.next \in Links(l) /\ l.prev \in Links(l)
  BY <1>2, <1>5 DEF Linked, Links
<1>7. IsRecord(l)
  BY DEF Linked
<1>8. l \in Relinked(l)
  BY <1>6, <1>7 DEF IsRecord, Relinked, Links
<1> QED
  BY <1>1, <1>2, <1>3, <1>4, <1>8

(* LastChain: the nodes from the p-th on are a chain.                      *)
LEMMA LastChain ==
  ASSUME NEW l, NEW s, NEW D, Linked(l, s, D), NEW p \in 1 .. Len(s)
  PROVE  Given(l, Sorted(l, s[p]), SubSeq(s, p, Len(s)))
<1> DEFINE n == Len(s)
           c == SubSeq(s, p, n)
           m == n - p + 1
<1>1. n \in Nat /\ s \in Seq(1 .. n) /\ p \in 1 .. n + 1 /\ n \in p - 1 .. n /\ m \in 1 .. n
  <2>1. s \in Seq(1 .. Len(s))
    BY DEF Linked
  <2>2. Len(s) \in Nat
    BY <2>1
  <2> QED
    BY <2>1, <2>2
<1>2. c \in Seq(1 .. n) /\ Len(c) = m /\ \A q \in 1 .. m : c[q] = s[p + q - 1]
  <2> DEFINE N == 1 .. n
  <2>1. s \in Seq(N)
    BY <1>1
  <2> HIDE DEF N
  <2>2. c \in Seq(N) /\ Len(c) = n - p + 1 /\ \A q \in 1 .. n - p + 1 : c[q] = s[p + q - 1]
    BY <1>1, <2>1, SubSeqIs, SMTT(20)
  <2> QED
    BY <2>2 DEF N
<1> HIDE DEF c
<1>3. \A q \in 1 .. m : p + q - 1 \in 1 .. n
  BY <1>1
<1>4. c # <<>> /\ c[1] = s[p]
  BY <1>1, <1>2
<1>5. \A x, y \in 1 .. Len(c) : c[x] = c[y] => x = y
  <2> SUFFICES ASSUME NEW x \in 1 .. m, NEW y \in 1 .. m, c[x] = c[y] PROVE x = y
    BY <1>2
  <2>1. s[p + x - 1] = s[p + y - 1] /\ p + x - 1 \in 1 .. n /\ p + y - 1 \in 1 .. n
    BY <1>2, <1>3
  <2>2. \A i, j \in 1 .. n : s[i] = s[j] => i = j
    BY DEF Linked
  <2> HIDE DEF n, m
  <2>3. p + x - 1 = p + y - 1
    BY <2>1, <2>2
  <2>4. x \in Int /\ y \in Int /\ p \in Int
    BY <1>1 DEF m
  <2> QED
    BY <2>3, <2>4
<1>6. l.next[c[Len(c)]] = NULL
  <2>1. m \in 1 .. m /\ p + m - 1 = n
    BY <1>1
  <2>2. s # <<>>
    BY <1>1
  <2>3. l.next[s[n]] = NULL
    BY <2>2 DEF Linked
  <2> HIDE DEF n, m
  <2>4. c[m] = s[n] /\ Len(c) = m
    BY <1>2, <2>1
  <2> QED
    BY <2>3, <2>4
<1>7. \A q \in 1 .. Len(c) - 1 : l.next[c[q]] = c[q + 1] /\ l.prev[c[q + 1]] = c[q]
  <2> SUFFICES ASSUME NEW q \in 1 .. m - 1
               PROVE  l.next[c[q]] = c[q + 1] /\ l.prev[c[q + 1]] = c[q]
    BY <1>2
  <2>1. /\ q \in 1 .. m /\ q + 1 \in 1 .. m
        /\ p + q - 1 \in 1 .. n - 1 /\ p + (q + 1) - 1 = (p + q - 1) + 1
    BY <1>1
  <2>3. \A o \in 1 .. n - 1 : l.next[s[o]] = s[o + 1] /\ l.prev[s[o + 1]] = s[o]
    BY DEF Linked
  <2> HIDE DEF n, m
  <2>2. c[q] = s[p + q - 1] /\ c[q + 1] = s[(p + q - 1) + 1]
    <3>1. c[q + 1] = s[p + (q + 1) - 1]
      BY <1>2, <2>1
    <3> QED
      BY <1>2, <2>1, <3>1
  <2> QED
    BY <2>1, <2>2, <2>3
<1>8. IsChain(l, c)
  BY <1>5, <1>6, <1>7 DEF IsChain
<1>9. s[p] \in 1 .. n
  BY <1>1, ElementOfSeq
<1>10. Nodes(l) = 1 .. n /\ l \in Relinked(l) /\ Len(l.data) = n
  BY LinkedSortable
<1>11. Len(c) <= Len(l.data)
  BY <1>1, <1>2, <1>10
<1> DEFINE x == Sorted(l, s[p])
<1>12. x.list = l /\ x.head = s[p] /\ x = [list |-> x.list, head |-> x.head]
  BY DEF Sorted
<1> HIDE DEF x, n
<1>13. Given(l, x, c)
  BY <1>2, <1>4, <1>8, <1>9, <1>10, <1>11, <1>12 DEF Given
<1> QED
  BY <1>13 DEF x, c, n

(* The nodes from the p-th on are those of t, in another order.            *)
Respliced(l, s, p, k, t) ==
  /\ k \in Relinked(l) /\ t \in Seq(1 .. Len(s)) /\ t # <<>> /\ IsChain(k, t)
  /\ Members(t) = Members(SubSeq(s, p, Len(s))) /\ Len(t) = Len(SubSeq(s, p, Len(s)))
  /\ Unmoved(l, k, Members(SubSeq(s, p, Len(s))))

(* The list with the nodes before the p-th in front of t.                  *)
Spliced(k, s, p, t) ==
  IF p = 1 THEN [k EXCEPT !.head = t[1]] ELSE [k EXCEPT !.next[s[p - 1]] = t[1]]


(* SplicedThread: it is linked along next, with the nodes of t behind      *)
(* those before the p-th.                                                  *)
LEMMA SplicedThread ==
  ASSUME NEW l, NEW s, NEW D, Linked(l, s, D), NEW p \in 1 .. Len(s),
         NEW k, NEW t, Respliced(l, s, p, k, t)
  PROVE  /\ Threaded(Spliced(k, s, p, t), SubSeq(s, 1, p - 1) \o t)
         /\ Spliced(k, s, p, t).data = l.data
         /\ Len(SubSeq(s, 1, p - 1) \o t) = Len(s)
<1> DEFINE n == Len(s)
           N == 1 .. n
           b == p - 1
           m == n - b
           a == SubSeq(s, 1, b)
           c == SubSeq(s, p, n)
           u == a \o t
           r == Spliced(k, s, p, t)
<1>1. /\ n \in Nat /\ b \in 0 .. n - 1 /\ p = b + 1 /\ m \in 1 .. n /\ b + m = n
      /\ s \in Seq(N) /\ n # 0
  <2>1. s \in Seq(1 .. Len(s))
    BY DEF Linked
  <2>2. Len(s) \in Nat
    BY <2>1
  <2> QED
    BY <2>1, <2>2
<1>2. /\ l.data \in Seq(D) /\ Len(l.data) = n /\ l.length = n /\ l.head = s[1] /\ l.tail \in 0 .. n
      /\ \A x, y \in N : s[x] = s[y] => x = y
      /\ \A x \in 1 .. n - 1 : l.next[s[x]] = s[x + 1]
  <2>1. Threaded(l, s) /\ s # <<>>
    BY <1>1, LinkedThreaded
  <2> QED
    BY <2>1 DEF Linked, Threaded
<1>3. /\ k.data = l.data /\ k.length = n /\ k.head = l.head /\ k.tail = l.tail
      /\ k.next \in [N -> 0 .. n] /\ k.prev \in [N -> 0 .. n]
      /\ k = [head |-> k.head, tail |-> k.tail, length |-> k.length,
              data |-> k.data, next |-> k.next, prev |-> k.prev]
  <2>1. k \in Relinked(l) /\ Nodes(l) = N
    BY LinkedSortable DEF Respliced
  <2>2. {NULL} \cup N = 0 .. n
    BY <1>1 DEF NULL
  <2> HIDE DEF N, n
  <2> QED
    BY <1>2, <2>1, <2>2 DEF Relinked
<1>4. /\ a \in Seq(N) /\ Len(a) = b
      /\ \A q \in 1 .. b : a[q] = s[q]
  <2>1. /\ 1 \in 1 .. n + 1 /\ b \in 1 - 1 .. n /\ b - 1 + 1 = b
        /\ \A q \in 1 .. b : 1 + q - 1 = q
    BY <1>1
  <2> HIDE DEF N, b, n
  <2>2. a \in Seq(N) /\ Len(a) = b - 1 + 1 /\ \A q \in 1 .. b - 1 + 1 : a[q] = s[1 + q - 1]
    BY <1>1, <2>1, SubSeqIs DEF n
  <2> QED
    BY <2>1, <2>2
<1>5. /\ Len(c) = m /\ \A q \in 1 .. m : c[q] = s[b + q]
  <2>1. /\ p \in 1 .. n + 1 /\ n \in p - 1 .. n /\ n - p + 1 = m
        /\ \A q \in 1 .. m : p + q - 1 = b + q
    BY <1>1
  <2> HIDE DEF N, b, n, m
  <2>2. Len(c) = n - p + 1 /\ \A q \in 1 .. n - p + 1 : c[q] = s[p + q - 1]
    BY <1>1, <2>1, SubSeqIs DEF n
  <2> QED
    BY <2>1, <2>2
<1>6. /\ t \in Seq(N) /\ Len(t) = m /\ Members(t) = Members(c) /\ IsChain(k, t)
      /\ Unmoved(l, k, Members(c))
  BY <1>5 DEF Respliced
<1> HIDE DEF a, c
<1>7. u \in Seq(N) /\ Len(u) = n
  <2> HIDE DEF N, b, m, n
  <2>1. u \in Seq(N) /\ Len(u) = Len(a) + Len(t)
    BY <1>4, <1>6, ConcatIs
  <2> QED
    BY <1>1, <1>4, <1>6, <2>1
<1>8. (\A q \in 1 .. b : u[q] = s[q]) /\ (\A q \in 1 .. m : u[b + q] = t[q])
  <2> HIDE DEF N, b, m, n
  <2>1. (\A q \in 1 .. b : u[q] = a[q]) /\ (\A q \in 1 .. m : u[b + q] = t[q])
    BY <1>4, <1>6, ConcatIs
  <2> QED
    BY <1>4, <2>1
<1> HIDE DEF u
<1>9. \A q \in 1 .. b : q \in N /\ s[q] \in N /\ s[q] \notin Members(c)
  <2> SUFFICES ASSUME NEW q \in 1 .. b PROVE q \in N /\ s[q] \in N /\ s[q] \notin Members(c)
    OBVIOUS
  <2>1. q \in N
    BY <1>1
  <2>2. s[q] \in N
    BY <1>1, <2>1, ElementOfSeq
  <2>3. ASSUME NEW y \in 1 .. m PROVE c[y] # s[q]
    <3>1. b + y \in N /\ b + y # q
      BY <1>1
    <3> HIDE DEF N, b, m
    <3> QED
      BY <1>2, <1>5, <2>1, <3>1
  <2> QED
    BY <1>5, <2>1, <2>2, <2>3 DEF Members
<1>10. \A q \in 1 .. m : t[q] \in N /\ t[q] \in Members(c)
  <2>1. \A q \in 1 .. m : t[q] \in Members(t)
    BY <1>6 DEF Members
  <2> QED
    BY <1>6, <2>1, ElementOfSeq
<1>11. /\ r.data = l.data /\ r.length = n /\ r.tail = l.tail /\ r.prev = k.prev
       /\ r.head = IF p = 1 THEN t[1] ELSE k.head
       /\ r.next \in [N -> 0 .. n]
       /\ \A x \in N : r.next[x] = IF p # 1 /\ x = s[b] THEN t[1] ELSE k.next[x]
  <2>1. t[1] \in N /\ N \subseteq 0 .. n
    BY <1>1, <1>10
  <2> HIDE DEF N, b, n
  <2>2. CASE p = 1
    <3>1. r = [k EXCEPT !.head = t[1]]
      BY <2>2 DEF Spliced
    <3> HIDE DEF r
    <3> QED
      BY <1>3, <2>2, <3>1
  <2>3. CASE p # 1
    <3>1. r = [k EXCEPT !.next[s[b]] = t[1]]
      BY <2>3 DEF Spliced, b
    <3> HIDE DEF r
    <3>2. r = [k EXCEPT !.next = [k.next EXCEPT ![s[b]] = t[1]]]
      BY <3>1
    <3> DEFINE nexts == [k.next EXCEPT ![s[b]] = t[1]]
    <3>3. nexts \in [N -> 0 .. n] /\ \A x \in N : nexts[x] = IF x = s[b] THEN t[1] ELSE k.next[x]
      BY <1>3, <2>1
    <3> HIDE DEF nexts
    <3>4. /\ r.data = k.data /\ r.length = k.length /\ r.tail = k.tail /\ r.prev = k.prev
          /\ r.head = k.head /\ r.next = nexts
      BY <1>3, <3>2 DEF nexts
    <3> QED
      BY <1>3, <2>3, <3>3, <3>4
  <2> QED
    BY <2>2, <2>3
<1> HIDE DEF r
<1>12. u # <<>> /\ r.head = u[1]
  <2>1. u # <<>>
    BY <1>1, <1>7
  <2>2. CASE p = 1
    <3>1. 1 \in 1 .. m /\ b + 1 = 1
      BY <1>1, <2>2
    <3>2. u[b + 1] = t[1]
      BY <1>8, <3>1
    <3> QED
      BY <1>11, <2>1, <2>2, <3>1, <3>2
  <2>3. CASE p # 1
    <3>1. 1 \in 1 .. b
      BY <1>1, <2>3
    <3> QED
      BY <1>2, <1>3, <1>8, <1>11, <2>1, <2>3, <3>1
  <2> QED
    BY <2>2, <2>3
<1>13. ASSUME NEW x \in 1 .. m PROVE r.next[t[x]] = k.next[t[x]]
  <2>1. p # 1 => b \in 1 .. b
    BY <1>1
  <2> HIDE DEF b, m, N
  <2>2. t[x] \in N /\ (p # 1 => t[x] # s[b])
    BY <1>9, <1>10, <2>1
  <2> QED
    BY <1>11, <2>2
<1>14. r.next[u[n]] = NULL
  <2>1. m \in 1 .. m /\ b + m = n /\ t # <<>>
    BY <1>1, <1>6
  <2>2. u[n] = t[m]
    BY <1>8, <2>1
  <2>3. k.next[t[m]] = NULL
    BY <1>6, <2>1 DEF IsChain
  <2> QED
    BY <1>13, <2>1, <2>2, <2>3
<1>15. ASSUME NEW q \in 1 .. n - 1 PROVE r.next[u[q]] = u[q + 1]
  <2>1. CASE q < b
    <3>1. q \in 1 .. b /\ q + 1 \in 1 .. b /\ q # b /\ b \in N /\ q \in N
      BY <1>1, <2>1
    <3>2. k.next[s[q]] = l.next[s[q]]
      <4>1. s[q] \in Nodes(l) \ Members(c)
        BY <1>9, <3>1, LinkedSortable
      <4> QED
        BY <1>6, <4>1 DEF Unmoved
    <3>3. s[q] # s[b] /\ s[q] \in N
      BY <1>2, <1>9, <3>1
    <3>4. r.next[s[q]] = s[q + 1]
      <4> HIDE DEF N, b, n
      <4>1. r.next[s[q]] = k.next[s[q]]
        BY <1>11, <3>3
      <4> QED
        BY <1>2, <3>2, <4>1
    <3> HIDE DEF N, b, n, m
    <3> QED
      BY <1>8, <3>1, <3>4
  <2>2. CASE q = b
    <3>1. q \in 1 .. b /\ p # 1 /\ 1 \in 1 .. m
      BY <1>1, <2>2
    <3>2. u[q] = s[b] /\ u[q + 1] = t[1] /\ s[b] \in N
      <4> HIDE DEF N, b, n, m
      <4> QED
        BY <1>8, <1>9, <2>2, <3>1
    <3> HIDE DEF N, b, n, m
    <3> QED
      BY <1>11, <3>1, <3>2
  <2>3. CASE q > b
    <3> DEFINE x == q - b
    <3>1. x \in 1 .. m - 1 /\ x \in 1 .. m /\ x + 1 \in 1 .. m /\ b + x = q /\ b + (x + 1) = q + 1
      BY <1>1, <2>3
    <3> HIDE DEF x
    <3>2. k.next[t[x]] = t[x + 1]
      BY <1>6, <3>1 DEF IsChain
    <3>3. r.next[t[x]] = t[x + 1]
      BY <1>13, <3>1, <3>2
    <3> HIDE DEF N, b, n, m
    <3>4. u[q] = t[x] /\ u[q + 1] = t[x + 1]
      BY <1>8, <3>1
    <3> QED
      BY <3>3, <3>4
  <2> QED
    BY <1>1, <2>1, <2>2, <2>3
<1>16. \A x, y \in N : u[x] = u[y] => x = y
  <2> SUFFICES ASSUME NEW x \in N, NEW y \in N, u[x] = u[y] PROVE x = y
    OBVIOUS
  <2>1. \A z \in N : z \in 1 .. b \/ \E q \in 1 .. m : z = b + q
    BY <1>1, FirstOrSecond
  <2>2. ASSUME NEW i \in 1 .. b, NEW j \in 1 .. m PROVE u[i] # u[b + j]
    <3> HIDE DEF N, b, n, m
    <3> QED
      BY <1>8, <1>9, <1>10
  <2>3. ASSUME NEW i \in 1 .. b, NEW j \in 1 .. b, u[i] = u[j] PROVE i = j
    <3> HIDE DEF N, b, n, m
    <3> QED
      BY <1>2, <1>8, <1>9, <2>3
  <2>4. ASSUME NEW i \in 1 .. m, NEW j \in 1 .. m, u[b + i] = u[b + j] PROVE i = j
    <3>1. t[i] = t[j]
      <4> HIDE DEF N, b, n, m
      <4> QED
        BY <1>8, <2>4
    <3> QED
      BY <1>6, <3>1 DEF IsChain
  <2> HIDE DEF N, b, n, m
  <2> QED
    BY <2>1, <2>2, <2>3, <2>4
<1>17. r.data \in [1 .. n -> Range(r.data)]
  <2>1. Threaded(l, s)
    BY LinkedThreaded
  <2> QED
    BY <1>11, <2>1 DEF Threaded
<1>18. Threaded(r, u)
  <2> HIDE DEF n
  <2> QED
    BY <1>2, <1>3, <1>7, <1>11, <1>12, <1>14, <1>15, <1>16, <1>17 DEF Threaded
<1> QED
  BY <1>7, <1>11, <1>18 DEF r, u, a, b


(* The filters in front: what is before the first join.                    *)
Filters(before) ==
  Min({m \in DOMAIN before : is_pred_join(before[m])} \cup {Len(before) + 1}) - 1

(* The predicates with those from the first join on sorted.                *)
FiltersThenSorted(before) ==
  SubSeq(before, 1, Filters(before))
    \o nodelist_mergesort(SubSeq(before, Filters(before) + 1, Len(before)))

(* The nodes of l in the order s are in the list r, linked along next, in  *)
(* the order of their sorted predicates.                                   *)
Resorted(l, s, r) ==
  \E u : /\ Threaded(r, u) /\ r.data = l.data /\ Len(u) = Len(s)
         /\ DataOf(l, u) = FiltersThenSorted(DataOf(l, s))

(* A comparison of two columns at the head has nothing before it.          *)
JoinsFirst(l, s) == is_pred_join(l.data[s[1]]) => l.prev[s[1]] = NULL

(* SortsThere: there is a sort of the predicates of any set.               *)
LEMMA SortsThere == \A D : \E f, g : Merges(f, D) /\ Sorts(g, f, D)
<1> TAKE D
<1>1. PICK f : Merges(f, D)
  BY MergeExists
<1>2. f \in [Seq(D) \X Seq(D) -> Seq(D)]
  BY <1>1 DEF Merges
<1>3. PICK g : IsSort(g, f, D)
  BY <1>2, SortExists
<1>4. Sorts(g, f, D)
  BY <1>2, <1>3, SortIs
<1> QED
  BY <1>1, <1>4

(* FirstJoinIs: where the joins begin.                                     *)
LEMMA FirstJoinIs ==
  ASSUME NEW l, NEW s, NEW D, Linked(l, s, D)
  PROVE  LET I == {m \in 1 .. Len(s) : is_pred_join(l.data[s[m]])}
         IN  /\ I = {} => FirstJoin(l) = 0 /\ Filters(DataOf(l, s)) = Len(s)
             /\ I # {} => /\ FirstJoin(l) \in I
                          /\ Filters(DataOf(l, s)) = FirstJoin(l) - 1
<1> DEFINE n == Len(s)
           I == {m \in 1 .. n : is_pred_join(l.data[s[m]])}
           d == DataOf(l, s)
           J == {m \in DOMAIN d : is_pred_join(d[m])} \cup {Len(d) + 1}
<1>1. n \in Nat /\ s \in Seq(1 .. n)
  BY DEF Linked
<1>2. d \in Seq(D) /\ Len(d) = n /\ \A m \in 1 .. n : d[m] = l.data[s[m]]
  <2>1. Holds(l, 1 .. n, D)
    BY LinkedSortable
  <2> HIDE DEF n
  <2>2. d \in Seq(D) /\ Len(d) = Len(s) /\ \A m \in 1 .. Len(s) : d[m] = l.data[s[m]]
    BY <1>1, <2>1, DataIs
  <2> QED
    BY <2>2 DEF n
<1> HIDE DEF d
<1>3. DOMAIN d = 1 .. n
  BY <1>2
<1>4. J = I \cup {n + 1}
  BY <1>2, <1>3
<1>5. Chain(l) = s
  BY WalkIs
<1>6. FirstJoin(l) = IF I # {} THEN Min(I) ELSE 0
  BY <1>5 DEF FirstJoin, SelectInSeq
<1>7. Filters(d) = Min(J) - 1
  BY DEF Filters
<1>8. I \subseteq 1 .. n /\ J \in SUBSET Nat /\ J # {} /\ I \in SUBSET Nat
  BY <1>1, <1>4
<1> HIDE DEF I, J
<1>9. Min(J) \in J /\ \A x \in J : Min(J) <= x
  BY <1>8, MinOf
<1>10. CASE I = {}
  <2>1. Min(J) = n + 1
    BY <1>4, <1>9, <1>10
  <2> QED
    BY <1>1, <1>6, <1>7, <1>10, <2>1 DEF d, I, n
<1>11. CASE I # {}
  <2> DEFINE i == Min(I)
             j == Min(J)
  <2>1. i \in I /\ \A x \in I : i <= x
    BY <1>8, <1>11, MinOf
  <2>2. j \in J /\ \A x \in J : j <= x
    BY <1>9
  <2> HIDE DEF i, j
  <2>3. i \in J /\ i \in 1 .. n
    BY <1>4, <1>8, <2>1
  <2>4. j <= i /\ j # n + 1 /\ j \in Nat
    BY <1>1, <1>8, <2>2, <2>3
  <2>5. i <= j
    BY <1>4, <2>1, <2>2, <2>4
  <2>6. i = j
    BY <2>3, <2>4, <2>5
  <2> QED
    BY <1>6, <1>7, <1>11, <2>1, <2>6 DEF d, I, n, i, j
<1> QED
  BY <1>10, <1>11


(* ReorderedIs: query_exec leaves the filters in front and sorts the rest, *)
(* and the nodes are linked along next again.                              *)
LEMMA ReorderedIs ==
  ASSUME NEW l, NEW s, NEW D, Linked(l, s, D), s # <<>>, JoinsFirst(l, s)
  PROVE  Resorted(l, s, Reordered(l))
<1> DEFINE n == Len(s)
           d == DataOf(l, s)
           I == {m \in 1 .. n : is_pred_join(l.data[s[m]])}
           p == FirstJoin(l)
<1>1. n \in Nat \ {0} /\ s \in Seq(1 .. n) /\ Chain(l) = s
  <2>1. s \in Seq(1 .. Len(s))
    BY DEF Linked
  <2> QED
    BY <2>1, WalkIs
<1>2. d \in Seq(D) /\ Len(d) = n
  <2>1. Holds(l, 1 .. n, D)
    BY LinkedSortable
  <2> HIDE DEF n
  <2>2. d \in Seq(D) /\ Len(d) = Len(s)
    BY <1>1, <2>1, DataIs
  <2> QED
    BY <2>2 DEF n
<1>3. PICK f, g : Merges(f, D) /\ Sorts(g, f, D)
  BY SortsThere
<1>4. \A v \in Seq(D) : nodelist_mergesort(v) = g[v]
  <2>1. SortsBy(g, D)
    BY <1>3 DEF SortsBy
  <2> QED
    BY <2>1, MergesortFor
<1>5. CASE I = {}
  <2>1. FirstJoin(l) = 0 /\ Filters(d) = n
    BY <1>5, FirstJoinIs
  <2>2. Reordered(l) = l
    BY <2>1 DEF Reordered
  <2>3. SubSeq(d, 1, n) = d /\ SubSeq(d, n + 1, n) = <<>>
    BY <1>1, <1>2
  <2>4. g[<<>>] = <<>>
    <3>1. <<>> \in Seq(D) /\ Len(<<>>) <= 1
      OBVIOUS
    <3>2. g[<<>>] = SortStep(g, f, <<>>)
      BY <1>3, <3>1 DEF Sorts
    <3> QED
      BY <3>1, <3>2 DEF SortStep
  <2>5. FiltersThenSorted(d) = d
    <3>1. nodelist_mergesort(<<>>) = <<>>
      <4>1. <<>> \in Seq(D)
        OBVIOUS
      <4> QED
        BY <1>4, <2>4, <4>1
    <3>2. FiltersThenSorted(d) = d \o <<>>
      BY <1>2, <2>1, <2>3, <3>1 DEF FiltersThenSorted
    <3> QED
      BY <1>2, <3>2, ConcatEmptySeq
  <2>6. Threaded(l, s)
    BY LinkedThreaded
  <2> QED
    BY <2>2, <2>5, <2>6 DEF Resorted
<1>6. CASE I # {}
  <2> DEFINE c  == SubSeq(s, p, n)
             a  == SubSeq(s, 1, p - 1)
             c0 == Sorted(l, s[p])
             r  == SortNodes(l, s[p])
  <2>1. p \in 1 .. n /\ is_pred_join(l.data[s[p]]) /\ Filters(d) = p - 1
    BY <1>6, FirstJoinIs
  <2> HIDE DEF p
  <2>2. Given(l, c0, c)
    BY <2>1, LastChain
  <2>3. c[1] = s[p] /\ c # <<>>
    BY <2>2 DEF Given, Sorted
  <2>4. Returns(l, g, c0, c, r)
    <3> HIDE DEF c
    <3>1. Given(l, Sorted(l, c[1]), c)
      BY <2>2, <2>3
    <3>2. Sortable(l, D)
      BY LinkedSortable
    <3>3. Returns(l, g, Sorted(l, c[1]), c, SortNodes(l, c[1]))
      BY <1>3, <3>1, <3>2, SortNodesIs
    <3> QED
      BY <2>3, <3>3
  <2> DEFINE k == r.list
  <2>5. PICK t \in Seq(Nodes(l)) :
          /\ t # <<>> /\ r.head = t[1] /\ IsChain(k, t) /\ k \in Relinked(l)
          /\ Members(t) = Members(c) /\ Len(t) = Len(c)
          /\ Unmoved(l, k, Members(c)) /\ DataOf(l, t) = g[DataOf(l, c)]
    BY <2>4 DEF Returns, SortedTo, Sorted
  <2> HIDE DEF r, k, c0
  <2>6. Respliced(l, s, p, k, t)
    <3>1. Nodes(l) = 1 .. Len(s)
      BY LinkedSortable
    <3> QED
      BY <2>5, <3>1 DEF Respliced
  <2> DEFINE q == Spliced(k, s, p, t)
             u == a \o t
  <2>7. Threaded(q, u) /\ q.data = l.data /\ Len(u) = Len(s)
    BY <2>1, <2>6, SplicedThread
  <2>8. Reordered(l) = q
    <3>1. Chain(l)[FirstJoin(l)] = s[p] /\ FirstJoin(l) # 0
      BY <1>1, <2>1 DEF p
    <3>2. CASE p = 1
      <4>1. l.prev[s[p]] = NULL /\ s[p] = l.head
        BY <2>1, <3>2 DEF JoinsFirst, Linked
      <4>2. Reordered(l) = [k EXCEPT !.head = r.head]
        BY <3>1, <4>1 DEF Reordered, r, k
      <4> QED
        BY <2>5, <3>2, <4>2 DEF Spliced
    <3>3. CASE p # 1
      <4>1. p - 1 \in 1 .. n - 1 /\ p - 1 \in 1 .. n /\ (p - 1) + 1 = p
        BY <1>1, <2>1, <3>3
      <4>2. l.prev[s[p]] = s[p - 1]
        <5>1. \A x \in 1 .. n - 1 : l.prev[s[x + 1]] = s[x]
          BY DEF Linked
        <5> QED
          BY <4>1, <5>1
      <4>3. s[p - 1] # NULL
        <5>1. s[p - 1] \in 1 .. n
          BY <1>1, <4>1, ElementOfSeq
        <5> QED
          BY <1>1, <5>1 DEF NULL
      <4>4. Reordered(l) = [k EXCEPT !.next[s[p - 1]] = r.head]
        BY <3>1, <4>2, <4>3 DEF Reordered, r, k
      <4> QED
        BY <2>5, <3>3, <4>4 DEF Spliced
    <3> QED
      BY <3>2, <3>3
  <2>9. DataOf(l, c) = SubSeq(d, p, n)
    <3> DEFINE N == 1 .. n
    <3>1. /\ Holds(l, N, D) /\ s \in Seq(N)
          /\ p \in 1 .. Len(s) /\ n \in p .. Len(s)
      BY <1>1, <2>1, LinkedSortable
    <3> HIDE DEF N, n
    <3> QED
      BY <3>1, DataOfPart
  <2>10. DataOf(l, a) = SubSeq(d, 1, p - 1)
    <3>1. CASE p = 1
      <4>1. SubSeq(s, 1, 0) = <<>> /\ SubSeq(d, 1, 0) = <<>> /\ p - 1 = 0
        BY <1>1, <1>2, <3>1
      <4>2. a = <<>>
        BY <4>1
      <4>3. DataOf(l, <<>>) = <<>>
        BY DEF DataOf
      <4> QED
        BY <4>1, <4>2, <4>3
    <3>2. CASE p # 1
      <4>1. Holds(l, 1 .. n, D) /\ 1 \in 1 .. n /\ p - 1 \in 1 .. n
        BY <1>1, <2>1, <3>2, LinkedSortable
      <4> QED
        BY <1>1, <4>1, DataOfPart
    <3> QED
      BY <3>1, <3>2
  <2>11. DataOf(l, u) = FiltersThenSorted(d)
    <3>1. Holds(l, 1 .. n, D) /\ Nodes(l) = 1 .. n
      BY LinkedSortable
    <3>2. a \in Seq(1 .. n) /\ c \in Seq(1 .. n)
      <4>1. 1 \in 1 .. n + 1 /\ p - 1 \in 1 - 1 .. n /\ p \in 1 .. n + 1 /\ n \in p - 1 .. n
        BY <1>1, <2>1
      <4> DEFINE N == 1 .. n
      <4>2. s \in Seq(N)
        BY <1>1
      <4> HIDE DEF N
      <4> QED
        BY <4>1, <4>2, SubSeqIs DEF N
    <3>t. t \in Seq(1 .. n)
      BY <3>1
    <3>3. DataOf(l, u) = DataOf(l, a) \o DataOf(l, t)
      <4> HIDE DEF a
      <4> QED
        BY <3>1, <3>t, <3>2, DataOfBoth
    <3>4. DataOf(l, c) \in Seq(D)
      BY <3>1, <3>2, DataIs
    <3>5. DataOf(l, t) = nodelist_mergesort(SubSeq(d, p, n))
      BY <1>4, <2>5, <2>9, <3>4
    <3>6. Filters(d) + 1 = p
      BY <2>1
    <3> QED
      BY <1>2, <2>1, <2>10, <3>3, <3>5, <3>6 DEF FiltersThenSorted
  <2> HIDE DEF q, u
  <2> QED
    BY <2>7, <2>8, <2>11 DEF Resorted
<1> QED
  BY <1>5, <1>6

-----------------------------------------------------------------------------
(* Lines *)

PredToken == {t \in Token : t.kind = "pred"}

RelToken == {t \in Token : t.kind = "rel"}

(* The numbers of relations and the predicates of a query's line.          *)
QueryLine(line) ==
  /\ line \in Seq(Token)
  /\ Parsed(line)
  /\ RelsOf(line) \in Seq(RelToken)
  /\ PredsOf(line) \in Seq(PredToken) /\ PredsOf(line) # <<>>
  /\ \A r \in DOMAIN RelsOf(line) : RelsOf(line)[r] = line[r]
  /\ ProjsOf(line) \in Seq(Token)

(* TakenIs: fgets takes something, and no newline but the last token.      *)
LEMMA TakenIs ==
  ASSUME NEW limit \in Nat \ {0, 1}, stdin \in Seq(Token), stdin # <<>>
  PROVE  /\ Taken(limit) \in 1 .. Len(stdin)
         /\ \A k \in 1 .. Taken(limit) - 1 : stdin[k].kind # "nl"
<1> DEFINE T == {k \in DOMAIN stdin : IsNewline(stdin[k])} \cup {limit - 1, Len(stdin)}
<1>1. Len(stdin) \in Nat /\ Len(stdin) >= 1 /\ DOMAIN stdin = 1 .. Len(stdin)
  OBVIOUS
<1>2. T \in SUBSET Nat /\ T # {} /\ (\A x \in T : x >= 1) /\ Len(stdin) \in T
  BY <1>1
<1>3. Min(T) \in T /\ \A x \in T : Min(T) <= x
  <2> HIDE DEF T
  <2> QED
    BY <1>2, MinOf
<1>4. Taken(limit) = Min(T)
  BY DEF Taken
<1>5. Taken(limit) \in 1 .. Len(stdin)
  <2> HIDE DEF T
  <2>1. Min(T) \in Nat /\ Min(T) >= 1 /\ Min(T) <= Len(stdin)
    BY <1>2, <1>3
  <2> QED
    BY <1>1, <1>4, <2>1
<1>6. ASSUME NEW k \in 1 .. Taken(limit) - 1 PROVE ~IsNewline(stdin[k])
  <2>1. k \in DOMAIN stdin /\ k < Min(T)
    BY <1>1, <1>4, <1>5
  <2>2. k \notin T
    <3> HIDE DEF T
    <3>1. k \in T => Min(T) <= k
      BY <1>3
    <3>2. Min(T) \in Nat /\ k \in Nat
      BY <1>4, <1>5
    <3> QED
      BY <2>1, <3>1, <3>2
  <2> QED
    BY <2>1, <2>2
<1> QED
  BY <1>5, <1>6 DEF IsNewline

(* LineIs: the line is what was taken, but for the last character.         *)
LEMMA LineIs ==
  ASSUME NEW limit \in Nat \ {0, 1}, stdin \in Seq(Token), stdin # <<>>
  PROVE  /\ Line(limit) \in Seq(Token)
         /\ Len(Line(limit)) <= Taken(limit)
         /\ \A k \in 1 .. Len(Line(limit)) :
              /\ stdin[k].kind # "nl"
              /\ Line(limit)[k].kind = stdin[k].kind
              /\ k < Len(Line(limit)) => Line(limit)[k] = stdin[k]
<1> DEFINE t == Taken(limit)
           chunk == Chunk(limit)
           line == Line(limit)
<1>1. t \in 1 .. Len(stdin) /\ \A k \in 1 .. t - 1 : stdin[k].kind # "nl"
  BY TakenIs
<1>2. Len(stdin) \in Nat /\ t \in Nat
  BY <1>1
<1> HIDE DEF t
<1>3. /\ chunk \in Seq(Token) /\ Len(chunk) = t
      /\ \A k \in 1 .. t : chunk[k] = stdin[k] /\ stdin[k] \in Token
  <2>1. 1 \in 1 .. Len(stdin) + 1 /\ t \in 1 - 1 .. Len(stdin) /\ t - 1 + 1 = t
    BY <1>1, <1>2
  <2>2. \A k \in 1 .. t : 1 + k - 1 = k
    BY <1>2
  <2>3. /\ SubSeq(stdin, 1, t) \in Seq(Token) /\ Len(SubSeq(stdin, 1, t)) = t - 1 + 1
        /\ \A k \in 1 .. t - 1 + 1 :
             SubSeq(stdin, 1, t)[k] = stdin[1 + k - 1] /\ stdin[1 + k - 1] \in Token
    BY <2>1, SubSeqIs
  <2> QED
    BY <2>1, <2>2, <2>3 DEF Chunk, t
<1>4. line = Cropped(chunk)
  BY DEF Line
<1> HIDE DEF chunk, line
<1>5. CASE stdin[t].kind \in OneCharacter
  <2>1. 1 \in 1 .. Len(chunk) + 1 /\ t - 1 \in 1 - 1 .. Len(chunk) /\ t - 1 - 1 + 1 = t - 1
    BY <1>1, <1>2, <1>3
  <2>2. line = SubSeq(chunk, 1, t - 1)
    BY <1>1, <1>3, <1>4, <1>5 DEF Cropped, Last, Front
  <2>3. /\ SubSeq(chunk, 1, t - 1) \in Seq(Token) /\ Len(SubSeq(chunk, 1, t - 1)) = t - 1 - 1 + 1
        /\ \A k \in 1 .. t - 1 - 1 + 1 : SubSeq(chunk, 1, t - 1)[k] = chunk[1 + k - 1]
    BY <1>3, <2>1, SubSeqIs
  <2>4. \A k \in 1 .. t - 1 : k \in 1 .. t /\ 1 + k - 1 = k
    BY <1>2
  <2>5. line \in Seq(Token) /\ Len(line) = t - 1 /\ \A k \in 1 .. t - 1 : line[k] = stdin[k]
    BY <1>3, <2>1, <2>2, <2>3, <2>4
  <2> QED
    BY <1>1, <1>2, <2>5 DEF line, t
<1>6. CASE stdin[t].kind \notin OneCharacter
  <2>1. t \in 1 .. t
    BY <1>1, <1>2
  <2>2. line = [chunk EXCEPT ![t].cut = TRUE]
    BY <1>3, <1>4, <1>6, <2>1 DEF Cropped, Last
  <2>3. chunk[t] \in Token /\ DOMAIN chunk = 1 .. t
    BY <1>3, <2>1
  <2>4. [chunk[t] EXCEPT !.cut = TRUE] \in Token /\ [chunk[t] EXCEPT !.cut = TRUE].kind = chunk[t].kind
    BY <2>3 DEF Token
  <2>5. /\ DOMAIN line = 1 .. t
        /\ \A k \in 1 .. t : line[k] \in Token /\ line[k].kind = stdin[k].kind
        /\ \A k \in 1 .. t : k # t => line[k] = stdin[k]
    BY <1>3, <2>2, <2>3, <2>4
  <2>6. line \in Seq(Token) /\ Len(line) = t
    <3>1. line = [k \in 1 .. t |-> line[k]]
      BY <2>2, <2>5
    <3>2. line \in [1 .. t -> Token]
      BY <2>5, <3>1
    <3> QED
      BY <1>2, <3>2, FunctionIsSeq
  <2>7. stdin[t].kind # "nl"
    BY <1>6 DEF OneCharacter
  <2>8. \A k \in 1 .. t : stdin[k].kind # "nl"
    BY <1>1, <1>2, <2>7
  <2> QED
    BY <1>2, <2>5, <2>6, <2>8 DEF line, t
<1> QED
  BY <1>5, <1>6

(* QueryLineIs: a line that sscanf takes apart has relations and           *)
(* predicates where query_init looks for them.                             *)
LEMMA QueryLineIs ==
  ASSUME NEW limit \in Nat \ {0, 1}, WellWritten(stdin), stdin # <<>>, Parsed(Line(limit))
  PROVE  QueryLine(Line(limit))
<1> DEFINE line == Line(limit)
           n == Len(line)
           b == Min(Bars(line))
           c == Max(Bars(line))
<1>1. /\ line \in Seq(Token) /\ n <= Len(stdin) /\ stdin \in Seq(Token)
      /\ \A k \in 1 .. n : /\ stdin[k].kind # "nl" /\ line[k].kind = stdin[k].kind
                           /\ k < n => line[k] = stdin[k]
  <2>1. stdin \in Seq(Token)
    BY DEF WellWritten
  <2>2. Taken(limit) \in 1 .. Len(stdin) /\ Len(line) <= Taken(limit)
    BY <2>1, TakenIs, LineIs
  <2>3. Len(line) <= Len(stdin)
    <3>1. Len(stdin) \in Nat /\ Len(line) \in Nat
      BY <2>1, LineIs
    <3> HIDE DEF line
    <3> QED
      BY <2>2, <3>1
  <2> QED
    BY <2>1, <2>3, LineIs
<1>2. Parsed(line)
  OBVIOUS
<1> HIDE DEF line
<1>3. n \in Nat /\ Len(stdin) \in Nat /\ DOMAIN line = 1 .. n /\ DOMAIN stdin = 1 .. Len(stdin)
  BY <1>1
<1>4. Bars(line) \in SUBSET (1 .. n) /\ Bars(line) # {}
  <2>1. Bars(line) # {}
    <3>1. Cardinality(Bars(line)) = 2
      BY <1>2 DEF Parsed
    <3>2. Bars(line) = {} => Cardinality(Bars(line)) = 0
      BY FS_EmptySet
    <3> QED
      BY <3>1, <3>2
  <2> QED
    BY <1>3, <2>1 DEF Bars
<1>5. b \in Bars(line) /\ c \in Bars(line)
  <2>1. Bars(line) \in SUBSET Nat
    BY <1>4
  <2> QED
    BY <1>3, <1>4, <2>1, MinOf, MaxOf
<1>6. b > 1 /\ c < n /\ c > b + 1
  BY <1>2 DEF Parsed
<1> HIDE DEF b, c
<1>7. b \in 1 .. n /\ c \in 1 .. n
  BY <1>4, <1>5
<1>8. b \in Bars(stdin) /\ c \in Bars(stdin)
  <2>1. b \in DOMAIN stdin /\ c \in DOMAIN stdin
    BY <1>1, <1>3, <1>7
  <2> QED
    BY <1>1, <1>5, <1>7, <2>1 DEF Bars
<1>9. OneLine(stdin, b, c)
  BY <1>1, <1>3, <1>7 DEF OneLine
<1>10. \A k \in b + 1 .. c - 1 : stdin[k].kind = "pred"
  BY <1>3, <1>6, <1>7, <1>8, <1>9 DEF WellWritten
<1>11. \A k \in 1 .. b - 1 : stdin[k].kind = "rel"
  <2>1. \A k \in 1 .. b - 1 : OneLine(stdin, k, b)
    BY <1>1, <1>3, <1>7 DEF OneLine
  <2> QED
    BY <1>3, <1>6, <1>7, <1>8, <1>9, <2>1 DEF WellWritten
<1>12. \A k \in 1 .. n : line[k] \in Token
  BY <1>1, ElementOfSeq
<1>13. /\ RelsOf(line) \in Seq(Token) /\ Len(RelsOf(line)) = b - 1
       /\ \A r \in 1 .. b - 1 : RelsOf(line)[r] = line[r] /\ line[r] \in RelToken
  <2>1. 1 \in 1 .. n + 1 /\ b - 1 \in 1 - 1 .. n /\ b - 1 - 1 + 1 = b - 1
    BY <1>3, <1>7
  <2>2. /\ SubSeq(line, 1, b - 1) \in Seq(Token) /\ Len(SubSeq(line, 1, b - 1)) = b - 1 - 1 + 1
        /\ \A k \in 1 .. b - 1 - 1 + 1 : SubSeq(line, 1, b - 1)[k] = line[1 + k - 1]
    BY <1>1, <2>1, SubSeqIs
  <2>3. ASSUME NEW r \in 1 .. b - 1 PROVE 1 + r - 1 = r /\ line[r] \in RelToken
    <3>1. r \in 1 .. n /\ 1 + r - 1 = r
      BY <1>3, <1>7
    <3> QED
      BY <1>1, <1>11, <1>12, <3>1 DEF RelToken
  <2> QED
    BY <2>1, <2>2, <2>3 DEF RelsOf, b
<1>14. /\ PredsOf(line) \in Seq(Token) /\ Len(PredsOf(line)) = c - b - 1
       /\ \A k \in 1 .. c - b - 1 : PredsOf(line)[k] \in PredToken
  <2>1. /\ b + 1 \in 1 .. n + 1 /\ c - 1 \in b + 1 - 1 .. n
        /\ (c - 1) - (b + 1) + 1 = c - b - 1
    BY <1>3, <1>6, <1>7
  <2>2. /\ SubSeq(line, b + 1, c - 1) \in Seq(Token)
        /\ Len(SubSeq(line, b + 1, c - 1)) = (c - 1) - (b + 1) + 1
        /\ \A k \in 1 .. (c - 1) - (b + 1) + 1 : SubSeq(line, b + 1, c - 1)[k] = line[b + 1 + k - 1]
    <3> DEFINE x == b + 1
               y == c - 1
    <3>1. x \in 1 .. Len(line) + 1 /\ y \in x - 1 .. Len(line)
      BY <1>3, <1>6, <1>7, <2>1
    <3> HIDE DEF x, y
    <3>2. /\ SubSeq(line, x, y) \in Seq(Token) /\ Len(SubSeq(line, x, y)) = y - x + 1
          /\ \A k \in 1 .. y - x + 1 : SubSeq(line, x, y)[k] = line[x + k - 1]
      BY <1>1, <3>1, SubSeqIs
    <3> QED
      BY <3>2 DEF x, y
  <2>3. ASSUME NEW k \in 1 .. c - b - 1 PROVE line[b + 1 + k - 1] \in PredToken
    <3>1. b + 1 + k - 1 \in 1 .. n /\ b + 1 + k - 1 \in b + 1 .. c - 1
      BY <1>3, <1>7
    <3> QED
      BY <1>1, <1>10, <1>12, <3>1 DEF PredToken
  <2> QED
    BY <2>1, <2>2, <2>3 DEF PredsOf, b, c
<1>15. RelsOf(line) \in Seq(RelToken) /\ \A r \in DOMAIN RelsOf(line) : RelsOf(line)[r] = line[r]
  <2>1. DOMAIN RelsOf(line) = 1 .. b - 1
    BY <1>13
  <2>2. RelsOf(line) \in [1 .. b - 1 -> RelToken]
    BY <1>13, <2>1
  <2>3. b - 1 \in Nat
    BY <1>7
  <2> QED
    BY <1>13, <2>1, <2>2, <2>3, FunctionIsSeq
<1>16. PredsOf(line) \in Seq(PredToken) /\ PredsOf(line) # <<>>
  <2>1. c - b - 1 \in Nat /\ c - b - 1 # 0
    BY <1>6, <1>7
  <2>2. PredsOf(line) \in [1 .. c - b - 1 -> PredToken]
    BY <1>14
  <2>3. PredsOf(line) \in Seq(PredToken)
    BY <2>1, <2>2, FunctionIsSeq
  <2>4. PredsOf(line) # <<>>
    BY <1>14, <2>1
  <2> QED
    BY <2>3, <2>4
<1>17. ProjsOf(line) \in Seq(Token)
  <2> DEFINE x == c + 1
  <2>1. x \in 1 .. Len(line) + 1 /\ n \in x - 1 .. Len(line)
    BY <1>3, <1>7
  <2> HIDE DEF x, n
  <2>2. SubSeq(line, x, n) \in Seq(Token)
    BY <1>1, <2>1, SubSeqIs
  <2> QED
    BY <2>2 DEF x, n, c, ProjsOf
<1> QED
  BY <1>1, <1>2, <1>15, <1>16, <1>17 DEF QueryLine, line

(* LessIsWellWritten: what is left of the input.                           *)
LEMMA LessIsWellWritten ==
  ASSUME NEW limit \in Nat \ {0, 1}, WellWritten(stdin), stdin # <<>>
  PROVE  WellWritten(SubSeq(stdin, Taken(limit) + 1, Len(stdin)))
<1> DEFINE t == Taken(limit)
           rest == SubSeq(stdin, t + 1, Len(stdin))
           n == Len(stdin)
<1>1. t \in 1 .. n /\ n \in Nat /\ stdin \in Seq(Token)
  BY TakenIs DEF WellWritten
<1> HIDE DEF t
<1>2. /\ rest \in Seq(Token) /\ DOMAIN rest = 1 .. n - t
      /\ \A k \in 1 .. n - t : rest[k] = stdin[k + t]
  <2>1. t + 1 \in 1 .. n + 1 /\ n \in t + 1 - 1 .. n /\ n - (t + 1) + 1 = n - t
    BY <1>1
  <2>2. /\ rest \in Seq(Token) /\ Len(rest) = n - (t + 1) + 1
        /\ \A k \in 1 .. n - (t + 1) + 1 : rest[k] = stdin[t + 1 + k - 1]
    <3> DEFINE x == t + 1
    <3>1. x \in 1 .. Len(stdin) + 1 /\ n \in x - 1 .. Len(stdin)
      BY <2>1
    <3> HIDE DEF x, n
    <3>2. /\ SubSeq(stdin, x, n) \in Seq(Token) /\ Len(SubSeq(stdin, x, n)) = n - x + 1
          /\ \A k \in 1 .. n - x + 1 : SubSeq(stdin, x, n)[k] = stdin[x + k - 1]
      BY <1>1, <3>1, SubSeqIs
    <3> QED
      BY <3>2 DEF x, n
  <2>3. \A k \in 1 .. n - t : t + 1 + k - 1 = k + t
    BY <1>1
  <2> HIDE DEF rest
  <2>4. DOMAIN rest = 1 .. Len(rest)
    BY <2>2
  <2> QED
    BY <2>1, <2>2, <2>3, <2>4
<1>3. DOMAIN stdin = 1 .. n
  BY <1>1
<1> HIDE DEF rest, n
<1>4. \A k \in DOMAIN rest : k + t \in DOMAIN stdin /\ rest[k] = stdin[k + t]
  BY <1>1, <1>2, <1>3
<1>5. \A k \in DOMAIN rest : ~rest[k].cut
  BY <1>4 DEF WellWritten
<1>6. ASSUME NEW b \in Bars(rest), NEW c \in Bars(rest), b < c, OneLine(rest, b, c)
      PROVE  /\ \A k \in b + 1 .. c - 1 : rest[k].kind = "pred"
             /\ \A k \in 1 .. b - 1 : OneLine(rest, k, b) => rest[k].kind = "rel"
  <2>1. b \in 1 .. n - t /\ c \in 1 .. n - t
    BY <1>2 DEF Bars
  <2>2. b + t \in Bars(stdin) /\ c + t \in Bars(stdin) /\ b + t < c + t
    BY <1>1, <1>4, <1>6, <2>1 DEF Bars
  <2>3. ASSUME NEW x \in 1 .. n - t, NEW y \in 1 .. n - t, OneLine(rest, x, y)
        PROVE  OneLine(stdin, x + t, y + t)
    <3> SUFFICES ASSUME NEW k \in x + t .. y + t PROVE stdin[k].kind # "nl"
      BY DEF OneLine
    <3>1. k - t \in x .. y /\ k - t \in 1 .. n - t /\ (k - t) + t = k
      BY <1>1
    <3> QED
      BY <1>2, <2>3, <3>1 DEF OneLine
  <2>4. OneLine(stdin, b + t, c + t)
    BY <1>6, <2>1, <2>3
  <2>5. ASSUME NEW k \in b + 1 .. c - 1 PROVE rest[k].kind = "pred"
    <3>1. k + t \in (b + t) + 1 .. (c + t) - 1 /\ k \in 1 .. n - t
      BY <1>1, <2>1
    <3>2. stdin[k + t].kind = "pred"
      BY <2>2, <2>4, <3>1 DEF WellWritten
    <3> QED
      BY <1>2, <3>1, <3>2
  <2>6. ASSUME NEW k \in 1 .. b - 1, OneLine(rest, k, b) PROVE rest[k].kind = "rel"
    <3>1. k + t \in 1 .. (b + t) - 1 /\ k \in 1 .. n - t
      BY <1>1, <2>1
    <3>2. OneLine(stdin, k + t, b + t)
      BY <2>1, <2>3, <2>6, <3>1
    <3>3. stdin[k + t].kind = "rel"
      BY <2>2, <2>4, <3>1, <3>2 DEF WellWritten
    <3> QED
      BY <1>2, <3>1, <3>3
  <2> QED
    BY <2>5, <2>6
<1>7. WellWritten(rest)
  BY <1>2, <1>5, <1>6 DEF WellWritten
<1> QED
  BY <1>7 DEF rest, n, t
-----------------------------------------------------------------------------
(* The invariant *)

Relations ==
  [path : Seq(Token), rows : Nat \cup {Unset}, cols : Nat \cup {Unset},
   mapped : Nat \cup {Unset}]

(* The numbers of the relations: the first n of them.                      *)
Numbers(n) == [k \in 1 .. n |-> k]

(* rel_list has a node for every line up to "done", in their order, with   *)
(* what rel_init made of it.                                               *)
RelInv ==
  /\ rel_list.length \in Nat /\ Linked(rel_list, Numbers(rel_list.length), Relations)
  /\ lines \in Seq([text : Seq(Token), whole : BOOLEAN])
  /\ rel_list.length <= Len(lines)
  /\ pc = "relations" => rel_list.length = Len(lines)
  /\ \A n \in 1 .. rel_list.length : rel_list.data[n] = rel_init(lines[n].text)

Queries(P) ==
  [rels : Seq(Nat), preds : P, projs : Seq(Token), text : Seq(Token),
   stage : {"read", "running", "ordered", "empty"}]

(* A query refers to the relations by the numbers of its line, and until   *)
(* its joins are sorted its predicates are linked as they were read.       *)
QueryOK(query) ==
  /\ QueryLine(query.text)
  /\ query.preds = IF query.stage = "ordered" THEN Reordered(Predicates(query.text))
                   ELSE Predicates(query.text)
  /\ \A r \in DOMAIN RelsOf(query.text) : RelsOf(query.text)[r].index < rel_list.length
  /\ query.rels = [r \in DOMAIN RelsOf(query.text) |-> RelsOf(query.text)[r].index + 1]

(* P stands for the lists that the sort leaves.                            *)
BatchesInv ==
  /\ \E P : batches \in Seq(Seq(Queries(P)))
  /\ pc = "relations" => batches = <<>>
  /\ end_of_batch \in BOOLEAN
  /\ ~end_of_batch => batches # <<>>
  /\ \A b \in DOMAIN batches : \A q \in DOMAIN batches[b] : QueryOK(batches[b][q])

ReadInv == WellWritten(stdin) /\ RelInv /\ BatchesInv

(* What data_size becomes of a number of words.                            *)
Wrapped(size) == size % SizeWords

(* WrappedIs: data_size is the size, if a size_t can hold it.              *)
LEMMA WrappedIs ==
  ASSUME NEW size \in Nat
  PROVE  /\ SizeWords \in Nat \ {0}
         /\ Wrapped(size) \in Nat
         /\ size < SizeWords => Wrapped(size) = size
<1> DEFINE n == SizeWords
<1>1. n \in Nat /\ n # 0
  <2>1. \A w \in Nat : w # 0 /\ w % 8 = 0 => w \div 8 \in Nat /\ w \div 8 # 0
    OBVIOUS
  <2>2. WordValues \in Nat /\ WordValues # 0 /\ WordValues % 8 = 0
    BY InputAssumption
  <2> QED
    BY <2>1, <2>2 DEF SizeWords
<1> HIDE DEF n
<1>2. \A w, m \in Nat : m # 0 => w % m \in Nat /\ (w < m => w % m = w)
  OBVIOUS
<1>3. size % n \in Nat /\ (size < n => size % n = size)
  BY <1>1, <1>2
<1> QED
  BY <1>1, <1>3 DEF n, Wrapped

(* RelationTyped: what rel_init returns.                                   *)
LEMMA RelationTyped ==
  ASSUME NEW path \in Seq(Token)
  PROVE  rel_init(path) \in Relations /\ rel_init(path).path = path
<1> DEFINE file == Files[path]
           size == Wrapped(file.rows * file.cols)
           rel  == [path |-> path, rows |-> Unset, cols |-> Unset, mapped |-> Unset]
<1>1. CASE path \notin DOMAIN Files \/ file.words = 0
  BY <1>1 DEF rel_init, Relations
<1>2. CASE path \in DOMAIN Files /\ file.words # 0
  <2>1. file \in [words : Nat, rows : Nat, cols : Nat]
    BY <1>2, InputAssumption
  <2>2. file.rows \in Nat /\ file.cols \in Nat /\ size \in Nat
    <3>1. file.rows \in Nat /\ file.cols \in Nat
      BY <2>1
    <3>2. file.rows * file.cols \in Nat
      BY <3>1
    <3> QED
      BY <3>1, <3>2, WrappedIs
  <2>3. RoundUp(size) \in Nat
    <3>1. \A w, p \in Nat : p # 0 => ((w + p - 1) \div p) * p \in Nat
      OBVIOUS
    <3>2. PageWords \in Nat /\ PageWords # 0
      BY InputAssumption
    <3> HIDE DEF size
    <3> QED
      BY <2>2, <3>1, <3>2 DEF RoundUp
  <2> DEFINE extent == IF \/ file.words < (size + 2) % SizeWords
                          \/ size = 0 \/ size + 2 >= SizeWords
                         THEN Unset ELSE RoundUp(size)
  <2>4. extent \in Nat \cup {Unset}
    BY <2>3
  <2>5. CASE file.words = 1
    <3>1. rel_init(path) = [rel EXCEPT !.rows = file.rows]
      BY <1>2, <2>5 DEF rel_init
    <3> QED
      BY <2>2, <3>1 DEF Relations
  <2>6. CASE file.words # 1
    <3>1. rel_init(path) = [rel EXCEPT !.rows = file.rows, !.cols = file.cols, !.mapped = extent]
      BY <1>2, <2>6 DEF rel_init, Wrapped
    <3> HIDE DEF extent, file
    <3> QED
      BY <2>2, <2>4, <3>1 DEF Relations
  <2> QED
    BY <2>5, <2>6
<1> QED
  BY <1>1, <1>2

(* RelationAppended: the list of the relations with one more.              *)
LEMMA RelationAppended ==
  ASSUME NEW l, NEW n \in Nat, Linked(l, Numbers(n), Relations), NEW rel \in Relations
  PROVE  /\ Linked(list_insert(l, "LIST_END", rel), Numbers(n + 1), Relations)
         /\ list_insert(l, "LIST_END", rel).length = n + 1
         /\ list_insert(l, "LIST_END", rel).data[n + 1] = rel
         /\ \A k \in 1 .. n : list_insert(l, "LIST_END", rel).data[k] = l.data[k]
<1>1. Numbers(n) \in Seq(Nat) /\ Len(Numbers(n)) = n
  <2>1. Numbers(n) \in [1 .. n -> Nat]
    BY DEF Numbers
  <2> QED
    BY <2>1, FunctionIsSeq
<1>2. Numbers(n + 1) \in Seq(Nat) /\ Len(Numbers(n + 1)) = n + 1
  <2>1. Numbers(n + 1) \in [1 .. n + 1 -> Nat] /\ n + 1 \in Nat
    BY DEF Numbers
  <2> QED
    BY <2>1, FunctionIsSeq
<1>3. Append(Numbers(n), n + 1) = Numbers(n + 1)
  <2>1. /\ Append(Numbers(n), n + 1) \in Seq(Nat) /\ Len(Append(Numbers(n), n + 1)) = n + 1
        /\ Append(Numbers(n), n + 1)[n + 1] = n + 1
        /\ \A p \in 1 .. n : Append(Numbers(n), n + 1)[p] = Numbers(n)[p]
    <3>1. n + 1 \in Nat
      OBVIOUS
    <3> QED
      BY <1>1, <3>1, AppendIs
  <2>2. \A p \in 1 .. n + 1 : Append(Numbers(n), n + 1)[p] = Numbers(n + 1)[p]
    <3>1. \A p \in 1 .. n + 1 : Numbers(n + 1)[p] = p
      BY DEF Numbers
    <3>2. \A p \in 1 .. n : Numbers(n)[p] = p
      BY DEF Numbers
    <3>3. \A p \in 1 .. n + 1 : p \in 1 .. n \/ p = n + 1
      OBVIOUS
    <3> QED
      BY <2>1, <3>1, <3>2, <3>3
  <2> QED
    BY <1>2, <2>1, <2>2, SeqEqual
<1> DEFINE k == list_insert(l, "LIST_END", rel)
<1>4. k = list_add_end(l, rel)
  BY DEF list_insert
<1>5. Linked(k, Numbers(n + 1), Relations)
  BY <1>1, <1>3, <1>4, AddedAtEnd
<1>6. l.data \in Seq(Relations) /\ Len(l.data) = n /\ l.length = n
  BY <1>1 DEF Linked
<1>7. k.length = n + 1 /\ k.data = Append(l.data, rel)
  BY <1>4, <1>6 DEF list_add_end
<1>8. k.data[n + 1] = rel /\ \A m \in 1 .. n : k.data[m] = l.data[m]
  BY <1>6, <1>7, AppendIs
<1> QED
  BY <1>5, <1>7, <1>8

(* ReadInit: nothing has been read.                                        *)
LEMMA ReadInit == Init => ReadInv
<1> SUFFICES ASSUME Init PROVE ReadInv
  OBVIOUS
<1>1. WellWritten(stdin)
  BY InputAssumption DEF Init
<1>2. RelInv
  <2>1. Numbers(0) = <<>>
    BY DEF Numbers
  <2>2. rel_list = EmptyList /\ rel_list.length = 0 /\ lines = <<>>
    BY DEF Init, EmptyList
  <2>3. Linked(rel_list, Numbers(0), Relations)
    BY <2>1, <2>2, NothingLinked
  <2>4. Len(lines) = 0 /\ lines \in Seq([text : Seq(Token), whole : BOOLEAN])
    BY <2>2
  <2> QED
    BY <2>2, <2>3, <2>4 DEF RelInv
<1>3. BatchesInv
  <2>1. batches = <<>> /\ end_of_batch = TRUE
    BY DEF Init
  <2>2. batches \in Seq(Seq(Queries({})))
    BY <2>1
  <2>3. DOMAIN batches = {}
    BY <2>1
  <2> QED
    BY <2>1, <2>2, <2>3 DEF BatchesInv
<1> QED
  BY <1>1, <1>2, <1>3 DEF ReadInv

(* FgetsIs: what a call of fgets leaves, and the line it adds.             *)
LEMMA FgetsIs ==
  ASSUME NEW limit \in Nat \ {0, 1}, ReadInv, stdin # <<>>, Fgets(limit)
  PROVE  /\ WellWritten(stdin)'
         /\ lines' \in Seq([text : Seq(Token), whole : BOOLEAN])
         /\ Len(lines') = Len(lines) + 1
         /\ lines'[Len(lines) + 1].text = Line(limit)
         /\ lines'[Len(lines) + 1].whole <=> IsNewline(Last(Chunk(limit)))
         /\ \A k \in 1 .. Len(lines) : lines'[k] = lines[k]
         /\ Line(limit) \in Seq(Token)
<1> DEFINE new == [text |-> Line(limit), whole |-> IsNewline(Last(Chunk(limit)))]
<1>1. WellWritten(stdin) /\ stdin \in Seq(Token)
  BY DEF ReadInv, WellWritten
<1>2. WellWritten(stdin)'
  <2>1. stdin' = SubSeq(stdin, Taken(limit) + 1, Len(stdin))
    BY DEF Fgets
  <2>2. WellWritten(SubSeq(stdin, Taken(limit) + 1, Len(stdin)))
    BY <1>1, LessIsWellWritten
  <2>3. WellWritten(stdin')
    BY <2>1, <2>2
  <2> QED
    BY <2>3 DEF WellWritten, Bars, OneLine
<1>3. Line(limit) \in Seq(Token)
  BY <1>1, LineIs
<1>4. new \in [text : Seq(Token), whole : BOOLEAN] /\ new.text = Line(limit)
  BY <1>3 DEF IsNewline
<1>8. new.whole <=> IsNewline(Last(Chunk(limit)))
  BY Zenon
<1>5. lines' = Append(lines, new)
  BY DEF Fgets
<1>6. lines \in Seq([text : Seq(Token), whole : BOOLEAN])
  BY DEF ReadInv, RelInv
<1> HIDE DEF new
<1>7. /\ lines' \in Seq([text : Seq(Token), whole : BOOLEAN])
      /\ Len(lines') = Len(lines) + 1
      /\ lines'[Len(lines) + 1] = new
      /\ \A k \in 1 .. Len(lines) : lines'[k] = lines[k]
  BY <1>4, <1>5, <1>6, AppendIs
<1> QED
  BY <1>2, <1>3, <1>4, <1>7, <1>8

(* RelationsKept: a line more, once the relations have been read.          *)
LEMMA RelationsKept ==
  ASSUME RelInv, UNCHANGED rel_list, pc' # "relations",
         \/ UNCHANGED lines
         \/ /\ lines' \in Seq([text : Seq(Token), whole : BOOLEAN])
            /\ Len(lines') = Len(lines) + 1
            /\ \A k \in 1 .. Len(lines) : lines'[k] = lines[k]
  PROVE  RelInv'
<1>1. lines \in Seq([text : Seq(Token), whole : BOOLEAN]) /\ Len(lines) \in Nat
  BY DEF RelInv
<1>2. lines' \in Seq([text : Seq(Token), whole : BOOLEAN]) /\ Len(lines') >= Len(lines)
  BY <1>1
<1>3. \A k \in 1 .. Len(lines) : lines'[k] = lines[k]
  OBVIOUS
<1>4. rel_list.length \in Nat /\ rel_list.length <= Len(lines) /\ Len(lines') \in Nat
  BY <1>2 DEF RelInv
<1>5. rel_list.length <= Len(lines')
  BY <1>1, <1>2, <1>4
<1>6. \A n \in 1 .. rel_list.length : n \in 1 .. Len(lines)
  BY <1>1, <1>4
<1>7. \A n \in 1 .. rel_list.length : rel_list.data[n] = rel_init(lines'[n].text)
  BY <1>3, <1>6 DEF RelInv
<1>8. Linked(rel_list, Numbers(rel_list.length), Relations)
  BY DEF RelInv
<1>9. rel_list' = rel_list /\ rel_list.length' = rel_list.length
  OBVIOUS
<1>10. (Linked(rel_list, Numbers(rel_list.length), Relations))'
  BY <1>8, <1>9 DEF Linked
<1>11. (\A n \in 1 .. rel_list.length : rel_list.data[n] = rel_init(lines[n].text))'
  BY <1>7, <1>9
<1> QED
  BY <1>2, <1>4, <1>5, <1>9, <1>10, <1>11 DEF RelInv

(* BatchesKept: the queries as they were.                                  *)
LEMMA BatchesKept ==
  ASSUME BatchesInv, UNCHANGED <<batches, end_of_batch>>, pc' = "relations" => pc = "relations",
         UNCHANGED rel_list \/ pc = "relations"
  PROVE  BatchesInv'
<1>1. /\ batches' = batches /\ end_of_batch' = end_of_batch
      /\ \E P : batches' \in Seq(Seq(Queries(P)))
      /\ pc' = "relations" => batches' = <<>>
      /\ end_of_batch' \in BOOLEAN
      /\ ~end_of_batch' => batches' # <<>>
  BY DEF BatchesInv
<1>2. ASSUME NEW b \in DOMAIN batches', NEW q \in DOMAIN batches'[b]
      PROVE  QueryOK(batches[b][q])'
  <2>1. batches # <<>>
    BY <1>1
  <2>2. rel_list' = rel_list /\ QueryOK(batches[b][q])
    BY <1>1, <2>1 DEF BatchesInv
  <2> QED
    BY <1>1, <2>2 DEF QueryOK
<1> QED
  BY <1>1, <1>2 DEF BatchesInv

(* ReadRelationStep: every line of a relation adds a node.                 *)
LEMMA ReadRelationStep ==
  ASSUME ReadInv, ReadRelation
  PROVE  ReadInv'
<1>1. MaxPath \in Nat \ {0, 1} /\ Fgets(MaxPath) /\ stdin # <<>> /\ pc = "relations"
  BY InputAssumption DEF ReadRelation
<1> DEFINE line == Line(MaxPath)
           n == rel_list.length
<1>2. /\ WellWritten(stdin)'
      /\ lines' \in Seq([text : Seq(Token), whole : BOOLEAN])
      /\ Len(lines') = Len(lines) + 1
      /\ lines'[Len(lines) + 1].text = line
      /\ \A k \in 1 .. Len(lines) : lines'[k] = lines[k]
      /\ line \in Seq(Token)
  BY <1>1, FgetsIs
<1>3. RelInv /\ BatchesInv /\ n = Len(lines) /\ n \in Nat
  BY <1>1 DEF ReadInv, RelInv
<1>4. CASE Is(line, "done")
  <2>1. pc' = "queries" /\ UNCHANGED <<rel_list, batches, end_of_batch>>
    BY <1>4 DEF ReadRelation
  <2>2. RelInv'
    BY <1>2, <1>3, <2>1, RelationsKept
  <2>3. BatchesInv'
    BY <1>3, <2>1, BatchesKept
  <2> QED
    BY <1>2, <2>2, <2>3 DEF ReadInv
<1>5. CASE ~Is(line, "done")
  <2> DEFINE rel == rel_init(line)
  <2>1. /\ rel_list' = list_insert(rel_list, "LIST_END", rel)
        /\ pc' = pc /\ batches' = batches /\ end_of_batch' = end_of_batch
    BY <1>5 DEF ReadRelation
  <2>2. rel \in Relations
    BY <1>2, RelationTyped
  <2> HIDE DEF rel, line
  <2>3. /\ Linked(rel_list', Numbers(n + 1), Relations)
        /\ rel_list'.length = n + 1
        /\ rel_list'.data[n + 1] = rel
        /\ \A k \in 1 .. n : rel_list'.data[k] = rel_list.data[k]
    BY <1>3, <2>1, <2>2, RelationAppended DEF RelInv
  <2>4. ASSUME NEW k \in 1 .. n + 1 PROVE rel_list'.data[k] = rel_init(lines'[k].text)
    <3>1. CASE k = n + 1
      BY <1>2, <1>3, <2>3, <3>1 DEF rel, line
    <3>2. CASE k # n + 1
      <4>1. k \in 1 .. n
        BY <1>3, <3>2
      <4> QED
        BY <1>2, <1>3, <2>3, <4>1 DEF RelInv
    <3> QED
      BY <3>1, <3>2
  <2>5. RelInv'
    <3>1. rel_list.length' = n + 1 /\ n + 1 \in Nat /\ Len(lines)' = n + 1
      BY <1>2, <1>3, <2>3
    <3>2. (Linked(rel_list, Numbers(rel_list.length), Relations))'
      BY <2>3 DEF Linked
    <3>3. (\A k \in 1 .. rel_list.length : rel_list.data[k] = rel_init(lines[k].text))'
      BY <2>4, <3>1
    <3> QED
      BY <1>2, <3>1, <3>2, <3>3 DEF RelInv
  <2>6. BatchesInv'
    BY <1>1, <1>3, <2>1, BatchesKept
  <2> QED
    BY <1>2, <2>5, <2>6 DEF ReadInv
<1> QED
  BY <1>4, <1>5

(* QueryIs: query_init makes a query whose relations and predicates are    *)
(* those of its line.                                                      *)
LEMMA QueryIs ==
  ASSUME NEW line, QueryLine(line), RelInv, NamesOnlyKnown(line)
  PROVE  /\ query_init(line) \in Queries({Predicates(line)})
         /\ QueryOK(query_init(line))
<1> DEFINE query == query_init(line)
           n == rel_list.length
           place == [r \in DOMAIN RelsOf(line) |-> RelsOf(line)[r].index + 1]
<1>1. /\ DOMAIN query = {"rels", "preds", "projs", "text", "stage"}
      /\ query.rels = [k \in DOMAIN RelsOf(line) |-> list_get(rel_list, RelsOf(line)[k].index)]
      /\ query.preds = Predicates(line)
      /\ query.projs = ProjsOf(line)
      /\ query.text = line
      /\ query.stage = "read"
  BY DEF query_init
<1>2. query = [rels |-> query.rels, preds |-> query.preds, projs |-> query.projs,
               text |-> query.text, stage |-> query.stage]
  BY DEF query_init
<1> HIDE DEF query
<1>3. n \in Nat /\ Linked(rel_list, Numbers(n), Relations)
  BY DEF RelInv
<1>4. Numbers(n) \in Seq(Nat) /\ Len(Numbers(n)) = n /\ \A k \in 1 .. n : Numbers(n)[k] = k
  <2>1. Numbers(n) \in [1 .. n -> Nat] /\ \A k \in 1 .. n : Numbers(n)[k] = k
    BY DEF Numbers
  <2> QED
    BY <1>3, <2>1, FunctionIsSeq
<1>5. ASSUME NEW r \in DOMAIN RelsOf(line)
      PROVE  /\ RelsOf(line)[r].index \in Nat
             /\ RelsOf(line)[r].index < n
             /\ list_get(rel_list, RelsOf(line)[r].index) = RelsOf(line)[r].index + 1
  <2> DEFINE index == RelsOf(line)[r].index
  <2>1. RelsOf(line)[r] \in RelToken
    BY DEF QueryLine
  <2>2. index \in Nat
    BY <2>1 DEF RelToken, Token
  <2>3. index < n
    BY DEF NamesOnlyKnown
  <2> HIDE DEF index, n
  <2>4. index \in 0 .. Len(Numbers(n)) - 1 /\ index + 1 \in 1 .. n
    BY <1>3, <1>4, <2>2, <2>3
  <2>5. list_get(rel_list, index) = Numbers(n)[index + 1]
    BY <1>3, <2>4, GetIs
  <2> QED
    BY <1>4, <2>2, <2>3, <2>4, <2>5 DEF index
<1>6. query.rels = place
  BY <1>1, <1>5
<1>7. place \in Seq(Nat)
  <2>1. RelsOf(line) \in Seq(RelToken)
    BY DEF QueryLine
  <2>2. DOMAIN RelsOf(line) = 1 .. Len(RelsOf(line)) /\ Len(RelsOf(line)) \in Nat
    BY <2>1
  <2>3. place \in [1 .. Len(RelsOf(line)) -> Nat]
    BY <1>5, <2>2
  <2> QED
    BY <2>2, <2>3, FunctionIsSeq
<1>8. line \in Seq(Token) /\ ProjsOf(line) \in Seq(Token)
  BY DEF QueryLine
<1>9. query \in Queries({Predicates(line)})
  BY <1>1, <1>2, <1>6, <1>7, <1>8 DEF Queries
<1>10. QueryOK(query)
  BY <1>1, <1>5, <1>6 DEF QueryOK
<1> QED
  BY <1>9, <1>10 DEF query

(* OpenedIs: the batches with the one that a line opens.                   *)
LEMMA OpenedIs ==
  ASSUME BatchesInv, NEW P, batches \in Seq(Seq(Queries(P)))
  PROVE  /\ Opened \in Seq(Seq(Queries(P))) /\ Opened # <<>>
         /\ \A b \in DOMAIN Opened : \A q \in DOMAIN Opened[b] : QueryOK(Opened[b][q])
<1> DEFINE Q == Seq(Queries(P))
<1>1. <<>> \in Q
  OBVIOUS
<1>2. CASE end_of_batch
  <2>1. Opened = Append(batches, <<>>)
    BY <1>2 DEF Opened
  <2> HIDE DEF Q
  <2>2. /\ Opened \in Seq(Q) /\ Opened # <<>> /\ Len(Opened) = Len(batches) + 1
        /\ Opened[Len(batches) + 1] = <<>>
        /\ \A b \in 1 .. Len(batches) : Opened[b] = batches[b]
    BY <1>1, <2>1, AppendIs DEF Q
  <2>3. ASSUME NEW b \in DOMAIN Opened, NEW q \in DOMAIN Opened[b] PROVE QueryOK(Opened[b][q])
    <3>1. DOMAIN Opened = 1 .. Len(batches) + 1 /\ DOMAIN batches = 1 .. Len(batches)
          /\ Len(batches) \in Nat
      BY <2>2
    <3>2. b # Len(batches) + 1
      BY <2>2
    <3>3. b \in DOMAIN batches /\ Opened[b] = batches[b]
      BY <2>2, <3>1, <3>2
    <3> QED
      BY <3>3 DEF BatchesInv
  <2> QED
    BY <2>2, <2>3 DEF Q
<1>3. CASE ~end_of_batch
  <2>1. Opened = batches
    BY <1>3 DEF Opened
  <2> QED
    BY <1>3, <2>1 DEF BatchesInv
<1> QED
  BY <1>2, <1>3 DEF BatchesInv

(* The batches with a query more in the last one.                          *)
WithQuery(open, query) == [open EXCEPT ![Len(open)] = Append(@, query)]

(* QueryAppended: a query behind those of the last batch.                  *)
LEMMA QueryAppended ==
  ASSUME NEW P, NEW open \in Seq(Seq(Queries(P))), open # <<>>,
         \A b \in DOMAIN open : \A q \in DOMAIN open[b] : QueryOK(open[b][q]),
         NEW R, NEW query \in Queries(R), QueryOK(query)
  PROVE  /\ WithQuery(open, query) \in Seq(Seq(Queries(P \cup R)))
         /\ WithQuery(open, query) # <<>>
         /\ \A b \in DOMAIN WithQuery(open, query) :
              \A q \in DOMAIN WithQuery(open, query)[b] : QueryOK(WithQuery(open, query)[b][q])
<1> DEFINE n == Len(open)
           last == Append(open[n], query)
           more == [open EXCEPT ![n] = last]
           T == Queries(P \cup R)
<1>1. n \in Nat /\ n \in DOMAIN open /\ DOMAIN open = 1 .. n
  OBVIOUS
<1>2. Queries(P) \subseteq T /\ Queries(R) \subseteq T
  BY DEF Queries
<1>3. \A b \in 1 .. n : open[b] \in Seq(Queries(P))
  BY ElementOfSeq
<1>4. /\ last \in Seq(T) /\ Len(last) = Len(open[n]) + 1
      /\ last[Len(open[n]) + 1] = query
      /\ \A q \in 1 .. Len(open[n]) : last[q] = open[n][q]
  <2> HIDE DEF T, n
  <2>1. open[n] \in Seq(Queries(P)) /\ query \in T
    BY <1>1, <1>2, <1>3
  <2> QED
    BY <1>2, <2>1, AppendIs
<1>5. \A b \in 1 .. n : open[b] \in Seq(T)
  BY <1>2, <1>3, SeqMonotonic
<1>6. more \in Seq(Seq(T)) /\ DOMAIN more = 1 .. n
  <2>1. more \in [1 .. n -> Seq(T)]
    <3> HIDE DEF T, last, n
    <3> QED
      BY <1>1, <1>4, <1>5
  <2> HIDE DEF T, more, n
  <2> QED
    BY <1>1, <2>1, FunctionIsSeq
<1>7. more # <<>>
  BY <1>1, <1>6
<1>8. ASSUME NEW b \in DOMAIN more, NEW q \in DOMAIN more[b] PROVE QueryOK(more[b][q])
  <2> HIDE DEF last, n
  <2>1. CASE b = n
    <3>1. more[b] = last
      BY <1>1, <2>1
    <3>2. q \in 1 .. Len(open[n]) + 1 /\ Len(open[n]) \in Nat /\ DOMAIN open[n] = 1 .. Len(open[n])
      <4>1. DOMAIN last = 1 .. Len(last)
        BY <1>4
      <4>2. open[n] \in Seq(Queries(P))
        BY <1>1, <1>3
      <4> QED
        BY <1>4, <3>1, <4>1, <4>2
    <3>3. CASE q = Len(open[n]) + 1
      BY <1>4, <3>1, <3>3
    <3>4. CASE q # Len(open[n]) + 1
      <4>1. q \in 1 .. Len(open[n])
        BY <3>2, <3>4
      <4> QED
        BY <1>1, <1>4, <3>1, <3>2, <4>1
    <3> QED
      BY <3>3, <3>4
  <2>2. CASE b # n
    <3>1. more[b] = open[b] /\ b \in DOMAIN open
      BY <1>1, <1>6, <2>2
    <3> QED
      BY <3>1
  <2> QED
    BY <2>1, <2>2
<1>9. WithQuery(open, query) = more
  BY DEF WithQuery
<1> HIDE DEF more, T
<1> QED
  BY <1>6, <1>7, <1>8, <1>9 DEF T

(* ReadLineStep: a line closes a batch, adds a query to the last one, or   *)
(* ends the reading.                                                       *)
LEMMA ReadLineStep ==
  ASSUME ReadInv, ReadLine
  PROVE  ReadInv'
<1>1. MaxQuery \in Nat \ {0, 1} /\ Fgets(MaxQuery) /\ stdin # <<>> /\ pc = "queries"
  BY InputAssumption DEF ReadLine
<1> DEFINE line == Line(MaxQuery)
<1>2. /\ WellWritten(stdin)'
      /\ lines' \in Seq([text : Seq(Token), whole : BOOLEAN])
      /\ Len(lines') = Len(lines) + 1
      /\ \A k \in 1 .. Len(lines) : lines'[k] = lines[k]
  BY <1>1, FgetsIs
<1>3. rel_list' = rel_list /\ RelInv /\ BatchesInv /\ WellWritten(stdin)
  BY DEF ReadLine, ReadInv
<1>4. pc' # "relations"
  BY <1>1 DEF ReadLine
<1>5. RelInv'
  BY <1>2, <1>3, <1>4, RelationsKept
<1>6. PICK P : batches \in Seq(Seq(Queries(P)))
  BY <1>3 DEF BatchesInv
<1>7. /\ Opened \in Seq(Seq(Queries(P))) /\ Opened # <<>>
      /\ \A b \in DOMAIN Opened : \A q \in DOMAIN Opened[b] : QueryOK(Opened[b][q])
  BY <1>3, <1>6, OpenedIs
<1>8. \A query : QueryOK(query) => QueryOK(query)'
  BY <1>3 DEF QueryOK
<1>9. CASE Is(line, "f")
  <2>1. batches' = Opened /\ end_of_batch' = TRUE
    BY <1>9 DEF ReadLine
  <2>2. BatchesInv'
    BY <1>4, <1>7, <1>8, <2>1 DEF BatchesInv
  <2> QED
    BY <1>2, <1>5, <2>2 DEF ReadInv
<1>10. CASE ~Is(line, "f") /\ Parsed(line) /\ NamesOnlyKnown(line)
  <2> DEFINE query == query_init(line)
  <2>1. /\ end_of_batch' = FALSE
        /\ batches' = WithQuery(Opened, query)
    BY <1>10 DEF ReadLine, WithQuery
  <2>2. QueryLine(line)
    BY <1>1, <1>3, <1>10, QueryLineIs
  <2>3. query \in Queries({Predicates(line)}) /\ QueryOK(query)
    BY <1>3, <1>10, <2>2, QueryIs
  <2> HIDE DEF query
  <2>4. /\ batches' \in Seq(Seq(Queries(P \cup {Predicates(line)}))) /\ batches' # <<>>
        /\ \A b \in DOMAIN batches' : \A q \in DOMAIN batches'[b] : QueryOK(batches'[b][q])
    <3> DEFINE R == {Predicates(line)}
    <3> HIDE DEF R
    <3>1. query \in Queries(R)
      BY <2>3 DEF R
    <3>2. /\ WithQuery(Opened, query) \in Seq(Seq(Queries(P \cup R)))
          /\ WithQuery(Opened, query) # <<>>
          /\ \A b \in DOMAIN WithQuery(Opened, query) :
               \A q \in DOMAIN WithQuery(Opened, query)[b] : QueryOK(WithQuery(Opened, query)[b][q])
      BY <1>7, <2>3, <3>1, QueryAppended
    <3> QED
      BY <2>1, <3>2 DEF R
  <2>5. \A b \in DOMAIN batches' : \A q \in DOMAIN batches'[b] : QueryOK(batches[b][q])'
    BY <1>3, <2>4 DEF QueryOK
  <2>6. BatchesInv'
    BY <1>4, <2>1, <2>4, <2>5 DEF BatchesInv
  <2> QED
    BY <1>2, <1>5, <2>6 DEF ReadInv
<1>11. CASE ~Is(line, "f") /\ (Parsed(line) => ~NamesOnlyKnown(line))
  <2>1. batches' = batches /\ end_of_batch' = end_of_batch
    BY <1>11 DEF ReadLine
  <2>2. BatchesInv'
    BY <1>3, <1>4, <2>1, BatchesKept
  <2> QED
    BY <1>2, <1>5, <2>2 DEF ReadInv
<1> QED
  BY <1>9, <1>10, <1>11

(* Query q of batch b becomes new: it begins, or it is sorted or left.     *)
Works(b, q, new) ==
  /\ b \in DOMAIN batches /\ q \in DOMAIN batches[b]
  /\ batches' = [batches EXCEPT ![b] = [batches[b] EXCEPT ![q] = new]]
  /\ (\E R : new \in Queries(R)) /\ QueryOK(new) /\ new.text = batches[b][q].text
  /\ \/ /\ batches[b][q].stage = "read" /\ new.stage = "running"
        /\ new.preds = batches[b][q].preds
        /\ pc' = IF CameTo(<<b, q>>) THEN "raced" ELSE pc
     \/ /\ batches[b][q].stage = "running" /\ new.stage \in {"ordered", "empty"}
        /\ pc' = pc

(* QueriesAre: the queries and their places.                               *)
LEMMA QueriesAre ==
  ASSUME NEW P, batches \in Seq(Seq(Queries(P)))
  PROVE  /\ DOMAIN batches = 1 .. Len(batches) /\ Len(batches) \in Nat
         /\ \A x \in DOMAIN batches : /\ batches[x] \in Seq(Queries(P))
                                      /\ DOMAIN batches[x] = 1 .. Len(batches[x])
                                      /\ Len(batches[x]) \in Nat
         /\ \A x \in DOMAIN batches : \A y \in DOMAIN batches[x] : batches[x][y] \in Queries(P)
<1>1. DOMAIN batches = 1 .. Len(batches) /\ Len(batches) \in Nat
  OBVIOUS
<1>2. \A x \in DOMAIN batches : batches[x] \in Seq(Queries(P))
  BY <1>1, ElementOfSeq
<1>3. \A x \in DOMAIN batches : DOMAIN batches[x] = 1 .. Len(batches[x]) /\ Len(batches[x]) \in Nat
  BY <1>2
<1> QED
  BY <1>1, <1>2, <1>3, ElementOfSeq

(* BeginWorks: a query that begins keeps its predicates.                   *)
LEMMA BeginWorks ==
  ASSUME ReadInv, Begin
  PROVE  \E b, q, new : Works(b, q, new)
<1>1. PICK b \in DOMAIN batches : \E q \in DOMAIN batches[b] :
        /\ batches[b][q].stage = "read"
        /\ batches' = [batches EXCEPT ![b][q].stage = "running"]
        /\ pc' = IF CameTo(<<b, q>>) THEN "raced" ELSE pc
  BY DEF Begin
<1>2. PICK q \in DOMAIN batches[b] :
        /\ batches[b][q].stage = "read"
        /\ batches' = [batches EXCEPT ![b][q].stage = "running"]
        /\ pc' = IF CameTo(<<b, q>>) THEN "raced" ELSE pc
  BY <1>1
<1>3. PICK P : batches \in Seq(Seq(Queries(P)))
  BY DEF ReadInv, BatchesInv
<1> DEFINE old == batches[b][q]
           new == [old EXCEPT !.stage = "running"]
<1>4. old \in Queries(P) /\ QueryOK(old)
  BY <1>3, QueriesAre DEF ReadInv, BatchesInv
<1>5. new \in Queries(P) /\ new.text = old.text /\ new.rels = old.rels /\ new.preds = old.preds
      /\ new.stage = "running"
  BY <1>4 DEF Queries
<1>6. QueryOK(new)
  <2> HIDE DEF old, new
  <2> QED
    BY <1>2, <1>4, <1>5 DEF QueryOK, old
<1>7. batches' = [batches EXCEPT ![b] = [batches[b] EXCEPT ![q] = new]]
  BY <1>2
<1>8. Works(b, q, new)
  <2> HIDE DEF new
  <2> QED
    BY <1>2, <1>5, <1>6, <1>7 DEF Works, old
<1> QED
  BY <1>8

(* ExecuteWorks: sorting or leaving a query changes neither its line nor   *)
(* its relations.                                                          *)
LEMMA ExecuteWorks ==
  ASSUME ReadInv, Execute
  PROVE  \E b, q, new : Works(b, q, new)
<1>1. PICK b \in DOMAIN batches : \E q \in DOMAIN batches[b] :
        /\ batches[b][q].stage = "running"
        /\ \/ batches' = [batches EXCEPT ![b][q].preds = Reordered(batches[b][q].preds),
                                         ![b][q].stage = "ordered"]
           \/ batches' = [batches EXCEPT ![b][q].stage = "empty"]
  BY DEF Execute
<1>2. PICK q \in DOMAIN batches[b] :
        /\ batches[b][q].stage = "running"
        /\ \/ batches' = [batches EXCEPT ![b][q].preds = Reordered(batches[b][q].preds),
                                         ![b][q].stage = "ordered"]
           \/ batches' = [batches EXCEPT ![b][q].stage = "empty"]
  BY <1>1
<1>3. pc' = pc
  BY DEF Execute
<1>4. PICK P : batches \in Seq(Seq(Queries(P)))
  BY DEF ReadInv, BatchesInv
<1> DEFINE old == batches[b][q]
           ordered == [old EXCEPT !.preds = Reordered(old.preds), !.stage = "ordered"]
           empty   == [old EXCEPT !.stage = "empty"]
           R == P \cup {Reordered(old.preds)}
<1>5. old \in Queries(P) /\ QueryOK(old) /\ old.stage = "running"
  BY <1>2, <1>4, QueriesAre DEF ReadInv, BatchesInv
<1>6. CASE batches' = [batches EXCEPT ![b][q].preds = Reordered(batches[b][q].preds),
                                      ![b][q].stage = "ordered"]
  <2>1. ordered \in Queries(R)
    BY <1>5 DEF Queries
  <2>2. ordered.text = old.text /\ ordered.rels = old.rels /\ ordered.stage = "ordered"
        /\ ordered.preds = Reordered(old.preds)
    BY <1>5 DEF Queries
  <2>3. QueryOK(ordered)
    <3> HIDE DEF old, ordered
    <3> QED
      BY <1>5, <2>2 DEF QueryOK
  <2>4. batches' = [batches EXCEPT ![b] = [batches[b] EXCEPT ![q] = ordered]]
    BY <1>5, <1>6 DEF Queries
  <2>5. Works(b, q, ordered)
    <3> HIDE DEF ordered, R
    <3> QED
      BY <1>2, <1>3, <2>1, <2>2, <2>3, <2>4 DEF Works, old
  <2> QED
    BY <2>5
<1>7. CASE batches' = [batches EXCEPT ![b][q].stage = "empty"]
  <2>1. empty \in Queries(R)
    BY <1>5 DEF Queries
  <2>2. empty.text = old.text /\ empty.rels = old.rels /\ empty.stage = "empty"
        /\ empty.preds = old.preds
    BY <1>5 DEF Queries
  <2>3. QueryOK(empty)
    <3> HIDE DEF old, empty
    <3> QED
      BY <1>5, <2>2 DEF QueryOK
  <2>4. batches' = [batches EXCEPT ![b] = [batches[b] EXCEPT ![q] = empty]]
    BY <1>7
  <2>5. Works(b, q, empty)
    <3> HIDE DEF empty, R
    <3> QED
      BY <1>2, <1>3, <2>1, <2>2, <2>3, <2>4 DEF Works, old
  <2> QED
    BY <2>5
<1> QED
  BY <1>2, <1>6, <1>7

(* WorkedOn: no other query changes.                                       *)
LEMMA WorkedOn ==
  ASSUME NEW b, NEW q, NEW new, Works(b, q, new)
  PROVE  /\ DOMAIN batches' = DOMAIN batches
         /\ \A x \in DOMAIN batches : DOMAIN batches'[x] = DOMAIN batches[x]
         /\ \A x \in DOMAIN batches : \A y \in DOMAIN batches[x] :
              batches'[x][y] = IF x = b /\ y = q THEN new ELSE batches[x][y]
<1>1. /\ b \in DOMAIN batches /\ q \in DOMAIN batches[b]
      /\ batches' = [batches EXCEPT ![b] = [batches[b] EXCEPT ![q] = new]]
  BY DEF Works
<1> QED
  BY <1>1

(* WorkStep: a step of a query keeps the invariant.                        *)
LEMMA WorkStep ==
  ASSUME ReadInv, UNCHANGED <<stdin, rel_list, end_of_batch, lines>>, pc \in {"execute", "free"},
         NEW b, NEW q, NEW new, Works(b, q, new)
  PROVE  ReadInv'
<1>1. /\ b \in DOMAIN batches /\ q \in DOMAIN batches[b] /\ QueryOK(new)
      /\ batches' = [batches EXCEPT ![b] = [batches[b] EXCEPT ![q] = new]]
      /\ pc' \in {"execute", "free", "raced"}
  BY DEF Works
<1>2. PICK S : new \in Queries(S)
  BY DEF Works
<1>3. WellWritten(stdin) /\ RelInv /\ BatchesInv
  BY DEF ReadInv
<1>4. PICK P : batches \in Seq(Seq(Queries(P)))
  BY <1>3 DEF BatchesInv
<1>5. /\ DOMAIN batches = 1 .. Len(batches) /\ Len(batches) \in Nat
      /\ \A x \in DOMAIN batches : /\ batches[x] \in Seq(Queries(P))
                                   /\ DOMAIN batches[x] = 1 .. Len(batches[x])
                                   /\ Len(batches[x]) \in Nat
      /\ \A x \in DOMAIN batches : \A y \in DOMAIN batches[x] : batches[x][y] \in Queries(P)
  BY <1>4, QueriesAre
<1> DEFINE R == P \cup S
           T == Queries(R)
<1>6. Queries(P) \subseteq T /\ new \in T
  BY <1>2 DEF Queries
<1> HIDE DEF R
<1>7. /\ DOMAIN batches' = DOMAIN batches
      /\ \A x \in DOMAIN batches : DOMAIN batches'[x] = DOMAIN batches[x]
      /\ \A x \in DOMAIN batches : \A y \in DOMAIN batches[x] :
           batches'[x][y] = IF x = b /\ y = q THEN new ELSE batches[x][y]
  BY WorkedOn
<1>8. batches' \in Seq(Seq(T))
  <2> HIDE DEF T
  <2>1. [batches[b] EXCEPT ![q] = new] \in [1 .. Len(batches[b]) -> T]
    BY <1>1, <1>5, <1>6
  <2>2. [batches[b] EXCEPT ![q] = new] \in Seq(T)
    BY <1>1, <1>5, <2>1, FunctionIsSeq
  <2>3. \A x \in DOMAIN batches : batches[x] \in Seq(T)
    BY <1>5, <1>6, SeqMonotonic
  <2>4. batches' \in [1 .. Len(batches) -> Seq(T)]
    BY <1>1, <1>5, <2>2, <2>3
  <2> QED
    BY <1>5, <2>4, FunctionIsSeq
<1>9. \A x \in DOMAIN batches' : \A y \in DOMAIN batches'[x] : QueryOK(batches'[x][y])
  BY <1>1, <1>3, <1>7 DEF BatchesInv
<1>10. \A x \in DOMAIN batches' : \A y \in DOMAIN batches'[x] : QueryOK(batches[x][y])'
  BY <1>9 DEF QueryOK
<1>11. batches' # <<>>
  BY <1>1, <1>7
<1>12. BatchesInv'
  BY <1>1, <1>3, <1>8, <1>10, <1>11 DEF BatchesInv, T
<1>13. RelInv'
  BY <1>1, <1>3, RelationsKept
<1>14. WellWritten(stdin)'
  BY <1>3
<1> QED
  BY <1>12, <1>13, <1>14 DEF ReadInv

(* ReadStep: every step keeps the invariant.                               *)
LEMMA ReadStep == ReadInv /\ [Next]_vars => ReadInv'
<1> SUFFICES ASSUME ReadInv, [Next]_vars PROVE ReadInv'
  OBVIOUS
<1>1. CASE ReadRelation
  BY <1>1, ReadRelationStep
<1>2. CASE ReadLine
  BY <1>2, ReadLineStep
<1>3. CASE Begin \/ Execute
  <2>1. UNCHANGED <<stdin, rel_list, end_of_batch, lines>> /\ pc \in {"execute", "free"}
    BY <1>3 DEF Begin, Execute
  <2>2. PICK b, q, new : Works(b, q, new)
    BY <1>3, BeginWorks, ExecuteWorks
  <2> QED
    BY <2>1, <2>2, WorkStep
<1>4. ASSUME UNCHANGED <<stdin, rel_list, batches, end_of_batch, lines>>,
             pc' = pc \/ pc' # "relations"
      PROVE  ReadInv'
  <2>1. WellWritten(stdin)' /\ RelInv /\ BatchesInv
    BY <1>4 DEF ReadInv
  <2>2. BatchesInv'
    BY <1>4, <2>1, BatchesKept
  <2>3. RelInv'
    <3>1. CASE pc' # "relations"
      BY <1>4, <2>1, <3>1, RelationsKept
    <3>2. CASE pc' = pc
      BY <1>4, <2>1, <3>2 DEF RelInv, Linked
    <3> QED
      BY <1>4, <3>1, <3>2
  <2> QED
    BY <2>1, <2>2, <2>3 DEF ReadInv
<1>5. CASE EndOfRelations
  BY <1>4, <1>5 DEF EndOfRelations
<1>6. CASE EndOfQueries
  BY <1>4, <1>6 DEF EndOfQueries
<1>7. CASE EndOfBatches
  BY <1>4, <1>7 DEF EndOfBatches
<1>8. CASE FreeNode
  BY <1>4, <1>8 DEF FreeNode
<1>9. CASE FreeNext \/ FreeEnd
  BY <1>4, <1>9 DEF FreeNext, FreeEnd
<1>10. CASE Stopped \/ UNCHANGED vars
  BY <1>4, <1>10 DEF Stopped, vars
<1> QED
  BY <1>1, <1>2, <1>3, <1>5, <1>6, <1>7, <1>8, <1>9, <1>10 DEF Next

(* Invariance: ReadInv in every reachable state.                           *)
THEOREM Invariance == Spec => []ReadInv
  BY ReadInit, ReadStep, PTL DEF Spec
-----------------------------------------------------------------------------
(* The properties *)

(* Mapped: what of a relation lies behind a mapping of whole pages.        *)
LEMMA Mapped ==
  ASSUME NEW size \in Nat, size # 0
  PROVE  LET outside == {w \in 0 .. size - 1 : w + 2 >= RoundUp(size)}
         IN  /\ outside \subseteq {size - 2, size - 1}
             /\ outside # {} => size % PageWords \in {0, PageWords - 1}
<1> DEFINE p == PageWords
           k == (size + p - 1) \div p
           m == RoundUp(size)
<1>1. p \in Nat /\ p # 0
  BY InputAssumption
<1>2. m = k * p
  BY DEF RoundUp
<1> HIDE DEF p, m
<1>3. k \in Nat /\ size + p - 1 = k * p + ((size + p - 1) % p) /\ (size + p - 1) % p \in 0 .. p - 1
  <2>1. \A x, y \in Nat : y # 0 => /\ x \div y \in Nat /\ x % y \in 0 .. y - 1
                                   /\ x = (x \div y) * y + (x % y)
    OBVIOUS
  <2>2. size + p - 1 \in Nat
    BY <1>1
  <2> HIDE DEF p
  <2>3. /\ k \in Nat /\ (size + p - 1) % p \in 0 .. p - 1
        /\ size + p - 1 = k * p + ((size + p - 1) % p)
    BY <1>1, <2>1, <2>2
  <2> QED
    BY <2>3
<1> HIDE DEF k
<1>4. m \in Nat /\ size <= m /\ m < size + p
  <2>1. k * p \in Nat
    BY <1>1, <1>3
  <2> QED
    BY <1>1, <1>2, <1>3, <2>1
<1>5. m = size => size % p = 0
  <2>1. ASSUME m = size PROVE size % p = 0
    <3>1. \A x, y \in Nat : y # 0 => (x * y) % y = 0
      OBVIOUS
    <3> QED
      BY <1>1, <1>2, <1>3, <2>1, <3>1
  <2> QED
    BY <2>1
<1>6. m = size + 1 => size % p = p - 1
  <2>1. ASSUME m = size + 1 PROVE size % p = p - 1
    <3>1. \A x, y \in Nat : y # 0 /\ x # 0 => x * y - 1 = (x - 1) * y + (y - 1)
      OBVIOUS
    <3>2. \A x, y \in Nat : y # 0 => (x * y + (y - 1)) % y = y - 1
      OBVIOUS
    <3>3. k # 0
      BY <1>1, <1>2, <1>4, <2>1
    <3>4. size = (k - 1) * p + (p - 1) /\ k - 1 \in Nat
      BY <1>1, <1>2, <1>3, <2>1, <3>1, <3>3
    <3> QED
      BY <1>1, <3>2, <3>4
  <2> QED
    BY <2>1
<1>7. ASSUME NEW w \in 0 .. size - 1, w + 2 >= m
      PROVE  w \in {size - 2, size - 1} /\ m \in {size, size + 1}
  BY <1>4, <1>7
<1> QED
  BY <1>5, <1>6, <1>7 DEF p, m

(* MappedTail: of a relation that was read at most the last two words lie  *)
(* outside of its mapping, and only if its data ends with a page or one    *)
(* word before, for every file and every size of a page; unless the size   *)
(* that the header states wraps around in data_size.                       *)
THEOREM MappedTail == Spec => []OnlyTailUnmapped
<1>1. ReadInv => OnlyTailUnmapped
  <2> SUFFICES ASSUME ReadInv, NEW n \in Nodes(rel_list), rel_list.data[n].mapped # Unset,
                      ~Wraps(rel_list.data[n])
               PROVE  LET rel  == rel_list.data[n]
                          size == rel.rows * rel.cols
                          outside == {w \in 0 .. size - 1 : w + 2 >= rel.mapped}
                      IN  /\ outside \subseteq {size - 2, size - 1}
                          /\ outside # {} => size % PageWords \in {0, PageWords - 1}
    BY DEF OnlyTailUnmapped
  <2> DEFINE rel  == rel_list.data[n]
             path == lines[n].text
             file == Files[path]
             size == file.rows * file.cols
  <2>1. n \in 1 .. rel_list.length /\ rel = rel_init(path)
    <3>1. /\ rel_list.length = Len(Numbers(rel_list.length))
          /\ rel_list.data \in Seq(Relations)
          /\ Len(rel_list.data) = Len(Numbers(rel_list.length))
      BY DEF ReadInv, RelInv, Linked
    <3>2. DOMAIN rel_list.data = 1 .. Len(rel_list.data)
      BY <3>1
    <3>3. n \in 1 .. rel_list.length
      BY <3>1, <3>2 DEF Nodes
    <3> QED
      BY <3>3 DEF ReadInv, RelInv
  <2>2. path \in DOMAIN Files /\ file.words # 0 /\ file.words # 1
    BY <2>1 DEF rel_init
  <2>3. file.rows \in Nat /\ file.cols \in Nat /\ size \in Nat
    <3>1. file \in [words : Nat, rows : Nat, cols : Nat]
      BY <2>2, InputAssumption
    <3> QED
      BY <3>1
  <2>4. rel.rows = file.rows /\ rel.cols = file.cols
        /\ rel.mapped = RoundUp(Wrapped(size)) /\ Wrapped(size) # 0
    BY <2>1, <2>2 DEF rel_init, Wrapped
  <2> HIDE DEF rel, file, path
  <2>5. rel.rows * rel.cols = size
    BY <2>4
  <2> HIDE DEF size
  <2>6. Wrapped(size) = size
    <3>1. SizeWords \in Nat /\ ~ (size >= SizeWords)
      BY <2>3, <2>5, WrappedIs DEF Wraps, rel
    <3> QED
      BY <2>3, <3>1, WrappedIs
  <2>7. /\ {w \in 0 .. size - 1 : w + 2 >= RoundUp(size)} \subseteq {size - 2, size - 1}
        /\ {w \in 0 .. size - 1 : w + 2 >= RoundUp(size)} # {}
             => size % PageWords \in {0, PageWords - 1}
    BY <2>3, <2>4, <2>6, Mapped
  <2> QED
    BY <2>4, <2>5, <2>6, <2>7 DEF rel
<1> QED
  BY <1>1, Invariance, PTL

(* RelationsFound: the relation that a query finds by a number is that of  *)
(* the line of that number, whatever became of the files.                  *)
THEOREM RelationsFound == Spec => []RelationsInPlace
<1>1. ReadInv => RelationsInPlace
  <2> SUFFICES ASSUME ReadInv, NEW b \in DOMAIN batches, NEW q \in DOMAIN batches[b],
                      NEW r \in DOMAIN batches[b][q].rels
               PROVE  rel_list.data[batches[b][q].rels[r]].path
                        = lines[batches[b][q].text[r].index + 1].text
    BY DEF RelationsInPlace, AllSatisfy
  <2> DEFINE query == batches[b][q]
             line  == query.text
             index == line[r].index
  <2>1. QueryOK(query)
    BY DEF ReadInv, BatchesInv
  <2> HIDE DEF query
  <2>2. r \in DOMAIN RelsOf(line) /\ query.rels[r] = RelsOf(line)[r].index + 1
    BY <2>1 DEF QueryOK, query
  <2>3. RelsOf(line)[r] = line[r] /\ RelsOf(line)[r] \in RelToken
    BY <2>1, <2>2 DEF QueryOK, QueryLine
  <2>4. index \in Nat /\ index < rel_list.length /\ rel_list.length \in Nat
    BY <2>1, <2>2, <2>3 DEF QueryOK, RelToken, Token, ReadInv, RelInv
  <2>5. index + 1 \in 1 .. rel_list.length
    BY <2>4
  <2>6. rel_list.data[index + 1] = rel_init(lines[index + 1].text)
    BY <2>5 DEF ReadInv, RelInv
  <2>7. lines[index + 1].text \in Seq(Token)
    <3>1. lines \in Seq([text : Seq(Token), whole : BOOLEAN]) /\ rel_list.length <= Len(lines)
      BY DEF ReadInv, RelInv
    <3>2. index + 1 \in 1 .. Len(lines)
      BY <2>4, <2>5, <3>1
    <3>3. lines[index + 1] \in [text : Seq(Token), whole : BOOLEAN]
      BY <3>1, <3>2, ElementOfSeq
    <3> QED
      BY <3>3
  <2>8. rel_list.data[index + 1].path = lines[index + 1].text
    BY <2>6, <2>7, RelationTyped
  <2> QED
    BY <2>2, <2>3, <2>8 DEF query
<1> QED
  BY <1>1, Invariance, PTL

(* ListAsRead: the list of predicates of a query that was read.            *)
LEMMA ListAsRead ==
  ASSUME NEW line, QueryLine(line)
  PROVE  LET n == Len(PredsOf(line))
         IN  /\ n \in Nat /\ n # 0 /\ DOMAIN PredsOf(line) = 1 .. n
             /\ Inserted(Predicates(line), PredsOf(line), n)
<1>1. PredsOf(line) \in Seq(PredToken) /\ PredsOf(line) # <<>>
  BY DEF QueryLine
<1>2. /\ Len(PredsOf(line)) \in Nat /\ Len(PredsOf(line)) # 0
      /\ DOMAIN PredsOf(line) = 1 .. Len(PredsOf(line))
  BY <1>1
<1>3. Inserted(Predicates(line), PredsOf(line), Len(PredsOf(line)))
  BY <1>2, ListBuilt
<1> QED
  BY <1>2, <1>3

(* ListsLinked: until its joins are sorted, prev of the nodes of a list of *)
(* predicates is the inverse of next, and the walk ends at the tail.       *)
THEOREM ListsLinked == Spec => []DoublyLinked
<1>1. ReadInv => DoublyLinked
  <2> SUFFICES ASSUME ReadInv, NEW b \in DOMAIN batches, NEW q \in DOMAIN batches[b],
                      batches[b][q].stage \in {"read", "running"}
               PROVE  LET l     == batches[b][q].preds
                          chain == Chain(l)
                      IN  /\ chain[l.length] = l.tail
                          /\ \A m \in 1 .. l.length - 1 : l.prev[chain[m + 1]] = chain[m]
    BY DEF DoublyLinked, AllSatisfy
  <2> DEFINE line == batches[b][q].text
             l    == batches[b][q].preds
  <2>1. QueryLine(line) /\ l = Predicates(line)
    BY DEF ReadInv, BatchesInv, QueryOK
  <2> HIDE DEF line, l
  <2>2. Len(PredsOf(line)) # 0 /\ Inserted(l, PredsOf(line), Len(PredsOf(line)))
    BY <2>1, ListAsRead
  <2>3. PICK s : /\ Linked(l, s, {pred_init(PredsOf(line)[i]) : i \in DOMAIN PredsOf(line)})
                 /\ Len(s) = Len(PredsOf(line))
    BY <2>2 DEF Inserted
  <2>4. Chain(l) = s
    BY <2>3, WalkIs
  <2>5. s # <<>> /\ l.length = Len(s)
    BY <2>2, <2>3 DEF Linked
  <2>6. l.tail = s[Len(s)] /\ \A m \in 1 .. Len(s) - 1 : l.prev[s[m + 1]] = s[m]
    BY <2>3, <2>5 DEF Linked
  <2> QED
    BY <2>4, <2>5, <2>6 DEF l
<1> QED
  BY <1>1, Invariance, PTL

(* PredicatesRead: a query has the predicates of its line, each once,      *)
(* those with a constant in front, with the constants as they are written  *)
(* if they fit in an int.                                                  *)
THEOREM PredicatesRead == Spec => []PredicatesAsWritten
<1>1. ReadInv => PredicatesAsWritten
  <2> SUFFICES ASSUME ReadInv, NEW b \in DOMAIN batches, NEW q \in DOMAIN batches[b],
                      batches[b][q].stage \in {"read", "running"}
               PROVE  LET found == DataOf(batches[b][q].preds, Chain(batches[b][q].preds))
                          written == Arranged(batches[b][q].text)
                      IN  /\ Len(found) = Len(written)
                          /\ \A m \in DOMAIN found : SamePredicate(found[m], written[m].pred)
    BY DEF PredicatesAsWritten, AllSatisfy
  <2> DEFINE line == batches[b][q].text
             l    == batches[b][q].preds
             token == PredsOf(line)
             n    == Len(token)
             found == DataOf(l, Chain(l))
  <2>1. QueryLine(line) /\ l = Predicates(line)
    BY DEF ReadInv, BatchesInv, QueryOK
  <2> HIDE DEF line, l
  <2>2. n \in Nat /\ DOMAIN token = 1 .. n /\ Inserted(l, token, n)
    BY <2>1, ListAsRead
  <2>3. /\ DOMAIN Chain(l) = 1 .. n
        /\ Len(Arranged(line)) = n
        /\ \A p \in 1 .. n : HoldsArranged(l, line, p)
    <3>1. n \in Nat /\ DOMAIN PredsOf(line) = 1 .. n /\ Inserted(l, PredsOf(line), n)
      BY <2>2
    <3> HIDE DEF n, token
    <3> QED
      BY <3>1, ChainArranged
  <2>4. DOMAIN found = 1 .. n /\ \A p \in 1 .. n : found[p] = l.data[Chain(l)[p]]
    BY <2>3 DEF DataOf
  <2>5. Len(found) = n
    <3>1. found = [p \in 1 .. n |-> found[p]]
      BY <2>3, <2>4 DEF DataOf
    <3> HIDE DEF found, n
    <3> QED
      BY <2>2, <3>1
  <2>6. ASSUME NEW p \in 1 .. n PROVE SamePredicate(found[p], Arranged(line)[p].pred)
    <3>1. PICK m \in 1 .. n : /\ Arranged(line)[p] = token[m]
                              /\ found[p] = pred_init(token[m])
      <4>1. PICK m \in DOMAIN PredsOf(line) :
              /\ Arranged(line)[p] = PredsOf(line)[m]
              /\ l.data[Chain(l)[p]] = pred_init(PredsOf(line)[m])
        BY <2>3 DEF HoldsArranged
      <4> QED
        BY <2>2, <2>4, <4>1
    <3>2. token[m].pred \in Predicate
      <4>1. token[m] \in PredToken
        BY <2>1, <2>2 DEF QueryLine
      <4> QED
        BY <4>1 DEF PredToken, Token
    <3> QED
      BY <3>1, <3>2, ReadAsWritten
  <2> HIDE DEF found, token, n
  <2> QED
    BY <2>3, <2>4, <2>5, <2>6 DEF found, l, line
<1> QED
  BY <1>1, Invariance, PTL

(* The predicates of a line as they are in the list of its query.          *)
Before(line) == [k \in DOMAIN Arranged(line) |-> pred_init(Arranged(line)[k])]

(* PredicatesTyped: predicates that were read can be compared.             *)
LEMMA PredicatesTyped ==
  ASSUME NEW token, token \in PredToken
  PROVE  /\ pred_init(token).left \in End /\ pred_init(token).right \in End
         /\ is_pred_join(pred_init(token)) => Compares(token)
<1> DEFINE written == token.pred
<1>1. written \in Predicate
  BY DEF PredToken, Token
<1>2. /\ DOMAIN written = {"left", "op", "right"}
      /\ written.left \in Column /\ written.right.key \in Nat
      /\ written.right \in [key : Nat, payload : Nat \cup {Constant}]
  BY <1>1 DEF Predicate, Column
<1>3. Nat \cup {Constant} \subseteq Int
  BY DEF Constant
<1>4. written.left \in End /\ written.right \in End
  BY <1>2, <1>3 DEF Column, End
<1>5. CASE written.op = "="
  BY <1>4, <1>5 DEF pred_init, is_pred_join, Compares
<1>6. CASE written.op # "="
  <2> DEFINE read == [written EXCEPT !.right.key = atoi(@)]
  <2>1. pred_init(token) = read
    BY <1>6 DEF pred_init
  <2>2. atoi(written.right.key) \in Int
    <3>1. IntValues \in Nat \ {0} /\ WordValues \in Nat
      BY InputAssumption
    <3>2. \A x, y \in Nat : y # 0 => x % y \in Int
      OBVIOUS
    <3>3. written.right.key % IntValues \in Int
      BY <1>2, <3>1, <3>2
    <3> QED
      BY <3>1, <3>3 DEF atoi
  <2>3. read.left = written.left /\ read.op = written.op
    BY <1>2
  <2>4. read.right = [written.right EXCEPT !.key = atoi(written.right.key)]
    BY <1>2
  <2>5. read.right \in End
    BY <1>4, <2>2, <2>4 DEF End
  <2> HIDE DEF read
  <2> QED
    BY <1>4, <1>6, <2>1, <2>3, <2>5 DEF is_pred_join
<1> QED
  BY <1>5, <1>6

(* The list of a line of a query, with the nodes in the order s.           *)
ReadList(line, s, D) ==
  /\ s # <<>> /\ Linked(Predicates(line), s, D) /\ Comparable(D)
  /\ JoinsFirst(Predicates(line), s)
  /\ DataOf(Predicates(line), s) = Before(line)

(* ListRead: every line of a query has one.                                *)
LEMMA ListRead ==
  ASSUME NEW line, QueryLine(line)
  PROVE  \E s, D : ReadList(line, s, D)
<1> DEFINE n == Len(PredsOf(line))
           token == PredsOf(line)
           l == Predicates(line)
           D == {pred_init(token[i]) : i \in DOMAIN token}
<1>1. n \in Nat /\ n # 0 /\ DOMAIN token = 1 .. n /\ Inserted(l, token, n)
  BY ListAsRead
<1>2. PICK s : /\ Linked(l, s, D)
               /\ Len(s) = n
               /\ \A m \in 1 .. n : /\ PlaceAmong(token, n, m) \in 1 .. n
                                    /\ s[PlaceAmong(token, n, m)] = m
                                    /\ l.data[m] = pred_init(token[m])
               /\ n # 0 /\ Compares(token[s[1]]) => l.prev[s[1]] = NULL
  BY <1>1 DEF Inserted
<1>3. \A i \in DOMAIN token : token[i] \in PredToken
  BY DEF QueryLine
<1>4. Comparable(D)
  <2>1. ASSUME NEW i \in DOMAIN token
        PROVE  pred_init(token[i]).left \in End /\ pred_init(token[i]).right \in End
    BY <1>3, PredicatesTyped
  <2> QED
    BY <2>1 DEF Comparable
<1> HIDE DEF D
<1>5. s \in Seq(1 .. n) /\ s # <<>> /\ 1 \in 1 .. n
  <2>1. s \in Seq(1 .. Len(s))
    BY <1>2 DEF Linked
  <2> QED
    BY <1>1, <1>2, <2>1
<1>6. JoinsFirst(l, s)
  <2>1. s[1] \in 1 .. n
    BY <1>2, <1>5, ElementOfSeq
  <2>2. l.data[s[1]] = pred_init(token[s[1]])
    BY <1>2, <2>1
  <2>3. is_pred_join(l.data[s[1]]) => Compares(token[s[1]])
    BY <1>1, <1>3, <2>1, <2>2, PredicatesTyped
  <2> QED
    BY <1>1, <1>2, <2>3 DEF JoinsFirst
<1>7. DataOf(l, s) = Before(line)
  <2>1. /\ DOMAIN Arranged(line) = 1 .. n
        /\ \A p \in 1 .. n : HoldsArranged(l, line, p)
    <3> HIDE DEF l, n
    <3>1. n \in Nat /\ DOMAIN PredsOf(line) = 1 .. n /\ Inserted(l, PredsOf(line), n)
      BY <1>1
    <3> QED
      BY <3>1, ChainArranged
  <2>2. Chain(l) = s
    BY <1>2, WalkIs
  <2>3. DOMAIN s = 1 .. n
    BY <1>2, <1>5
  <2>4. ASSUME NEW p \in 1 .. n PROVE l.data[s[p]] = pred_init(Arranged(line)[p])
    BY <2>1, <2>2 DEF HoldsArranged
  <2> QED
    BY <2>1, <2>3, <2>4 DEF DataOf, Before
<1>8. ReadList(line, s, D)
  BY <1>2, <1>4, <1>5, <1>6, <1>7 DEF ReadList
<1> QED
  BY <1>8

(* SortedBehind: what is behind the filters is in order.                   *)
LEMMA SortedBehind ==
  ASSUME NEW D, Comparable(D), NEW d, d \in Seq(D), Filters(d) \in 0 .. Len(d)
  PROVE  \A m \in Filters(d) + 1 .. Len(FiltersThenSorted(d)) - 1 :
           pred_cmp(FiltersThenSorted(d)[m], FiltersThenSorted(d)[m + 1]) <= 0
<1> DEFINE x == Filters(d)
           n == Len(d)
           a == SubSeq(d, 1, x)
           b == SubSeq(d, x + 1, n)
           r == FiltersThenSorted(d)
<1>1. PICK f, g : Merges(f, D) /\ Sorts(g, f, D)
  BY SortsThere
<1>2. x \in Nat /\ n \in Nat /\ 1 \in 1 .. n + 1 /\ x \in 1 - 1 .. n /\ x - 1 + 1 = x
      /\ x + 1 \in 1 .. n + 1 /\ n \in (x + 1) - 1 .. n
  <2>1. n \in Nat
    OBVIOUS
  <2> HIDE DEF x, n
  <2>2. x \in 0 .. n
    BY DEF x, n
  <2> QED
    BY <2>1, <2>2
<1> HIDE DEF x
<1>3. a \in Seq(D) /\ Len(a) = x - 1 + 1 /\ b \in Seq(D)
  BY <1>2, SubSeqIs
<1> HIDE DEF a, b
<1>4. nodelist_mergesort(b) = g[b] /\ g[b] \in Seq(D) /\ Ascending(g[b])
  <2>1. SortsBy(g, D)
    BY <1>1 DEF SortsBy
  <2>2. g \in [Seq(D) -> Seq(D)]
    BY <1>1 DEF Sorts
  <2> QED
    BY <1>1, <1>3, <2>1, <2>2, MergesortFor, SortInOrder
<1> DEFINE c == g[b]
<1> HIDE DEF c
<1>5. r = a \o c
  BY <1>4 DEF FiltersThenSorted, a, b, c, x
<1>6. c \in Seq(D) /\ Len(c) \in Nat /\ Ascending(c)
  <2>1. c \in Seq(D) /\ Ascending(c)
    BY <1>4 DEF c
  <2> QED
    BY <2>1
<1>7. Len(a) = x
  BY <1>2, <1>3
<1>8. /\ Len(r) = x + Len(c)
      /\ \A q \in 1 .. Len(c) : r[x + q] = c[q]
  <2>1. /\ Len(a \o c) = Len(a) + Len(c)
        /\ \A q \in 1 .. Len(c) : (a \o c)[Len(a) + q] = c[q]
    <3>1. a \in Seq(D) /\ c \in Seq(D)
      BY <1>3, <1>6
    <3> QED
      BY <3>1, ConcatIs
  <2> HIDE DEF r
  <2> QED
    BY <1>5, <1>7, <2>1
<1> HIDE DEF r, n
<1>9. ASSUME NEW m \in x + 1 .. Len(r) - 1 PROVE pred_cmp(r[m], r[m + 1]) <= 0
  <2> DEFINE q == m - x
  <2>1. /\ q \in 1 .. Len(c) - 1 /\ q \in 1 .. Len(c) /\ q + 1 \in 1 .. Len(c)
        /\ x + q = m /\ x + (q + 1) = m + 1
    BY <1>2, <1>6, <1>8
  <2> HIDE DEF q
  <2>2. r[m] = c[q] /\ r[m + 1] = c[q + 1]
    BY <1>8, <2>1
  <2> QED
    BY <1>6, <2>1, <2>2 DEF Ascending
<1> QED
  BY <1>9 DEF r, x

(* JoinsSorted: the sort leaves the filters that have run in front and     *)
(* behind them the other predicates, in the order of pred_cmp, for every   *)
(* line of a query.                                                        *)
THEOREM JoinsSorted == Spec => []JoinsInOrder
<1>1. ReadInv => JoinsInOrder
  <2> SUFFICES ASSUME ReadInv, NEW b \in DOMAIN batches, NEW q \in DOMAIN batches[b],
                      batches[b][q].stage = "ordered"
               PROVE  LET query   == batches[b][q]
                          before  == Before(query.text)
                          filters == Filters(before)
                          found   == DataOf(query.preds, Chain(query.preds))
                      IN  /\ found = FiltersThenSorted(before)
                          /\ \A m \in filters + 1 .. Len(found) - 1 :
                               pred_cmp(found[m], found[m + 1]) <= 0
    BY DEF JoinsInOrder, AllSatisfy, Before, Filters, FiltersThenSorted
  <2> DEFINE line == batches[b][q].text
             l == Predicates(line)
             r == batches[b][q].preds
             d == Before(line)
  <2>1. QueryLine(line) /\ r = Reordered(l)
    BY DEF ReadInv, BatchesInv, QueryOK
  <2> HIDE DEF line, l, r
  <2>2. PICK s, D : ReadList(line, s, D)
    BY <2>1, ListRead
  <2>3. /\ s # <<>> /\ Linked(l, s, D) /\ Comparable(D) /\ JoinsFirst(l, s)
        /\ DataOf(l, s) = d
    BY <2>2 DEF ReadList, l
  <2> HIDE DEF d
  <2>4. Resorted(l, s, r)
    BY <2>1, <2>3, ReorderedIs
  <2>5. PICK u : Threaded(r, u) /\ r.data = l.data /\ DataOf(l, u) = FiltersThenSorted(d)
    BY <2>3, <2>4 DEF Resorted
  <2>6. DataOf(r, Chain(r)) = FiltersThenSorted(d)
    <3>1. Chain(r) = u
      BY <2>5, ThreadIs
    <3> QED
      BY <2>5, <3>1 DEF DataOf
  <2>7. d \in Seq(D) /\ Filters(d) \in 0 .. Len(d)
    <3>1. Holds(l, 1 .. Len(s), D) /\ s \in Seq(1 .. Len(s))
      BY <2>3, LinkedSortable DEF Linked
    <3>2. d \in Seq(D) /\ Len(d) = Len(s)
      <4> DEFINE N == 1 .. Len(s)
      <4>1. Holds(l, N, D) /\ s \in Seq(N)
        BY <3>1
      <4> HIDE DEF N
      <4>2. DataOf(l, s) \in Seq(D) /\ Len(DataOf(l, s)) = Len(s)
        BY <4>1, DataIs
      <4> QED
        BY <2>3, <4>2
    <3>3. Len(s) \in Nat
      BY <3>1
    <3>4. Filters(d) = Len(s) \/ \E x \in 1 .. Len(s) : Filters(d) = x - 1
      <4> DEFINE I == {m \in 1 .. Len(s) : is_pred_join(l.data[s[m]])}
      <4>1. /\ I = {} => Filters(d) = Len(s)
            /\ I # {} => FirstJoin(l) \in I /\ Filters(d) = FirstJoin(l) - 1
        BY <2>3, FirstJoinIs
      <4>2. I \subseteq 1 .. Len(s)
        OBVIOUS
      <4> HIDE DEF I
      <4> QED
        BY <4>1, <4>2
    <3>5. Filters(d) \in 0 .. Len(s)
      BY <3>3, <3>4
    <3> QED
      BY <3>2, <3>5
  <2>8. \A m \in Filters(d) + 1 .. Len(FiltersThenSorted(d)) - 1 :
           pred_cmp(FiltersThenSorted(d)[m], FiltersThenSorted(d)[m + 1]) <= 0
    BY <2>3, <2>7, SortedBehind
  <2> QED
    BY <2>6, <2>8 DEF line, r, d
<1> QED
  BY <1>1, Invariance, PTL
-----------------------------------------------------------------------------
(* The batches *)

TextsOf(batch) == [q \in DOMAIN batch |-> batch[q].text]

(* The lines of batches, each closed.                                      *)
ClosedOf(open) == FlattenSeq([b \in DOMAIN open |-> Append(TextsOf(open[b]), BATCH_TERM)])

(* f[k] is what the first k sequences of ss make together.                 *)
Joins(f, ss) ==
  /\ DOMAIN f = 0 .. Len(ss) /\ f[0] = <<>>
  /\ \A k \in 1 .. Len(ss) : f[k] = f[k - 1] \o ss[k]

(* FlattenIs: FlattenSeq joins them all.                                   *)
LEMMA FlattenIs ==
  ASSUME NEW S, NEW ss \in Seq(Seq(S)), NEW g, Joins(g, ss)
  PROVE  FlattenSeq(ss) = g[Len(ss)]
<1> DEFINE n == Len(ss)
           IsFlat(f) == f = [i \in 1 .. n |-> IF i = 1 THEN ss[i] ELSE f[i - 1] \o ss[i]]
           f == CHOOSE h : IsFlat(h)
           w == [i \in 1 .. n |-> g[i]]
<1>1. n \in Nat /\ \A k \in 1 .. n : ss[k] \in Seq(S)
  BY ElementOfSeq
<1>2. n = 0 => ss = <<>> /\ g[n] = <<>>
  BY DEF Joins
<1>3. n # 0 => g[1] = ss[1]
  <2> SUFFICES ASSUME n # 0 PROVE g[1] = ss[1]
    OBVIOUS
  <2>1. 1 \in 1 .. n /\ 1 - 1 = 0
    BY <1>1
  <2>2. g[1] = <<>> \o ss[1] /\ ss[1] \in Seq(S)
    BY <1>1, <2>1 DEF Joins
  <2> QED
    BY <2>2, ConcatEmptySeq
<1>4. IsFlat(w)
  <2>1. ASSUME NEW i \in 1 .. n PROVE w[i] = IF i = 1 THEN ss[i] ELSE w[i - 1] \o ss[i]
    <3>1. CASE i = 1
      BY <1>1, <1>3, <3>1
    <3>2. CASE i # 1
      <4>1. i - 1 \in 1 .. n
        BY <1>1, <3>2
      <4>2. g[i] = g[i - 1] \o ss[i]
        BY DEF Joins
      <4> QED
        BY <3>2, <4>1, <4>2
    <3> QED
      BY <3>1, <3>2
  <2>2. w = [i \in 1 .. n |-> w[i]]
    OBVIOUS
  <2> HIDE DEF w, n
  <2> QED
    BY <2>1, <2>2
<1>5. IsFlat(f)
  <2> HIDE DEF IsFlat, w
  <2> QED
    BY <1>4
<1> HIDE DEF f, w
<1>6. \A i \in 1 .. n : f[i] = IF i = 1 THEN ss[i] ELSE f[i - 1] \o ss[i]
  BY <1>5
<1> HIDE DEF n
<1> DEFINE T == {k \in Nat : k + 1 <= n => f[k + 1] = g[k + 1]}
<1>7. 0 \in T
  <2> SUFFICES ASSUME 1 <= n PROVE f[1] = g[1]
    OBVIOUS
  <2>1. 1 \in 1 .. n /\ n # 0
    BY <1>1
  <2> QED
    BY <1>3, <1>6, <2>1
<1>8. ASSUME NEW k \in Nat, k \in T PROVE k + 1 \in T
  <2> SUFFICES ASSUME k + 1 + 1 <= n PROVE f[k + 1 + 1] = g[k + 1 + 1]
    OBVIOUS
  <2> DEFINE i == k + 1 + 1
  <2>1. i \in 1 .. n /\ i # 1 /\ i - 1 = k + 1 /\ k + 1 <= n
    BY <1>1
  <2>2. f[k + 1] = g[k + 1]
    BY <1>8, <2>1
  <2> HIDE DEF i
  <2>3. f[i] = f[i - 1] \o ss[i]
    BY <1>6, <2>1
  <2>4. g[i] = g[i - 1] \o ss[i]
    BY <2>1 DEF Joins, n
  <2>5. f[i] = g[i]
    BY <2>1, <2>2, <2>3, <2>4
  <2> QED
    BY <2>5 DEF i
<1> HIDE DEF T
<1>9. Nat \subseteq T
  BY <1>7, <1>8, NatSetInduction
<1>10. n # 0 => f[n] = g[n]
  <2> SUFFICES ASSUME n # 0 PROVE f[n] = g[n]
    OBVIOUS
  <2>1. n - 1 \in Nat /\ (n - 1) + 1 = n
    BY <1>1
  <2>2. n - 1 \in T
    BY <1>9, <2>1
  <2> QED
    BY <1>1, <2>1, <2>2 DEF T
<1>11. FlattenSeq(ss) = IF n = 0 THEN ss ELSE f[n]
  BY DEF FlattenSeq, f, n
<1> QED
  BY <1>2, <1>10, <1>11 DEF n

(* JoinMore: what joins ss joins ss with one more, too.                    *)
JoinMore(f, n, s) == [k \in 0 .. n + 1 |-> IF k = n + 1 THEN f[n] \o s ELSE f[k]]

(* JoinsMore: and one more sequence is joined behind the others.           *)
LEMMA JoinsMore ==
  ASSUME NEW S, NEW ss \in Seq(Seq(S)), NEW s \in Seq(S), NEW f, Joins(f, ss)
  PROVE  Joins(JoinMore(f, Len(ss), s), Append(ss, s))
<1> DEFINE n == Len(ss)
           g == JoinMore(f, n, s)
           more == Append(ss, s)
<1>1. n \in Nat
  OBVIOUS
<1>2. Len(more) = n + 1 /\ more[n + 1] = s /\ \A k \in 1 .. n : more[k] = ss[k]
  <2> DEFINE Z == Seq(S)
  <2>1. ss \in Seq(Z) /\ s \in Z
    OBVIOUS
  <2> HIDE DEF Z
  <2> QED
    BY <2>1, AppendIs
<1>3. DOMAIN g = 0 .. n + 1 /\ g[0] = <<>>
  BY <1>1 DEF JoinMore, Joins
<1> HIDE DEF more
<1>4. ASSUME NEW k \in 1 .. n + 1 PROVE g[k] = g[k - 1] \o more[k]
  <2>1. CASE k = n + 1
    <3>1. k \in 0 .. n + 1 /\ k - 1 = n /\ n \in 0 .. n + 1 /\ n # n + 1
      BY <1>1, <2>1
    <3> QED
      BY <1>2, <2>1, <3>1 DEF JoinMore
  <2>2. CASE k # n + 1
    <3>1. k \in 1 .. n /\ k - 1 \in 0 .. n + 1 /\ k - 1 # n + 1 /\ k \in 0 .. n + 1
      BY <1>1, <2>2
    <3>2. f[k] = f[k - 1] \o ss[k]
      BY <3>1 DEF Joins
    <3> QED
      BY <1>2, <2>2, <3>1, <3>2 DEF JoinMore
  <2> QED
    BY <2>1, <2>2
<1> HIDE DEF g, n
<1>5. Joins(g, more)
  BY <1>2, <1>3, <1>4 DEF Joins
<1> QED
  BY <1>5 DEF g, more, n

(* JoinsExist: some function joins any sequences, one after the other.     *)
LEMMA JoinsExist ==
  ASSUME NEW S, NEW ss \in Seq(Seq(S))
  PROVE  \E f : Joins(f, ss) /\ f[Len(ss)] \in Seq(S)
<1> DEFINE n == Len(ss)
           UpTo(f, m) == /\ DOMAIN f = 0 .. m /\ f[0] = <<>> /\ f[m] \in Seq(S)
                         /\ \A k \in 1 .. m : f[k] = f[k - 1] \o ss[k]
           T == {m \in Nat : m <= n => \E f : UpTo(f, m)}
<1>1. n \in Nat /\ \A k \in 1 .. n : ss[k] \in Seq(S)
  BY ElementOfSeq
<1> HIDE DEF n
<1>2. 0 \in T
  <2> DEFINE f == [k \in 0 .. 0 |-> <<>>]
  <2>1. UpTo(f, 0)
    OBVIOUS
  <2> HIDE DEF f, UpTo
  <2> QED
    BY <2>1
<1>3. ASSUME NEW m \in Nat, m \in T PROVE m + 1 \in T
  <2> HIDE DEF UpTo
  <2> SUFFICES ASSUME m + 1 <= n PROVE \E f : UpTo(f, m + 1)
    OBVIOUS
  <2>1. PICK f : UpTo(f, m)
    <3>1. m <= n
      BY <1>1
    <3> QED
      BY <1>3, <3>1
  <2> USE DEF UpTo
  <2> DEFINE g == JoinMore(f, m, ss[m + 1])
  <2>2. DOMAIN g = 0 .. m + 1 /\ g[m + 1] = f[m] \o ss[m + 1] /\ \A k \in 0 .. m : g[k] = f[k]
    <3>1. m + 1 \in 0 .. m + 1 /\ \A k \in 0 .. m : k \in 0 .. m + 1 /\ k # m + 1
      OBVIOUS
    <3> HIDE DEF UpTo
    <3> QED
      BY <3>1 DEF JoinMore
  <2>3. ss[m + 1] \in Seq(S)
    BY <1>1
  <2>4. g[m + 1] \in Seq(S) /\ g[0] = <<>>
    BY <2>1, <2>2, <2>3, ConcatProperties
  <2> HIDE DEF g
  <2>5. ASSUME NEW k \in 1 .. m + 1 PROVE g[k] = g[k - 1] \o ss[k]
    <3>1. CASE k = m + 1
      <4>1. k - 1 = m /\ m \in 0 .. m
        BY <3>1
      <4> QED
        BY <2>2, <3>1, <4>1
    <3>2. CASE k # m + 1
      <4>1. k \in 1 .. m /\ k - 1 \in 0 .. m /\ k \in 0 .. m
        BY <3>2
      <4> QED
        BY <2>1, <2>2, <4>1
    <3> QED
      BY <3>1, <3>2
  <2>6. UpTo(g, m + 1)
    BY <2>2, <2>4, <2>5
  <2> HIDE DEF UpTo
  <2> QED
    BY <2>6
<1> HIDE DEF T
<1>4. n \in T
  BY <1>1, <1>2, <1>3, NatSetInduction
<1>5. PICK f : UpTo(f, n)
  <2> HIDE DEF UpTo
  <2> QED
    BY <1>1, <1>4 DEF T
<1> QED
  BY <1>5 DEF Joins, n

(* FlattenMore: a sequence more comes behind the others.                   *)
LEMMA FlattenMore ==
  ASSUME NEW S, NEW ss \in Seq(Seq(S)), NEW s \in Seq(S)
  PROVE  /\ FlattenSeq(ss) \in Seq(S)
         /\ FlattenSeq(Append(ss, s)) = FlattenSeq(ss) \o s
<1> DEFINE n == Len(ss)
           more == Append(ss, s)
<1>1. PICK f : Joins(f, ss) /\ f[n] \in Seq(S)
  BY JoinsExist
<1>2. n \in Nat /\ more \in Seq(Seq(S)) /\ Len(more) = n + 1
  <2> DEFINE Z == Seq(S)
  <2>1. ss \in Seq(Z) /\ s \in Z
    OBVIOUS
  <2> HIDE DEF Z
  <2>2. Len(ss) \in Nat /\ Append(ss, s) \in Seq(Z) /\ Len(Append(ss, s)) = Len(ss) + 1
    BY <2>1, AppendIs
  <2> QED
    BY <2>2 DEF Z
<1>3. FlattenSeq(ss) = f[n]
  BY <1>1, FlattenIs
<1> DEFINE g == JoinMore(f, n, s)
<1>4. Joins(g, more)
  BY <1>1, JoinsMore
<1> HIDE DEF more, g
<1>5. FlattenSeq(more) = g[n + 1]
  BY <1>2, <1>4, FlattenIs
<1>6. g[n + 1] = f[n] \o s
  <2> HIDE DEF n
  <2>1. n + 1 \in 0 .. n + 1
    BY <1>2
  <2> QED
    BY <2>1 DEF g, JoinMore
<1> QED
  BY <1>1, <1>3, <1>5, <1>6 DEF more

LineSeq == Seq(Token)

(* TextsAre: the lines of a batch.                                         *)
LEMMA TextsAre ==
  ASSUME NEW P, NEW batch \in Seq(Queries(P))
  PROVE  /\ TextsOf(batch) \in Seq(LineSeq)
         /\ \A query \in Queries(P) :
              TextsOf(Append(batch, query)) = Append(TextsOf(batch), query.text)
<1> DEFINE Q == Queries(P)
           n == Len(batch)
<1>1. n \in Nat /\ DOMAIN batch = 1 .. n
  OBVIOUS
<1>2. \A q \in 1 .. n : batch[q] \in Q /\ batch[q].text \in LineSeq
  <2>1. \A q \in 1 .. n : batch[q] \in Q
    BY ElementOfSeq
  <2>2. \A query \in Q : query.text \in LineSeq
    BY DEF Queries, LineSeq
  <2> QED
    BY <2>1, <2>2
<1>3. TextsOf(batch) \in Seq(LineSeq) /\ Len(TextsOf(batch)) = n
  <2>1. TextsOf(batch) \in [1 .. n -> LineSeq]
    BY <1>1, <1>2 DEF TextsOf
  <2> HIDE DEF n
  <2> QED
    BY <1>1, <2>1, FunctionIsSeq
<1>4. ASSUME NEW query \in Q
      PROVE  TextsOf(Append(batch, query)) = Append(TextsOf(batch), query.text)
  <2> DEFINE more == Append(batch, query)
             texts == TextsOf(more)
             other == Append(TextsOf(batch), query.text)
  <2> HIDE DEF Q
  <2>1. /\ Len(more) = n + 1 /\ more[n + 1] = query
        /\ \A q \in 1 .. n : more[q] = batch[q] /\ more \in Seq(Q)
    <3>1. batch \in Seq(Q)
      BY DEF Q
    <3> QED
      BY <3>1, AppendIs
  <2>2. more \in Seq(Q)
    BY DEF Q
  <2>3. DOMAIN more = 1 .. n + 1
    BY <2>1, <2>2
  <2>4. query.text \in LineSeq
    BY DEF Q, Queries, LineSeq
  <2>5. /\ other \in Seq(LineSeq) /\ Len(other) = n + 1 /\ other[n + 1] = query.text
        /\ \A q \in 1 .. n : other[q] = batch[q].text
    <3> DEFINE old == TextsOf(batch)
    <3>1. \A q \in 1 .. n : old[q] = batch[q].text
      BY <1>1 DEF TextsOf
    <3> HIDE DEF old
    <3>2. old \in Seq(LineSeq) /\ Len(old) = n
      BY <1>3 DEF old
    <3>3. /\ Append(old, query.text) \in Seq(LineSeq) /\ Len(Append(old, query.text)) = Len(old) + 1
          /\ Append(old, query.text)[Len(old) + 1] = query.text
          /\ \A q \in 1 .. Len(old) : Append(old, query.text)[q] = old[q]
      BY <2>4, <3>2, AppendIs
    <3> QED
      BY <3>1, <3>2, <3>3 DEF old
  <2> HIDE DEF more, other, n
  <2>6. texts = [q \in 1 .. n + 1 |-> more[q].text]
    BY <2>3 DEF TextsOf
  <2>7. \A q \in 1 .. n + 1 : more[q].text = other[q]
    <3>1. \A q \in 1 .. n + 1 : q = n + 1 \/ q \in 1 .. n
      BY <1>1
    <3> QED
      BY <2>1, <2>5, <3>1
  <2>8. other = [q \in 1 .. n + 1 |-> other[q]]
    BY <1>1, <2>5
  <2>9. texts = other
    BY <2>6, <2>7, <2>8
  <2> QED
    BY <2>9 DEF more, other
<1> QED
  BY <1>3, <1>4

(* ClosedMore: a batch more.                                               *)
LEMMA ClosedMore ==
  ASSUME NEW P, NEW open \in Seq(Seq(Queries(P))), NEW batch \in Seq(Queries(P))
  PROVE  /\ ClosedOf(open) \in Seq(LineSeq)
         /\ ClosedOf(Append(open, batch)) = ClosedOf(open) \o Append(TextsOf(batch), BATCH_TERM)
<1> DEFINE B == Seq(Queries(P))
           L == Seq(LineSeq)
           n == Len(open)
           Closed(b) == Append(TextsOf(b), BATCH_TERM)
           closed == [b \in DOMAIN open |-> Closed(open[b])]
           more == Append(open, batch)
<1>1. n \in Nat /\ DOMAIN open = 1 .. n /\ \A b \in 1 .. n : open[b] \in B
  BY ElementOfSeq
<1>2. BATCH_TERM \in LineSeq
  BY DEF BATCH_TERM, LineSeq, Token
<1>3. \A b \in B : Closed(b) \in L
  <2> SUFFICES ASSUME NEW b \in B PROVE Closed(b) \in L
    OBVIOUS
  <2>1. TextsOf(b) \in Seq(LineSeq)
    BY TextsAre
  <2> QED
    BY <1>2, <2>1
<1>4. Len(more) = n + 1 /\ more[n + 1] = batch /\ (\A b \in 1 .. n : more[b] = open[b])
      /\ more \in Seq(B)
  <2> HIDE DEF B
  <2>1. open \in Seq(B) /\ batch \in B
    BY DEF B
  <2> QED
    BY <2>1, AppendIs
<1> HIDE DEF Closed, L, B, more
<1>5. closed \in Seq(L) /\ Len(closed) = n
  <2>1. closed \in [1 .. n -> L]
    BY <1>1, <1>3
  <2> HIDE DEF n, closed
  <2> QED
    BY <1>1, <2>1, FunctionIsSeq
<1>6. Closed(batch) \in L
  BY <1>3 DEF B
<1>7. \A b \in 1 .. n : closed[b] = Closed(open[b])
  BY <1>1
<1> HIDE DEF closed
<1>8. /\ Append(closed, Closed(batch)) \in Seq(L) /\ Len(Append(closed, Closed(batch))) = n + 1
      /\ Append(closed, Closed(batch))[n + 1] = Closed(batch)
      /\ \A b \in 1 .. n : Append(closed, Closed(batch))[b] = closed[b]
  BY <1>5, <1>6, AppendIs
<1> DEFINE other == Append(closed, Closed(batch))
<1>9. other = [b \in 1 .. n + 1 |-> other[b]]
  <2>1. other \in Seq(L) /\ Len(other) = n + 1
    BY <1>8
  <2> HIDE DEF n, other
  <2> QED
    BY <1>1, <2>1
<1> HIDE DEF other, n
<1>10. \A b \in 1 .. n + 1 : Closed(more[b]) = other[b]
  <2>1. \A b \in 1 .. n + 1 : b = n + 1 \/ b \in 1 .. n
    BY <1>1
  <2> QED
    BY <1>4, <1>7, <1>8, <2>1 DEF other
<1>11. DOMAIN more = 1 .. n + 1
  BY <1>4
<1>12. [b \in DOMAIN more |-> Closed(more[b])] = other
  BY <1>9, <1>10, <1>11
<1>13. /\ FlattenSeq(closed) \in Seq(LineSeq)
       /\ FlattenSeq(other) = FlattenSeq(closed) \o Closed(batch)
  BY <1>5, <1>6, FlattenMore DEF other, L
<1>14. ClosedOf(open) = FlattenSeq(closed)
  BY DEF ClosedOf, closed, Closed
<1>15. ClosedOf(more) = FlattenSeq(other)
  <2>1. ClosedOf(more) = FlattenSeq([b \in DOMAIN more |-> Closed(more[b])])
    BY DEF ClosedOf, Closed
  <2> QED
    BY <1>12, <2>1
<1> QED
  BY <1>13, <1>14, <1>15 DEF more, Closed

(* BehindAll: what is put behind a sequence is put behind the whole.       *)
LEMMA BehindAll ==
  ASSUME NEW S, NEW a \in Seq(S), NEW b \in Seq(S), NEW v \in S
  PROVE  a \o Append(b, v) = Append(a \o b, v)
  OBVIOUS

(* SameBefore: what is in front of the last element.                       *)
LEMMA SameBefore ==
  ASSUME NEW S, NEW a \in Seq(S), NEW b \in Seq(S), NEW v \in S, Append(a, v) = Append(b, v)
  PROVE  a = b
<1>1. Len(a) \in Nat /\ Len(b) \in Nat
  OBVIOUS
<1>2. /\ Len(Append(a, v)) = Len(a) + 1 /\ \A p \in 1 .. Len(a) : Append(a, v)[p] = a[p]
      /\ Len(Append(b, v)) = Len(b) + 1 /\ \A p \in 1 .. Len(b) : Append(b, v)[p] = b[p]
  OBVIOUS
<1>3. Len(a) = Len(b)
  BY <1>1, <1>2
<1>4. \A p \in 1 .. Len(a) : a[p] = b[p]
  BY <1>2, <1>3
<1> QED
  BY <1>3, <1>4, SeqEqual

(* QueryWritten: a query in the last batch stands behind the lines of the  *)
(* others.                                                                 *)
LEMMA QueryWritten ==
  ASSUME NEW P, NEW open \in Seq(Seq(Queries(P))), open # <<>>, NEW R, NEW query \in Queries(R),
         NEW written \in Seq(LineSeq), ClosedOf(open) = Append(written, BATCH_TERM)
  PROVE  ClosedOf(WithQuery(open, query)) = Append(Append(written, query.text), BATCH_TERM)
<1> DEFINE n == Len(open)
           Q == P \cup R
           B == Seq(Queries(Q))
           front == SubSeq(open, 1, n - 1)
           last == open[n]
           longer == Append(last, query)
<1>1. Queries(P) \subseteq Queries(Q) /\ Queries(R) \subseteq Queries(Q)
  BY DEF Queries
<1>2. open \in Seq(B) /\ n \in Nat /\ n # 0
  <2>1. Seq(Queries(P)) \subseteq B
    BY <1>1, SeqMonotonic
  <2>2. open \in Seq(B)
    <3> HIDE DEF B
    <3> QED
      BY <2>1, SeqMonotonic
  <2> HIDE DEF B
  <2> QED
    BY <2>2
<1> HIDE DEF Q
<1>3. query \in Queries(Q)
  BY <1>1
<1>4. last \in B /\ longer \in B
  <2>1. last \in B
    <3> HIDE DEF B
    <3> QED
      BY <1>2
  <2> DEFINE X == Queries(Q)
  <2> HIDE DEF X, last
  <2>2. last \in Seq(X) /\ query \in X
    BY <1>3, <2>1 DEF X
  <2>3. longer \in Seq(X)
    BY <2>2, AppendIs
  <2> QED
    BY <2>1, <2>3 DEF X
<1> HIDE DEF B
<1>5. front \in Seq(B) /\ Len(front) = n - 1 /\ \A b \in 1 .. n - 1 : front[b] = open[b]
  <2>1. 1 \in 1 .. Len(open) + 1 /\ n - 1 \in 1 - 1 .. Len(open) /\ n - 1 - 1 + 1 = n - 1
    BY <1>2
  <2>2. /\ front \in Seq(B) /\ Len(front) = n - 1 - 1 + 1
        /\ \A b \in 1 .. n - 1 - 1 + 1 : front[b] = open[1 + b - 1]
    BY <1>2, <2>1, SubSeqIs
  <2>3. \A b \in 1 .. n - 1 : 1 + b - 1 = b
    BY <1>2
  <2> QED
    BY <2>1, <2>2, <2>3
<1> HIDE DEF front, last, longer
<1>6. ASSUME NEW v \in B
      PROVE  /\ Append(front, v) \in Seq(B) /\ Len(Append(front, v)) = n
             /\ Append(front, v)[n] = v
             /\ \A b \in 1 .. n - 1 : Append(front, v)[b] = open[b]
  <2>1. /\ Append(front, v) \in Seq(B) /\ Len(Append(front, v)) = Len(front) + 1
        /\ Append(front, v)[Len(front) + 1] = v
        /\ \A b \in 1 .. Len(front) : Append(front, v)[b] = front[b]
    BY <1>5, AppendIs
  <2>2. Len(front) + 1 = n
    BY <1>2, <1>5
  <2> QED
    BY <1>5, <2>1, <2>2
<1>7. \A b \in 1 .. n : b = n \/ b \in 1 .. n - 1
  BY <1>2
<1>8. open = Append(front, last)
  <2> DEFINE r == Append(front, last)
  <2>1. r \in Seq(B) /\ Len(r) = n /\ r[n] = last /\ \A b \in 1 .. n - 1 : r[b] = open[b]
    BY <1>4, <1>6
  <2> HIDE DEF r
  <2>2. \A b \in 1 .. n : r[b] = open[b]
    BY <1>7, <2>1 DEF last
  <2>3. r = open
    BY <1>2, <2>1, <2>2, SeqEqual
  <2> QED
    BY <2>3 DEF r
<1>9. WithQuery(open, query) = Append(front, longer)
  <2> DEFINE r == Append(front, longer)
             w == WithQuery(open, query)
  <2>1. r \in Seq(B) /\ Len(r) = n /\ r[n] = longer /\ \A b \in 1 .. n - 1 : r[b] = open[b]
    BY <1>4, <1>6
  <2>2. DOMAIN open = 1 .. n /\ n \in 1 .. n /\ \A b \in 1 .. n - 1 : b \in 1 .. n /\ b # n
    BY <1>2
  <2> HIDE DEF n
  <2>3. w = [open EXCEPT ![n] = longer]
    BY DEF WithQuery, n, last, longer
  <2>4. w[n] = longer /\ (\A b \in 1 .. n - 1 : w[b] = open[b]) /\ DOMAIN w = 1 .. n
    BY <2>2, <2>3
  <2> HIDE DEF r, w
  <2>5. \A b \in 1 .. n : r[b] = w[b]
    BY <1>7, <2>1, <2>4
  <2>6. w = [b \in 1 .. n |-> w[b]]
    BY <2>3, <2>4
  <2>7. r = [b \in 1 .. n |-> r[b]]
    BY <2>1
  <2>8. r = w
    BY <2>5, <2>6, <2>7
  <2> QED
    BY <2>8 DEF r, w
<1> DEFINE before == ClosedOf(front)
           texts == TextsOf(last)
<1>10. /\ before \in Seq(LineSeq)
       /\ ClosedOf(open) = before \o Append(texts, BATCH_TERM)
       /\ ClosedOf(WithQuery(open, query)) = before \o Append(TextsOf(longer), BATCH_TERM)
  BY <1>4, <1>5, <1>8, <1>9, ClosedMore DEF B
<1>11. texts \in Seq(LineSeq) /\ TextsOf(longer) = Append(texts, query.text)
  BY <1>3, <1>4, TextsAre DEF B, longer
<1> HIDE DEF before, texts
<1>12. query.text \in LineSeq /\ BATCH_TERM \in LineSeq
  BY DEF Queries, LineSeq, BATCH_TERM, Token
<1>13. before \o texts \in Seq(LineSeq) /\ Append(texts, query.text) \in Seq(LineSeq)
  BY <1>10, <1>11, <1>12
<1>14. Append(before \o texts, BATCH_TERM) = Append(written, BATCH_TERM)
  <2>1. before \o Append(texts, BATCH_TERM) = Append(before \o texts, BATCH_TERM)
    BY <1>10, <1>11, <1>12, BehindAll
  <2> HIDE DEF n
  <2> QED
    BY <1>10, <2>1
<1>15. before \o texts = written
  BY <1>12, <1>13, <1>14, SameBefore
<1>16. before \o Append(Append(texts, query.text), BATCH_TERM)
         = Append(before \o Append(texts, query.text), BATCH_TERM)
  BY <1>10, <1>12, <1>13, BehindAll
<1>17. before \o Append(texts, query.text) = Append(before \o texts, query.text)
  BY <1>10, <1>11, <1>12, BehindAll
<1> QED
  BY <1>10, <1>11, <1>15, <1>16, <1>17

(* LineAdded: what a line more changes of the sets that the lines make.    *)
LEMMA LineAdded ==
  ASSUME NEW limit \in Nat \ {0, 1}, ReadInv, stdin # <<>>, Fgets(limit)
  PROVE  /\ DoneLines \subseteq DoneLines' /\ DoneLines' \subseteq DoneLines \cup {Len(lines) + 1}
         /\ Len(lines) + 1 \in DoneLines' <=> Is(Line(limit), "done")
         /\ AllWhole' => AllWhole /\ IsNewline(Last(Chunk(limit)))
<1> DEFINE n == Len(lines)
<1>1. /\ lines' \in Seq([text : Seq(Token), whole : BOOLEAN]) /\ Len(lines') = n + 1
      /\ lines'[n + 1].text = Line(limit)
      /\ lines'[n + 1].whole <=> IsNewline(Last(Chunk(limit)))
      /\ \A k \in 1 .. n : lines'[k] = lines[k]
  BY FgetsIs
<1>2. lines \in Seq([text : Seq(Token), whole : BOOLEAN])
  BY DEF ReadInv, RelInv
<1>3. DOMAIN lines = 1 .. n /\ DOMAIN lines' = 1 .. n + 1 /\ n \in Nat
  BY <1>1, <1>2
<1> HIDE DEF n
<1>4. n + 1 \in 1 .. n + 1 /\ (\A k \in 1 .. n : k \in 1 .. n + 1)
      /\ \A k \in 1 .. n + 1 : k = n + 1 \/ k \in 1 .. n
  BY <1>3
<1>5. DoneLines' = {k \in DOMAIN lines' : Is(lines'[k].text, "done")}
  BY DEF DoneLines, Is
<1>6. /\ DoneLines \subseteq DoneLines' /\ DoneLines' \subseteq DoneLines \cup {n + 1}
      /\ n + 1 \in DoneLines' <=> Is(Line(limit), "done")
  <2>1. \A k \in 1 .. n : k \in DoneLines <=> Is(lines[k].text, "done")
    BY <1>3 DEF DoneLines
  <2>2. \A k \in 1 .. n + 1 : k \in DoneLines' <=> Is(lines'[k].text, "done")
    BY <1>3, <1>5
  <2>3. DoneLines \subseteq 1 .. n /\ DoneLines' \subseteq 1 .. n + 1
    BY <1>3, <1>5 DEF DoneLines
  <2>4. \A k \in 1 .. n : k \in DoneLines <=> k \in DoneLines'
    BY <1>1, <1>4, <2>1, <2>2
  <2>5. n + 1 \in DoneLines' <=> Is(Line(limit), "done")
    BY <1>1, <1>4, <2>2
  <2> QED
    BY <1>4, <2>3, <2>4, <2>5
<1>7. ASSUME AllWhole' PROVE AllWhole /\ IsNewline(Last(Chunk(limit)))
  <2>1. \A k \in 1 .. n + 1 : lines'[k].whole
    BY <1>3, <1>7 DEF AllWhole
  <2>2. \A k \in 1 .. n : lines[k].whole
    BY <1>1, <1>4, <2>1
  <2> QED
    BY <1>1, <1>3, <1>4, <2>1, <2>2 DEF AllWhole
<1> QED
  BY <1>6, <1>7 DEF n

(* WrittenMore: the lines after "done" grow by the one that is read.       *)
LEMMA WrittenMore ==
  ASSUME ReadInv
  PROVE  /\ QueryLines \in Seq(LineSeq)
         /\ \A limit \in Nat \ {0, 1} :
              stdin # <<>> /\ Fgets(limit) /\ DoneLines # {} =>
                QueryLines' = Append(QueryLines, Line(limit))
<1> DEFINE n == Len(lines)
           d == Min(DoneLines)
<1>1. lines \in Seq([text : Seq(Token), whole : BOOLEAN]) /\ n \in Nat /\ DOMAIN lines = 1 .. n
  BY DEF ReadInv, RelInv
<1>2. \A k \in 1 .. n : lines[k].text \in LineSeq
  <2>1. \A k \in 1 .. n : lines[k] \in [text : Seq(Token), whole : BOOLEAN]
    BY <1>1, ElementOfSeq
  <2> QED
    BY <2>1 DEF LineSeq
<1> HIDE DEF n
<1>3. DoneLines \subseteq 1 .. n /\ DoneLines \in SUBSET Nat
  BY <1>1 DEF DoneLines
<1>4. DoneLines # {} => d \in 1 .. n
  BY <1>3, MinOf
<1>5. DoneLines # {} => /\ QueryLines \in Seq(LineSeq) /\ Len(QueryLines) = n - d
                        /\ \A k \in 1 .. n - d : QueryLines[k] = lines[d + k].text
  <2> SUFFICES ASSUME DoneLines # {}
               PROVE  /\ QueryLines \in Seq(LineSeq) /\ Len(QueryLines) = n - d
                      /\ \A k \in 1 .. n - d : QueryLines[k] = lines[d + k].text
    OBVIOUS
  <2>1. QueryLines = [k \in 1 .. n - d |-> lines[d + k].text]
    BY DEF QueryLines, n
  <2>2. n - d \in Nat /\ \A k \in 1 .. n - d : d + k \in 1 .. n
    BY <1>1, <1>4
  <2> HIDE DEF d
  <2>3. QueryLines \in [1 .. n - d -> LineSeq]
    BY <1>2, <2>1, <2>2
  <2> DEFINE m == n - d
  <2>4. QueryLines \in [1 .. m -> LineSeq] /\ m \in Nat
    BY <2>2, <2>3
  <2> HIDE DEF m
  <2>5. QueryLines \in Seq(LineSeq) /\ Len(QueryLines) = m
    BY <2>4, FunctionIsSeq
  <2> QED
    BY <2>1, <2>5 DEF m
<1>6. QueryLines \in Seq(LineSeq)
  <2>1. CASE DoneLines = {}
    <3>1. QueryLines = <<>>
      BY <2>1 DEF QueryLines
    <3> QED
      BY <3>1
  <2>2. CASE DoneLines # {}
    BY <1>5, <2>2
  <2> QED
    BY <2>1, <2>2
<1>7. ASSUME NEW limit \in Nat \ {0, 1}, stdin # <<>>, Fgets(limit), DoneLines # {}
      PROVE  QueryLines' = Append(QueryLines, Line(limit))
  <2>1. /\ Len(lines') = n + 1 /\ lines'[n + 1].text = Line(limit)
        /\ Line(limit) \in LineSeq
        /\ \A k \in 1 .. n : lines'[k] = lines[k]
    BY <1>7, FgetsIs DEF n, LineSeq
  <2>2. /\ DoneLines' \subseteq DoneLines \cup {n + 1}
        /\ DoneLines \subseteq DoneLines'
    BY <1>7, LineAdded DEF n
  <2>3. d \in DoneLines /\ d \in 1 .. n /\ \A x \in DoneLines : d <= x
    <3>1. Min(DoneLines) \in DoneLines /\ \A x \in DoneLines : Min(DoneLines) <= x
      BY <1>3, <1>7, MinOf
    <3> QED
      BY <1>3, <3>1
  <2> HIDE DEF d
  <2>4. Min(DoneLines') = d
    <3>1. DoneLines' \in SUBSET Nat /\ DoneLines' # {}
      <4>1. n + 1 \in Nat
        BY <1>1
      <4> QED
        BY <1>3, <1>7, <2>2, <4>1
    <3>2. Min(DoneLines') \in DoneLines' /\ \A x \in DoneLines' : Min(DoneLines') <= x
      BY <3>1, MinOf
    <3>3. \A x \in DoneLines' : d <= x
      <4>1. d <= n + 1
        BY <1>1, <2>3
      <4> QED
        BY <2>2, <2>3, <4>1
    <3> DEFINE e == Min(DoneLines')
               T == DoneLines'
    <3>4. e \in T /\ (\A x \in T : e <= x) /\ T \subseteq Nat
      BY <3>1, <3>2
    <3>5. d \in T /\ \A x \in T : d <= x
      BY <2>2, <2>3, <3>3
    <3> HIDE DEF e, T
    <3>6. e = d
      BY <3>4, <3>5
    <3> QED
      BY <3>6 DEF e, T
  <2> DEFINE m == n - d
  <2>5. /\ m \in Nat /\ n + 1 - d = m + 1 /\ d + (m + 1) = n + 1
        /\ \A k \in 1 .. m : d + k \in 1 .. n
    BY <1>1, <2>3
  <2>6. QueryLines' = [k \in 1 .. m + 1 |-> lines'[d + k].text]
    <3>1. DoneLines' # {}
      BY <1>7, <2>2
    <3>2. QueryLines' = [k \in 1 .. Len(lines') - Min(DoneLines') |-> lines'[Min(DoneLines') + k].text]
      BY <3>1 DEF QueryLines
    <3> DEFINE q == QueryLines'
    <3> HIDE DEF q
    <3>3. /\ q = [k \in DOMAIN q |-> q[k]] /\ DOMAIN q = 1 .. Len(lines') - Min(DoneLines')
          /\ \A k \in DOMAIN q : q[k] = lines'[Min(DoneLines') + k].text
      BY <3>2 DEF q
    <3>4. DOMAIN q = 1 .. m + 1 /\ \A k \in DOMAIN q : q[k] = lines'[d + k].text
      <4>1. Len(lines') - Min(DoneLines') = n + 1 - d
        BY <1>1, <2>1, <2>3, <2>4
      <4> HIDE DEF m
      <4>2. DOMAIN q = 1 .. m + 1
        BY <2>5, <3>3, <4>1
      <4>3. \A k \in DOMAIN q : q[k] = lines'[d + k].text
        BY <2>4, <3>3
      <4> QED
        BY <4>2, <4>3
    <3> HIDE DEF m
    <3> QED
      BY <3>3, <3>4 DEF q
  <2>7. /\ QueryLines \in Seq(LineSeq) /\ Len(QueryLines) = m
        /\ \A k \in 1 .. m : QueryLines[k] = lines[d + k].text
    BY <1>5, <1>7 DEF d
  <2> HIDE DEF m
  <2> DEFINE more == Append(QueryLines, Line(limit))
  <2>8. /\ more \in Seq(LineSeq) /\ Len(more) = m + 1 /\ more[m + 1] = Line(limit)
        /\ \A k \in 1 .. m : more[k] = QueryLines[k]
    BY <2>1, <2>7, AppendIs
  <2> HIDE DEF more
  <2>9. \A k \in 1 .. m + 1 : lines'[d + k].text = more[k]
    <3>1. \A k \in 1 .. m + 1 : k = m + 1 \/ k \in 1 .. m
      BY <2>5
    <3> QED
      BY <2>1, <2>5, <2>7, <2>8, <3>1
  <2>10. more = [k \in 1 .. m + 1 |-> more[k]]
    BY <2>5, <2>8
  <2>11. QueryLines' = more
    BY <2>6, <2>9, <2>10
  <2> QED
    BY <2>11 DEF more
<1> QED
  BY <1>6, <1>7

(* RestFollows: fgets leaves the rest of the input behind what it took,    *)
(* and if that ends with a newline, the line is what was in front of it.   *)
LEMMA RestFollows ==
  ASSUME NEW limit \in Nat \ {0, 1}, NEW s \in Seq(Token), NEW o \in 0 .. Len(s),
         stdin = SubSeq(s, o + 1, Len(s)), stdin # <<>>, Fgets(limit)
  PROVE  \E b \in o + 1 .. Len(s) :
           /\ stdin' = SubSeq(s, b + 1, Len(s))
           /\ Line(limit) # <<>> => Line(limit)[1].kind = s[o + 1].kind
           /\ IsNewline(Last(Chunk(limit))) =>
                /\ IsNewline(s[b]) /\ OneLine(s, o + 1, b - 1)
                /\ Line(limit) = SubSeq(s, o + 1, b - 1)
<1> DEFINE n == Len(s)
           t == Taken(limit)
           b == o + t
           chunk == Chunk(limit)
<1>1. n \in Nat /\ o \in 0 .. n
  OBVIOUS
<1> HIDE DEF n
<1>2. /\ stdin \in Seq(Token) /\ Len(stdin) = n - o
      /\ \A k \in 1 .. n - o : stdin[k] = s[o + k]
  <2>1. o + 1 \in 1 .. n + 1 /\ n \in o + 1 - 1 .. n /\ n - (o + 1) + 1 = n - o
    BY <1>1
  <2> DEFINE a == o + 1
             r == SubSeq(s, a, n)
  <2>2. a \in 1 .. Len(s) + 1 /\ n \in a - 1 .. Len(s) /\ stdin = r
    BY <2>1 DEF n
  <2> HIDE DEF a
  <2>3. r \in Seq(Token) /\ Len(r) = n - a + 1 /\ \A k \in 1 .. n - a + 1 : r[k] = s[a + k - 1]
    BY <2>2, SubSeqIs
  <2>4. \A k \in 1 .. n - o : a + k - 1 = o + k
    BY <1>1 DEF a
  <2>5. n - a + 1 = n - o
    BY <1>1 DEF a
  <2> HIDE DEF r
  <2> QED
    BY <2>2, <2>3, <2>4, <2>5
<1>3. t \in 1 .. n - o /\ \A k \in 1 .. t - 1 : stdin[k].kind # "nl"
  BY <1>2, TakenIs
<1> HIDE DEF t
<1>4. b \in o + 1 .. n /\ t \in Nat /\ b \in Nat
  BY <1>1, <1>3
<1>5. stdin' = SubSeq(s, b + 1, n)
  <2> DEFINE u == SubSeq(stdin, t + 1, n - o)
             v == SubSeq(s, b + 1, n)
             m == n - b
  <2>1. stdin' = u
    BY <1>2 DEF Fgets, t
  <2>2. u \in Seq(Token) /\ Len(u) = m /\ \A k \in 1 .. m : u[k] = s[b + k]
    <3> DEFINE a == t + 1
               e == n - o
    <3>1. a \in 1 .. Len(stdin) + 1 /\ e \in a - 1 .. Len(stdin)
      BY <1>1, <1>2, <1>3
    <3>2. e - a + 1 = m /\ \A k \in 1 .. m : /\ a + k - 1 = t + k /\ t + k \in 1 .. n - o
                                             /\ o + (t + k) = b + k
      BY <1>1, <1>3
    <3> HIDE DEF a, e
    <3>3. /\ SubSeq(stdin, a, e) \in Seq(Token) /\ Len(SubSeq(stdin, a, e)) = e - a + 1
          /\ \A k \in 1 .. e - a + 1 : SubSeq(stdin, a, e)[k] = stdin[a + k - 1]
      BY <1>2, <3>1, SubSeqIs
    <3> HIDE DEF m
    <3>4. ASSUME NEW k \in 1 .. m PROVE SubSeq(stdin, a, e)[k] = s[b + k]
      <4> HIDE DEF b
      <4>1. a + k - 1 = t + k /\ t + k \in 1 .. n - o /\ o + (t + k) = b + k
        BY <3>2
      <4>2. SubSeq(stdin, a, e)[k] = stdin[t + k]
        BY <3>2, <3>3, <4>1
      <4>3. stdin[t + k] = s[o + (t + k)]
        BY <1>2, <4>1
      <4> QED
        BY <4>1, <4>2, <4>3
    <3> QED
      BY <3>2, <3>3, <3>4 DEF a, e
  <2>3. v \in Seq(Token) /\ Len(v) = m /\ \A k \in 1 .. m : v[k] = s[b + k]
    <3> DEFINE a == b + 1
    <3>1. a \in 1 .. Len(s) + 1 /\ n \in a - 1 .. Len(s)
      BY <1>1, <1>4 DEF n
    <3>2. n - a + 1 = m /\ \A k \in 1 .. m : a + k - 1 = b + k
      BY <1>1, <1>4
    <3> HIDE DEF a
    <3>3. /\ SubSeq(s, a, n) \in Seq(Token) /\ Len(SubSeq(s, a, n)) = n - a + 1
          /\ \A k \in 1 .. n - a + 1 : SubSeq(s, a, n)[k] = s[a + k - 1]
      BY <3>1, SubSeqIs
    <3> HIDE DEF m
    <3> QED
      BY <3>2, <3>3 DEF a
  <2> HIDE DEF u, v, m
  <2>4. u = v
    BY <2>2, <2>3, SeqEqual
  <2> QED
    BY <2>1, <2>4 DEF v
<1>6. /\ chunk \in Seq(Token) /\ Len(chunk) = t
      /\ \A k \in 1 .. t : chunk[k] = s[o + k]
  <2>1. 1 \in 1 .. Len(stdin) + 1 /\ t \in 1 - 1 .. Len(stdin) /\ t - 1 + 1 = t
    BY <1>1, <1>2, <1>3, <1>4
  <2>2. \A k \in 1 .. t : 1 + k - 1 = k /\ k \in 1 .. n - o
    BY <1>1, <1>3
  <2>3. /\ SubSeq(stdin, 1, t) \in Seq(Token) /\ Len(SubSeq(stdin, 1, t)) = t - 1 + 1
        /\ \A k \in 1 .. t - 1 + 1 : SubSeq(stdin, 1, t)[k] = stdin[1 + k - 1]
    BY <1>2, <2>1, SubSeqIs
  <2> QED
    BY <1>2, <2>1, <2>2, <2>3 DEF Chunk, t
<1>7. Line(limit) # <<>> => Line(limit)[1].kind = s[o + 1].kind
  <2> SUFFICES ASSUME Line(limit) # <<>> PROVE Line(limit)[1].kind = s[o + 1].kind
    OBVIOUS
  <2>1. /\ Line(limit) \in Seq(Token)
        /\ \A k \in 1 .. Len(Line(limit)) : Line(limit)[k].kind = stdin[k].kind
    BY <1>2, LineIs
  <2>2. 1 \in 1 .. Len(Line(limit))
    BY <2>1
  <2>3. 1 \in 1 .. n - o
    BY <1>1, <1>3
  <2> QED
    BY <1>2, <2>1, <2>2, <2>3
<1>8. ASSUME IsNewline(Last(chunk))
      PROVE  /\ IsNewline(s[b]) /\ OneLine(s, o + 1, b - 1)
             /\ Line(limit) = SubSeq(s, o + 1, b - 1)
  <2> DEFINE u == SubSeq(chunk, 1, t - 1)
             v == SubSeq(s, o + 1, b - 1)
  <2>1. Line(limit) = Cropped(chunk)
    BY DEF Line
  <2> HIDE DEF chunk
  <2>2. t \in 1 .. t /\ Last(chunk) = s[b]
    BY <1>3, <1>4, <1>6 DEF Last
  <2>3. Line(limit) = u
    <3>1. Last(chunk).kind \in OneCharacter
      BY <1>8 DEF IsNewline, OneCharacter
    <3> QED
      BY <1>6, <2>1, <3>1 DEF Cropped, Front
  <2>4. u \in Seq(Token) /\ Len(u) = t - 1 /\ \A k \in 1 .. t - 1 : u[k] = s[o + k]
    <3> DEFINE e == t - 1
    <3>1. 1 \in 1 .. Len(chunk) + 1 /\ e \in 1 - 1 .. Len(chunk) /\ e - 1 + 1 = e
      BY <1>3, <1>4, <1>6
    <3>2. \A k \in 1 .. e : 1 + k - 1 = k /\ k \in 1 .. t
      BY <1>4
    <3> HIDE DEF e
    <3>3. /\ SubSeq(chunk, 1, e) \in Seq(Token) /\ Len(SubSeq(chunk, 1, e)) = e - 1 + 1
          /\ \A k \in 1 .. e - 1 + 1 : SubSeq(chunk, 1, e)[k] = chunk[1 + k - 1]
      BY <1>6, <3>1, SubSeqIs
    <3>4. \A k \in 1 .. e : SubSeq(chunk, 1, e)[k] = s[o + k]
      BY <1>6, <3>1, <3>2, <3>3
    <3> QED
      BY <3>1, <3>3, <3>4 DEF e
  <2>5. v \in Seq(Token) /\ Len(v) = t - 1 /\ \A k \in 1 .. t - 1 : v[k] = s[o + k]
    <3> DEFINE a == o + 1
               e == b - 1
               m == t - 1
    <3>1. a \in 1 .. Len(s) + 1 /\ e \in a - 1 .. Len(s)
      BY <1>1, <1>3, <1>4 DEF n
    <3>2. e - a + 1 = m /\ \A k \in 1 .. m : a + k - 1 = o + k
      BY <1>1, <1>4
    <3> HIDE DEF a, e
    <3>3. /\ SubSeq(s, a, e) \in Seq(Token) /\ Len(SubSeq(s, a, e)) = e - a + 1
          /\ \A k \in 1 .. e - a + 1 : SubSeq(s, a, e)[k] = s[a + k - 1]
      BY <3>1, SubSeqIs
    <3> HIDE DEF m
    <3>4. SubSeq(s, a, e) \in Seq(Token) /\ Len(SubSeq(s, a, e)) = m
          /\ \A k \in 1 .. m : SubSeq(s, a, e)[k] = s[o + k]
      BY <3>2, <3>3
    <3> QED
      BY <3>4 DEF a, e, m
  <2>6. OneLine(s, o + 1, b - 1)
    <3> SUFFICES ASSUME NEW k \in o + 1 .. b - 1 PROVE s[k].kind # "nl"
      BY DEF OneLine
    <3>1. k - o \in 1 .. t - 1 /\ k - o \in 1 .. n - o /\ o + (k - o) = k
      BY <1>1, <1>3, <1>4
    <3> QED
      BY <1>2, <1>3, <3>1
  <2> HIDE DEF u, v
  <2>7. u = v
    <3> DEFINE m == t - 1
    <3>1. Len(u) = m /\ Len(v) = m /\ \A k \in 1 .. m : u[k] = v[k]
      BY <2>4, <2>5
    <3> HIDE DEF m
    <3> QED
      BY <2>4, <2>5, <3>1, SeqEqual
  <2> QED
    BY <1>8, <2>2, <2>3, <2>6, <2>7 DEF v
<1> HIDE DEF b, chunk
<1> QED
  BY <1>4, <1>5, <1>7, <1>8 DEF n, chunk

AllAnswerable == \A s \in Inputs : Answerable(s)

(* There is a line "done" until the relations have been read, unless the   *)
(* input ended before.                                                     *)
DoneInv ==
  /\ pc = "relations" => DoneLines = {}
  /\ pc # "relations" /\ stdin # <<>> => DoneLines # {}

(* What is to be read is the rest of s behind its first o tokens: whole    *)
(* lines, with "done" among them once the relations have been read.        *)
AtLine(s, o) ==
  /\ stdin = SubSeq(s, o + 1, Len(s))
  /\ AllWhole =>
       /\ o = 0 \/ IsNewline(s[o])
       /\ (pc # "relations" /\ stdin # <<>> => \E d \in 1 .. o : s[d].kind = "done")

SourceInv == \E s \in Inputs : \E o \in 0 .. Len(s) : AtLine(s, o)

LinesInv == ReadInv /\ DoneInv /\ SourceInv /\ BatchesAsWritten

Written ==
  /\ pc # "undefined"
  /\ ClosedOf(batches) = IF end_of_batch THEN QueryLines ELSE Append(QueryLines, BATCH_TERM)

(* AsWritten: BatchesAsWritten in terms of ClosedOf.                       *)
LEMMA AsWritten == BatchesAsWritten <=> (AllWhole /\ pc \notin {"relations", "aborted"} => Written)
  BY Zenon DEF BatchesAsWritten, Written, ClosedOf, TextsOf

(* SourceRead: a call of fgets, with the change of pc that "done" brings.  *)
LEMMA SourceRead ==
  ASSUME NEW limit \in Nat \ {0, 1}, ReadInv, SourceInv, stdin # <<>>, Fgets(limit),
         pc' # "relations" => pc # "relations" \/ Is(Line(limit), "done")
  PROVE  SourceInv'
<1>1. PICK s \in Inputs : \E o \in 0 .. Len(s) : AtLine(s, o)
  BY DEF SourceInv
<1>2. PICK o \in 0 .. Len(s) : AtLine(s, o)
  BY <1>1
<1>3. s \in Seq(Token) /\ Len(s) \in Nat
  BY InputAssumption DEF WellWritten
<1>4. PICK b \in o + 1 .. Len(s) :
        /\ stdin' = SubSeq(s, b + 1, Len(s))
        /\ Line(limit) # <<>> => Line(limit)[1].kind = s[o + 1].kind
        /\ IsNewline(Last(Chunk(limit))) => IsNewline(s[b])
  <2>1. stdin = SubSeq(s, o + 1, Len(s))
    BY <1>2 DEF AtLine
  <2> QED
    BY <1>3, <2>1, RestFollows
<1>5. b \in 0 .. Len(s) /\ o + 1 \in 1 .. b /\ \A d \in 1 .. o : d \in 1 .. b
  BY <1>3, <1>4
<1>6. ASSUME AllWhole', pc' # "relations", stdin' # <<>>
      PROVE  \E d \in 1 .. b : s[d].kind = "done"
  <2>1. AllWhole
    BY <1>6, LineAdded
  <2>2. CASE pc # "relations"
    BY <1>2, <1>5, <2>1, <2>2 DEF AtLine
  <2>3. CASE Is(Line(limit), "done")
    <3>1. Line(limit)[1].kind = "done" /\ Line(limit) # <<>>
      <4>1. Len(Line(limit)) = 1 /\ Line(limit)[1].kind = "done"
        BY <2>3 DEF Is
      <4>2. Len(<<>>) = 0
        OBVIOUS
      <4> QED
        BY <4>1, <4>2
    <3> QED
      BY <1>4, <1>5, <3>1
  <2> QED
    BY <1>6, <2>2, <2>3
<1>7. AllWhole' => IsNewline(s[b])
  BY <1>4, LineAdded
<1>8. AtLine(s, b)'
  BY <1>4, <1>6, <1>7 DEF AtLine, IsNewline
<1> QED
  BY <1>5, <1>8 DEF SourceInv

(* Answered: behind "done" every whole line is "F" or a query.             *)
LEMMA Answered ==
  ASSUME NEW limit \in Nat \ {0, 1}, ReadInv, SourceInv, AllAnswerable, pc # "relations",
         stdin # <<>>, Fgets(limit), AllWhole'
  PROVE  Is(Line(limit), "f") \/ Parsed(Line(limit))
<1>1. PICK s \in Inputs : \E o \in 0 .. Len(s) : AtLine(s, o)
  BY DEF SourceInv
<1>2. PICK o \in 0 .. Len(s) : AtLine(s, o)
  BY <1>1
<1>3. s \in Seq(Token) /\ Len(s) \in Nat /\ Answerable(s)
  BY InputAssumption DEF WellWritten, AllAnswerable
<1>4. AllWhole /\ IsNewline(Last(Chunk(limit)))
  BY LineAdded
<1>5. PICK b \in o + 1 .. Len(s) : /\ IsNewline(s[b]) /\ OneLine(s, o + 1, b - 1)
                                   /\ Line(limit) = SubSeq(s, o + 1, b - 1)
  <2>1. stdin = SubSeq(s, o + 1, Len(s))
    BY <1>2 DEF AtLine
  <2> QED
    BY <1>3, <1>4, <2>1, RestFollows
<1>6. (o = 0 \/ IsNewline(s[o])) /\ \E d \in 1 .. o : s[d].kind = "done"
  BY <1>2, <1>4 DEF AtLine
<1>7. PICK d \in 1 .. o : s[d].kind = "done"
  BY <1>6
<1> DEFINE a == o + 1
<1>8. DOMAIN s = 1 .. Len(s) /\ d \in DOMAIN s /\ a \in DOMAIN s /\ b \in DOMAIN s
  BY <1>3, <1>5
<1>9. d < a /\ a <= b /\ IsNewline(s[a - 1])
  <2>1. a - 1 = o /\ o # 0
    OBVIOUS
  <2> HIDE DEF a
  <2> QED
    BY <1>5, <1>6, <2>1 DEF a
<1>10. OneLine(s, a, b - 1) /\ Line(limit) = SubSeq(s, a, b - 1)
  BY <1>5
<1> HIDE DEF a
<1> QED
  BY <1>3, <1>5, <1>7, <1>8, <1>9, <1>10 DEF Answerable

(* OpenedClosed: a batch that is opened is closed behind the lines so far. *)
LEMMA OpenedClosed ==
  ASSUME ReadInv, Written
  PROVE  ClosedOf(Opened) = Append(QueryLines, BATCH_TERM)
<1>1. CASE end_of_batch
  <2>1. PICK P : batches \in Seq(Seq(Queries(P)))
    BY DEF ReadInv, BatchesInv
  <2>2. TextsOf(<<>>) = <<>> /\ <<>> \in Seq(Queries(P))
    BY DEF TextsOf
  <2>3. ClosedOf(Append(batches, <<>>)) = ClosedOf(batches) \o Append(TextsOf(<<>>), BATCH_TERM)
    BY <2>1, <2>2, ClosedMore
  <2>4. ClosedOf(batches) = QueryLines /\ Opened = Append(batches, <<>>)
    BY <1>1 DEF Written, Opened
  <2>5. QueryLines \in Seq(LineSeq) /\ BATCH_TERM \in LineSeq
    BY WrittenMore DEF LineSeq, BATCH_TERM, Token
  <2>6. QueryLines \o <<>> = QueryLines /\ <<>> \in Seq(LineSeq)
    BY <2>5
  <2>7. QueryLines \o Append(<<>>, BATCH_TERM) = Append(QueryLines \o <<>>, BATCH_TERM)
    BY <2>5, <2>6, BehindAll
  <2> QED
    BY <2>2, <2>3, <2>4, <2>6, <2>7
<1>2. CASE ~end_of_batch
  BY <1>2 DEF Written, Opened
<1> QED
  BY <1>1, <1>2

(* ReadLineWritten: the line that is read stands behind the others.        *)
LEMMA ReadLineWritten ==
  ASSUME AllAnswerable, LinesInv, ReadLine
  PROVE  BatchesAsWritten'
<1> SUFFICES ASSUME AllWhole', pc' \notin {"relations", "aborted"} PROVE Written'
  <2>1. (BatchesAsWritten <=> (AllWhole /\ pc \notin {"relations", "aborted"} => Written))'
    BY AsWritten, PTL
  <2> QED
    BY <2>1
<1> DEFINE line == Line(MaxQuery)
<1>1. /\ MaxQuery \in Nat \ {0, 1} /\ Fgets(MaxQuery) /\ stdin # <<>> /\ pc = "queries"
      /\ ReadInv /\ SourceInv /\ DoneLines # {}
  BY InputAssumption DEF ReadLine, LinesInv, DoneInv
<1>2. Is(line, "f") \/ Parsed(line)
  BY <1>1, Answered
<1>3. Written
  <2>1. AllWhole
    BY <1>1, LineAdded
  <2> QED
    BY <1>1, <2>1, AsWritten DEF LinesInv
<1>4. ClosedOf(Opened) = Append(QueryLines, BATCH_TERM) /\ QueryLines \in Seq(LineSeq)
  BY <1>1, <1>3, OpenedClosed, WrittenMore
<1>5. QueryLines' = Append(QueryLines, line) /\ line \in Seq(Token)
  BY <1>1, WrittenMore, FgetsIs
<1> HIDE DEF line
<1>6. CASE Is(line, "f")
  <2>1. line = BATCH_TERM
    <3>1. line[1] \in Token /\ line[1].kind = "f" /\ line[1].cut = FALSE /\ Len(line) = 1
      BY <1>5, <1>6 DEF Is, Token
    <3>2. line[1] = [kind |-> "f", cut |-> FALSE]
      BY <3>1 DEF Token
    <3>3. line = <<line[1]>>
      BY <1>5, <3>1
    <3> QED
      BY <3>2, <3>3 DEF BATCH_TERM
  <2>2. batches' = Opened /\ end_of_batch' = TRUE /\ pc' = pc
    BY <1>6 DEF ReadLine, line
  <2>3. ClosedOf(batches)' = ClosedOf(batches')
    BY DEF ClosedOf, TextsOf, BATCH_TERM
  <2> QED
    BY <1>1, <1>4, <1>5, <2>1, <2>2, <2>3 DEF Written
<1>7. CASE ~Is(line, "f") /\ Parsed(line) /\ NamesOnlyKnown(line)
  <2> DEFINE query == query_init(line)
  <2>1. batches' = WithQuery(Opened, query) /\ end_of_batch' = FALSE /\ pc' = pc
    BY <1>7 DEF ReadLine, WithQuery, line
  <2>2. PICK P : /\ Opened \in Seq(Seq(Queries(P))) /\ Opened # <<>>
    <3>1. BatchesInv
      BY <1>1 DEF ReadInv
    <3> QED
      BY <3>1, OpenedIs DEF BatchesInv
  <2>3. query \in Queries({Predicates(line)}) /\ query.text = line
    <3>1. QueryLine(line)
      BY <1>1, <1>7, QueryLineIs DEF line, ReadInv
    <3> QED
      BY <1>1, <1>7, <3>1, QueryIs DEF ReadInv, query_init
  <2> HIDE DEF query
  <2>4. ClosedOf(WithQuery(Opened, query)) = Append(Append(QueryLines, query.text), BATCH_TERM)
    BY <1>4, <2>2, <2>3, QueryWritten
  <2>5. ClosedOf(batches)' = ClosedOf(batches')
    BY DEF ClosedOf, TextsOf, BATCH_TERM
  <2> QED
    BY <1>1, <1>5, <2>1, <2>3, <2>4, <2>5 DEF Written, BATCH_TERM
<1>8. CASE ~Is(line, "f") /\ (Parsed(line) => ~NamesOnlyKnown(line))
  BY <1>2, <1>8 DEF ReadLine, line
<1> QED
  BY <1>6, <1>7, <1>8

(* NothingWritten: no batches and no lines behind "done".                  *)
LEMMA NothingWritten ==
  ASSUME batches = <<>>, end_of_batch, QueryLines = <<>>, pc # "undefined"
  PROVE  Written
<1>1. [b \in DOMAIN batches |-> Append(TextsOf(batches[b]), BATCH_TERM)] = <<>>
  OBVIOUS
<1>2. ClosedOf(batches) = FlattenSeq(<<>>)
  BY <1>1 DEF ClosedOf
<1>3. FlattenSeq(<<>>) = <<>>
  BY DEF FlattenSeq
<1> QED
  BY <1>2, <1>3 DEF Written

(* RelationLines: the lines up to "done".                                  *)
LEMMA RelationLines ==
  ASSUME LinesInv, ReadRelation
  PROVE  LinesInv'
<1> DEFINE line == Line(MaxPath)
           n == Len(lines)
<1>1. /\ MaxPath \in Nat \ {0, 1} /\ Fgets(MaxPath) /\ stdin # <<>> /\ pc = "relations"
      /\ ReadInv /\ SourceInv /\ BatchesInv /\ DoneLines = {}
  BY InputAssumption DEF ReadRelation, LinesInv, DoneInv, ReadInv
<1>2. ReadInv'
  BY <1>1, ReadRelationStep
<1>3. DoneLines' \subseteq {n + 1} /\ (n + 1 \in DoneLines' <=> Is(line, "done"))
  BY <1>1, LineAdded
<1>4. /\ Is(line, "done") => pc' = "queries"
      /\ ~Is(line, "done") => pc' = "relations"
      /\ batches' = <<>> /\ end_of_batch'
  BY <1>1 DEF ReadRelation, BatchesInv
<1>5. SourceInv'
  BY <1>1, <1>4, SourceRead
<1> HIDE DEF line
<1>6. CASE Is(line, "done")
  <2>1. DoneLines' = {n + 1} /\ pc' = "queries"
    BY <1>3, <1>4, <1>6
  <2>2. Len(lines') = n + 1 /\ n \in Nat
    <3>1. n \in Nat
      BY <1>1 DEF ReadInv, RelInv
    <3> QED
      BY <1>1, <3>1, FgetsIs
  <2> HIDE DEF n
  <2>3. Min(DoneLines') = n + 1
    <3> DEFINE T == DoneLines'
    <3>1. T \in SUBSET Nat /\ T # {} /\ T = {n + 1}
      BY <2>1, <2>2
    <3> HIDE DEF T
    <3>2. Min(T) \in T
      BY <3>1, MinOf
    <3> QED
      BY <3>1, <3>2 DEF T
  <2>4. QueryLines' = <<>>
    <3>1. QueryLines' = [k \in 1 .. Len(lines') - Min(DoneLines') |-> lines'[Min(DoneLines') + k].text]
      BY <2>1 DEF QueryLines
    <3>2. 1 .. Len(lines') - Min(DoneLines') = {}
      BY <2>2, <2>3
    <3> QED
      BY <3>1, <3>2
  <2>5. Written'
    <3>1. (batches = <<>> /\ end_of_batch /\ QueryLines = <<>> /\ pc # "undefined" => Written)'
      BY NothingWritten, PTL
    <3> QED
      BY <1>4, <2>1, <2>4, <3>1
  <2>6. BatchesAsWritten'
    <3>1. (BatchesAsWritten <=> (AllWhole /\ pc \notin {"relations", "aborted"} => Written))'
      BY AsWritten, PTL
    <3> QED
      BY <2>5, <3>1
  <2>7. DoneInv'
    BY <2>1 DEF DoneInv
  <2> QED
    BY <1>2, <1>5, <2>6, <2>7 DEF LinesInv
<1>7. CASE ~Is(line, "done")
  <2>1. DoneLines' = {} /\ pc' = "relations"
    BY <1>3, <1>4, <1>7
  <2>2. BatchesAsWritten' /\ DoneInv'
    BY <2>1 DEF BatchesAsWritten, DoneInv
  <2> QED
    BY <1>2, <1>5, <2>2 DEF LinesInv
<1> QED
  BY <1>6, <1>7

(* QueryTexts: executing a query leaves the lines of the batches.          *)
LEMMA QueryTexts ==
  ASSUME NEW b, NEW q, NEW new, Works(b, q, new)
  PROVE  ClosedOf(batches)' = ClosedOf(batches)
<1>1. /\ DOMAIN batches' = DOMAIN batches
      /\ \A x \in DOMAIN batches : DOMAIN batches'[x] = DOMAIN batches[x]
      /\ \A x \in DOMAIN batches : \A y \in DOMAIN batches[x] :
           batches'[x][y].text = batches[x][y].text
  BY WorkedOn DEF Works
<1>2. ASSUME NEW x \in DOMAIN batches PROVE TextsOf(batches'[x]) = TextsOf(batches[x])
  BY <1>1 DEF TextsOf
<1>3. [x \in DOMAIN batches' |-> Append(TextsOf(batches'[x]), BATCH_TERM)]
        = [x \in DOMAIN batches |-> Append(TextsOf(batches[x]), BATCH_TERM)]
  BY <1>1, <1>2
<1>4. ClosedOf(batches') = ClosedOf(batches)
  BY <1>3 DEF ClosedOf
<1>5. ClosedOf(batches)' = ClosedOf(batches')
  BY DEF ClosedOf, TextsOf, BATCH_TERM
<1> QED
  BY <1>4, <1>5

(* LinesKept: steps that read nothing.                                     *)
LEMMA LinesKept ==
  ASSUME LinesInv, UNCHANGED <<stdin, end_of_batch, lines>>, ClosedOf(batches)' = ClosedOf(batches),
         \/ pc' = pc
         \/ pc \in {"queries", "execute", "free"} /\ pc' \in {"execute", "free", "end", "raced"}
  PROVE  DoneInv' /\ SourceInv' /\ BatchesAsWritten'
<1>1. DoneLines' = DoneLines /\ (AllWhole' <=> AllWhole) /\ QueryLines' = QueryLines
  BY DEF DoneLines, AllWhole, QueryLines, Is, Min
<1>2. DoneInv'
  BY <1>1 DEF LinesInv, DoneInv
<1>3. SourceInv'
  <2>1. PICK s \in Inputs : \E o \in 0 .. Len(s) : AtLine(s, o)
    BY DEF LinesInv, SourceInv
  <2>2. PICK o \in 0 .. Len(s) : AtLine(s, o)
    BY <2>1
  <2>3. AtLine(s, o)'
    BY <1>1, <2>2 DEF AtLine, IsNewline
  <2> QED
    BY <2>3 DEF SourceInv
<1>4. BatchesAsWritten'
  <2>1. (BatchesAsWritten <=> (AllWhole /\ pc \notin {"relations", "aborted"} => Written))'
    BY AsWritten, PTL
  <2>2. AllWhole /\ pc \notin {"relations", "aborted"} => Written
    BY AsWritten DEF LinesInv
  <2>3. pc' \notin {"relations", "aborted"} => pc \notin {"relations", "aborted"}
    OBVIOUS
  <2>4. Written => Written'
    BY <1>1 DEF Written, BATCH_TERM
  <2> QED
    BY <1>1, <2>1, <2>2, <2>3, <2>4
<1> QED
  BY <1>2, <1>3, <1>4

(* LinesStep: every step keeps what the batches were read from.            *)
LEMMA LinesStep ==
  ASSUME AllAnswerable, LinesInv, [Next]_vars
  PROVE  LinesInv'
<1>1. ReadInv /\ ReadInv'
  BY ReadStep DEF LinesInv
<1>2. CASE ReadRelation
  BY <1>2, RelationLines
<1>3. CASE ReadLine
  <2>1. MaxQuery \in Nat \ {0, 1} /\ Fgets(MaxQuery) /\ stdin # <<>> /\ pc = "queries"
        /\ SourceInv /\ DoneLines # {}
    BY <1>3, InputAssumption DEF ReadLine, LinesInv, DoneInv
  <2>2. SourceInv'
    BY <1>1, <2>1, SourceRead
  <2>3. DoneLines \subseteq DoneLines'
    BY <1>1, <2>1, LineAdded
  <2>4. pc' # "relations"
    BY <1>3 DEF ReadLine
  <2>5. DoneInv'
    BY <2>1, <2>3, <2>4 DEF DoneInv
  <2>6. BatchesAsWritten'
    BY <1>3, ReadLineWritten
  <2> QED
    BY <1>1, <2>2, <2>5, <2>6 DEF LinesInv
<1>4. CASE Begin \/ Execute
  <2>1. UNCHANGED <<stdin, end_of_batch, lines>> /\ pc \in {"execute", "free"}
    BY <1>4 DEF Begin, Execute
  <2>2. PICK b, q, new : Works(b, q, new)
    BY <1>1, <1>4, BeginWorks, ExecuteWorks
  <2>3. pc' = pc \/ pc' = "raced"
    BY <2>2 DEF Works
  <2>4. ClosedOf(batches)' = ClosedOf(batches)
    BY <2>2, QueryTexts
  <2> QED
    BY <1>1, <2>1, <2>3, <2>4, LinesKept DEF LinesInv
<1>5. CASE EndOfRelations
  <2>1. /\ UNCHANGED <<stdin, batches, end_of_batch, lines>> /\ pc = "relations" /\ pc' = "queries"
        /\ stdin = <<>> /\ batches = <<>> /\ end_of_batch /\ DoneLines = {}
    BY <1>1, <1>5 DEF EndOfRelations, LinesInv, DoneInv, ReadInv, BatchesInv
  <2>2. DoneInv'
    BY <2>1 DEF DoneInv
  <2>3. SourceInv'
    <3>1. PICK s \in Inputs : \E o \in 0 .. Len(s) : AtLine(s, o)
      BY DEF LinesInv, SourceInv
    <3>2. PICK o \in 0 .. Len(s) : AtLine(s, o)
      BY <3>1
    <3>3. AtLine(s, o)'
      BY <2>1, <3>2 DEF AtLine, IsNewline, AllWhole
    <3> QED
      BY <3>3 DEF SourceInv
  <2>4. QueryLines' = <<>>
    <3>1. DoneLines' = {}
      BY <2>1 DEF DoneLines, Is
    <3> QED
      BY <3>1 DEF QueryLines
  <2>5. Written'
    <3>1. (batches = <<>> /\ end_of_batch /\ QueryLines = <<>> /\ pc # "undefined" => Written)'
      BY NothingWritten, PTL
    <3> QED
      BY <2>1, <2>4, <3>1
  <2>6. BatchesAsWritten'
    <3>1. (BatchesAsWritten <=> (AllWhole /\ pc \notin {"relations", "aborted"} => Written))'
      BY AsWritten, PTL
    <3> QED
      BY <2>5, <3>1
  <2> QED
    BY <1>1, <2>2, <2>3, <2>6 DEF LinesInv
<1>6. CASE \/ EndOfQueries \/ EndOfBatches \/ FreeNode \/ FreeNext \/ FreeEnd
           \/ Stopped \/ UNCHANGED vars
  <2>1. UNCHANGED <<stdin, batches, end_of_batch, lines>>
    BY <1>6 DEF EndOfQueries, EndOfBatches, FreeNode, FreeNext, FreeEnd, Stopped, vars
  <2>2. \/ pc' = pc
        \/ pc \in {"queries", "execute", "free"} /\ pc' \in {"execute", "free", "end", "raced"}
    BY <1>6 DEF EndOfQueries, EndOfBatches, FreeNode, FreeNext, FreeEnd, Stopped, vars
  <2>3. ClosedOf(batches)' = ClosedOf(batches)
    BY <2>1 DEF ClosedOf, TextsOf, BATCH_TERM
  <2> QED
    BY <1>1, <2>1, <2>2, <2>3, LinesKept DEF LinesInv
<1> QED
  BY <1>2, <1>3, <1>4, <1>5, <1>6 DEF Next

(* LinesInit: the whole of the input is to be read.                        *)
LEMMA LinesInit == Init => LinesInv
<1> SUFFICES ASSUME Init PROVE LinesInv
  OBVIOUS
<1>1. pc = "relations" /\ lines = <<>> /\ stdin \in Inputs
  BY DEF Init
<1>2. DoneInv
  <2>1. DoneLines = {}
    BY <1>1 DEF DoneLines
  <2> QED
    BY <1>1, <2>1 DEF DoneInv
<1>3. SourceInv
  <2>1. stdin \in Seq(Token)
    BY <1>1, InputAssumption DEF WellWritten
  <2>2. stdin = SubSeq(stdin, 1, Len(stdin)) /\ 0 \in 0 .. Len(stdin)
    <3> DEFINE n == Len(stdin)
               r == SubSeq(stdin, 1, n)
    <3>1. 1 \in 1 .. Len(stdin) + 1 /\ n \in 1 - 1 .. Len(stdin) /\ n - 1 + 1 = n /\ n \in Nat
      BY <2>1
    <3> HIDE DEF n
    <3>2. r \in Seq(Token) /\ Len(r) = n - 1 + 1 /\ \A k \in 1 .. n - 1 + 1 : r[k] = stdin[1 + k - 1]
      BY <2>1, <3>1, SubSeqIs
    <3>3. \A k \in 1 .. n : 1 + k - 1 = k
      BY <3>1
    <3> HIDE DEF r
    <3>4. Len(r) = Len(stdin) /\ \A k \in 1 .. Len(stdin) : r[k] = stdin[k]
      BY <3>1, <3>2, <3>3 DEF n
    <3>5. r = stdin
      BY <2>1, <3>2, <3>4, SeqEqual
    <3> QED
      BY <3>1, <3>5 DEF r, n
  <2>3. AtLine(stdin, 0)
    BY <1>1, <2>2 DEF AtLine
  <2> QED
    BY <1>1, <2>2, <2>3 DEF SourceInv
<1>4. BatchesAsWritten
  BY <1>1 DEF BatchesAsWritten
<1> QED
  BY <1>2, <1>3, <1>4, ReadInit DEF LinesInv

(* BatchesRead: of an input whose whole lines behind "done" are "F" or a   *)
(* query, the batches are the lines that were read, in their order, as     *)
(* long as every line ended before the limits; the next to be opened and   *)
(* the one that is still open included.                                    *)
THEOREM BatchesRead == AllAnswerable => (Spec => []BatchesAsWritten)
<1> SUFFICES ASSUME AllAnswerable PROVE Spec => []BatchesAsWritten
  OBVIOUS
<1>1. Init => LinesInv
  BY LinesInit
<1>2. LinesInv /\ [Next]_vars => LinesInv'
  BY LinesStep
<1>3. LinesInv => BatchesAsWritten
  BY DEF LinesInv
<1> QED
  BY <1>1, <1>2, <1>3, PTL DEF Spec


-----------------------------------------------------------------------------
(* The end *)

(* AllNodes: as many nodes as there are, none of them twice, are all of    *)
(* them.                                                                   *)
LEMMA AllNodes ==
  ASSUME NEW n \in Nat, NEW s \in [1 .. n -> 1 .. n],
         \A p, q \in 1 .. n : s[p] = s[q] => p = q
  PROVE  \A x \in 1 .. n : \E p \in 1 .. n : s[p] = x
<1> SUFFICES ASSUME NEW x \in 1 .. n, \A p \in 1 .. n : s[p] # x PROVE FALSE
  OBVIOUS
<1> DEFINE S == 1 .. n
           T == S \ {x}
<1>1. IsFiniteSet(S) /\ Cardinality(S) = n
  BY FS_Interval
<1>2. IsFiniteSet(T) /\ Cardinality(T) = n - 1
  BY <1>1, FS_RemoveElement
<1>3. s \in [S -> T]
  OBVIOUS
<1>4. Cardinality(T) < Cardinality(S)
  BY <1>1, <1>2
<1> HIDE DEF S, T
<1>5. \E p, q \in S : p # q /\ s[p] = s[q]
  <2>1. PICK f : f = s
    OBVIOUS
  <2>2. f \in [S -> T]
    BY <1>3, <2>1
  <2>3. \E p, q \in S : p # q /\ f[p] = f[q]
    BY <1>1, <1>2, <1>4, <2>2, FS_PigeonHole, ZenonT(40)
  <2> QED
    BY <2>1, <2>3
<1> QED
  BY <1>5 DEF S

(* A walk along next from the head meets every node of l once.             *)
WellThreaded(l) == Threaded(l, Chain(l))

(* QueryThreaded: so it does in the list of every query.                   *)
LEMMA QueryThreaded ==
  ASSUME NEW query, QueryOK(query)
  PROVE  WellThreaded(query.preds)
<1> DEFINE line == query.text
           l    == Predicates(line)
           r    == query.preds
<1>1. QueryLine(line) /\ r = IF query.stage = "ordered" THEN Reordered(l) ELSE l
  BY DEF QueryOK
<1> HIDE DEF line, l, r
<1>2. PICK s, D : ReadList(line, s, D)
  BY <1>1, ListRead
<1>3. s # <<>> /\ Linked(l, s, D) /\ JoinsFirst(l, s)
  BY <1>2 DEF ReadList, l
<1>4. CASE query.stage = "ordered"
  <2>1. Resorted(l, s, r)
    BY <1>1, <1>3, <1>4, ReorderedIs
  <2>2. PICK u : Threaded(r, u)
    BY <2>1 DEF Resorted
  <2>3. Chain(r) = u
    BY <2>2, ThreadIs
  <2> QED
    BY <2>2, <2>3 DEF WellThreaded, r
<1>5. CASE query.stage # "ordered"
  <2>1. Threaded(r, s)
    BY <1>1, <1>3, <1>5, LinkedThreaded
  <2>2. Chain(r) = s
    BY <2>1, ThreadIs
  <2> QED
    BY <2>1, <2>2 DEF WellThreaded, r
<1> QED
  BY <1>4, <1>5

(* Lists: the lists that main frees, by their places.                      *)
NatPairs == Nat \X Nat
First == <<0, 0>>
Lists == [p \in Places |-> ListAt(p)]

(* PlacesAre: the relations come first, and every query has its place.     *)
LEMMA PlacesAre ==
  ASSUME ReadInv
  PROVE  /\ First \in Places /\ Places \subseteq NatPairs
         /\ \A b \in DOMAIN batches : \A q \in DOMAIN batches[b] :
              b \in Nat \ {0} /\ q \in Nat \ {0} /\ <<b, q>> \in Places
         /\ \A p \in Places : \/ p = First
                              \/ \E b \in DOMAIN batches : \E q \in DOMAIN batches[b] : p = <<b, q>>
<1>1. PICK P : batches \in Seq(Seq(Queries(P)))
  BY DEF ReadInv, BatchesInv
<1>2. \A b \in DOMAIN batches : \A q \in DOMAIN batches[b] : b \in Nat \ {0} /\ q \in Nat \ {0}
  BY <1>1, QueriesAre
<1>3. \A p \in Places : \/ p = First
                        \/ \E b \in DOMAIN batches : \E q \in DOMAIN batches[b] : p = <<b, q>>
  BY DEF Places, First
<1>4. \A b \in DOMAIN batches : \A q \in DOMAIN batches[b] : <<b, q>> \in Places
  BY DEF Places
<1>5. First \in Places /\ First \in NatPairs
  BY DEF Places, First, NatPairs
<1>6. \A b \in DOMAIN batches : \A q \in DOMAIN batches[b] : <<b, q>> \in NatPairs
  BY <1>2 DEF NatPairs
<1>7. Places \subseteq NatPairs
  BY <1>3, <1>5, <1>6
<1> QED
  BY <1>2, <1>3, <1>4, <1>5, <1>7

(* ListsThreaded: every list that main frees is well threaded.             *)
LEMMA ListsThreaded ==
  ASSUME ReadInv
  PROVE  /\ DOMAIN Lists = Places /\ Lists[First] = rel_list
         /\ \A p \in Places : Lists[p] = ListAt(p) /\ WellThreaded(Lists[p])
<1>1. DOMAIN Lists = Places /\ \A p \in Places : Lists[p] = ListAt(p)
  BY DEF Lists
<1>2. ListAt(First) = rel_list
  BY DEF ListAt, First
<1>3. Lists[First] = rel_list
  BY <1>1, <1>2, PlacesAre
<1>4. WellThreaded(rel_list)
  <2>1. Linked(rel_list, Numbers(rel_list.length), Relations)
    BY DEF ReadInv, RelInv
  <2>2. Threaded(rel_list, Numbers(rel_list.length))
    BY <2>1, LinkedThreaded
  <2>3. Chain(rel_list) = Numbers(rel_list.length)
    BY <2>2, ThreadIs
  <2> QED
    BY <2>2, <2>3 DEF WellThreaded
<1>5. ASSUME NEW b \in DOMAIN batches, NEW q \in DOMAIN batches[b]
      PROVE  WellThreaded(ListAt(<<b, q>>))
  <2>1. QueryOK(batches[b][q])
    BY DEF ReadInv, BatchesInv
  <2>2. WellThreaded(batches[b][q].preds)
    BY <2>1, QueryThreaded
  <2>3. b # 0
    BY PlacesAre
  <2>4. ListAt(<<b, q>>) = batches[b][q].preds
    BY <2>3 DEF ListAt
  <2> QED
    BY <2>2, <2>4
<1>6. \A p \in Places : WellThreaded(ListAt(p))
  BY <1>2, <1>4, <1>5, PlacesAre
<1> QED
  BY <1>1, <1>3, <1>6

(* BehindOrder: main comes to the places one after the other.              *)
LEMMA BehindOrder ==
  ASSUME NEW p \in NatPairs, NEW q \in NatPairs, NEW r \in NatPairs
  PROVE  /\ ~ (Behind(p, q) /\ Behind(q, p)) /\ ~Behind(p, First)
         /\ Behind(p, q) /\ Behind(q, r) => Behind(p, r)
         /\ p = q \/ Behind(p, q) \/ Behind(q, p)
<1>1. /\ p[1] \in Nat /\ p[2] \in Nat /\ q[1] \in Nat /\ q[2] \in Nat
      /\ r[1] \in Nat /\ r[2] \in Nat
  BY DEF NatPairs
<1>2. p = <<p[1], p[2]>> /\ q = <<q[1], q[2]>>
  BY DEF NatPairs
<1>3. p[1] = q[1] /\ p[2] = q[2] => p = q
  BY <1>2
<1>4. First[1] = 0 /\ First[2] = 0
  BY DEF First
<1> QED
  BY <1>1, <1>3, <1>4 DEF Behind

(* The nodes of l are those of s, and next leads from one to the next.     *)
Route(l, s) ==
  /\ Len(s) \in Nat /\ l.head = At(s, 1)
  /\ \A j \in 1 .. Len(s) : s[j] \in Nat \ {0} /\ l.next[s[j]] = At(s, j + 1)
  /\ \A p, q \in 1 .. Len(s) : s[p] = s[q] => p = q
  /\ \A n \in Nodes(l) : \E j \in 1 .. Len(s) : s[j] = n
  /\ \A j \in 1 .. Len(s) : s[j] \in Nodes(l)

(* RouteIs: a list that is well threaded has such a sequence, its chain.   *)
LEMMA RouteIs ==
  ASSUME NEW l, WellThreaded(l)
  PROVE  Route(l, Chain(l))
<1> DEFINE s == Chain(l)
           n == Len(s)
<1>1. Threaded(l, s)
  BY DEF WellThreaded
<1> HIDE DEF s
<1>2. n \in Nat /\ s \in Seq(1 .. n) /\ Nodes(l) = 1 .. n
  BY <1>1 DEF Threaded, Nodes
<1>3. s \in [1 .. n -> 1 .. n]
  BY <1>2
<1>4. \A p, q \in 1 .. n : s[p] = s[q] => p = q
  BY <1>1 DEF Threaded
<1>5. l.head = At(s, 1)
  <2>1. s = <<>> <=> n = 0
    BY <1>2
  <2> QED
    BY <1>1, <1>2, <2>1 DEF Threaded, At
<1>6. ASSUME NEW j \in 1 .. n PROVE l.next[s[j]] = At(s, j + 1)
  <2>1. CASE j = n
    BY <1>1, <1>2, <2>1 DEF Threaded, At
  <2>2. CASE j # n
    <3>1. j \in 1 .. n - 1 /\ j + 1 \in 1 .. n
      BY <1>2, <2>2
    <3> QED
      BY <1>1, <3>1 DEF Threaded, At
  <2> QED
    BY <2>1, <2>2
<1>7. \A x \in 1 .. n : \E p \in 1 .. n : s[p] = x
  <2> HIDE DEF n
  <2> QED
    BY <1>2, <1>3, <1>4, AllNodes
<1>8. \A j \in 1 .. n : s[j] \in 1 .. n
  BY <1>3
<1>9. Route(l, s)
  <2>1. \A x \in Nodes(l) : \E p \in 1 .. n : s[p] = x
    BY <1>2, <1>7
  <2>2. \A j \in 1 .. n : s[j] \in Nodes(l) /\ s[j] \in Nat \ {0}
    BY <1>2, <1>8
  <2>3. n \in Nat
    BY <1>2
  <2> QED
    BY <1>4, <1>5, <1>6, <2>1, <2>2, <2>3 DEF Route
<1> QED
  BY <1>9 DEF s

Routed(L) == \A r \in DOMAIN L : r \in NatPairs /\ Route(L[r], Chain(L[r]))

(* The nodes of the list at r, of the lists that main comes to before i,   *)
(* and of the list at i those in front of place j of its chain.            *)
FreedList(L, r) == {[place |-> r, node |-> n] : n \in Nodes(L[r])}
Ahead(L, i) == {r \in DOMAIN L : Behind(r, i)}
FreedBefore(L, i) == UNION {FreedList(L, r) : r \in Ahead(L, i)}
FreedOf(L, i, j) == {[place |-> i, node |-> Chain(L[i])[m]] : m \in 1 .. j - 1}
FreedAll(L) == UNION {FreedList(L, r) : r \in DOMAIN L}

(* list_free is at place j of list i of L, and has freed what is in front. *)
FreeingAt(L, i, j, p, f) ==
  /\ i \in DOMAIN L /\ j \in 1 .. Len(Chain(L[i])) + 1
  /\ p = [place |-> i, node |-> At(Chain(L[i]), j)]
  /\ f = FreedBefore(L, i) \cup FreedOf(L, i, j)

Freeing(L, p, f) == \E i \in DOMAIN L : \E j \in Nat : FreeingAt(L, i, j, p, f)

(* FreeBegin: where it begins with a list, nothing of which is freed.      *)
LEMMA FreeBegin ==
  ASSUME NEW L, Routed(L), NEW i \in DOMAIN L, NEW f, f = FreedBefore(L, i)
  PROVE  Freeing(L, [place |-> i, node |-> L[i].head], f)
<1>1. Route(L[i], Chain(L[i]))
  BY DEF Routed
<1>2. 1 \in 1 .. Len(Chain(L[i])) + 1 /\ L[i].head = At(Chain(L[i]), 1)
  BY <1>1 DEF Route
<1>3. FreedOf(L, i, 1) = {}
  BY DEF FreedOf
<1>4. FreeingAt(L, i, 1, [place |-> i, node |-> L[i].head], f)
  BY <1>2, <1>3 DEF FreeingAt
<1> QED
  BY <1>4 DEF Freeing

(* FreeFirst: no list comes before that of the relations.                  *)
LEMMA FreeFirst ==
  ASSUME NEW L, Routed(L), First \in DOMAIN L
  PROVE  Freeing(L, [place |-> First, node |-> L[First].head], {})
<1>1. Ahead(L, First) = {}
  BY BehindOrder DEF Routed, Ahead
<1>2. FreedBefore(L, First) = {}
  BY <1>1 DEF FreedBefore
<1> QED
  BY <1>2, FreeBegin

(* NotFreed: the node it is at has not been freed.                         *)
LEMMA NotFreed ==
  ASSUME NEW L, Routed(L), NEW i, NEW j, NEW p, NEW f, FreeingAt(L, i, j, p, f)
  PROVE  p \notin f
<1> DEFINE s == Chain(L[i])
<1>1. /\ Route(L[i], s) /\ i \in NatPairs /\ j \in Nat /\ Len(s) \in Nat
      /\ p.place = i /\ p.node = At(s, j)
  <2>1. i \in DOMAIN L
    BY DEF FreeingAt
  <2>2. Route(L[i], s) /\ i \in NatPairs
    BY <2>1 DEF Routed
  <2>3. Len(s) \in Nat /\ j \in 1 .. Len(s) + 1
    BY <2>2 DEF Route, FreeingAt
  <2>4. p = [place |-> i, node |-> At(s, j)]
    BY DEF FreeingAt
  <2> QED
    BY <2>1, <2>2, <2>3, <2>4
<1>2. ASSUME p \in FreedBefore(L, i) PROVE FALSE
  <2>1. PICK r \in Ahead(L, i) : p \in FreedList(L, r)
    BY <1>2 DEF FreedBefore
  <2>2. p.place = r
    BY <2>1 DEF FreedList
  <2>3. Behind(i, i)
    BY <1>1, <2>1, <2>2 DEF Ahead
  <2> QED
    BY <1>1, <2>3, BehindOrder
<1>3. ASSUME p \in FreedOf(L, i, j) PROVE FALSE
  <2>1. PICK m \in 1 .. j - 1 : p = [place |-> i, node |-> s[m]]
    BY <1>3 DEF FreedOf
  <2>2. j \in 1 .. Len(s) + 1 /\ m \in 1 .. Len(s) /\ m # j
    BY <1>1, <2>1 DEF FreeingAt
  <2>3. At(s, j) = s[m] /\ s[m] \in Nat \ {0}
    BY <1>1, <2>1, <2>2 DEF Route
  <2>4. j \in 1 .. Len(s) /\ s[j] = s[m]
    BY <2>3 DEF At, NULL
  <2> QED
    BY <1>1, <2>2, <2>4 DEF Route
<1> QED
  BY <1>2, <1>3 DEF FreeingAt

(* FreeOne: it frees a node and goes on to the next one of the chain.      *)
LEMMA FreeOne ==
  ASSUME NEW L, Routed(L), NEW p, NEW f, Freeing(L, p, f), p.node # NULL
  PROVE  Freeing(L, [p EXCEPT !.node = L[p.place].next[@]], f \cup {p})
<1>1. PICK i \in DOMAIN L : \E j \in Nat : FreeingAt(L, i, j, p, f)
  BY DEF Freeing
<1>2. PICK j \in Nat : FreeingAt(L, i, j, p, f)
  BY <1>1
<1> DEFINE s == Chain(L[i])
           new == [p EXCEPT !.node = L[p.place].next[@]]
<1>3. Route(L[i], s) /\ p = [place |-> i, node |-> At(s, j)] /\ Len(s) \in Nat
  BY <1>2 DEF FreeingAt, Routed, Route
<1>4. j \in 1 .. Len(s) /\ At(s, j) = s[j]
  BY <1>3 DEF At
<1>5. L[i].next[s[j]] = At(s, j + 1)
  BY <1>3, <1>4 DEF Route
<1>6. new = [place |-> i, node |-> At(s, j + 1)]
  BY <1>3, <1>4, <1>5
<1>7. FreedOf(L, i, j + 1) = FreedOf(L, i, j) \cup {p}
  <2>1. (j + 1) - 1 = j /\ 1 .. j = (1 .. j - 1) \cup {j}
    BY <1>4
  <2>2. FreedOf(L, i, j + 1) = {[place |-> i, node |-> s[m]] : m \in 1 .. j}
    BY <2>1 DEF FreedOf
  <2>3. p = [place |-> i, node |-> s[j]]
    BY <1>3, <1>4
  <2> QED
    BY <2>1, <2>2, <2>3 DEF FreedOf
<1>8. j + 1 \in 1 .. Len(s) + 1 /\ j + 1 \in Nat
  BY <1>3, <1>4
<1>9. f \cup {p} = FreedBefore(L, i) \cup FreedOf(L, i, j + 1)
  BY <1>2, <1>7 DEF FreeingAt
<1>10. FreeingAt(L, i, j + 1, new, f \cup {p})
  BY <1>2, <1>6, <1>8, <1>9 DEF FreeingAt
<1> QED
  BY <1>8, <1>10 DEF Freeing

(* FreedWhole: at the end of a chain it has freed the whole list.          *)
LEMMA FreedWhole ==
  ASSUME NEW L, Routed(L), NEW p, NEW f, Freeing(L, p, f), p.node = NULL
  PROVE  /\ p.place \in DOMAIN L /\ p = [place |-> p.place, node |-> NULL]
         /\ f = FreedBefore(L, p.place) \cup FreedList(L, p.place)
<1>1. PICK i \in DOMAIN L : \E j \in Nat : FreeingAt(L, i, j, p, f)
  BY DEF Freeing
<1>2. PICK j \in Nat : FreeingAt(L, i, j, p, f)
  BY <1>1
<1> DEFINE s == Chain(L[i])
<1>3. /\ Route(L[i], s) /\ p = [place |-> i, node |-> At(s, j)] /\ Len(s) \in Nat
      /\ j \in 1 .. Len(s) + 1
  BY <1>2 DEF FreeingAt, Routed, Route
<1>4. j = Len(s) + 1
  <2>1. j \in 1 .. Len(s) => s[j] \in Nat \ {0} /\ At(s, j) = s[j]
    BY <1>3 DEF Route, At
  <2> QED
    BY <1>3, <2>1 DEF NULL
<1>5. FreedOf(L, i, j) = FreedList(L, i)
  <2>1. j - 1 = Len(s)
    BY <1>3, <1>4
  <2>2. FreedOf(L, i, j) = {[place |-> i, node |-> s[m]] : m \in 1 .. Len(s)}
    BY <2>1 DEF FreedOf
  <2>3. FreedOf(L, i, j) \subseteq FreedList(L, i)
    BY <1>3, <2>2 DEF FreedList, Route
  <2>4. FreedList(L, i) \subseteq FreedOf(L, i, j)
    BY <1>3, <2>2 DEF FreedList, Route
  <2> QED
    BY <2>3, <2>4
<1>6. p.place = i /\ p = [place |-> i, node |-> NULL]
  BY <1>3
<1> QED
  BY <1>2, <1>5, <1>6 DEF FreeingAt

(* FreeOther: then it goes on to the list that main comes to next.         *)
LEMMA FreeOther ==
  ASSUME NEW L, Routed(L), NEW p, NEW f, Freeing(L, p, f), p.node = NULL,
         NEW q \in DOMAIN L, Behind(p.place, q),
         \A r \in DOMAIN L : Behind(p.place, r) => r = q \/ Behind(q, r)
  PROVE  Freeing(L, [place |-> q, node |-> L[q].head], f)
<1> DEFINE i == p.place
<1>1. i \in DOMAIN L /\ f = FreedBefore(L, i) \cup FreedList(L, i)
  BY FreedWhole
<1>2. \A r \in DOMAIN L : r \in NatPairs
  BY DEF Routed
<1> HIDE DEF i
<1>3. Behind(i, q) /\ \A r \in DOMAIN L : Behind(i, r) => r = q \/ Behind(q, r)
  BY DEF i
<1>4. ASSUME NEW r \in DOMAIN L PROVE Behind(r, q) <=> r = i \/ Behind(r, i)
  <2>1. Behind(r, q) => ~Behind(q, r) /\ r # q
    BY <1>2, BehindOrder
  <2>2. Behind(r, q) => ~Behind(i, r)
    BY <1>3, <2>1
  <2>3. r = i \/ Behind(i, r) \/ Behind(r, i)
    BY <1>1, <1>2, BehindOrder
  <2>4. Behind(r, i) => Behind(r, q)
    BY <1>1, <1>2, <1>3, BehindOrder
  <2> QED
    BY <1>3, <2>2, <2>3, <2>4
<1>5. Ahead(L, q) = Ahead(L, i) \cup {i}
  BY <1>1, <1>4 DEF Ahead
<1>6. FreedBefore(L, q) = FreedBefore(L, i) \cup FreedList(L, i)
  BY <1>5 DEF FreedBefore
<1> QED
  BY <1>1, <1>6, FreeBegin

(* FreeLast: or it has freed them all.                                     *)
LEMMA FreeLast ==
  ASSUME NEW L, Routed(L), NEW p, NEW f, Freeing(L, p, f), p.node = NULL,
         \A r \in DOMAIN L : ~Behind(p.place, r)
  PROVE  f = FreedAll(L)
<1> DEFINE i == p.place
<1>1. i \in DOMAIN L /\ f = FreedBefore(L, i) \cup FreedList(L, i)
  BY FreedWhole
<1>2. \A r \in DOMAIN L : r \in NatPairs /\ ~Behind(i, r)
  BY DEF Routed
<1> HIDE DEF i
<1>3. \A r \in DOMAIN L : r = i \/ Behind(r, i)
  BY <1>1, <1>2, BehindOrder
<1>4. DOMAIN L = Ahead(L, i) \cup {i}
  BY <1>1, <1>3 DEF Ahead
<1> QED
  BY <1>1, <1>4 DEF FreedBefore, FreedAll

(* FreeingSame: what happens to a list it has yet to come to is all one.   *)
LEMMA FreeingSame ==
  ASSUME NEW L, Routed(L), NEW p, NEW f, Freeing(L, p, f),
         NEW M, DOMAIN M = DOMAIN L,
         \A r \in DOMAIN L : ~Behind(p.place, r) => M[r] = L[r]
  PROVE  Freeing(M, p, f)
<1>1. PICK i \in DOMAIN L : \E j \in Nat : FreeingAt(L, i, j, p, f)
  BY DEF Freeing
<1>2. PICK j \in Nat : FreeingAt(L, i, j, p, f)
  BY <1>1
<1>3. p.place = i
  BY <1>2 DEF FreeingAt
<1>4. M[i] = L[i]
  BY <1>3, BehindOrder DEF Routed
<1>5. \A r \in Ahead(L, i) : M[r] = L[r]
  BY <1>3, BehindOrder DEF Routed, Ahead
<1>6. Ahead(M, i) = Ahead(L, i)
  BY DEF Ahead
<1>7. \A r \in Ahead(L, i) : FreedList(M, r) = FreedList(L, r)
  BY <1>5 DEF FreedList
<1>8. FreedBefore(M, i) = FreedBefore(L, i)
  BY <1>6, <1>7 DEF FreedBefore
<1>9. FreedOf(M, i, j) = FreedOf(L, i, j)
  BY <1>4 DEF FreedOf
<1>10. FreeingAt(M, i, j, p, f)
  BY <1>2, <1>4, <1>8, <1>9 DEF FreeingAt
<1> QED
  BY <1>10 DEF Freeing

NotYetFreeing == {"relations", "queries", "execute", "aborted", "undefined"}

(* Main has yet to come to the list of a query that is running.            *)
RunningLater ==
  \A b \in DOMAIN batches : \A q \in DOMAIN batches[b] :
    batches[b][q].stage = "running" => Behind(parser.place, <<b, q>>)

(* list_free has freed what is in front of where it is, and nothing before *)
(* the batches are scheduled; a query that has begun is not met.           *)
FreeInv ==
  /\ pc \in NotYetFreeing \cup {"free", "end", "raced"}
  /\ pc \in NotYetFreeing => freed = {} /\ parser = [place |-> First, node |-> NULL]
  /\ pc \in {"free", "raced"} => Freeing(Lists, parser, freed)
  /\ pc = "free" => RunningLater
  /\ pc = "end" => parser.node = NULL /\ freed = FreedAll(Lists)

(* ListsRouted: the lists that main frees are chains.                      *)
LEMMA ListsRouted ==
  ASSUME ReadInv
  PROVE  Routed(Lists)
<1>1. \A p \in DOMAIN Lists : p \in NatPairs /\ WellThreaded(Lists[p])
  BY ListsThreaded, PlacesAre
<1> QED
  BY <1>1, RouteIs DEF Routed

(* WorkLists: a query that works changes no list but its own, and that     *)
(* only when it sorts.                                                     *)
LEMMA WorkLists ==
  ASSUME ReadInv, rel_list' = rel_list, NEW b, NEW q, NEW new, Works(b, q, new)
  PROVE  /\ DOMAIN Lists' = DOMAIN Lists
         /\ \A p \in DOMAIN Lists : p # <<b, q>> => Lists'[p] = Lists[p]
         /\ new.preds = batches[b][q].preds => Lists' = Lists
<1>1. /\ DOMAIN batches' = DOMAIN batches
      /\ \A x \in DOMAIN batches : DOMAIN batches'[x] = DOMAIN batches[x]
      /\ \A x \in DOMAIN batches : \A y \in DOMAIN batches[x] :
           batches'[x][y] = IF x = b /\ y = q THEN new ELSE batches[x][y]
  BY WorkedOn
<1>2. Places' = Places
  <2>1. \A x \in DOMAIN batches : {x} \X DOMAIN batches'[x] = {x} \X DOMAIN batches[x]
    BY <1>1
  <2> QED
    BY <1>1, <2>1 DEF Places
<1>3. DOMAIN Lists' = Places /\ DOMAIN Lists = Places
  BY <1>2 DEF Lists
<1>4. \A p \in Places : Lists'[p] = ListAt(p)' /\ Lists[p] = ListAt(p)
  BY <1>2 DEF Lists
<1>5. ListAt(First)' = ListAt(First)
  BY DEF ListAt, First
<1>6. ASSUME NEW x \in DOMAIN batches, NEW y \in DOMAIN batches[x]
      PROVE  /\ ListAt(<<x, y>>)' = batches'[x][y].preds
             /\ ListAt(<<x, y>>) = batches[x][y].preds
  <2>1. x # 0
    BY PlacesAre
  <2> QED
    BY <2>1 DEF ListAt
<1>7. ASSUME NEW x \in DOMAIN batches, NEW y \in DOMAIN batches[x], <<x, y>> # <<b, q>>
      PROVE  ListAt(<<x, y>>)' = ListAt(<<x, y>>)
  <2>1. ~ (x = b /\ y = q)
    BY <1>7
  <2>2. batches'[x][y] = batches[x][y]
    BY <1>1, <2>1
  <2> QED
    BY <1>6, <2>2
<1>8. ASSUME NEW p \in Places, p # <<b, q>> PROVE Lists'[p] = Lists[p]
  <2>1. CASE p = First
    BY <1>4, <1>5, <2>1
  <2>2. ASSUME NEW x \in DOMAIN batches, NEW y \in DOMAIN batches[x], p = <<x, y>>
        PROVE  Lists'[p] = Lists[p]
    BY <1>4, <1>7, <1>8, <2>2
  <2> QED
    BY <2>1, <2>2, PlacesAre
<1>9. ASSUME new.preds = batches[b][q].preds PROVE Lists' = Lists
  <2>1. b \in DOMAIN batches /\ q \in DOMAIN batches[b]
    BY DEF Works
  <2>2. batches'[b][q] = new
    BY <1>1, <2>1
  <2>3. ListAt(<<b, q>>)' = ListAt(<<b, q>>) /\ <<b, q>> \in Places
    BY <1>6, <1>9, <2>1, <2>2, PlacesAre
  <2>4. \A p \in Places : ListAt(p)' = ListAt(p)
    BY <1>4, <1>8, <2>3
  <2> QED
    BY <1>2, <2>4 DEF Lists
<1> QED
  BY <1>3, <1>8, <1>9

(* FreeWork: a query that works leaves what is freed.                      *)
LEMMA FreeWork ==
  ASSUME ReadInv, FreeInv, UNCHANGED <<rel_list, parser, freed>>, pc \in {"execute", "free"},
         NEW b, NEW q, NEW new, Works(b, q, new)
  PROVE  FreeInv'
<1>1. /\ DOMAIN Lists' = DOMAIN Lists
      /\ \A p \in DOMAIN Lists : p # <<b, q>> => Lists'[p] = Lists[p]
      /\ new.preds = batches[b][q].preds => Lists' = Lists
  BY WorkLists
<1>2. /\ DOMAIN batches' = DOMAIN batches
      /\ \A x \in DOMAIN batches : DOMAIN batches'[x] = DOMAIN batches[x]
      /\ \A x \in DOMAIN batches : \A y \in DOMAIN batches[x] :
           batches'[x][y] = IF x = b /\ y = q THEN new ELSE batches[x][y]
  BY WorkedOn
<1>3. b \in DOMAIN batches /\ q \in DOMAIN batches[b] /\ <<b, q>> \in Places
  BY PlacesAre DEF Works
<1>4. CASE pc = "execute"
  <2>1. pc' = pc
    BY <1>4 DEF Works, CameTo
  <2> QED
    BY <1>4, <2>1 DEF FreeInv, NotYetFreeing
<1>5. CASE pc = "free"
  <2>1. Freeing(Lists, parser, freed) /\ RunningLater /\ Routed(Lists)
    BY <1>5, ListsRouted DEF FreeInv
  <2>2. CASE new.stage = "running"
    <3>1. /\ new.preds = batches[b][q].preds
          /\ pc' = IF CameTo(<<b, q>>) THEN "raced" ELSE pc
      BY <2>2 DEF Works
    <3>2. Lists' = Lists
      BY <1>1, <3>1
    <3>3. Freeing(Lists', parser', freed')
      BY <2>1, <3>2
    <3>4. CASE CameTo(<<b, q>>)
      <4>1. pc' = "raced"
        BY <3>1, <3>4
      <4> QED
        BY <3>3, <4>1 DEF FreeInv, NotYetFreeing
    <3>5. CASE ~CameTo(<<b, q>>)
      <4>1. pc' = "free" /\ Behind(parser.place, <<b, q>>)
        BY <1>5, <3>1, <3>5 DEF CameTo
      <4>2. \A x \in DOMAIN batches' : \A y \in DOMAIN batches'[x] :
              batches'[x][y].stage = "running" => Behind(parser.place, <<x, y>>)
        BY <1>2, <2>1, <4>1 DEF RunningLater
      <4>3. RunningLater'
        BY <4>2 DEF RunningLater, Behind
      <4> QED
        BY <3>3, <4>1, <4>3 DEF FreeInv, NotYetFreeing
    <3> QED
      BY <3>4, <3>5
  <2>3. CASE new.stage # "running"
    <3>1. pc' = "free" /\ batches[b][q].stage = "running"
      BY <1>5, <2>3 DEF Works
    <3>2. Behind(parser.place, <<b, q>>)
      BY <1>3, <2>1, <3>1 DEF RunningLater
    <3>3. \A p \in DOMAIN Lists : ~Behind(parser.place, p) => Lists'[p] = Lists[p]
      BY <1>1, <3>2
    <3>4. Freeing(Lists', parser, freed)
      <4>1. PICK M : M = Lists'
        OBVIOUS
      <4>2. DOMAIN M = DOMAIN Lists /\ \A p \in DOMAIN Lists : ~Behind(parser.place, p) => M[p] = Lists[p]
        BY <1>1, <3>3, <4>1
      <4>3. Freeing(M, parser, freed)
        BY <2>1, <4>2, FreeingSame
      <4> QED
        BY <4>1, <4>3
    <3>5. \A x \in DOMAIN batches' : \A y \in DOMAIN batches'[x] :
            batches'[x][y].stage = "running" => Behind(parser.place, <<x, y>>)
      BY <1>2, <2>1, <2>3 DEF RunningLater
    <3>6. RunningLater'
      BY <3>5 DEF RunningLater, Behind
    <3> QED
      BY <3>1, <3>4, <3>6 DEF FreeInv, NotYetFreeing
  <2> QED
    BY <2>2, <2>3
<1> QED
  BY <1>4, <1>5

(* FreeNextStep: the next list is not that of a running query, or main and *)
(* the query have met.                                                     *)
LEMMA FreeNextStep ==
  ASSUME ReadInv, FreeInv, FreeNext
  PROVE  FreeInv'
<1>1. /\ pc = "free" /\ parser.node = NULL /\ freed' = freed /\ UNCHANGED <<rel_list, batches>>
  BY DEF FreeNext
<1>2. PICK p \in Left :
        /\ \A r \in Left : r = p \/ Behind(p, r)
        /\ parser' = [place |-> p, node |-> ListAt(p).head]
        /\ pc' = IF batches[p[1]][p[2]].stage = "running" THEN "raced" ELSE pc
  BY DEF FreeNext
<1>3. Freeing(Lists, parser, freed) /\ RunningLater /\ Routed(Lists)
  BY <1>1, ListsRouted DEF FreeInv
<1>4. DOMAIN Lists = Places /\ \A r \in Places : Lists[r] = ListAt(r)
  BY ListsThreaded
<1>5. p \in DOMAIN Lists /\ Behind(parser.place, p)
  BY <1>2, <1>4 DEF Left
<1>6. \A r \in DOMAIN Lists : Behind(parser.place, r) => r = p \/ Behind(p, r)
  BY <1>2, <1>4 DEF Left
<1>7. parser' = [place |-> p, node |-> Lists[p].head]
  BY <1>2, <1>4, <1>5
<1>8. Freeing(Lists, [place |-> p, node |-> Lists[p].head], freed)
  BY <1>1, <1>3, <1>5, <1>6, FreeOther
<1>9. Lists' = Lists
  BY <1>1 DEF Lists, Places, ListAt
<1>10. Freeing(Lists', parser', freed')
  BY <1>1, <1>7, <1>8, <1>9
<1>11. CASE pc' = "raced"
  BY <1>10, <1>11 DEF FreeInv, NotYetFreeing
<1>12. CASE pc' # "raced"
  <2>1. pc' = "free" /\ batches[p[1]][p[2]].stage # "running"
    BY <1>1, <1>2, <1>12
  <2>2. ASSUME NEW x \in DOMAIN batches, NEW y \in DOMAIN batches[x],
               batches[x][y].stage = "running"
        PROVE  Behind(p, <<x, y>>)
    <3>1. <<x, y>> \in DOMAIN Lists /\ Behind(parser.place, <<x, y>>)
      BY <1>3, <1>4, <2>2, PlacesAre DEF RunningLater
    <3>2. <<x, y>> # p
      BY <2>1, <2>2
    <3> QED
      BY <1>6, <3>1, <3>2
  <2>3. parser'.place = p
    BY <1>2
  <2>4. \A x \in DOMAIN batches' : \A y \in DOMAIN batches'[x] :
          batches'[x][y].stage = "running" => Behind(parser'.place, <<x, y>>)
    BY <1>1, <2>2, <2>3
  <2>5. RunningLater'
    BY <2>4 DEF RunningLater, Behind
  <2> QED
    BY <1>10, <2>1, <2>5 DEF FreeInv, NotYetFreeing
<1> QED
  BY <1>11, <1>12

(* FreeStep: no step disturbs what list_free has done.                     *)
LEMMA FreeStep == ReadInv /\ FreeInv /\ [Next]_vars => FreeInv'
<1> SUFFICES ASSUME ReadInv, FreeInv, [Next]_vars PROVE FreeInv'
  OBVIOUS
<1>1. Routed(Lists) /\ DOMAIN Lists = Places /\ First \in Places /\ Lists[First] = rel_list
  BY ListsRouted, ListsThreaded, PlacesAre
<1>2. ASSUME UNCHANGED <<parser, freed>>, pc \in NotYetFreeing, pc' \in NotYetFreeing
      PROVE  FreeInv'
  BY <1>2 DEF FreeInv, NotYetFreeing
<1>3. ASSUME UNCHANGED <<rel_list, batches>> PROVE Lists' = Lists
  BY <1>3 DEF Lists, Places, ListAt
<1>4. CASE ReadRelation
  BY <1>2, <1>4 DEF ReadRelation, NotYetFreeing
<1>5. CASE EndOfRelations
  BY <1>2, <1>5 DEF EndOfRelations, NotYetFreeing
<1>6. CASE ReadLine
  <2>1. UNCHANGED <<parser, freed>> /\ pc \in NotYetFreeing
    BY <1>6 DEF ReadLine, NotYetFreeing
  <2>2. pc' = pc \/ pc' \in {"aborted", "undefined"}
    BY <1>6 DEF ReadLine
  <2> QED
    BY <1>2, <2>1, <2>2 DEF NotYetFreeing
<1>7. CASE EndOfQueries
  BY <1>2, <1>7 DEF EndOfQueries, NotYetFreeing
<1>8. CASE Begin \/ Execute
  <2>1. UNCHANGED <<rel_list, parser, freed>> /\ pc \in {"execute", "free"}
    BY <1>8 DEF Begin, Execute
  <2>2. PICK b, q, new : Works(b, q, new)
    BY <1>8, BeginWorks, ExecuteWorks
  <2> QED
    BY <2>1, <2>2, FreeWork
<1>9. CASE EndOfBatches
  <2>1. /\ pc' = "free" /\ parser' = [place |-> First, node |-> rel_list.head]
        /\ freed' = freed /\ pc = "execute" /\ UNCHANGED <<rel_list, batches>>
    BY <1>9 DEF EndOfBatches, First
  <2>2. freed' = {}
    BY <2>1 DEF FreeInv, NotYetFreeing
  <2>3. Freeing(Lists, parser', freed')
    BY <1>1, <2>1, <2>2, FreeFirst
  <2>4. Freeing(Lists', parser', freed')
    BY <1>3, <2>1, <2>3
  <2>5. \A b \in DOMAIN batches : \A q \in DOMAIN batches[b] : Behind(First, <<b, q>>)
    <3> SUFFICES ASSUME NEW b \in DOMAIN batches, NEW q \in DOMAIN batches[b]
                 PROVE  Behind(First, <<b, q>>)
      OBVIOUS
    <3>1. b \in Nat \ {0}
      BY PlacesAre
    <3>2. b > First[1]
      BY <3>1 DEF First
    <3> QED
      BY <3>2 DEF Behind
  <2>6. parser'.place = First
    BY <2>1
  <2>7. RunningLater'
    BY <2>1, <2>5, <2>6 DEF RunningLater, Behind
  <2> QED
    BY <2>1, <2>4, <2>7 DEF FreeInv, NotYetFreeing
<1>10. CASE FreeNode
  <2>1. /\ pc = "free" /\ pc' = "free" /\ parser.node # NULL /\ freed' = freed \cup {parser}
        /\ parser' = [parser EXCEPT !.node = ListAt(parser.place).next[@]]
        /\ UNCHANGED <<rel_list, batches>>
    BY <1>10 DEF FreeNode
  <2>2. Freeing(Lists, parser, freed) /\ RunningLater
    BY <2>1 DEF FreeInv
  <2>3. PICK i \in DOMAIN Lists : \E j \in Nat : FreeingAt(Lists, i, j, parser, freed)
    BY <2>2 DEF Freeing
  <2>4. parser = [place |-> i, node |-> parser.node]
    BY <2>3 DEF FreeingAt
  <2>5. ListAt(parser.place) = Lists[parser.place]
    BY <1>1, <2>3, <2>4, ListsThreaded
  <2>6. parser' = [parser EXCEPT !.node = Lists[parser.place].next[@]]
    BY <2>1, <2>5
  <2>7. Freeing(Lists, parser', freed')
    BY <1>1, <2>1, <2>2, <2>6, FreeOne
  <2>8. Freeing(Lists', parser', freed')
    BY <1>3, <2>1, <2>7
  <2>9. parser'.place = parser.place
    BY <2>4, <2>6
  <2>10. RunningLater'
    BY <2>1, <2>2, <2>9 DEF RunningLater, Behind
  <2> QED
    BY <2>1, <2>8, <2>10 DEF FreeInv, NotYetFreeing
<1>11. CASE FreeNext
  BY <1>11, FreeNextStep
<1>12. CASE FreeEnd
  <2>1. /\ pc = "free" /\ parser.node = NULL /\ Left = {} /\ pc' = "end"
        /\ UNCHANGED <<rel_list, batches, parser, freed>>
    BY <1>12 DEF FreeEnd
  <2>2. Freeing(Lists, parser, freed)
    BY <2>1 DEF FreeInv
  <2>3. \A r \in DOMAIN Lists : ~Behind(parser.place, r)
    BY <1>1, <2>1 DEF Left
  <2>4. freed = FreedAll(Lists)
    BY <1>1, <2>1, <2>2, <2>3, FreeLast
  <2>5. freed' = FreedAll(Lists')
    BY <1>3, <2>1, <2>4
  <2> QED
    BY <2>1, <2>5 DEF FreeInv, NotYetFreeing
<1>13. CASE UNCHANGED vars
  <2>1. UNCHANGED <<rel_list, batches, pc, parser, freed>>
    BY <1>13 DEF vars
  <2> QED
    BY <1>3, <2>1 DEF FreeInv, RunningLater, Behind
<1>14. CASE Stopped
  BY <1>13, <1>14 DEF Stopped
<1> QED
  BY <1>4, <1>5, <1>6, <1>7, <1>8, <1>9, <1>10, <1>11, <1>12, <1>13, <1>14 DEF Next

(* FreeInvariance: so list_free has always freed what it has passed.       *)
LEMMA FreeInvariance == Spec => []FreeInv
<1>1. Init => FreeInv
  BY DEF Init, FreeInv, NotYetFreeing, First
<1> QED
  BY <1>1, FreeStep, Invariance, PTL DEF Spec

(* FreedOnce: while queries begin and end, list_free never comes to a node *)
(* it has freed, and if main and no query have met at a list it has freed  *)
(* every node in the end.                                                  *)
THEOREM FreedOnce == Spec => []NodesFreedOnce
<1>1. ReadInv /\ FreeInv => NodesFreedOnce
  <2> SUFFICES ASSUME ReadInv, FreeInv PROVE NodesFreedOnce
    OBVIOUS
  <2>1. Routed(Lists) /\ DOMAIN Lists = Places /\ \A p \in Places : Lists[p] = ListAt(p)
    BY ListsRouted, ListsThreaded
  <2>2. CASE pc \in NotYetFreeing
    BY <2>2 DEF FreeInv, NotYetFreeing, NodesFreedOnce
  <2>3. CASE pc \in {"free", "raced"}
    <3>1. Freeing(Lists, parser, freed)
      BY <2>3 DEF FreeInv
    <3>2. parser \notin freed
      BY <2>1, <3>1, NotFreed DEF Freeing
    <3> QED
      BY <2>3, <3>2 DEF NodesFreedOnce
  <2>4. CASE pc = "end"
    <3>1. parser.node = NULL /\ freed = FreedAll(Lists)
      BY <2>4 DEF FreeInv
    <3>2. \A p \in Places : FreedList(Lists, p) = {[place |-> p, node |-> n] : n \in Nodes(ListAt(p))}
      BY <2>1 DEF FreedList
    <3>3. freed = UNION {{[place |-> p, node |-> n] : n \in Nodes(ListAt(p))} : p \in Places}
      BY <2>1, <3>1, <3>2 DEF FreedAll
    <3>4. parser \notin freed
      <4> SUFFICES ASSUME NEW p \in DOMAIN Lists, parser \in FreedList(Lists, p) PROVE FALSE
        BY <3>1 DEF FreedAll
      <4>1. Route(Lists[p], Chain(Lists[p]))
        BY <2>1 DEF Routed
      <4>2. \A n \in Nodes(Lists[p]) : n # 0
        BY <4>1 DEF Route
      <4> QED
        BY <3>1, <4>2 DEF FreedList, NULL
    <3> QED
      BY <3>3, <3>4 DEF NodesFreedOnce
  <2> QED
    BY <2>2, <2>3, <2>4 DEF FreeInv
<1> QED
  BY <1>1, Invariance, FreeInvariance, PTL

(* ThreadedList: the fields of a list that is well threaded have their     *)
(* types.                                                                  *)
LEMMA ThreadedList ==
  ASSUME NEW l, WellThreaded(l)
  PROVE  IsList(l)
<1> DEFINE s == Chain(l)
           n == Len(s)
<1>1. Threaded(l, s)
  BY DEF WellThreaded
<1> HIDE DEF s
<1>2. n \in Nat /\ s \in Seq(1 .. n) /\ Nodes(l) = 1 .. n
  BY <1>1 DEF Threaded, Nodes
<1>3. l.length = Len(l.data) /\ l.length = Len(l.next) /\ l.length = Len(l.prev)
  <2>1. /\ l.data \in [1 .. n -> Range(l.data)] /\ l.next \in [1 .. n -> 0 .. n]
        /\ l.prev \in [1 .. n -> 0 .. n] /\ l.length = n
    BY <1>1 DEF Threaded
  <2> HIDE DEF n
  <2>2. Len(l.data) = n /\ Len(l.next) = n /\ Len(l.prev) = n
    BY <1>2, <2>1, FunctionIsSeq
  <2> QED
    BY <2>1, <2>2
<1>4. l.head \in 0 .. n /\ l.tail \in 0 .. n
  <2>1. s # <<>> => 1 \in 1 .. n /\ s[1] \in 1 .. n
    BY <1>2
  <2> QED
    BY <1>1, <1>2, <2>1 DEF Threaded, NULL
<1>5. \A x \in 1 .. n : l.next[x] \in 0 .. n /\ l.prev[x] \in 0 .. n
  BY <1>1 DEF Threaded
<1>6. \A x \in 0 .. n : x \in {NULL} \cup Nodes(l)
  BY <1>2 DEF NULL
<1>7. \A x \in Nodes(l) : x \in 1 .. n
  BY <1>2
<1>8. {l.head, l.tail} \cup {l.next[x] : x \in Nodes(l)} \cup {l.prev[x] : x \in Nodes(l)}
        \subseteq {NULL} \cup Nodes(l)
  <2> HIDE DEF n
  <2> QED
    BY <1>4, <1>5, <1>6, <1>7
<1> QED
  BY <1>3, <1>8 DEF IsList

(* FreedTyped: what list_free frees are nodes of lists.                    *)
LEMMA FreedTyped ==
  ASSUME ReadInv, FreeInv, NEW x \in freed
  PROVE  x.place \in Places /\ x.node \in Nat
<1>1. Routed(Lists) /\ DOMAIN Lists = Places
  BY ListsRouted, ListsThreaded
<1>2. ASSUME NEW p \in Places, x \in FreedList(Lists, p)
      PROVE  x.place \in Places /\ x.node \in Nat
  <2>1. Route(Lists[p], Chain(Lists[p]))
    BY <1>1 DEF Routed
  <2>2. ASSUME NEW n \in Nodes(Lists[p]) PROVE n \in Nat
    <3>1. PICK j \in 1 .. Len(Chain(Lists[p])) : Chain(Lists[p])[j] = n
      BY <2>1 DEF Route
    <3> QED
      BY <2>1, <3>1 DEF Route
  <2> QED
    BY <1>2, <2>2 DEF FreedList
<1>3. CASE pc \in {"free", "raced"}
  <2>1. PICK i \in DOMAIN Lists : \E j \in Nat : FreeingAt(Lists, i, j, parser, freed)
    BY <1>3 DEF FreeInv, Freeing
  <2>2. PICK j \in Nat : FreeingAt(Lists, i, j, parser, freed)
    BY <2>1
  <2>3. i \in Places /\ j \in 1 .. Len(Chain(Lists[i])) + 1
    BY <1>1, <2>2 DEF FreeingAt
  <2>4. CASE x \in FreedBefore(Lists, i)
    <3>1. PICK p \in Ahead(Lists, i) : x \in FreedList(Lists, p)
      BY <2>4 DEF FreedBefore
    <3>2. p \in Places
      BY <1>1 DEF Ahead
    <3> QED
      BY <1>2, <3>1, <3>2
  <2>5. CASE x \in FreedOf(Lists, i, j)
    <3>1. PICK m \in 1 .. j - 1 : x = [place |-> i, node |-> Chain(Lists[i])[m]]
      BY <2>5 DEF FreedOf
    <3>2. Route(Lists[i], Chain(Lists[i]))
      BY <1>1, <2>3 DEF Routed
    <3>3. Len(Chain(Lists[i])) \in Nat
      BY <3>2 DEF Route
    <3>4. m \in 1 .. Len(Chain(Lists[i]))
      BY <2>3, <3>3
    <3>5. Chain(Lists[i])[m] \in Nat
      BY <3>2, <3>4 DEF Route
    <3> QED
      BY <2>3, <3>1, <3>5
  <2> QED
    BY <2>2, <2>4, <2>5 DEF FreeingAt
<1>4. CASE pc = "end"
  <2>1. PICK p \in DOMAIN Lists : x \in FreedList(Lists, p)
    BY <1>4 DEF FreeInv, FreedAll
  <2> QED
    BY <1>1, <1>2, <2>1
<1> QED
  BY <1>3, <1>4 DEF FreeInv

(* TypesKept: the variables of the input hold values of their types.       *)
THEOREM TypesKept == Spec => []TypeOK
<1>1. ReadInv /\ FreeInv => TypeOK
  <2> SUFFICES ASSUME ReadInv, FreeInv PROVE TypeOK
    OBVIOUS
  <2> DEFINE n == rel_list.length
  <2>1. Linked(rel_list, Numbers(n), Relations) /\ n \in Nat
    BY DEF ReadInv, RelInv
  <2>2. rel_list.data \in Seq(Relations) /\ Nodes(rel_list) = 1 .. n
    <3>1. /\ rel_list.data \in Seq(Relations) /\ Len(rel_list.data) = Len(Numbers(n))
          /\ n = Len(Numbers(n))
      BY <2>1 DEF Linked
    <3> HIDE DEF n
    <3> QED
      BY <3>1 DEF Nodes
  <2>3. \A k \in DOMAIN stdin : stdin[k].cut \in BOOLEAN
    <3>1. \A t \in Token : t.cut \in BOOLEAN
      BY DEF Token
    <3>2. stdin \in Seq(Token)
      BY DEF ReadInv, WellWritten
    <3>3. DOMAIN stdin = 1 .. Len(stdin)
      BY <3>2
    <3>4. \A k \in DOMAIN stdin : stdin[k] \in Token
      BY <3>2, <3>3, ElementOfSeq
    <3> QED
      BY <3>1, <3>4
  <2>4. \A k \in DOMAIN lines : lines[k].whole \in BOOLEAN
    <3> DEFINE R == [text : Seq(Token), whole : BOOLEAN]
    <3>1. lines \in Seq(R)
      BY DEF ReadInv, RelInv
    <3>2. \A x \in R : x.whole \in BOOLEAN
      OBVIOUS
    <3> HIDE DEF R
    <3>3. DOMAIN lines = 1 .. Len(lines)
      BY <3>1
    <3>4. \A k \in DOMAIN lines : lines[k] \in R
      BY <3>1, <3>3, ElementOfSeq
    <3> QED
      BY <3>2, <3>4
  <2>5. IsList(rel_list)
    <3>1. WellThreaded(rel_list)
      BY ListsThreaded, PlacesAre
    <3> QED
      BY <3>1, ThreadedList
  <2>6. \A r \in Nodes(rel_list) :
          {rel_list.data[r].rows, rel_list.data[r].cols, rel_list.data[r].mapped}
            \subseteq Nat \cup {Unset}
    <3>1. \A x \in Relations : {x.rows, x.cols, x.mapped} \subseteq Nat \cup {Unset}
      BY DEF Relations
    <3>2. DOMAIN rel_list.data = 1 .. Len(rel_list.data)
      BY <2>2
    <3>3. \A r \in Nodes(rel_list) : rel_list.data[r] \in Relations
      BY <2>2, <3>2, ElementOfSeq DEF Nodes
    <3> QED
      BY <3>1, <3>3
  <2>7. ASSUME NEW b \in DOMAIN batches, NEW q \in DOMAIN batches[b]
        PROVE  /\ batches[b][q].stage \in {"read", "running", "ordered", "empty"}
               /\ IsList(batches[b][q].preds)
               /\ Range(batches[b][q].rels) \subseteq Nodes(rel_list)
    <3> DEFINE query == batches[b][q]
               line  == query.text
    <3>1. QueryOK(query)
      BY DEF ReadInv, BatchesInv
    <3>2. query.stage \in {"read", "running", "ordered", "empty"}
      <4>1. PICK P : batches \in Seq(Seq(Queries(P)))
        BY DEF ReadInv, BatchesInv
      <4> DEFINE Q == Queries(P)
      <4>2. \A x \in Q : x.stage \in {"read", "running", "ordered", "empty"}
        BY DEF Queries
      <4>3. batches \in Seq(Seq(Q))
        BY <4>1
      <4> HIDE DEF Q
      <4>4. b \in 1 .. Len(batches) /\ batches[b] \in Seq(Q)
        BY <4>3, ElementOfSeq
      <4>5. q \in 1 .. Len(batches[b]) /\ batches[b][q] \in Q
        BY <4>4, ElementOfSeq
      <4> QED
        BY <4>2, <4>5
    <3> HIDE DEF query
    <3>3. IsList(query.preds)
      BY <3>1, QueryThreaded, ThreadedList
    <3>4. ASSUME NEW r \in DOMAIN query.rels PROVE query.rels[r] \in Nodes(rel_list)
      <4>1. r \in DOMAIN RelsOf(line) /\ query.rels[r] = RelsOf(line)[r].index + 1
        BY <3>1 DEF QueryOK
      <4>2. RelsOf(line) \in Seq(RelToken)
        BY <3>1 DEF QueryOK, QueryLine
      <4>3. RelsOf(line)[r] \in RelToken
        BY <4>1, <4>2
      <4>4. RelsOf(line)[r].index \in Nat
        BY <4>3 DEF RelToken, Token
      <4>5. RelsOf(line)[r].index < n
        BY <3>1, <4>1 DEF QueryOK
      <4>6. RelsOf(line)[r].index + 1 \in 1 .. n
        BY <2>1, <4>4, <4>5
      <4> QED
        BY <2>2, <4>1, <4>6
    <3>5. Range(query.rels) \subseteq Nodes(rel_list)
      BY <3>4 DEF Range
    <3> QED
      BY <3>2, <3>3, <3>5 DEF query
  <2>8. \A f \in freed : f.place \in Places /\ f.node \in Nat
    BY FreedTyped
  <2>9. pc \in {"relations", "queries", "execute", "free", "end", "aborted", "undefined",
             "raced"}
    BY DEF FreeInv, NotYetFreeing
  <2>10. end_of_batch \in BOOLEAN
    BY DEF ReadInv, BatchesInv
  <2> HIDE DEF n
  <2> QED
    BY <2>3, <2>4, <2>5, <2>6, <2>7, <2>8, <2>9, <2>10 DEF TypeOK, AllSatisfy
<1> QED
  BY <1>1, Invariance, FreeInvariance, PTL

=============================================================================
