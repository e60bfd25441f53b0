---------------------------- MODULE PredicateOrder ----------------------------
(***************************************************************************)
(* Predicates, and the order in which query_exec runs the joins of a query:*)
(* that of nodelist_mergesort with pred_cmp, here on sequences; ListSort   *)
(* has the lists of nodes.                                                 *)
(*                                                                         *)
(* A predicate is [left, op, right]: left and right are pairs              *)
(* [key |-> relation, payload |-> attribute]; right.payload = Constant     *)
(* says that right.key is the constant of a filter.                        *)
(***************************************************************************)
EXTENDS Integers, Sequences

Constant == -2   \* UINT64_MAX as right.payload of a predicate

is_pred_join(p) ==
  p.op = "=" /\ p.left.key # p.right.key /\ p.right.payload # Constant

tuple_cmp(a, b) ==
  IF a = b THEN 0
  ELSE IF a.key > b.key \/ (a.key = b.key /\ a.payload > b.payload) THEN 1 ELSE -1

(* pred_cmp: by the end with the smaller relation, then by the other. *)
pred_cmp(a, b) ==
  LET small(p) == IF p.left.key < p.right.key THEN p.left ELSE p.right
      large(p) == IF p.left.key < p.right.key THEN p.right ELSE p.left
  IN  IF tuple_cmp(small(a), small(b)) # 0 THEN tuple_cmp(small(a), small(b))
      ELSE tuple_cmp(large(a), large(b))

(* The lists that a sort meets: of the predicates in s. *)
ListsOf(s) == Seq({s[k] : k \in DOMAIN s})

(* nodelist_mergesort: of equal predicates the one of the second half goes *)
(* first, but a list of two keeps them in place.                           *)
nodelist_mergesort(s) ==
  LET merge[ab \in ListsOf(s) \X ListsOf(s)] ==
        LET a == ab[1]
            b == ab[2]
        IN  IF a = <<>> THEN b
            ELSE IF b = <<>> THEN a
            ELSE IF pred_cmp(Head(a), Head(b)) < 0
                   THEN <<Head(a)>> \o merge[<<Tail(a), b>>]
                   ELSE <<Head(b)>> \o merge[<<a, Tail(b)>>]
      sort[t \in ListsOf(s)] ==
        LET half == (Len(t) + 1) \div 2
        IN  IF Len(t) <= 1 THEN t
            ELSE IF Len(t) = 2
                   THEN IF pred_cmp(t[1], t[2]) > 0 THEN <<t[2], t[1]>> ELSE t
                   ELSE merge[<<sort[SubSeq(t, 1, half)],
                                sort[SubSeq(t, half + 1, Len(t))]>>]
  IN  sort[s]
=============================================================================
