------------------------------- MODULE ListSort -------------------------------
(***************************************************************************)
(* nodelist_mergesort on nodes: it splits and merges chains by writing     *)
(* next and prev of nodes, and returns the new head.  Nodes outside the    *)
(* chain keep what they point to.                                          *)
(***************************************************************************)
EXTENDS LinkedList, PredicateOrder

(* Mutant: the larger predicate counts as the smaller one. *)
cmp_reversed(l, m, n) == pred_cmp(l.data[n], l.data[m])

cmp(l, m, n) == pred_cmp(l.data[m], l.data[n])

node_inresult(l, prev, node) ==
  [l EXCEPT !.prev[node] = prev, !.next[prev] = node]

(* The two loops that put the rest of both chains behind prev: where they  *)
(* are after every iteration, of which there is one per node.              *)
MergeBehind(l, prev, n0, n1) ==
  LET after[k \in 0 .. Len(l.data)] ==
        IF k = 0 THEN [list |-> l, prev |-> prev, n0 |-> n0, n1 |-> n1]
        ELSE LET s == after[k - 1]
             IN  IF s.n0 = NULL /\ s.n1 = NULL THEN s
                 ELSE IF s.n1 = NULL \/ (s.n0 # NULL /\ cmp(l, s.n0, s.n1) < 0)
                   THEN [list |-> node_inresult(s.list, s.prev, s.n0), prev |-> s.n0,
                         n0 |-> s.list.next[s.n0], n1 |-> s.n1]
                   ELSE [list |-> node_inresult(s.list, s.prev, s.n1), prev |-> s.n1,
                         n0 |-> s.n0, n1 |-> s.list.next[s.n1]]
  IN  after[Len(l.data)].list

Sorted(l, head) == [list |-> l, head |-> head]

MergeNodes(l, n0, n1) ==
  IF cmp(l, n0, n1) < 0
    THEN Sorted(MergeBehind(l, n0, l.next[n0], n1), n0)
    ELSE Sorted(MergeBehind(l, n1, n0, l.next[n1]), n1)

(* The node after the middle: j goes two nodes at a time. *)
AfterMiddle(l, head) ==
  LET at[k \in 0 .. Len(l.data)] ==
        IF k = 0 THEN [node |-> head, j |-> head, count |-> 0]
        ELSE LET s == at[k - 1]
             IN  IF s.j = NULL THEN s
                 ELSE [node  |-> l.next[s.node],
                       j     |-> IF l.next[s.j] # NULL THEN l.next[l.next[s.j]] ELSE NULL,
                       count |-> s.count + 1]
  IN  at[Len(l.data)]

Split(l, i) == [l EXCEPT !.next[l.prev[i]] = NULL, !.prev[i] = NULL]

SwapTwo(l, head, i) ==
  [l EXCEPT !.next[head] = NULL, !.prev[i] = NULL, !.prev[head] = i, !.next[i] = head]

(* The nodes of l, however they are linked. *)
Relinked(l) ==
  LET links == [Nodes(l) -> {NULL} \cup Nodes(l)]
  IN  [head : {l.head}, tail : {l.tail}, length : {l.length}, data : {l.data},
       next : links, prev : links]

(* Every call sorts fewer nodes than its caller: no call is deeper than    *)
(* there are nodes.                                                        *)
SortNodes(l, head) ==
  LET sort[depth \in 0 .. Len(l.data)] ==
        [c \in [list : Relinked(l), head : Nodes(l)] |->
          LET middle == AfterMiddle(c.list, c.head)
              i      == middle.node
          IN  IF depth = 0 \/ i = NULL THEN c
              ELSE IF c.list.next[i] # NULL \/ middle.count > 1
                THEN LET first  == sort[depth - 1][Sorted(Split(c.list, i), c.head)]
                         second == sort[depth - 1][Sorted(first.list, i)]
                     IN  MergeNodes(second.list, first.head, second.head)
              ELSE IF cmp(c.list, c.head, i) > 0 THEN Sorted(SwapTwo(c.list, c.head, i), i)
              ELSE c]
  IN  sort[Len(l.data)][Sorted(l, head)]
=============================================================================
