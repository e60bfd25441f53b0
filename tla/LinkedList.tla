------------------------------ MODULE LinkedList ------------------------------
(***************************************************************************)
(* list_t and the nodes it owns.  The nodes of a list are 1, 2, ... in the *)
(* order in which list_insert made them; data, next and prev are their     *)
(* fields.                                                                 *)
(***************************************************************************)
EXTENDS Integers, Sequences

NULL == 0

(* list_init *)
EmptyList ==
  [head |-> NULL, tail |-> NULL, length |-> 0,
   data |-> <<>>, next |-> <<>>, prev |-> <<>>]

Nodes(l) == DOMAIN l.data

NewNode(l) == Len(l.data) + 1

(* Mutant: the old head does not learn of the new one. *)
AddStartOneWay(l, value) ==
  [head   |-> NewNode(l),
   tail   |-> IF l.head = NULL THEN NewNode(l) ELSE l.tail,
   length |-> l.length + 1,
   data   |-> Append(l.data, value),
   next   |-> Append(l.next, l.head),
   prev   |-> Append(l.prev, l.tail)]

(* prev of the new head is the tail: nobody reads it. *)
list_add_start(l, value) ==
  [head   |-> NewNode(l),
   tail   |-> IF l.head = NULL THEN NewNode(l) ELSE l.tail,
   length |-> l.length + 1,
   data   |-> Append(l.data, value),
   next   |-> Append(l.next, l.head),
   prev   |-> Append([n \in Nodes(l) |-> IF n = l.head THEN NewNode(l) ELSE l.prev[n]],
                     l.tail)]

list_add_end(l, value) ==
  [head   |-> IF l.tail = NULL THEN NewNode(l) ELSE l.head,
   tail   |-> NewNode(l),
   length |-> l.length + 1,
   data   |-> Append(l.data, value),
   next   |-> Append([n \in Nodes(l) |-> IF n = l.tail THEN NewNode(l) ELSE l.next[n]],
                     NULL),
   prev   |-> Append(l.prev, l.tail)]

list_insert(l, side, value) ==
  IF side = "LIST_START" THEN list_add_start(l, value) ELSE list_add_end(l, value)

(* The nodes that a walk along next from n meets, one more than there are  *)
(* if it does not end.                                                     *)
Walk(l, n) ==
  LET walk[k \in 0 .. Len(l.data) + 1] ==
        IF k = 0 THEN <<>>
        ELSE LET met == walk[k - 1]
                 m   == IF met = <<>> THEN n ELSE l.next[met[Len(met)]]
             IN  IF m = NULL THEN met ELSE Append(met, m)
  IN  walk[Len(l.data) + 1]

(* Mutant: the walk stops one node early. *)
list_get_before(l, index) ==
  LET node[k \in 0 .. index] == IF k <= 1 THEN l.head ELSE l.next[node[k - 1]]
  IN  IF index = 0 THEN NULL ELSE node[index]

(* list_get asserts that there is such a node. *)
list_get(l, index) ==
  LET node[k \in 0 .. index] == IF k = 0 THEN l.head ELSE l.next[node[k - 1]]
  IN  node[index]

Chain(l) == Walk(l, l.head)

(* The data of nodes. *)
DataOf(l, nodes) == [k \in DOMAIN nodes |-> l.data[nodes[k]]]
=============================================================================
