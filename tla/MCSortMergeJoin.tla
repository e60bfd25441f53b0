--------------------------- MODULE MCSortMergeJoin ---------------------------
EXTENDS SortMergeJoin

(* The column with these keys from row 0 on. *)
ColumnOf(keys) ==
  [x \in 0 .. Len(keys) - 1 |-> [key |-> keys[x + 1], payload |-> x]]

(* Keys of four bits in four chunks.  Up to three tuples any keys of three *)
(* that part at the first, the second or the last chunk; then buckets that *)
(* stay large down to the last chunk, in one and in several parts.         *)
MCLefts ==
  {ColumnOf(keys) : keys \in UNION {[1 .. n -> {4, 5, 9}] : n \in 0 .. 3}}
    \cup {ColumnOf(keys) :
            keys \in {<<5, 5, 5, 5>>, <<9, 8, 9, 8, 9, 8>>, <<9, 4, 5, 9, 4, 5>>,
                      <<3, 2, 1, 0>>, <<15, 0, 15, 0, 15, 1, 2>>}}

MCRights ==
  {ColumnOf(keys) :
     keys \in {<<>>, <<9>>, <<5, 9, 4>>, <<9, 5, 8, 5, 9>>, <<15, 4, 0, 4, 4, 15>>}}
=============================================================================
