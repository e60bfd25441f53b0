------------------------------ MODULE RadixSort ------------------------------
(***************************************************************************)
(* The two radix sorts.  table_sort distributes the tuples of one table    *)
(* over another by one chunk of bits of the key, from the most significant *)
(* chunk on; a bucket that is small is quick-sorted in place, a large one  *)
(* is sorted by the next chunk with the roles of the tables exchanged and  *)
(* copied back.  matrix_sort goes from a column of the matrix to a table   *)
(* for odd chunks and back for even ones, and sorts every bucket by the    *)
(* next chunk, the small ones after quick sort.                            *)
(*                                                                         *)
(* Quick sort works on tuples.  For table_sort that is table_r and other   *)
(* is table, as the innermost call names them; for matrix_sort tuples is   *)
(* the column and other the table.                                         *)
(***************************************************************************)
EXTENDS Integers, Sequences, FiniteSets, FiniteSetsExt

CONSTANTS
  Radix,        \* values of a chunk, 2 ^ CHUNK_SIZE
  FirstChunk,   \* FIRST_CHUNK
  BucketLimit   \* tuples in MAX_BUCKET_SIZE bytes

(* matrix_sort starts with an odd chunk: it reads the column first. *)
ASSUME ChunkAssumption ==
  /\ Radix \in Nat \ {0, 1} /\ BucketLimit \in Nat \ {0}
  /\ FirstChunk \in Nat /\ FirstChunk % 2 = 1

VARIABLES
  tuples, calls, scan, asked, original,   \* see QuickSort
  other,    \* the second array
  next,     \* next of the tables: [tuples, other]
  frames    \* calls of table_sort or matrix_sort, the innermost in front

quick == <<calls, scan, asked, original>>

Quick == INSTANCE QuickSort

Extent(start, end) == [start |-> start, end |-> end]

Within(r) == r.start .. r.end - 1

(* key >> (chunk * chunk_size): what is left of the key when the chunks    *)
(* below this one are shifted out.                                         *)
Shifted(key, chunk) ==
  LET shifted[c \in 0 .. FirstChunk + 1] ==
        IF c = 0 THEN key ELSE shifted[c - 1] \div Radix
  IN  shifted[chunk]

get_chunk(key, chunk) == Shifted(key, chunk) % Radix

set_histogram(src, chunk, range) ==
  [p \in 0 .. Radix - 1 |->
     Cardinality({i \in Within(range) : get_chunk(src[i].key, chunk) = p})]

(* The sum of the histogram in front of every prefix.                      *)
RunningSum(histogram) ==
  LET sum[p \in 0 .. Radix] == IF p = 0 THEN 0 ELSE sum[p - 1] + histogram[p - 1]
  IN  sum

(* Mutant: the sum includes the prefix itself. *)
PrefixSumInclusive(histogram) ==
  [p \in DOMAIN histogram |->
     IF histogram[p] = 0 THEN 0 ELSE RunningSum(histogram)[p + 1] - histogram[0]]

(* Prefixes that do not occur keep 0. *)
set_prefix_sum(histogram) ==
  [p \in DOMAIN histogram |->
     IF histogram[p] = 0 THEN 0 ELSE RunningSum(histogram)[p]]

(* The next prefix that occurs, or the size of the map. *)
NextPrefix(map, i) == Min({p \in i .. Radix - 1 : map[p] > 0} \cup {Radix})

(* Where tuple i goes: behind those of its prefix that came before it. *)
Index(src, chunk, range, i) ==
  LET prefix(k) == get_chunk(src[k].key, chunk)
  IN  range.start + set_prefix_sum(set_histogram(src, chunk, range))[prefix(i)]
        + Cardinality({k \in range.start .. i - 1 : prefix(k) = prefix(i)})

Distributed(src, dst, chunk, range) ==
  [x \in DOMAIN dst |->
     LET from == {i \in Within(range) : Index(src, chunk, range, i) = x}
     IN  IF from = {} THEN dst[x] ELSE src[Max(from)]]

(* The offsets after the pass: for a prefix that occurs, the end of its    *)
(* bucket.                                                                 *)
Offsets(src, chunk, range) ==
  LET histogram == set_histogram(src, chunk, range)
  IN  [p \in DOMAIN histogram |-> set_prefix_sum(histogram)[p] + histogram[p]]

(* A call: the chunk and the range it sorts by; after the pass the offsets,*)
(* the prefix of the next bucket, and the bucket it is at.                 *)
Call(chunk, range) ==
  [chunk |-> chunk, range |-> range, offsets |-> <<>>, prefix |-> 0,
   bucket |-> Extent(range.start, range.start), step |-> "pass"]

Frame == frames[1]

Resume(frame) == <<frame>> \o Tail(frames)

AfterPass(src) ==
  LET offsets == Offsets(src, Frame.chunk, Frame.range)
  IN  Resume([Frame EXCEPT !.offsets = offsets, !.step = "split",
                           !.prefix = NextPrefix(offsets, 0)])

At(step) == frames # <<>> /\ calls = <<>> /\ Frame.step = step

(* The buckets follow one another in the range; the last may end without   *)
(* an offset.                                                              *)
NextBucket ==
  Extent(Frame.bucket.end,
         IF Frame.prefix = Radix THEN Frame.range.end
         ELSE Frame.range.start + Frame.offsets[Frame.prefix])

MoreBuckets == Frame.bucket.end < Frame.range.end

AtBucket(step) ==
  [Frame EXCEPT !.bucket = NextBucket, !.step = step,
                !.prefix = IF @ = Radix THEN @ ELSE NextPrefix(Frame.offsets, @ + 1)]

Small(bucket) == bucket.end - bucket.start < BucketLimit

Copied(src, dst, range) ==
  [x \in DOMAIN dst |-> IF x \in Within(range) THEN src[x] ELSE dst[x]]

QuickSortOf(array, range) ==
  /\ calls' = <<range>> /\ asked' = range /\ original' = array
  /\ UNCHANGED scan

-----------------------------------------------------------------------------
(* table_sort and table_split *)

TablePass ==
  /\ At("pass")
  /\ tuples' = Distributed(other, tuples, Frame.chunk, Frame.range)
  /\ frames' = AfterPass(other)
  /\ UNCHANGED <<quick, other, next>>

TableBucket ==
  /\ At("split") /\ MoreBuckets
  /\ \/ /\ Small(NextBucket)
        /\ QuickSortOf(tuples, NextBucket)
        /\ frames' = Resume(AtBucket("split"))
        /\ UNCHANGED <<tuples, other, next>>
     \/ /\ ~Small(NextBucket) /\ Frame.chunk > 0
        /\ frames' = <<Call(Frame.chunk - 1, NextBucket)>> \o Resume(AtBucket("called"))
        /\ tuples' = other /\ other' = tuples
        /\ next' = [tuples |-> next.other, other |-> next.tuples]
        /\ UNCHANGED quick
     \/ /\ ~Small(NextBucket) /\ Frame.chunk = 0
        /\ frames' = Resume(AtBucket("split"))
        /\ UNCHANGED <<quick, tuples, other, next>>

MaxOf(a, b) == IF a > b THEN a ELSE b

(* Mutant: the bucket is not copied back. *)
TableReturnWithoutCopy ==
  /\ At("split") /\ ~MoreBuckets
  /\ frames' = IF Len(frames) = 1 THEN <<>>
               ELSE <<[frames[2] EXCEPT !.step = "split"]>> \o Tail(Tail(frames))
  /\ IF Len(frames) = 1 THEN UNCHANGED <<tuples, other>>
     ELSE tuples' = other /\ other' = tuples
  /\ next' = [next EXCEPT !.tuples = Frame.range.end - Frame.range.start]
  /\ UNCHANGED quick

(* A call ends by setting next of table_r; its caller, for which that was  *)
(* table, copies the bucket to its own table_r.                            *)
TableReturn ==
  /\ At("split") /\ ~MoreBuckets
  /\ frames' = IF Len(frames) = 1 THEN <<>>
               ELSE <<[frames[2] EXCEPT !.step = "split"]>> \o Tail(Tail(frames))
  /\ LET length == Frame.range.end - Frame.range.start
     IN  IF Len(frames) = 1
           THEN next' = [next EXCEPT !.tuples = length] /\ UNCHANGED <<tuples, other>>
           ELSE /\ tuples' = Copied(tuples, other, frames[2].bucket)
                /\ other' = tuples
                /\ next' = [tuples |-> MaxOf(next.other, frames[2].bucket.end),
                            other  |-> length]
  /\ UNCHANGED quick

TableSortStep == TablePass \/ TableBucket \/ TableReturn

-----------------------------------------------------------------------------
(* matrix_sort and matrix_split *)

Odd(chunk) == chunk % 2 = 1

(* Mutant: every chunk is read from the column. *)
MatrixPassFromColumn ==
  /\ At("pass")
  /\ other' = Distributed(tuples, other, Frame.chunk, Frame.range)
  /\ frames' = AfterPass(tuples)
  /\ UNCHANGED <<quick, tuples, next>>

MatrixPass ==
  /\ At("pass")
  /\ IF Odd(Frame.chunk)
       THEN /\ other' = Distributed(tuples, other, Frame.chunk, Frame.range)
            /\ frames' = AfterPass(tuples)
            /\ UNCHANGED tuples
       ELSE /\ tuples' = Distributed(other, tuples, Frame.chunk, Frame.range)
            /\ frames' = AfterPass(other)
            /\ UNCHANGED other
  /\ UNCHANGED <<quick, next>>

(* A small bucket that is in the table is brought to the column first. *)
MatrixBucket ==
  /\ At("split") /\ MoreBuckets
  /\ frames' = Resume(AtBucket("bucket"))
  /\ IF Small(NextBucket)
       THEN /\ tuples' = IF Odd(Frame.chunk) THEN Copied(other, tuples, NextBucket)
                         ELSE tuples
            /\ QuickSortOf(tuples', NextBucket)
       ELSE UNCHANGED <<quick, tuples>>
  /\ UNCHANGED <<other, next>>

(* Whether it was small or not, the bucket is sorted by the next chunk. *)
MatrixRecurse ==
  /\ At("bucket")
  /\ frames' = IF Frame.chunk = 0 THEN Resume([Frame EXCEPT !.step = "split"])
               ELSE <<Call(Frame.chunk - 1, Frame.bucket)>>
                      \o Resume([Frame EXCEPT !.step = "called"])
  /\ UNCHANGED <<quick, tuples, other, next>>

(* mx_to_table or table_to_mx of the bucket, by the chunk of the caller. *)
MatrixReturn ==
  /\ At("split") /\ ~MoreBuckets
  /\ IF Len(frames) = 1
       THEN frames' = <<>> /\ UNCHANGED <<tuples, other>>
       ELSE /\ frames' = <<[frames[2] EXCEPT !.step = "split"]>> \o Tail(Tail(frames))
            /\ IF Odd(frames[2].chunk)
                 THEN /\ other' = Copied(tuples, other, frames[2].bucket)
                      /\ UNCHANGED tuples
                 ELSE /\ tuples' = Copied(other, tuples, frames[2].bucket)
                      /\ UNCHANGED other
  /\ UNCHANGED <<quick, next>>

MatrixSortStep == MatrixPass \/ MatrixBucket \/ MatrixRecurse \/ MatrixReturn

(* A step of the quick sort that is running. *)
QuickSortStep == Quick!Next /\ UNCHANGED <<other, next, frames>>
=============================================================================
