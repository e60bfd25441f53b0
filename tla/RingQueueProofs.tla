--------------------------- MODULE RingQueueProofs ---------------------------
(***************************************************************************)
(* Facts about queue_t for every size of the buffer: what push and pop do  *)
(* to the record's type, to the set of slots in use and to the jobs in     *)
(* them, and to the sequence the buffer represents.  JobSchedulerProofs    *)
(* cites them by name.                                                     *)
(***************************************************************************)
EXTENDS RingQueue, Sequences, TLAPS

(* SuccValue: (i + 1) % size wraps at the last slot only.                  *)
LEMMA SuccValue ==
  ASSUME NEW i \in Slots
  PROVE  Succ(i) = IF i = QueueSize - 1 THEN 0 ELSE i + 1
  <1>1. CASE i = QueueSize - 1
    BY <1>1, QueueSizeAssumption DEF Succ, Slots
  <1>2. CASE i # QueueSize - 1
    BY <1>2, QueueSizeAssumption DEF Succ, Slots
  <1>3. QED BY <1>1, <1>2

(* CreateType: a new queue is a queue, and it is empty.                    *)
LEMMA CreateType ==
  /\ queue_create \in QueueType
  /\ queue_empty(queue_create)
  /\ Live(queue_create) = {}
  BY QueueSizeAssumption
  DEF queue_create, QueueType, Slots, queue_empty, Live

(* LiveType: the slots in use are slots.                                   *)
LEMMA LiveType ==
  ASSUME NEW q \in QueueType
  PROVE  Live(q) \subseteq Slots
  BY QueueSizeAssumption DEF Live, QueueType, Slots

(* EmptyLive: front = back says that no slot is in use.                    *)
LEMMA EmptyLive ==
  ASSUME NEW q \in QueueType
  PROVE  queue_empty(q) <=> Live(q) = {}
  <1>1. q.front \in Slots /\ q.back \in Slots
    BY DEF QueueType
  <1>2. ASSUME queue_empty(q) PROVE Live(q) = {}
    BY <1>1, <1>2, QueueSizeAssumption DEF queue_empty, Live, Slots
  <1>3. ASSUME ~queue_empty(q) PROVE q.front \in Live(q)
    BY <1>1, <1>3, QueueSizeAssumption DEF queue_empty, Live, Slots
  <1>4. QED BY <1>2, <1>3

(* PushType: queue_push keeps the type.                                    *)
LEMMA PushType ==
  ASSUME NEW q \in QueueType, NEW j \in Jobs
  PROVE  queue_push(q, j) \in QueueType
  <1>1. Succ(q.back) \in Slots
    BY QueueSizeAssumption DEF Succ, Slots, QueueType
  <1>2. QED BY <1>1 DEF queue_push, QueueType

(* PushFields: what an accepted push assigns.                              *)
LEMMA PushFields ==
  ASSUME NEW q \in QueueType, NEW j \in Jobs, ~queue_full(q)
  PROVE  /\ queue_push(q, j).front = q.front
         /\ queue_push(q, j).back = Succ(q.back)
         /\ queue_push(q, j).buffer = [q.buffer EXCEPT ![q.back] = j]
  BY DEF queue_push, QueueType

(* PushLive: an accepted push takes the one slot back into use.            *)
LEMMA PushLive ==
  ASSUME NEW q \in QueueType, NEW j \in Jobs, ~queue_full(q)
  PROVE  /\ Live(queue_push(q, j)) = Live(q) \cup {q.back}
         /\ q.back \notin Live(q)
         /\ q.back \in Slots
         /\ ~queue_empty(queue_push(q, j))
  <1> DEFINE p == queue_push(q, j)
  <1>1. q.front \in Slots /\ q.back \in Slots
    BY DEF QueueType
  <1>2. q.back \notin Live(q)
    BY <1>1, QueueSizeAssumption DEF Live, Slots
  <1>3. p.back = (IF q.back = QueueSize - 1 THEN 0 ELSE q.back + 1)
    BY <1>1, SuccValue, PushFields
  <1>4. p.front = q.front /\ p.back # q.front
    BY PushFields DEF queue_full
  <1>5. Live(p) = Live(q) \cup {q.back}
    <2> HIDE DEF p
    <2>1. CASE q.back = QueueSize - 1
      BY <2>1, <1>1, <1>3, <1>4, QueueSizeAssumption DEF Live, Slots
    <2>2. CASE q.back # QueueSize - 1
      BY <2>2, <1>1, <1>3, <1>4, QueueSizeAssumption DEF Live, Slots
    <2>3. QED BY <2>1, <2>2
  <1>6. ~queue_empty(p)
    BY <1>4 DEF queue_empty
  <1>7. QED BY <1>1, <1>2, <1>5, <1>6

(* PopType: queue_pop keeps the type, and returns a queued job or NULL.    *)
LEMMA PopType ==
  ASSUME NEW q \in QueueType
  PROVE  /\ queue_pop(q) \in QueueType
         /\ queue_pop_result(q) \in Jobs \cup {NoJob}
  <1>1. Succ(q.front) \in Slots
    BY QueueSizeAssumption DEF Succ, Slots, QueueType
  <1>2. QED BY <1>1 DEF queue_pop, queue_pop_result, QueueType

(* PopFields: a pop writes front and nothing else.                         *)
LEMMA PopFields ==
  ASSUME NEW q \in QueueType, ~queue_empty(q)
  PROVE  /\ queue_pop(q).front = Succ(q.front)
         /\ queue_pop(q).back = q.back
         /\ queue_pop(q).buffer = q.buffer
         /\ queue_pop_result(q) = q.buffer[q.front]
  BY DEF queue_pop, queue_pop_result, QueueType

(* PopLive: a pop gives the slot front back.                               *)
LEMMA PopLive ==
  ASSUME NEW q \in QueueType, ~queue_empty(q)
  PROVE  /\ Live(queue_pop(q)) = Live(q) \ {q.front}
         /\ q.front \in Live(q)
  <1> DEFINE p == queue_pop(q)
  <1>1. q.front \in Slots /\ q.back \in Slots
    BY DEF QueueType
  <1>2. q.front # q.back
    BY DEF queue_empty
  <1>3. q.front \in Live(q)
    BY <1>1, <1>2, QueueSizeAssumption DEF Live, Slots
  <1>4. p.front = (IF q.front = QueueSize - 1 THEN 0 ELSE q.front + 1)
    BY <1>1, SuccValue, PopFields
  <1>5. p.back = q.back
    BY PopFields
  <1>6. Live(p) = Live(q) \ {q.front}
    <2> HIDE DEF p
    <2>1. CASE q.front = QueueSize - 1
      BY <2>1, <1>1, <1>2, <1>4, <1>5, QueueSizeAssumption DEF Live, Slots
    <2>2. CASE q.front # QueueSize - 1
      BY <2>2, <1>1, <1>2, <1>4, <1>5, QueueSizeAssumption DEF Live, Slots
    <2>3. QED BY <2>1, <2>2
  <1>7. QED BY <1>3, <1>6

-----------------------------------------------------------------------------
(* SlotsDistinct: no job is queued twice.                                  *)
SlotsDistinct(q) ==
  \A i, k \in Live(q) : q.buffer[i] = q.buffer[k] => i = k

(* PushQueued: an accepted push of a job that is not queued adds that job  *)
(* to the queued ones, and queues nothing twice.                           *)
LEMMA PushQueued ==
  ASSUME NEW q \in QueueType, NEW j \in Jobs, ~queue_full(q)
  PROVE  /\ Queued(queue_push(q, j)) = Queued(q) \cup {j}
         /\ SlotsDistinct(q) /\ j \notin Queued(q) => SlotsDistinct(queue_push(q, j))
  <1> DEFINE p == queue_push(q, j)
  <1>1. Live(p) = Live(q) \cup {q.back} /\ q.back \notin Live(q) /\ q.back \in Slots
    BY PushLive
  <1>2. q.buffer \in [Slots -> Jobs \cup {NoJob}]
    BY DEF QueueType
  <1>3. p.buffer = [q.buffer EXCEPT ![q.back] = j]
    BY PushFields
  <1>4. p.buffer[q.back] = j
    BY <1>1, <1>2, <1>3
  <1>5. \A i \in Live(q) : p.buffer[i] = q.buffer[i]
    BY <1>1, <1>2, <1>3, LiveType
  <1>6. Queued(p) = Queued(q) \cup {j}
    <2> HIDE DEF p
    <2> QED BY <1>1, <1>4, <1>5 DEF Queued
  <1>7. ASSUME SlotsDistinct(q), j \notin Queued(q) PROVE SlotsDistinct(p)
    <2> HIDE DEF p
    <2> QED BY <1>1, <1>4, <1>5, <1>7 DEF SlotsDistinct, Queued
  <1>8. QED BY <1>6, <1>7

(* PopQueued: a pop takes its result out of the queued jobs; the result    *)
(* is not queued any more when nothing was queued twice.                   *)
LEMMA PopQueued ==
  ASSUME NEW q \in QueueType, ~queue_empty(q)
  PROVE  /\ queue_pop_result(q) \in Queued(q)
         /\ Queued(q) = Queued(queue_pop(q)) \cup {queue_pop_result(q)}
         /\ SlotsDistinct(q) => /\ SlotsDistinct(queue_pop(q))
                                /\ queue_pop_result(q) \notin Queued(queue_pop(q))
  <1> DEFINE p == queue_pop(q)
             r == queue_pop_result(q)
  <1>1. Live(p) = Live(q) \ {q.front} /\ q.front \in Live(q)
    BY PopLive
  <1>2. p.buffer = q.buffer /\ r = q.buffer[q.front]
    BY PopFields
  <1> HIDE DEF p, r
  <1>3. r \in Queued(q) /\ Queued(q) = Queued(p) \cup {r}
    BY <1>1, <1>2 DEF Queued
  <1>4. SlotsDistinct(q) => SlotsDistinct(p) /\ r \notin Queued(p)
    BY <1>1, <1>2 DEF SlotsDistinct, Queued
  <1>5. QED BY <1>3, <1>4 DEF p, r

(* EmptyQueued: nothing is queued in an empty queue, and in no other.      *)
LEMMA EmptyQueued ==
  ASSUME NEW q \in QueueType
  PROVE  queue_empty(q) <=> Queued(q) = {}
  BY EmptyLive DEF Queued

-----------------------------------------------------------------------------
(* ContentsSeq: the contents are a sequence; it is empty when the queue is *)
(* and has QueueSize - 1 elements when the queue is full.                  *)
LEMMA ContentsSeq ==
  ASSUME NEW q \in QueueType
  PROVE  /\ Length(q) \in Nat
         /\ Contents(q) \in Seq(Jobs \cup {NoJob})
         /\ Len(Contents(q)) = Length(q)
         /\ DOMAIN Contents(q) = 1 .. Length(q)
         /\ \A k \in 1 .. Length(q) :
              Place(q, k) \in Slots /\ Contents(q)[k] = q.buffer[Place(q, k)]
         /\ queue_empty(q) <=> Length(q) = 0
         /\ queue_full(q) <=> Length(q) = QueueSize - 1
         /\ Length(q) <= QueueSize - 1
  <1>1. q.front \in Slots /\ q.back \in Slots /\ q.buffer \in [Slots -> Jobs \cup {NoJob}]
    BY DEF QueueType
  <1>2. /\ Length(q) \in Nat /\ Length(q) <= QueueSize - 1
        /\ queue_empty(q) <=> Length(q) = 0
    BY <1>1, QueueSizeAssumption DEF Length, Slots, queue_empty
  <1>3. queue_full(q) <=> Length(q) = QueueSize - 1
    BY <1>1, SuccValue, QueueSizeAssumption DEF queue_full, Length, Slots
  <1>4. ASSUME NEW k \in 1 .. Length(q) PROVE Place(q, k) \in Slots
    BY <1>1, QueueSizeAssumption DEF Place, Length, Slots
  <1>5. Contents(q) = [k \in 1 .. Length(q) |-> q.buffer[Place(q, k)]]
    BY DEF Contents
  <1>6. Contents(q) \in [1 .. Length(q) -> Jobs \cup {NoJob}]
    BY <1>1, <1>4, <1>5
  <1>7. Contents(q) \in Seq(Jobs \cup {NoJob}) /\ Len(Contents(q)) = Length(q)
    BY <1>2, <1>6
  <1>8. QED BY <1>2, <1>3, <1>4, <1>5, <1>7

(* PushContents: an accepted push appends.                                 *)
LEMMA PushContents ==
  ASSUME NEW q \in QueueType, NEW j \in Jobs, ~queue_full(q)
  PROVE  Contents(queue_push(q, j)) = Append(Contents(q), j)
  <1> DEFINE p == queue_push(q, j)
  <1>1. /\ q.front \in Slots /\ q.back \in Slots /\ p \in QueueType
        /\ q.buffer \in [Slots -> Jobs \cup {NoJob}]
    BY PushType DEF QueueType
  <1>2. /\ p.front = q.front
        /\ p.back = (IF q.back = QueueSize - 1 THEN 0 ELSE q.back + 1)
        /\ p.buffer = [q.buffer EXCEPT ![q.back] = j]
        /\ p.back # q.front
    BY <1>1, SuccValue, PushFields DEF queue_full
  <1> HIDE DEF p
  <1>3. Length(p) = Length(q) + 1
    <2>1. CASE q.back = QueueSize - 1
      BY <1>1, <1>2, <2>1, QueueSizeAssumption DEF Length, Slots
    <2>2. CASE q.back # QueueSize - 1
      BY <1>1, <1>2, <2>2, QueueSizeAssumption DEF Length, Slots
    <2>3. QED BY <2>1, <2>2
  <1>4. Place(p, Length(q) + 1) = q.back
    BY <1>1, <1>2, <1>3, QueueSizeAssumption DEF Place, Length, Slots
  <1>5. ASSUME NEW k \in 1 .. Length(q) PROVE Place(p, k) = Place(q, k) /\ Place(q, k) # q.back
    BY <1>1, <1>2, QueueSizeAssumption DEF Place, Length, Slots
  <1>6. Contents(p)[Length(q) + 1] = j
    BY <1>1, <1>2, <1>3, <1>4, ContentsSeq
  <1>7. ASSUME NEW k \in 1 .. Length(q) PROVE Contents(p)[k] = Contents(q)[k]
    <2>1. k \in 1 .. Length(p)
      BY <1>3, ContentsSeq
    <2>2. QED BY <1>1, <1>2, <1>5, <2>1, ContentsSeq
  <1> DEFINE c == Contents(p)
             d == Contents(q)
  <1>8. /\ c \in Seq(Jobs \cup {NoJob}) /\ d \in Seq(Jobs \cup {NoJob})
        /\ Len(c) = Len(d) + 1 /\ c[Len(d) + 1] = j
        /\ \A k \in 1 .. Len(d) : c[k] = d[k]
    BY <1>1, <1>3, <1>6, <1>7, ContentsSeq
  <1> HIDE DEF c, d
  <1>9. c = Append(d, j)
    BY <1>8
  <1>10. QED BY <1>9 DEF c, d, p

(* PopContents: a pop takes the head.                                      *)
LEMMA PopContents ==
  ASSUME NEW q \in QueueType, ~queue_empty(q)
  PROVE  /\ Contents(q) # <<>>
         /\ Head(Contents(q)) = queue_pop_result(q)
         /\ Contents(queue_pop(q)) = Tail(Contents(q))
  <1> DEFINE p == queue_pop(q)
  <1>1. q.front \in Slots /\ q.back \in Slots /\ q.front # q.back /\ p \in QueueType
    BY PopType DEF QueueType, queue_empty
  <1>2. /\ p.front = (IF q.front = QueueSize - 1 THEN 0 ELSE q.front + 1)
        /\ p.back = q.back /\ p.buffer = q.buffer
        /\ queue_pop_result(q) = q.buffer[q.front]
    BY <1>1, SuccValue, PopFields
  <1> HIDE DEF p
  <1>3. Length(p) = Length(q) - 1 /\ Length(q) \in Nat \ {0}
    BY <1>1, <1>2, QueueSizeAssumption DEF Length, Slots
  <1>4. Place(q, 1) = q.front
    BY <1>1, QueueSizeAssumption DEF Place, Slots
  <1>5. ASSUME NEW k \in 1 .. Length(p) PROVE Place(p, k) = Place(q, k + 1)
    BY <1>1, <1>2, <1>3, QueueSizeAssumption DEF Place, Length, Slots
  <1> DEFINE c == Contents(p)
             d == Contents(q)
  <1>6. /\ c \in Seq(Jobs \cup {NoJob}) /\ d \in Seq(Jobs \cup {NoJob})
        /\ Len(c) = Len(d) - 1 /\ Len(d) > 0
        /\ d[1] = queue_pop_result(q)
    BY <1>1, <1>2, <1>3, <1>4, ContentsSeq
  <1>7. ASSUME NEW k \in 1 .. Len(c) PROVE c[k] = d[k + 1]
    <2>1. k \in 1 .. Length(p) /\ k + 1 \in 1 .. Length(q)
      BY <1>1, <1>3, ContentsSeq
    <2>2. QED BY <1>1, <1>2, <1>5, <2>1, ContentsSeq
  <1> HIDE DEF c, d
  <1>8. c = Tail(d)
    BY <1>6, <1>7
  <1>9. QED BY <1>6, <1>8 DEF c, d, p

(* ContentsQueued: the sequence holds the queued jobs.                     *)
LEMMA ContentsQueued ==
  ASSUME NEW q \in QueueType
  PROVE  {Contents(q)[k] : k \in 1 .. Len(Contents(q))} = Queued(q)
  <1>1. q.front \in Slots /\ q.back \in Slots
    BY DEF QueueType
  <1>2. ASSUME NEW k \in 1 .. Length(q) PROVE Place(q, k) \in Live(q)
    <2>1. CASE q.front <= q.back
      BY <1>1, <2>1, QueueSizeAssumption DEF Place, Live, Length, Slots
    <2>2. CASE ~(q.front <= q.back) /\ q.front + k - 1 < QueueSize
      BY <1>1, <2>2, QueueSizeAssumption DEF Place, Live, Length, Slots
    <2>3. CASE ~(q.front <= q.back) /\ ~(q.front + k - 1 < QueueSize)
      BY <1>1, <2>3, QueueSizeAssumption DEF Place, Live, Length, Slots
    <2>4. QED BY <2>1, <2>2, <2>3
  <1>3. ASSUME NEW i \in Live(q) PROVE \E k \in 1 .. Length(q) : Place(q, k) = i
    <2>0. i \in Slots
      BY LiveType
    <2>1. CASE i >= q.front
      <3>1. i - q.front + 1 \in 1 .. Length(q)
        BY <1>1, <2>0, <2>1, QueueSizeAssumption DEF Live, Length, Slots
      <3>2. Place(q, i - q.front + 1) = i
        BY <1>1, <2>0, <3>1, QueueSizeAssumption DEF Place, Slots
      <3>3. QED BY <3>1, <3>2
    <2>2. CASE i < q.front
      <3>1. QueueSize - q.front + i + 1 \in 1 .. Length(q)
        BY <1>1, <2>0, <2>2, QueueSizeAssumption DEF Live, Length, Slots
      <3>2. Place(q, QueueSize - q.front + i + 1) = i
        BY <1>1, <2>0, <3>1, QueueSizeAssumption DEF Place, Slots
      <3>3. QED BY <3>1, <3>2
    <2>3. QED
      BY <1>1, <2>0, <2>1, <2>2, QueueSizeAssumption DEF Slots
  <1>4. QED BY <1>2, <1>3, ContentsSeq DEF Queued
=============================================================================
