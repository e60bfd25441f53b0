------------------------------ MODULE RingQueue ------------------------------
(***************************************************************************)
(* queue_t: the circular buffer in which the job scheduler keeps pointers  *)
(* to the jobs that no worker has taken yet.  front is the slot of the     *)
(* oldest job, back the first free slot, and one slot is always left free  *)
(* so that front = back means "empty" and never "full".                    *)
(*                                                                         *)
(* The operators are functions of the record; the module that owns the     *)
(* queue (JobScheduler) applies them under its lock.                       *)
(***************************************************************************)
EXTENDS Integers

CONSTANTS
  QueueSize,   \* slots of the buffer, 100 in job_scheduler_init
  Jobs,        \* what is queued: the non-null pointers to query_job records
  NoJob        \* the NULL pointer

ASSUME QueueSizeAssumption == QueueSize \in Nat \ {0}
ASSUME NoJobAssumption == NoJob \notin Jobs

Slots == 0 .. QueueSize - 1

QueueType ==
  [front : Slots, back : Slots, buffer : [Slots -> Jobs \cup {NoJob}]]

-----------------------------------------------------------------------------
(* The buffer comes from malloc: its slots hold nothing meaningful, and    *)
(* NoJob stands for that.                                                  *)
queue_create ==
  [front |-> 0, back |-> 0, buffer |-> [i \in Slots |-> NoJob]]

(* Mutant: the position is not reduced modulo the size. *)
SuccWithoutWrap(i) == i + 1

Succ(i) == (i + 1) % QueueSize

queue_empty(q) == q.front = q.back

(* Mutant: the buffer is never reported full. *)
NeverFull(q) == FALSE

queue_full(q) == Succ(q.back) = q.front

(* A push onto a full queue changes nothing; the code reports it with a    *)
(* return value of 0.                                                      *)
queue_push(q, j) ==
  IF queue_full(q) THEN q
  ELSE [q EXCEPT !.buffer[q.back] = j, !.back = Succ(q.back)]

(* queue_pop returns an element and advances front: the two operators are  *)
(* its result and the queue it leaves behind.                              *)
queue_pop_result(q) ==
  IF queue_empty(q) THEN NoJob ELSE q.buffer[q.front]

(* Mutant: front does not advance. *)
PopWithoutAdvance(q) == q

queue_pop(q) ==
  IF queue_empty(q) THEN q ELSE [q EXCEPT !.front = Succ(q.front)]

-----------------------------------------------------------------------------
(* What the buffer represents: the slots in use, and the queued elements   *)
(* from the oldest to the newest.                                          *)
Live(q) ==
  IF q.front <= q.back THEN q.front .. q.back - 1
  ELSE (q.front .. QueueSize - 1) \cup (0 .. q.back - 1)

Length(q) ==
  IF q.front <= q.back THEN q.back - q.front
  ELSE QueueSize - q.front + q.back

(* The slot of the k-th element. *)
Place(q, k) ==
  IF q.front + k - 1 < QueueSize THEN q.front + k - 1 ELSE q.front + k - 1 - QueueSize

Contents(q) == [k \in 1 .. Length(q) |-> q.buffer[Place(q, k)]]

Queued(q) == {q.buffer[i] : i \in Live(q)}
=============================================================================
