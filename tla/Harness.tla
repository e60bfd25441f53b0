------------------------------- MODULE Harness -------------------------------
(***************************************************************************)
(* The main program: main hands the queries of every batch to the          *)
(* scheduler's queue, frees relations and batches, and returns, which ends *)
(* the process and with it the worker threads.  It calls neither           *)
(* job_scheduler_barrier nor job_scheduler_stop, so what is left of the    *)
(* scheduler (see JobScheduler) is its queue: a push and a pop are one     *)
(* step each, under queueLock.                                             *)
(*                                                                         *)
(* What matters here is memory.  list_foreach_query allocates one          *)
(* query_job per batch and pushes its address once per query, and every    *)
(* worker frees the address it popped.  A cell of the heap is alive or     *)
(* free; free overwrites what it held (the allocator's links lie where     *)
(* job->query was) and malloc may return any cell that is not alive.       *)
(*   - Reading through a freed job or query is undefined: what is there is *)
(*     used, or the process crashes.                                       *)
(*   - A second free of a cell crashes the process when the cell still     *)
(*     holds the allocator's links; when main has written to it in between *)
(*     it goes undetected, and malloc may return any cell from then on.    *)
(***************************************************************************)
EXTENDS RingQueue, Sequences

CONSTANTS
  Workers,      \* the threads of the scheduler
  Batches,      \* the input: a sequence of batches, each a sequence of queries
  Projections,  \* sums per query, each appended to log.txt on its own
  NoQuery       \* what a cell holds after malloc or free

Cells == Jobs   \* addresses of query_job records: what RingQueue queues

Queries == UNION {{Batches[i][k] : k \in DOMAIN Batches[i]} : i \in DOMAIN Batches}

ASSUME HarnessAssumption ==
  /\ Projections \in Nat \ {0}
  /\ Batches \in Seq(Seq(Queries)) /\ NoQuery \notin Queries

(* No batch has two queries, and no query is in two batches.               *)
OneQueryBatches ==
  /\ \A i \in DOMAIN Batches : Len(Batches[i]) <= 1
  /\ \A i, k \in DOMAIN Batches :
       Len(Batches[i]) = 1 /\ Batches[i] = Batches[k] => i = k

VARIABLES
  q,          \* js->q
  alive,      \* cells that are allocated
  content,    \* job->query of each cell
  corrupt,    \* a double free went undetected
  batch,      \* index of the batch main is at
  next,       \* index of the query main is at in that batch
  qj,         \* the pointer of list_foreach_query
  main,       \* where main is
  wpc,        \* where each worker is
  job,        \* the cell each worker popped
  query,      \* the query each worker executes
  projected,  \* projections each worker has written
  log,        \* log.txt: pairs of a query and the index of a projection
  executed,   \* history: how often each query was executed to its end
  process     \* "running", "exited" or "crashed"

mainVars == <<batch, next, qj, main>>
workerVars == <<wpc, job, query, projected>>
heapVars == <<alive, content, corrupt>>
vars == <<q, heapVars, mainVars, workerVars, log, executed, process>>

(* main is in front of the threads' start: all batches have been read. *)
Init ==
  /\ q = queue_create
  /\ alive = {}
  /\ content = [c \in Cells |-> NoQuery]
  /\ corrupt = FALSE
  /\ batch = 1
  /\ next = 1
  /\ qj = NoJob
  /\ main = "batch"
  /\ wpc = [w \in Workers |-> "pop"]
  /\ job = [w \in Workers |-> NoJob]
  /\ query = [w \in Workers |-> NoQuery]
  /\ projected = [w \in Workers |-> 0]
  /\ log = <<>>
  /\ executed = [x \in Queries |-> 0]
  /\ process = "running"

-----------------------------------------------------------------------------
(* main: list_foreach over the batches, list_foreach_query over a batch *)

(* Mutant: one query_job for the whole run instead of one per batch. *)
NextBatchKeepingJob ==
  /\ main = "batch" /\ batch <= Len(Batches)
  /\ qj' = IF qj = NoJob THEN CHOOSE c \in Cells : TRUE ELSE qj
  /\ alive' = alive \cup {qj'}
  /\ next' = 1
  /\ main' = "query"
  /\ UNCHANGED <<q, content, corrupt, batch, workerVars, log, executed, process>>

NextBatch ==
  /\ main = "batch" /\ batch <= Len(Batches)
  /\ \E c \in (IF corrupt THEN Cells ELSE Cells \ alive) :
       /\ qj' = c
       /\ alive' = alive \cup {c}
       /\ content' = [content EXCEPT ![c] = NoQuery]
  /\ next' = 1
  /\ main' = "query"
  /\ UNCHANGED <<q, corrupt, batch, workerVars, log, executed, process>>

(* query_job_init writes through qj, freed or not. *)
InitJob ==
  /\ main = "query" /\ next <= Len(Batches[batch])
  /\ content' = [content EXCEPT ![qj] = Batches[batch][next]]
  /\ main' = "schedule"
  /\ UNCHANGED <<q, alive, corrupt, batch, next, qj, workerVars, log, executed,
                 process>>

(* Mutant: schedule waits for room in the queue. *)
ScheduleWhenRoom ==
  /\ main = "schedule" /\ ~queue_full(q)
  /\ q' = queue_push(q, qj)
  /\ next' = next + 1
  /\ main' = "query"
  /\ UNCHANGED <<heapVars, batch, qj, workerVars, log, executed, process>>

Schedule ==
  /\ main = "schedule"
  /\ q' = queue_push(q, qj)
  /\ next' = next + 1
  /\ main' = "query"
  /\ UNCHANGED <<heapVars, batch, qj, workerVars, log, executed, process>>

EndBatch ==
  /\ main = "query" /\ next > Len(Batches[batch])
  /\ batch' = batch + 1
  /\ main' = "batch"
  /\ UNCHANGED <<q, heapVars, next, qj, workerVars, log, executed, process>>

(* list_free of the relations and of the batches, queries included. *)
Release ==
  /\ main = "batch" /\ batch > Len(Batches)
  /\ main' = "released"
  /\ UNCHANGED <<q, heapVars, batch, next, qj, workerVars, log, executed, process>>

Return ==
  /\ main = "released"
  /\ process' = "exited"
  /\ UNCHANGED <<q, heapVars, mainVars, workerVars, log, executed>>

-----------------------------------------------------------------------------
(* job_scheduler_threadWork as far as memory and results are concerned *)

Pop(w) ==
  /\ wpc[w] = "pop"
  /\ ~queue_empty(q)
  /\ job' = [job EXCEPT ![w] = queue_pop_result(q)]
  /\ q' = queue_pop(q)
  /\ wpc' = [wpc EXCEPT ![w] = "run"]
  /\ UNCHANGED <<heapVars, mainVars, query, projected, log, executed, process>>

(* query_job_run reads job->query and enters query_exec. *)
StartQuery(w) ==
  /\ wpc[w] = "run"
  /\ content[job[w]] # NoQuery
  /\ query' = [query EXCEPT ![w] = content[job[w]]]
  /\ projected' = [projected EXCEPT ![w] = 0]
  /\ wpc' = [wpc EXCEPT ![w] = "exec"]
  /\ UNCHANGED <<q, heapVars, mainVars, job, log, executed, process>>

(* query_projection: open, append one sum, close. *)
Project(w) ==
  /\ wpc[w] = "exec" /\ projected[w] < Projections
  /\ log' = Append(log, <<query[w], projected[w] + 1>>)
  /\ projected' = [projected EXCEPT ![w] = @ + 1]
  /\ UNCHANGED <<q, heapVars, mainVars, wpc, job, query, executed, process>>

EndQuery(w) ==
  /\ wpc[w] = "exec" /\ projected[w] = Projections
  /\ executed' = [executed EXCEPT ![query[w]] = @ + 1]
  /\ wpc' = [wpc EXCEPT ![w] = "free"]
  /\ UNCHANGED <<q, heapVars, mainVars, job, query, projected, log, process>>

(* free(job): the first free of a cell, or one that goes undetected. *)
FreeJob(w) ==
  /\ wpc[w] = "free"
  /\ job[w] \in alive \/ content[job[w]] # NoQuery
  /\ corrupt' = (corrupt \/ job[w] \notin alive)
  /\ alive' = alive \ {job[w]}
  /\ content' = [content EXCEPT ![job[w]] = NoQuery]
  /\ job' = [job EXCEPT ![w] = NoJob]
  /\ wpc' = [wpc EXCEPT ![w] = "pop"]
  /\ UNCHANGED <<q, mainVars, query, projected, log, executed, process>>

(* A freed job holds no query, a freed query or relation may be gone, and  *)
(* the allocator stops the process at a second free.                       *)
Crash(w) ==
  /\ \/ wpc[w] = "run" /\ content[job[w]] = NoQuery
     \/ wpc[w] \in {"run", "exec"} /\ main = "released"
     \/ wpc[w] = "free" /\ job[w] \notin alive /\ content[job[w]] = NoQuery
  /\ process' = "crashed"
  /\ UNCHANGED <<q, heapVars, mainVars, workerVars, log, executed>>

-----------------------------------------------------------------------------
MainStep ==
  /\ process = "running"
  /\ NextBatch \/ InitJob \/ Schedule \/ EndBatch \/ Release \/ Return

WorkerStep(w) ==
  /\ process = "running"
  /\ Pop(w) \/ StartQuery(w) \/ Project(w) \/ EndQuery(w) \/ FreeJob(w) \/ Crash(w)

Next == MainStep \/ \E w \in Workers : WorkerStep(w)

(* Only main is owed progress: it must end whatever the workers do. *)
Spec == Init /\ [][Next]_vars /\ WF_vars(MainStep)

-----------------------------------------------------------------------------
TypeOK ==
  /\ q \in QueueType
  /\ alive \subseteq Cells
  /\ content \in [Cells -> Queries \cup {NoQuery}]
  /\ corrupt \in BOOLEAN
  /\ batch \in 1 .. Len(Batches) + 1
  /\ next \in Nat \ {0}
  /\ qj \in Cells \cup {NoJob}
  /\ main \in {"batch", "query", "schedule", "released"}
  /\ wpc \in [Workers -> {"pop", "run", "exec", "free"}]
  /\ job \in [Workers -> Cells \cup {NoJob}]
  /\ query \in [Workers -> Queries \cup {NoQuery}]
  /\ projected \in [Workers -> 0 .. Projections]
  /\ log \in Seq(Queries \X (1 .. Projections))
  /\ executed \in [Queries -> Nat]
  /\ process \in {"running", "exited", "crashed"}

(* JobsIntact: a queued or popped job is allocated and still holds the     *)
(* query main stored in it; no address is queued or held twice.  (Holds    *)
(* for batches of one query: each has a query_job of its own.)             *)
JobsIntact ==
  LET busy == {w \in Workers : wpc[w] \in {"run", "exec", "free"}}
  IN  /\ \A i \in Live(q) : q.buffer[i] \in alive /\ content[q.buffer[i]] # NoQuery
      /\ \A w \in busy : job[w] \in alive
      /\ \A i, k \in Live(q) : q.buffer[i] = q.buffer[k] => i = k
      /\ \A v, w \in busy : job[v] = job[w] => v = w
      /\ \A w \in busy : job[w] \notin Queued(q)

(* NeverTwice: no query is executed twice, and the sums of a query appear  *)
(* in log.txt once each and in the order of its projections, however the   *)
(* sums of other queries fall in between.  (Batches of one query.)         *)
NeverTwice ==
  /\ \A x \in Queries : executed[x] <= 1
  /\ \A i, k \in DOMAIN log :
       (i < k /\ log[i][1] = log[k][1]) => log[i][2] < log[k][2]

(* CrashOnlyAfterRelease: with batches of one query, memory is not misused *)
(* before main frees the lists while workers still execute.                *)
CrashOnlyAfterRelease ==
  /\ process = "crashed" => main = "released"
  /\ ~corrupt

(* MainEnds: main is never blocked by the workers or a full queue.         *)
MainEnds == <>(process # "running")

(* EveryQueryExecuted: "for each batch read from stdin, execute all        *)
(* queries" (main.c:16): when the program ends normally every query was    *)
(* executed.                                                               *)
EveryQueryExecuted ==
  process = "exited" => \A x \in Queries : executed[x] >= 1

(* DrainedMeansExecuted: "execute each query in the batch" (master.c:2220):*)
(* once every job of the queue was popped and run, each query was executed *)
(* exactly once.                                                           *)
DrainedMeansExecuted ==
  (main = "released" /\ process = "running" /\ queue_empty(q)
     /\ \A w \in Workers : wpc[w] \in {"pop", "free"})
    => \A x \in Queries : executed[x] = 1
=============================================================================
