---------------------------- MODULE HarnessProofs ----------------------------
(***************************************************************************)
(* Memory and results of the main program, for any number of workers,      *)
(* cells, batches and projections and any size of the queue.               *)
(*                                                                         *)
(* Types hold for every input (TypeInv).  The rest needs batches of at     *)
(* most one query: then a query_job goes from main, which has it alone     *)
(* until it is queued, to the queue and from there to one worker, which    *)
(* frees it (OwnInv).  A query follows its query_job: it is unread, or in  *)
(* one cell that is alive, or executed (QueryInv).                         *)
(***************************************************************************)
EXTENDS Harness, RingQueueProofs

Busy(w) == wpc[w] \in {"run", "exec", "free"}

(* Where pointers and indexes are used they are what the code takes them   *)
(* for.                                                                    *)
LinkInv ==
  /\ Queued(q) \subseteq Cells
  /\ main \in {"query", "schedule"} => qj \in Cells /\ batch <= Len(Batches)
  /\ main = "schedule" => next <= Len(Batches[batch])
  /\ \A w \in Workers : Busy(w) => job[w] \in Cells
  /\ \A w \in Workers : wpc[w] \in {"exec", "free"} => query[w] \in Queries

TypeInv == TypeOK /\ LinkInv

(* main has the cell it fills, until it is queued, for itself.             *)
Filling == main = "schedule" \/ (main = "query" /\ next = 1)

OwnInv ==
  /\ ~corrupt
  /\ Filling =>
       /\ qj \in alive /\ qj \notin Queued(q)
       /\ \A w \in Workers : Busy(w) => job[w] # qj
  /\ main = "query" /\ next = 1 => content[qj] = NoQuery
  /\ main = "schedule" => next = 1 /\ content[qj] # NoQuery
  /\ SlotsDistinct(q)
  /\ \A c \in Queued(q) : c \in alive /\ content[c] # NoQuery
  /\ \A w \in Workers : Busy(w) =>
       job[w] \in alive /\ content[job[w]] # NoQuery /\ job[w] \notin Queued(q)
  /\ \A v, w \in Workers : Busy(v) /\ Busy(w) /\ job[v] = job[w] => v = w
  /\ process = "crashed" => main = "released"

(* main has not stored the query of batch b yet.                           *)
Unread(b) ==
  /\ Len(Batches[b]) = 1
  /\ b > batch \/ (b = batch /\ (main = "batch" \/ (main = "query" /\ next = 1)))

(* A worker has begun with the query in cell c.                            *)
Started(c) == \E w \in Workers : wpc[w] \in {"exec", "free"} /\ job[w] = c

Untouched(x) == executed[x] = 0 /\ \A i \in DOMAIN log : log[i][1] # x

QueryInv ==
  /\ \A c, d \in alive : content[c] # NoQuery /\ content[c] = content[d] => c = d
  /\ \A b \in DOMAIN Batches : Unread(b) =>
       /\ Untouched(Batches[b][1])
       /\ \A c \in alive : content[c] # Batches[b][1]
  /\ \A c \in alive : content[c] # NoQuery /\ ~Started(c) => Untouched(content[c])
  /\ \A w \in Workers : wpc[w] \in {"exec", "free"} => query[w] = content[job[w]]
  /\ \A w \in Workers : wpc[w] = "exec" =>
       /\ executed[query[w]] = 0
       /\ \A i \in DOMAIN log : log[i][1] = query[w] => log[i][2] <= projected[w]
  /\ NeverTwice

IInv == TypeInv /\ OwnInv /\ QueryInv

-----------------------------------------------------------------------------
(* QueryType: what the input holds at an index is a query.                 *)
LEMMA QueryType ==
  /\ \A b \in DOMAIN Batches : /\ Batches[b] \in Seq(Queries)
                               /\ \A k \in DOMAIN Batches[b] : Batches[b][k] \in Queries
  /\ DOMAIN Batches = 1 .. Len(Batches) /\ Len(Batches) \in Nat
  <1>1. Batches \in Seq(Seq(Queries))
    BY HarnessAssumption
  <1>2. ASSUME NEW b \in DOMAIN Batches
        PROVE  Batches[b] \in Seq(Queries) /\ \A k \in DOMAIN Batches[b] : Batches[b][k] \in Queries
    BY <1>1, <1>2
  <1>3. QED BY <1>1, <1>2

(* PopTakes: a worker that pops takes a cell that was queued.              *)
LEMMA PopTakes ==
  ASSUME TypeInv, NEW w \in Workers, Pop(w)
  PROVE  /\ q' \in QueueType
         /\ job'[w] \in Queued(q) /\ job'[w] \in Cells
         /\ job' = [job EXCEPT ![w] = job'[w]]
         /\ Queued(q) = Queued(q') \cup {job'[w]}
         /\ SlotsDistinct(q) => SlotsDistinct(q') /\ job'[w] \notin Queued(q')
  <1>1. q \in QueueType /\ ~queue_empty(q) /\ Queued(q) \subseteq Cells
        /\ job \in [Workers -> Cells \cup {NoJob}]
    BY DEF TypeInv, TypeOK, LinkInv, Pop
  <1>2. job' = [job EXCEPT ![w] = queue_pop_result(q)] /\ q' = queue_pop(q)
    BY DEF Pop
  <1>3. job'[w] = queue_pop_result(q)
    BY <1>1, <1>2
  <1>4. QED BY <1>1, <1>2, <1>3, PopType, PopQueued

(* PushQueues: schedule adds the cell main has filled to the queued ones,  *)
(* or leaves the queue as it was when that is full.                        *)
LEMMA PushQueues ==
  ASSUME TypeInv, Schedule
  PROVE  /\ q' \in QueueType
         /\ Queued(q') = Queued(q) \cup {qj} \/ q' = q
         /\ SlotsDistinct(q) /\ qj \notin Queued(q) => SlotsDistinct(q')
  <1>1. q \in QueueType /\ qj \in Jobs /\ q' = queue_push(q, qj)
    BY DEF TypeInv, TypeOK, LinkInv, Schedule, Cells
  <1>2. CASE queue_full(q)
    BY <1>1, <1>2 DEF queue_push
  <1>3. CASE ~queue_full(q)
    BY <1>1, <1>3, PushType, PushQueued
  <1>4. QED BY <1>2, <1>3

(* TypeStep: every step keeps every variable's type.                       *)
LEMMA TypeStep == TypeInv /\ [Next]_vars => TypeInv'
  <1> SUFFICES ASSUME TypeInv, Next PROVE TypeInv'
    BY DEF TypeInv, TypeOK, LinkInv, Busy, vars, mainVars, workerVars, heapVars
  <1> USE DEF TypeInv, TypeOK, LinkInv, Busy, mainVars, workerVars, heapVars
  <1>1. ASSUME NextBatch PROVE TypeInv'
    BY <1>1, QueryType DEF NextBatch
  <1>2. ASSUME InitJob PROVE TypeInv'
    <2>1. Batches[batch][next] \in Queries
      BY <1>2, QueryType DEF InitJob
    <2>2. QED BY <1>2, <2>1 DEF InitJob
  <1>3. ASSUME Schedule PROVE TypeInv'
    <2>1. q' \in QueueType /\ Queued(q') \subseteq Cells
      BY <1>3, PushQueues DEF Schedule
    <2>2. QED BY <1>3, <2>1 DEF Schedule
  <1>4. ASSUME EndBatch PROVE TypeInv'
    BY <1>4, QueryType DEF EndBatch
  <1>5. ASSUME Release \/ Return PROVE TypeInv'
    BY <1>5 DEF Release, Return
  <1>6. ASSUME NEW w \in Workers, Pop(w) PROVE TypeInv'
    <2>1. q' \in QueueType /\ Queued(q') \subseteq Cells /\ job'[w] \in Cells
          /\ job' = [job EXCEPT ![w] = job'[w]]
      BY <1>6, PopTakes
    <2>2. QED BY <1>6, <2>1 DEF Pop
  <1>7. ASSUME NEW w \in Workers, StartQuery(w) PROVE TypeInv'
    BY <1>7, HarnessAssumption DEF StartQuery
  <1>8. ASSUME NEW w \in Workers, Project(w) PROVE TypeInv'
    <2>1. <<query[w], projected[w] + 1>> \in Queries \X (1 .. Projections)
      BY <1>8, HarnessAssumption DEF Project
    <2>2. log' \in Seq(Queries \X (1 .. Projections))
      BY <1>8, <2>1 DEF Project
    <2>3. projected' \in [Workers -> 0 .. Projections]
      BY <1>8, HarnessAssumption DEF Project
    <2>4. QED BY <1>8, <2>2, <2>3 DEF Project
  <1>9. ASSUME NEW w \in Workers, EndQuery(w) PROVE TypeInv'
    <2>1. executed[query[w]] + 1 \in Nat
      BY <1>9 DEF EndQuery
    <2>2. executed' \in [Queries -> Nat]
      BY <1>9, <2>1 DEF EndQuery
    <2>3. QED BY <1>9, <2>2 DEF EndQuery
  <1>10. ASSUME NEW w \in Workers, FreeJob(w) PROVE TypeInv'
    BY <1>10 DEF FreeJob
  <1>11. ASSUME NEW w \in Workers, Crash(w) PROVE TypeInv'
    BY <1>11 DEF Crash
  <1>12. QED BY <1>1, <1>2, <1>3, <1>4, <1>5, <1>6, <1>7, <1>8, <1>9, <1>10, <1>11
             DEF Next, MainStep, WorkerStep

(* OwnStep: in batches of at most one query nobody shares a query_job.     *)
LEMMA OwnStep ==
  OneQueryBatches /\ TypeInv /\ OwnInv /\ [Next]_vars => OwnInv'
  <1> SUFFICES ASSUME OneQueryBatches, TypeInv, OwnInv, Next PROVE OwnInv'
    BY DEF OwnInv, Filling, Busy, vars, mainVars, workerVars, heapVars
  <1> USE DEF OwnInv, Filling, Busy, mainVars, workerVars, heapVars
  <1>t. /\ wpc \in [Workers -> {"pop", "run", "exec", "free"}]
        /\ job \in [Workers -> Cells \cup {NoJob}]
        /\ content \in [Cells -> Queries \cup {NoQuery}]
        /\ alive \subseteq Cells /\ Queued(q) \subseteq Cells
        /\ next \in Nat \ {0}
        /\ \A w \in Workers : Busy(w) => job[w] \in Cells
    BY DEF TypeInv, TypeOK, LinkInv
  <1>1. ASSUME NextBatch PROVE OwnInv'
    BY <1>1, <1>t DEF NextBatch
  <1>2. ASSUME InitJob PROVE OwnInv'
    <2>1. /\ qj \in Cells /\ next = 1 /\ Batches[batch][next] # NoQuery
      <3>1. qj \in Cells /\ batch \in DOMAIN Batches
        BY <1>2, QueryType DEF InitJob, TypeInv, TypeOK, LinkInv
      <3>2. Len(Batches[batch]) <= 1 /\ Len(Batches[batch]) \in Nat
        BY <3>1, QueryType DEF OneQueryBatches
      <3>3. next = 1
        BY <1>2, <1>t, <3>2 DEF InitJob
      <3>4. Batches[batch][next] \in Queries
        BY <1>2, <3>1, <3>3, QueryType DEF InitJob
      <3>5. QED BY <3>1, <3>3, <3>4, HarnessAssumption
    <2>2. content'[qj] # NoQuery /\ \A c \in Cells \ {qj} : content'[c] = content[c]
      BY <1>2, <1>t, <2>1 DEF InitJob
    <2>3. UNCHANGED <<q, alive, corrupt, next, qj, wpc, job, process>> /\ main' = "schedule"
      BY <1>2 DEF InitJob
    <2>4. main = "query"
      BY <1>2 DEF InitJob
    <2>5. QED BY <1>t, <2>1, <2>2, <2>3, <2>4
  <1>3. ASSUME Schedule PROVE OwnInv'
    <2>1. Queued(q') \subseteq Queued(q) \cup {qj} /\ SlotsDistinct(q')
      BY <1>3, PushQueues DEF Schedule
    <2>2. UNCHANGED <<alive, content, corrupt, qj, wpc, job, process>>
          /\ main = "schedule" /\ main' = "query" /\ next' = next + 1 /\ next = 1
      BY <1>3 DEF Schedule
    <2>3. QED BY <1>t, <2>1, <2>2
  <1>4. ASSUME EndBatch PROVE OwnInv'
    BY <1>4 DEF EndBatch
  <1>5. ASSUME Release PROVE OwnInv'
    BY <1>5 DEF Release
  <1>6. ASSUME Return PROVE OwnInv'
    BY <1>6 DEF Return
  <1>7. ASSUME NEW w \in Workers, Pop(w) PROVE OwnInv'
    <2>1. /\ job'[w] \in Queued(q) /\ job' = [job EXCEPT ![w] = job'[w]]
          /\ Queued(q) = Queued(q') \cup {job'[w]}
          /\ SlotsDistinct(q') /\ job'[w] \notin Queued(q')
      BY <1>7, PopTakes
    <2>2. /\ UNCHANGED <<alive, content, corrupt, next, qj, main, process>>
          /\ wpc[w] = "pop" /\ wpc' = [wpc EXCEPT ![w] = "run"]
      BY <1>7 DEF Pop
    <2>3. \A v \in Workers \ {w} : wpc'[v] = wpc[v] /\ job'[v] = job[v]
      BY <1>t, <2>1, <2>2
    <2>4. QED BY <1>t, <2>1, <2>2, <2>3
  <1>8. ASSUME NEW w \in Workers, StartQuery(w) PROVE OwnInv'
    BY <1>8, <1>t DEF StartQuery
  <1>9. ASSUME NEW w \in Workers, Project(w) PROVE OwnInv'
    BY <1>9 DEF Project
  <1>10. ASSUME NEW w \in Workers, EndQuery(w) PROVE OwnInv'
    BY <1>10, <1>t DEF EndQuery
  <1>11. ASSUME NEW w \in Workers, FreeJob(w) PROVE OwnInv'
    <2>1. /\ wpc[w] = "free" /\ job[w] \in alive
          /\ wpc' = [wpc EXCEPT ![w] = "pop"]
          /\ UNCHANGED <<q, next, qj, main, process>> /\ corrupt' = FALSE
          /\ alive' = alive \ {job[w]}
      BY <1>11 DEF FreeJob
    <2>2. \A v \in Workers \ {w} : wpc'[v] = wpc[v] /\ job'[v] = job[v]
      BY <1>11, <1>t DEF FreeJob
    <2>3. \A c \in Cells \ {job[w]} : content'[c] = content[c]
      BY <1>11, <1>t DEF FreeJob
    <2>4. wpc'[w] = "pop"
      BY <1>t, <2>1
    <2>5. main \in {"query", "schedule"} => qj \in Cells
      BY DEF TypeInv, LinkInv
    <2>6. QED BY <1>t, <2>1, <2>2, <2>3, <2>4, <2>5
  <1>12. ASSUME NEW w \in Workers, Crash(w) PROVE OwnInv'
    BY <1>12 DEF Crash
  <1>13. QED BY <1>1, <1>2, <1>3, <1>4, <1>5, <1>6, <1>7, <1>8, <1>9, <1>10, <1>11, <1>12
             DEF Next, MainStep, WorkerStep
(* Unheard: what the steps of main and of the heap leave alone.            *)
LEMMA Unheard ==
  UNCHANGED <<log, executed>> =>
    (NeverTwice => NeverTwice') /\ \A x : Untouched(x) => Untouched(x)'
  BY DEF NeverTwice, Untouched

(* QueryStep: in batches of at most one query every query is in one place. *)
LEMMA QueryStep ==
  OneQueryBatches /\ TypeInv /\ OwnInv /\ QueryInv /\ [Next]_vars => QueryInv'
  <1> SUFFICES ASSUME OneQueryBatches, TypeInv, OwnInv, QueryInv, Next PROVE QueryInv'
    BY DEF QueryInv, Unread, Started, Untouched, NeverTwice, vars, mainVars, workerVars, heapVars
  <1> USE DEF QueryInv, Unread, Started, mainVars, workerVars, heapVars
  <1>t. /\ wpc \in [Workers -> {"pop", "run", "exec", "free"}]
        /\ job \in [Workers -> Cells \cup {NoJob}]
        /\ content \in [Cells -> Queries \cup {NoQuery}]
        /\ query \in [Workers -> Queries \cup {NoQuery}]
        /\ projected \in [Workers -> 0 .. Projections] /\ Projections \in Nat
        /\ executed \in [Queries -> Nat]
        /\ log \in Seq(Queries \X (1 .. Projections))
        /\ alive \subseteq Cells
        /\ next \in Nat \ {0} /\ batch \in Nat
        /\ \A w \in Workers : Busy(w) => job[w] \in Cells
        /\ \A w \in Workers : wpc[w] \in {"exec", "free"} => query[w] \in Queries
    BY HarnessAssumption, QueryType DEF TypeInv, TypeOK, LinkInv
  <1>own. /\ \A w \in Workers : Busy(w) => job[w] \in alive /\ content[job[w]] # NoQuery
          /\ \A v, w \in Workers : Busy(v) /\ Busy(w) /\ job[v] = job[w] => v = w
    BY DEF OwnInv
  <1>b. \A b \in DOMAIN Batches : b \in Nat
    BY QueryType
  <1>1. ASSUME NextBatch PROVE QueryInv'
    <2>1. PICK c \in Cells : c \notin alive /\ alive' = alive \cup {c}
                             /\ content' = [content EXCEPT ![c] = NoQuery]
      BY <1>1 DEF NextBatch, OwnInv
    <2>2. UNCHANGED <<batch, wpc, job, query, projected, log, executed>>
          /\ main = "batch" /\ main' = "query" /\ next' = 1
      BY <1>1 DEF NextBatch
    <2>3. content'[c] = NoQuery /\ \A d \in alive : content'[d] = content[d]
      BY <1>t, <2>1
    <2>4. \A b \in DOMAIN Batches : Unread(b)' => Unread(b) /\ Batches[b][1] # NoQuery
      BY <2>2, QueryType, HarnessAssumption
    <2>5. \A d : Started(d)' <=> Started(d)
      BY <2>2
    <2>6. \A w \in Workers : wpc[w] \in {"exec", "free"} => content'[job[w]] = content[job[w]]
      BY <1>own, <2>3 DEF Busy
    <2> HIDE DEF Unread, Started
    <2>7. QED BY <2>1, <2>2, <2>3, <2>4, <2>5, <2>6, Unheard
  <1>2. ASSUME InitJob PROVE QueryInv'
    <2>1. /\ main = "query" /\ main' = "schedule"
          /\ UNCHANGED <<batch, next, alive, wpc, job, query, projected, log, executed>>
          /\ content' = [content EXCEPT ![qj] = Batches[batch][next]]
      BY <1>2 DEF InitJob
    <2>2. batch \in DOMAIN Batches /\ qj \in Cells /\ next = 1 /\ Len(Batches[batch]) = 1
      <3>1. batch \in DOMAIN Batches /\ qj \in Cells
        BY <2>1, QueryType DEF TypeInv, TypeOK, LinkInv
      <3>2. Len(Batches[batch]) <= 1 /\ Len(Batches[batch]) \in Nat
        BY <3>1, QueryType DEF OneQueryBatches
      <3>3. next <= Len(Batches[batch])
        BY <1>2 DEF InitJob
      <3>4. next \in Nat /\ next # 0
        BY <1>t
      <3> HIDE DEF QueryInv, Unread, Started
      <3>5. \A n, l \in Nat : n # 0 /\ n <= l /\ l <= 1 => n = 1 /\ l = 1
        OBVIOUS
      <3>6. next = 1 /\ Len(Batches[batch]) = 1
        BY <3>2, <3>3, <3>4, <3>5
      <3>7. QED BY <3>1, <3>6
    <2> DEFINE x == Batches[batch][1]
    <2>3. Unread(batch)
      BY <2>1, <2>2
    <2>4. Untouched(x) /\ \A c \in alive : content[c] # x
      BY <2>2, <2>3
    <2>5. qj \in alive /\ \A w \in Workers : Busy(w) => job[w] # qj
      BY <2>1, <2>2 DEF OwnInv, Filling
    <2>6. content'[qj] = x /\ \A c \in alive \ {qj} : content'[c] = content[c]
      BY <1>t, <2>1, <2>2
    <2>7. \A b \in DOMAIN Batches : Unread(b)' => Unread(b) /\ b # batch
      BY <1>b, <1>t, <2>1, <2>2
    <2>8. \A b \in DOMAIN Batches : Unread(b)' => Batches[b][1] # x
      <3>1. ASSUME NEW b \in DOMAIN Batches, Unread(b)', Batches[b][1] = x PROVE FALSE
        <4>1. Len(Batches[b]) = 1 /\ b # batch
          BY <2>7, <3>1
        <4>2. Batches[b] \in Seq(Queries) /\ Batches[batch] \in Seq(Queries)
          BY <2>2, QueryType
        <4>3. Batches[b] = Batches[batch]
          BY <2>2, <3>1, <4>1, <4>2
        <4>4. QED BY <2>2, <4>1, <4>3 DEF OneQueryBatches
      <3>2. QED BY <3>1
    <2>9. \A d : Started(d)' <=> Started(d)
      BY <2>1
    <2>10. \A w \in Workers : wpc[w] \in {"exec", "free"} => content'[job[w]] = content[job[w]]
      BY <1>own, <2>5, <2>6 DEF Busy
    <2> HIDE DEF Unread, Started, x
    <2>11. QED BY <2>1, <2>4, <2>5, <2>6, <2>7, <2>8, <2>9, <2>10, Unheard DEF x
  <1>3. ASSUME Schedule PROVE QueryInv'
    <2>1. /\ main = "schedule" /\ main' = "query" /\ next' = 2
          /\ UNCHANGED <<batch, content, alive, wpc, job, query, projected, log, executed>>
      BY <1>3 DEF Schedule, OwnInv
    <2>2. \A b \in DOMAIN Batches : Unread(b)' => Unread(b)
      BY <1>b, <1>t, <2>1
    <2>3. \A d : Started(d)' <=> Started(d)
      BY <2>1
    <2> HIDE DEF Unread, Started
    <2>4. QED BY <2>1, <2>2, <2>3, Unheard
  <1>4. ASSUME EndBatch \/ Release \/ Return PROVE QueryInv'
    <2>1. UNCHANGED <<content, alive, wpc, job, query, projected, log, executed>>
      BY <1>4 DEF EndBatch, Release, Return
    <2>2. \A b \in DOMAIN Batches : Unread(b)' => Unread(b)
      BY <1>4, <1>b, <1>t DEF EndBatch, Release, Return
    <2>3. \A d : Started(d)' <=> Started(d)
      BY <2>1
    <2> HIDE DEF Unread, Started
    <2>4. QED BY <2>1, <2>2, <2>3, Unheard
  <1>5. ASSUME NEW w \in Workers, Pop(w) PROVE QueryInv'
    <2>1. /\ wpc[w] = "pop" /\ wpc' = [wpc EXCEPT ![w] = "run"]
          /\ UNCHANGED <<batch, next, main, content, alive, query, projected, log, executed>>
      BY <1>5 DEF Pop
    <2>2. \A v \in Workers \ {w} : wpc'[v] = wpc[v] /\ job'[v] = job[v]
      BY <1>5, <1>t DEF Pop
    <2>3. wpc'[w] = "run"
      BY <1>t, <2>1
    <2>4. \A d : Started(d)' <=> Started(d)
      BY <2>1, <2>2, <2>3
    <2>5. \A b \in DOMAIN Batches : Unread(b)' => Unread(b)
      BY <2>1
    <2> HIDE DEF Unread, Started
    <2>6. QED BY <2>1, <2>2, <2>3, <2>4, <2>5, Unheard
  <1>6. ASSUME NEW w \in Workers, StartQuery(w) PROVE QueryInv'
    <2>1. /\ wpc[w] = "run" /\ wpc' = [wpc EXCEPT ![w] = "exec"]
          /\ query' = [query EXCEPT ![w] = content[job[w]]]
          /\ projected' = [projected EXCEPT ![w] = 0]
          /\ UNCHANGED <<batch, next, main, content, alive, job, log, executed>>
      BY <1>6 DEF StartQuery
    <2>2. \A v \in Workers \ {w} : /\ wpc'[v] = wpc[v] /\ query'[v] = query[v]
                                   /\ projected'[v] = projected[v]
      BY <1>t, <2>1
    <2>3. wpc'[w] = "exec" /\ query'[w] = content[job[w]] /\ projected'[w] = 0
      BY <1>t, <2>1
    <2>4. \A d : Started(d) => Started(d)'
      BY <2>1, <2>2
    <2>5. Untouched(content[job[w]])
      BY <1>own, <2>1 DEF Busy
    <2>6. \A b \in DOMAIN Batches : Unread(b)' => Unread(b)
      BY <2>1
    <2> HIDE DEF Unread, Started
    <2>7. QED BY <2>1, <2>2, <2>3, <2>4, <2>5, <2>6, Unheard DEF Untouched
  <1>7. ASSUME NEW w \in Workers, Project(w) PROVE QueryInv'
    <2> DEFINE entry == <<query[w], projected[w] + 1>>
    <2>1. /\ wpc[w] = "exec" /\ log' = Append(log, entry)
          /\ projected' = [projected EXCEPT ![w] = @ + 1]
          /\ UNCHANGED <<batch, next, main, wpc, content, alive, job, query, executed>>
      BY <1>7 DEF Project
    <2>2. /\ \A v \in Workers \ {w} : projected'[v] = projected[v]
          /\ projected'[w] = projected[w] + 1 /\ projected[w] \in Nat
      BY <1>t, <2>1
    <2>3. /\ DOMAIN log' = 1 .. Len(log) + 1 /\ DOMAIN log = 1 .. Len(log) /\ Len(log) \in Nat
          /\ \A i \in DOMAIN log : log'[i] = log[i]
          /\ log'[Len(log) + 1][1] = query[w] /\ log'[Len(log) + 1][2] = projected[w] + 1
      BY <1>t, <2>1
    <2>4. Started(job[w]) /\ query[w] = content[job[w]] /\ job[w] \in alive
          /\ query[w] # NoQuery
      BY <1>own, <2>1 DEF Busy
    <2>5. \A x : x # query[w] => (Untouched(x) => Untouched(x)')
      <3> HIDE DEF entry, Started, Unread, QueryInv
      <3>1. ASSUME NEW x, x # query[w], Untouched(x), NEW i \in DOMAIN log' PROVE log'[i][1] # x
        BY <2>3, <3>1 DEF Untouched
      <3>2. QED BY <2>1, <3>1 DEF Untouched
    <2>6. \A d : Started(d)' <=> Started(d)
      BY <2>1
    <2>7. \A b \in DOMAIN Batches : Unread(b)' <=> Unread(b)
      BY <2>1
    <2>8. \A v \in Workers : wpc[v] = "exec" /\ query[v] = query[w] => v = w
      BY <1>own, <2>1 DEF Busy
    <2>9. NeverTwice'
      <3>1. \A i \in DOMAIN log : log[i][1] = query[w] => log[i][2] <= projected[w]
        BY <2>1
      <3>2. \A i \in DOMAIN log : log[i][2] \in Nat
        BY <1>t
      <3>3. ASSUME NEW i \in DOMAIN log', NEW k \in DOMAIN log', i < k,
                   log'[i][1] = log'[k][1]
            PROVE  log'[i][2] < log'[k][2]
        <4>1. CASE k = Len(log) + 1
          BY <2>2, <2>3, <3>1, <3>2, <3>3, <4>1
        <4>2. CASE k # Len(log) + 1
          BY <2>3, <3>3, <4>2 DEF NeverTwice
        <4>3. QED BY <4>1, <4>2
      <3>4. QED BY <2>1, <3>3 DEF NeverTwice
    <2>10. ASSUME NEW v \in Workers, wpc'[v] = "exec"
           PROVE  executed'[query'[v]] = 0
                  /\ \A i \in DOMAIN log' : log'[i][1] = query'[v] => log'[i][2] <= projected'[v]
      <3>1. executed[query[v]] = 0
            /\ \A i \in DOMAIN log : log[i][1] = query[v] => log[i][2] <= projected[v]
        BY <2>1, <2>10
      <3>2. \A i \in DOMAIN log : log[i][2] \in Nat
        BY <1>t
      <3> HIDE DEF entry, Started, Unread, QueryInv
      <3>3. CASE v = w
        BY <2>1, <2>2, <2>3, <3>1, <3>2, <3>3
      <3>4. CASE v # w
        BY <2>1, <2>2, <2>3, <2>8, <2>10, <3>1, <3>4
      <3>5. QED BY <3>3, <3>4
    <2>11. \A b \in DOMAIN Batches : Unread(b) => Batches[b][1] # query[w]
      BY <2>4
    <2>12. \A c \in alive : ~Started(c) => content[c] # query[w]
      BY <2>4
    <2> HIDE DEF Unread, Started, entry
    <2>13. QED BY <2>1, <2>5, <2>6, <2>7, <2>9, <2>10, <2>11, <2>12
  <1>8. ASSUME NEW w \in Workers, EndQuery(w) PROVE QueryInv'
    <2>1. /\ wpc[w] = "exec" /\ wpc' = [wpc EXCEPT ![w] = "free"]
          /\ executed' = [executed EXCEPT ![query[w]] = @ + 1]
          /\ UNCHANGED <<batch, next, main, content, alive, job, query, projected, log>>
      BY <1>8 DEF EndQuery
    <2>2. wpc'[w] = "free" /\ \A v \in Workers \ {w} : wpc'[v] = wpc[v]
      BY <1>t, <2>1
    <2>3. Started(job[w]) /\ query[w] = content[job[w]] /\ job[w] \in alive
          /\ query[w] # NoQuery /\ query[w] \in Queries /\ executed[query[w]] = 0
      BY <1>own, <1>t, <2>1 DEF Busy
    <2>4. executed'[query[w]] = 1 /\ \A x \in Queries \ {query[w]} : executed'[x] = executed[x]
      BY <1>t, <2>1, <2>3
    <2>5. \A x \in Queries \ {query[w]} : Untouched(x) => Untouched(x)'
      BY <2>1, <2>4 DEF Untouched
    <2>6. \A d : Started(d)' <=> Started(d)
      BY <1>t, <2>1, <2>2
    <2>7. \A b \in DOMAIN Batches : Unread(b)' <=> Unread(b)
      BY <2>1
    <2>8. \A v \in Workers : wpc'[v] = "exec" => query[v] # query[w] /\ query[v] \in Queries
      BY <1>own, <1>t, <2>1, <2>2 DEF Busy
    <2>9. NeverTwice'
      BY <2>1, <2>4 DEF NeverTwice
    <2>10. \A b \in DOMAIN Batches : Unread(b) => Batches[b][1] \in Queries \ {query[w]}
      BY <2>3, QueryType
    <2>11. \A c \in alive : ~Started(c) => content[c] # query[w]
      BY <2>3
    <2>12. \A c \in alive : content[c] # NoQuery => content[c] \in Queries
      BY <1>t
    <2>13. \A v \in Workers : wpc'[v] = "exec" => wpc[v] = "exec"
      BY <2>2
    <2>14. \A v \in Workers : wpc'[v] \in {"exec", "free"} => wpc[v] \in {"exec", "free"}
      BY <2>1, <2>2
    <2> HIDE DEF Unread, Started
    <2>15. QED BY <2>1, <2>4, <2>5, <2>6, <2>7, <2>8, <2>9, <2>10, <2>11, <2>12, <2>13, <2>14
  <1>9. ASSUME NEW w \in Workers, FreeJob(w) PROVE QueryInv'
    <2>1. /\ wpc[w] = "free" /\ wpc' = [wpc EXCEPT ![w] = "pop"]
          /\ alive' = alive \ {job[w]}
          /\ UNCHANGED <<batch, next, main, query, projected, log, executed>>
      BY <1>9 DEF FreeJob
    <2>2. /\ \A v \in Workers \ {w} : wpc'[v] = wpc[v] /\ job'[v] = job[v]
          /\ \A c \in alive' : content'[c] = content[c]
          /\ wpc'[w] = "pop"
      BY <1>9, <1>t DEF FreeJob
    <2>3. \A c \in alive' : Started(c) => Started(c)'
      BY <2>1, <2>2
    <2>4. \A b \in DOMAIN Batches : Unread(b)' <=> Unread(b)
      BY <2>1
    <2>5. \A v \in Workers \ {w} : wpc[v] \in {"exec", "free"} => job[v] \in alive'
      BY <1>own, <2>1 DEF Busy
    <2> HIDE DEF Unread, Started
    <2>6. QED BY <2>1, <2>2, <2>3, <2>4, <2>5, Unheard
  <1>10. ASSUME NEW w \in Workers, Crash(w) PROVE QueryInv'
    BY <1>10 DEF Crash, Untouched, NeverTwice
  <1>11. QED BY <1>1, <1>2, <1>3, <1>4, <1>5, <1>6, <1>7, <1>8, <1>9, <1>10
             DEF Next, MainStep, WorkerStep

-----------------------------------------------------------------------------
(* Initial: before the first batch is handed out nothing is allocated,     *)
(* queued or executed.                                                     *)
LEMMA Initial == Init => IInv
  <1> SUFFICES ASSUME Init PROVE IInv
    OBVIOUS
  <1>q. q = queue_create /\ q \in QueueType /\ Live(q) = {} /\ Queued(q) = {} /\ SlotsDistinct(q)
    BY CreateType DEF Init, Queued, SlotsDistinct
  <1>t. TypeOK
    <2>1. log \in Seq(Queries \X (1 .. Projections))
      BY DEF Init
    <2>2. batch \in 1 .. Len(Batches) + 1
      BY QueryType DEF Init
    <2>3. projected \in [Workers -> 0 .. Projections]
      BY HarnessAssumption DEF Init
    <2>4. /\ content \in [Cells -> Queries \cup {NoQuery}]
          /\ wpc \in [Workers -> {"pop", "run", "exec", "free"}]
          /\ job \in [Workers -> Cells \cup {NoJob}]
          /\ query \in [Workers -> Queries \cup {NoQuery}]
          /\ executed \in [Queries -> Nat]
      BY DEF Init
    <2>5. /\ alive \subseteq Cells /\ next \in Nat \ {0}
          /\ qj \in Cells \cup {NoJob}
      BY DEF Init
    <2>6. corrupt \in BOOLEAN
      BY DEF Init
    <2>7. /\ main \in {"batch", "query", "schedule", "released"}
          /\ process \in {"running", "exited", "crashed"}
      BY DEF Init
    <2> HIDE DEF Init
    <2>8. QED BY <1>q, <2>1, <2>2, <2>3, <2>4, <2>5, <2>6, <2>7 DEF TypeOK
  <1>1. TypeInv
    BY <1>q, <1>t DEF Init, TypeInv, LinkInv, Busy
  <1>2. OwnInv
    BY <1>q DEF Init, OwnInv, Filling, Busy
  <1>3. ASSUME NEW b \in DOMAIN Batches, Len(Batches[b]) = 1 PROVE Untouched(Batches[b][1])
    BY <1>3, QueryType DEF Init, Untouched
  <1>4. QueryInv
    BY <1>3 DEF Init, QueryInv, Unread, Started, NeverTwice
  <1>5. QED BY <1>1, <1>2, <1>4 DEF IInv

(* Intact: the cells of the inductive invariant are the addresses of the   *)
(* property.                                                               *)
LEMMA Intact == TypeInv /\ OwnInv => JobsIntact
  <1> SUFFICES ASSUME TypeInv, OwnInv PROVE JobsIntact
    OBVIOUS
  <1>1. \A i \in Live(q) : q.buffer[i] \in Queued(q)
    BY DEF Queued
  <1>2. QED BY <1>1 DEF OwnInv, SlotsDistinct, Busy, JobsIntact

(* Typed: whatever the batches are, main and the workers follow pointers   *)
(* to query_job records only, never NULL, and append to log.txt only sums  *)
(* of queries of the input; this holds in the runs that free a cell twice, *)
(* too.                                                                    *)
THEOREM Typed == Spec => []TypeOK
  <1>1. Init => TypeInv
    BY Initial DEF IInv
  <1>2. TypeInv /\ [Next]_vars => TypeInv'
    BY TypeStep
  <1>3. TypeInv => TypeOK
    BY DEF TypeInv
  <1>4. QED BY <1>1, <1>2, <1>3, PTL DEF Spec

(* Invariance: with at most one query per batch the inductive invariant    *)
(* holds in every state of the main program and its workers.               *)
THEOREM Invariance == OneQueryBatches => (Spec => []IInv)
  <1> SUFFICES ASSUME OneQueryBatches PROVE Spec => []IInv
    OBVIOUS
  <1>1. IInv /\ [Next]_vars => IInv'
    BY TypeStep, OwnStep, QueryStep DEF IInv
  <1>2. QED BY <1>1, Initial, PTL DEF Spec

(* OneJobOneOwner: with at most one query per batch, malloc, query_job_init*)
(* and schedule in list_foreach_query and free(job) in the worker never    *)
(* meet at one query_job: what is queued or popped is allocated, holds its *)
(* query and has no second owner.                                          *)
THEOREM OneJobOneOwner == OneQueryBatches => (Spec => []JobsIntact)
  <1> SUFFICES ASSUME OneQueryBatches PROVE Spec => []JobsIntact
    OBVIOUS
  <1>1. Spec => []IInv
    BY Invariance
  <1>2. IInv => JobsIntact
    BY Intact DEF IInv
  <1>3. QED BY <1>1, <1>2, PTL

(* ExecutedOnce: with at most one query per batch no query is executed a   *)
(* second time, and log.txt has its sums once each, in the order in which  *)
(* query_projection computes them.                                         *)
THEOREM ExecutedOnce == OneQueryBatches => (Spec => []NeverTwice)
  <1> SUFFICES ASSUME OneQueryBatches PROVE Spec => []NeverTwice
    OBVIOUS
  <1>1. Spec => []IInv
    BY Invariance
  <1>2. IInv => NeverTwice
    BY DEF IInv, QueryInv
  <1>3. QED BY <1>1, <1>2, PTL

(* NoEarlyCrash: with at most one query per batch the only misuse of       *)
(* memory is main's list_free of relations and queries that workers still  *)
(* read; no query_job is freed twice.                                      *)
THEOREM NoEarlyCrash == OneQueryBatches => (Spec => []CrashOnlyAfterRelease)
  <1> SUFFICES ASSUME OneQueryBatches PROVE Spec => []CrashOnlyAfterRelease
    OBVIOUS
  <1>1. Spec => []IInv
    BY Invariance
  <1>2. IInv => CrashOnlyAfterRelease
    BY DEF IInv, OwnInv, CrashOnlyAfterRelease
  <1>3. QED BY <1>1, <1>2, PTL
=============================================================================
