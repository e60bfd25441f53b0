------------------------------- MODULE JobPool -------------------------------
(***************************************************************************)
(* What job_scheduler promises its client, without locks, condition        *)
(* variables or barriers: a bounded first-in first-out pool of jobs that a *)
(* fixed set of workers executes, each job once, with two calls that wait: *)
(* one for the jobs submitted so far, one for the end of all workers.      *)
(* JobScheduler implements this module.                                    *)
(***************************************************************************)
EXTENDS Naturals, Sequences

CONSTANTS
  Workers,    \* the threads of job_scheduler
  Jobs,       \* the jobs a client may submit
  NoJob,      \* "no job"
  Capacity    \* jobs that may wait at the same time

VARIABLES
  pending,    \* jobs waiting, oldest first
  running,    \* the job each worker executes
  finished,   \* jobs executed
  rejected,   \* jobs dropped because the pool was full
  client      \* what the client is waiting for

vars == <<pending, running, finished, rejected, client>>

Nobody == [w \in Workers |-> NoJob]

Known == {pending[i] : i \in 1 .. Len(pending)} \cup {running[w] : w \in Workers}
         \cup finished \cup rejected

Init ==
  /\ pending = <<>>
  /\ running = Nobody
  /\ finished = {}
  /\ rejected = {}
  /\ client = "active"

(* A job that finds the pool full is dropped, and the client is not told. *)
Submit(j) ==
  /\ client = "active"
  /\ j \notin Known
  /\ IF Len(pending) < Capacity
       THEN pending' = Append(pending, j) /\ UNCHANGED rejected
       ELSE rejected' = rejected \cup {j} /\ UNCHANGED pending
  /\ UNCHANGED <<running, finished, client>>

Start(w) ==
  /\ pending # <<>>
  /\ running[w] = NoJob
  /\ running' = [running EXCEPT ![w] = Head(pending)]
  /\ pending' = Tail(pending)
  /\ UNCHANGED <<finished, rejected, client>>

Finish(w) ==
  /\ running[w] # NoJob
  /\ running' = [running EXCEPT ![w] = NoJob]
  /\ finished' = finished \cup {running[w]}
  /\ UNCHANGED <<pending, rejected, client>>

Drained == pending = <<>> /\ running = Nobody

Call(wait) ==
  /\ client = "active"
  /\ client' = wait
  /\ UNCHANGED <<pending, running, finished, rejected>>

(* job_scheduler_barrier returns once every job submitted was executed. *)
BarrierReturn ==
  /\ client = "barrier" /\ Drained
  /\ client' = "active"
  /\ UNCHANGED <<pending, running, finished, rejected>>

(* job_scheduler_stop returns once the workers have emptied the pool. *)
StopReturn ==
  /\ client = "stopping" /\ Drained
  /\ client' = "stopped"
  /\ UNCHANGED <<pending, running, finished, rejected>>

Next ==
  \/ \E j \in Jobs : Submit(j)
  \/ \E w \in Workers : Start(w) \/ Finish(w)
  \/ Call("barrier") \/ BarrierReturn
  \/ Call("stopping") \/ StopReturn

(* The workers keep working and barrier returns; stop is not promised to   *)
(* return, see StopReturns in JobScheduler.                                *)
Fairness ==
  /\ WF_vars(\E w \in Workers : Start(w))
  /\ \A w \in Workers : WF_vars(Finish(w))
  /\ WF_vars(BarrierReturn)

Spec == Init /\ [][Next]_vars /\ Fairness
=============================================================================
