--------------------------- MODULE JobSchedulerInv ---------------------------
(***************************************************************************)
(* The inductive invariant of JobScheduler: why its safety properties      *)
(* hold.  A run checks it, JobSchedulerProofs proves it.                   *)
(***************************************************************************)
EXTENDS JobScheduler

(* Each thread is at a label of its own program. *)
LabelInv ==
  /\ pc[Client] \in ClientLabels
  /\ \A w \in Workers : pc[w] \in WorkerLabels

(* queueLock is held by the worker inside the critical section; the client *)
(* is in and out of it in one step.                                        *)
LockInv ==
  /\ queueLock # Client
  /\ \A w \in Workers : queueLock = w <=> pc[w] \in {"test", "sleep", "take"}

(* Only a thread in pthread_cond_wait waits for a signal. *)
WaitInv ==
  /\ \A w \in cond_nonempty : pc[w] = "asleep"
  /\ cond_empty # {} => pc[Client] = "bar_asleep"

(* A worker has a job from the pop to the end of query_job_run. *)
JobInv == \A w \in Workers : job[w] # NoJob <=> pc[w] = "run"

(* bar and done follow the client. *)
FlagInv ==
  /\ bar <=> pc[Client] \in {"bar_bcast", "arrive1", "in1"}
  /\ done <=> pc[Client] \in {"stop_bcast", "join", "stopped", "destroyed"}

(* The queue is empty while a barrier is raised or crossed, and what a     *)
(* worker concluded from an empty queue is still true when it acts on it.  *)
EmptyInv ==
  /\ pc[Client] \in {"bar_bcast", "arrive1", "in1", "arrive2", "in2"} => queue_empty(q)
  /\ \A w \in Workers :
       /\ pc[w] = "take" /\ queue_empty(q) => bar \/ done
       /\ pc[w] = "check_done" => queue_empty(q) /\ (bar \/ done)
       /\ pc[w] = "exited" => queue_empty(q) /\ done

(* First: waiting in the first round of pbar.  Second: past the first      *)
(* round and not yet released from the second.                             *)
First(t) == pc[t] = "in1" /\ t \in pbar

Second(t) ==
  \/ pc[t] = "in1" /\ t \notin pbar
  \/ pc[t] = "arrive2"
  \/ pc[t] = "in2" /\ t \in pbar

(* The two rounds never mix: when one thread is in the second part of the  *)
(* barrier all are, and a worker enters the first part under bar only.     *)
RoundInv ==
  /\ (\E t \in Threads : Second(t)) => \A t \in Threads : Second(t)
  /\ \A t \in pbar : pc[t] \in {"in1", "in2"}
  /\ \A w \in Workers : pc[w] = "arrive1" \/ First(w) => bar

(* Nobody works while the client is on its way out of the barrier, and     *)
(* nobody is left when it has been through the joins of stop.              *)
QuietInv ==
  /\ pc[Client] \in {"arrive2", "in2"} => \A w \in Workers : pc[w] # "run"
  /\ pc[Client] \in {"stopped", "destroyed"} => \A w \in Workers : pc[w] = "exited"

ControlInv ==
  /\ LabelInv
  /\ LockInv
  /\ WaitInv
  /\ JobInv
  /\ FlagInv
  /\ EmptyInv
  /\ RoundInv
  /\ QuietInv

(* The slots in use hold jobs, and every job is in exactly one place. *)
PlaceInv ==
  /\ NoJob \notin Queued(q)
  /\ NoJobLost
  /\ NoJobDuplicated

(* IInv: the queue, the locks, the flags and the two rounds of pbar stay   *)
(* in step with the program counters, and every job is in one place.       *)
IInv ==
  /\ TypeOK
  /\ ControlInv
  /\ PlaceInv
=============================================================================
