---------------------------- MODULE JobScheduler ----------------------------
(***************************************************************************)
(* job_scheduler of master.c: the worker threads, the queue they share and *)
(* the thread that schedules jobs, calls job_scheduler_barrier and finally *)
(* job_scheduler_stop and job_scheduler_destroy.                           *)
(*                                                                         *)
(* One thread, Client, uses the interface, as main does.  A job is a       *)
(* query_job record of its own, given to the scheduler once (Harness       *)
(* models the caller that does not keep to this).                          *)
(*                                                                         *)
(* Grain of atomicity.  A step does at most one thing that threads not     *)
(* bound by queueLock can observe: a read or a write of bar or done        *)
(* outside the lock, a broadcast outside the lock, an arrival at pbar, or  *)
(* the end of a job.  What a thread does to q while it holds queueLock is  *)
(* one step.  Memory is sequentially consistent: bar and done are plain    *)
(* chars, read and written without the lock, between calls into libpthread *)
(* and libc that the compiler cannot move them across.                     *)
(***************************************************************************)
EXTENDS RingQueue, Sequences

CONSTANTS
  Workers,      \* the NUM_OF_THREADS threads of jobThreadWork
  Client,       \* the thread that calls the job_scheduler_* functions
  NoThread,     \* owner of an unlocked mutex
  MaxBarriers,  \* bound on the calls of job_scheduler_barrier
  MaxSpurious   \* bound on the spurious wakeups of pthread_cond_wait

Threads == Workers \cup {Client}

ASSUME ThreadsAssumption ==
  Workers # {} /\ Client \notin Workers /\ NoThread \notin Threads

ASSUME BoundsAssumption == MaxBarriers \in Nat /\ MaxSpurious \in Nat

VARIABLES
  q,              \* js->q
  bar,            \* js->bar
  done,           \* js->done
  queueLock,      \* the thread that holds js->queueLock
  cond_nonempty,  \* threads waiting for js->cond_nonempty to be signalled
  cond_empty,     \* threads waiting for js->cond_empty to be signalled
  pbar,           \* threads that wait in the current round of js->pbar
  pc,             \* where each thread is
  job,            \* the local variable job of each worker
  submitted,      \* history: jobs handed to job_scheduler_schedule
  rejected,       \* history: jobs queue_push refused
  finished,       \* history: jobs query_job_run returned from
  rounds,         \* history: calls of job_scheduler_barrier
  spurious        \* history: spurious wakeups

history == <<submitted, rejected, finished, rounds, spurious>>
sync == <<queueLock, cond_nonempty, cond_empty, pbar>>
vars == <<q, bar, done, sync, pc, job, history>>

WorkerLabels ==
  {"lock", "test", "sleep", "asleep", "take", "run", "check_done", "check_bar",
   "arrive1", "in1", "arrive2", "in2", "exited"}

ClientLabels ==
  {"idle", "bar_lock", "bar_asleep", "bar_bcast", "arrive1", "in1", "arrive2",
   "in2", "stop_bcast", "join", "stopped", "destroyed"}

Goto(t, label) == pc' = [pc EXCEPT ![t] = label]

(* pthread_cond_signal releases one of the waiting threads, if any. *)
Signalled(waiting, after) ==
  IF waiting = {} THEN after = {}
  ELSE \E t \in waiting : after = waiting \ {t}

(* pthread_barrier_wait: the last of the NUM_OF_THREADS + 1 threads to     *)
(* arrive ends the round; a thread may leave once its round has ended.     *)
Arrive(t) ==
  pbar' = IF pbar \cup {t} = Threads THEN {} ELSE pbar \cup {t}

RoundEnded(t) == t \notin pbar

-----------------------------------------------------------------------------
(* job_scheduler_init: the lock is free, nothing is queued, and every      *)
(* worker is at the top of its loop.                                       *)
Init ==
  /\ q = queue_create
  /\ bar = FALSE
  /\ done = FALSE
  /\ queueLock = NoThread
  /\ cond_nonempty = {}
  /\ cond_empty = {}
  /\ pbar = {}
  /\ pc = [t \in Threads |-> IF t = Client THEN "idle" ELSE "lock"]
  /\ job = [w \in Workers |-> NoJob]
  /\ submitted = {}
  /\ rejected = {}
  /\ finished = {}
  /\ rounds = 0
  /\ spurious = 0

-----------------------------------------------------------------------------
(* job_scheduler_threadWork *)

Lock(w) ==
  /\ pc[w] = "lock"
  /\ queueLock = NoThread
  /\ queueLock' = w
  /\ Goto(w, "test")
  /\ UNCHANGED <<q, bar, done, cond_nonempty, cond_empty, pbar, job, history>>

(* Mutant: the loop around pthread_cond_wait does not test bar. *)
TestIgnoringBar(w) ==
  /\ pc[w] = "test"
  /\ Goto(w, IF queue_empty(q) /\ ~done THEN "sleep" ELSE "take")
  /\ UNCHANGED <<q, bar, done, sync, job, history>>

(* The condition of the loop around pthread_cond_wait. *)
Test(w) ==
  /\ pc[w] = "test"
  /\ Goto(w, IF queue_empty(q) /\ ~done /\ ~bar THEN "sleep" ELSE "take")
  /\ UNCHANGED <<q, bar, done, sync, job, history>>

(* pthread_cond_wait gives the lock back and waits in one step ... *)
Sleep(w) ==
  /\ pc[w] = "sleep"
  /\ queueLock' = NoThread
  /\ cond_nonempty' = cond_nonempty \cup {w}
  /\ Goto(w, "asleep")
  /\ UNCHANGED <<q, bar, done, cond_empty, pbar, job, history>>

(* ... and returns with the lock held again. *)
Wake(w) ==
  /\ pc[w] = "asleep"
  /\ w \notin cond_nonempty
  /\ queueLock = NoThread
  /\ queueLock' = w
  /\ Goto(w, "test")
  /\ UNCHANGED <<q, bar, done, cond_nonempty, cond_empty, pbar, job, history>>

(* Mutant: cond_empty is not signalled. *)
TakeWithoutSignal(w) ==
  /\ pc[w] = "take"
  /\ q' = queue_pop(q)
  /\ job' = [job EXCEPT ![w] = queue_pop_result(q)]
  /\ queueLock' = NoThread
  /\ Goto(w, IF job'[w] # NoJob THEN "run" ELSE "check_done")
  /\ UNCHANGED <<bar, done, cond_nonempty, cond_empty, pbar, history>>

(* Pops a job if there is one, signals cond_empty if none is left, unlocks. *)
Take(w) ==
  /\ pc[w] = "take"
  /\ q' = queue_pop(q)
  /\ job' = [job EXCEPT ![w] = queue_pop_result(q)]
  /\ IF queue_empty(q') THEN Signalled(cond_empty, cond_empty')
     ELSE UNCHANGED cond_empty
  /\ queueLock' = NoThread
  /\ Goto(w, IF job'[w] # NoJob THEN "run" ELSE "check_done")
  /\ UNCHANGED <<bar, done, cond_nonempty, pbar, history>>

(* query_job_run, then free. *)
Run(w) ==
  /\ pc[w] = "run"
  /\ finished' = finished \cup {job[w]}
  /\ job' = [job EXCEPT ![w] = NoJob]
  /\ Goto(w, "check_bar")
  /\ UNCHANGED <<q, bar, done, sync, submitted, rejected, rounds, spurious>>

CheckDone(w) ==
  /\ pc[w] = "check_done"
  /\ Goto(w, IF done THEN "exited" ELSE "check_bar")
  /\ UNCHANGED <<q, bar, done, sync, job, history>>

CheckBar(w) ==
  /\ pc[w] = "check_bar"
  /\ Goto(w, IF bar THEN "arrive1" ELSE "lock")
  /\ UNCHANGED <<q, bar, done, sync, job, history>>

WorkerArriveFirst(w) ==
  /\ pc[w] = "arrive1"
  /\ Arrive(w)
  /\ Goto(w, "in1")
  /\ UNCHANGED <<q, bar, done, queueLock, cond_nonempty, cond_empty, job, history>>

WorkerLeaveFirst(w) ==
  /\ pc[w] = "in1"
  /\ RoundEnded(w)
  /\ Goto(w, "arrive2")
  /\ UNCHANGED <<q, bar, done, sync, job, history>>

WorkerArriveSecond(w) ==
  /\ pc[w] = "arrive2"
  /\ Arrive(w)
  /\ Goto(w, "in2")
  /\ UNCHANGED <<q, bar, done, queueLock, cond_nonempty, cond_empty, job, history>>

WorkerLeaveSecond(w) ==
  /\ pc[w] = "in2"
  /\ RoundEnded(w)
  /\ Goto(w, "lock")
  /\ UNCHANGED <<q, bar, done, sync, job, history>>

-----------------------------------------------------------------------------
(* Mutant: no worker is signalled. *)
ScheduleWithoutSignal(j) ==
  /\ pc[Client] = "idle"
  /\ j \notin submitted
  /\ queueLock = NoThread
  /\ submitted' = submitted \cup {j}
  /\ q' = queue_push(q, j)
  /\ rejected' = IF queue_full(q) THEN rejected \cup {j} ELSE rejected
  /\ UNCHANGED <<bar, done, sync, pc, job, finished, rounds, spurious>>

(* job_scheduler_schedule: push, signal, and no report of a refused push.  *)
Schedule(j) ==
  /\ pc[Client] = "idle"
  /\ j \notin submitted
  /\ queueLock = NoThread
  /\ submitted' = submitted \cup {j}
  /\ q' = queue_push(q, j)
  /\ rejected' = IF queue_full(q) THEN rejected \cup {j} ELSE rejected
  /\ Signalled(cond_nonempty, cond_nonempty')
  /\ UNCHANGED <<bar, done, queueLock, cond_empty, pbar, pc, job, finished,
                 rounds, spurious>>

(* job_scheduler_barrier *)
BarrierCall ==
  /\ pc[Client] = "idle"
  /\ rounds < MaxBarriers
  /\ rounds' = rounds + 1
  /\ Goto(Client, "bar_lock")
  /\ UNCHANGED <<q, bar, done, sync, job, submitted, rejected, finished, spurious>>

(* Mutant: bar is raised without waiting for the queue to empty. *)
BarrierTestWithoutWait ==
  /\ pc[Client] = "bar_lock"
  /\ queueLock = NoThread
  /\ bar' = TRUE
  /\ Goto(Client, "bar_bcast")
  /\ UNCHANGED <<q, done, sync, job, history>>

(* With the lock held: wait for cond_empty until the queue is empty, then  *)
(* raise bar and unlock.                                                   *)
BarrierTest ==
  /\ \/ pc[Client] = "bar_lock"
     \/ pc[Client] = "bar_asleep" /\ Client \notin cond_empty
  /\ queueLock = NoThread
  /\ IF queue_empty(q)
       THEN bar' = TRUE /\ Goto(Client, "bar_bcast") /\ UNCHANGED cond_empty
       ELSE /\ cond_empty' = cond_empty \cup {Client}
            /\ Goto(Client, "bar_asleep")
            /\ UNCHANGED bar
  /\ UNCHANGED <<q, done, queueLock, cond_nonempty, pbar, job, history>>

BarrierBroadcast ==
  /\ pc[Client] = "bar_bcast"
  /\ cond_nonempty' = {}
  /\ Goto(Client, "arrive1")
  /\ UNCHANGED <<q, bar, done, queueLock, cond_empty, pbar, job, history>>

ClientArriveFirst ==
  /\ pc[Client] = "arrive1"
  /\ Arrive(Client)
  /\ Goto(Client, "in1")
  /\ UNCHANGED <<q, bar, done, queueLock, cond_nonempty, cond_empty, job, history>>

(* Mutant: job_scheduler_barrier has no second wait. *)
BarrierResetAndReturn ==
  /\ pc[Client] = "in1"
  /\ RoundEnded(Client)
  /\ bar' = FALSE
  /\ Goto(Client, "idle")
  /\ UNCHANGED <<q, done, sync, job, history>>

(* Between the two waits every worker is held, and bar is lowered. *)
BarrierReset ==
  /\ pc[Client] = "in1"
  /\ RoundEnded(Client)
  /\ bar' = FALSE
  /\ Goto(Client, "arrive2")
  /\ UNCHANGED <<q, done, sync, job, history>>

ClientArriveSecond ==
  /\ pc[Client] = "arrive2"
  /\ Arrive(Client)
  /\ Goto(Client, "in2")
  /\ UNCHANGED <<q, bar, done, queueLock, cond_nonempty, cond_empty, job, history>>

BarrierReturn ==
  /\ pc[Client] = "in2"
  /\ RoundEnded(Client)
  /\ Goto(Client, "idle")
  /\ UNCHANGED <<q, bar, done, sync, job, history>>

(* job_scheduler_stop: done is written without the lock. *)
StopCall ==
  /\ pc[Client] = "idle"
  /\ done' = TRUE
  /\ Goto(Client, "stop_bcast")
  /\ UNCHANGED <<q, bar, sync, job, history>>

(* Mutant: pthread_cond_signal where the code has pthread_cond_broadcast. *)
StopSignal ==
  /\ pc[Client] = "stop_bcast"
  /\ Signalled(cond_nonempty, cond_nonempty')
  /\ Goto(Client, "join")
  /\ UNCHANGED <<q, bar, done, queueLock, cond_empty, pbar, job, history>>

StopBroadcast ==
  /\ pc[Client] = "stop_bcast"
  /\ cond_nonempty' = {}
  /\ Goto(Client, "join")
  /\ UNCHANGED <<q, bar, done, queueLock, cond_empty, pbar, job, history>>

(* Mutant: one thread is joined, not all of them. *)
StopReturnAfterOne ==
  /\ pc[Client] = "join"
  /\ \E w \in Workers : pc[w] = "exited"
  /\ Goto(Client, "stopped")
  /\ UNCHANGED <<q, bar, done, sync, job, history>>

(* The loop of pthread_join returns when every worker has. *)
StopReturn ==
  /\ pc[Client] = "join"
  /\ \A w \in Workers : pc[w] = "exited"
  /\ Goto(Client, "stopped")
  /\ UNCHANGED <<q, bar, done, sync, job, history>>

(* job_scheduler_destroy *)
Destroy ==
  /\ pc[Client] = "stopped"
  /\ Goto(Client, "destroyed")
  /\ UNCHANGED <<q, bar, done, sync, job, history>>

(* POSIX lets pthread_cond_wait return without a signal. *)
SpuriousWakeup(t) ==
  /\ t \in cond_nonempty \cup cond_empty
  /\ spurious < MaxSpurious
  /\ spurious' = spurious + 1
  /\ cond_nonempty' = cond_nonempty \ {t}
  /\ cond_empty' = cond_empty \ {t}
  /\ UNCHANGED <<q, bar, done, queueLock, pbar, pc, job, submitted, rejected,
                 finished, rounds>>

-----------------------------------------------------------------------------
WorkerStep(w) ==
  \/ Lock(w) \/ Test(w) \/ Sleep(w) \/ Wake(w) \/ Take(w)
  \/ Run(w) \/ CheckDone(w) \/ CheckBar(w)
  \/ WorkerArriveFirst(w) \/ WorkerLeaveFirst(w)
  \/ WorkerArriveSecond(w) \/ WorkerLeaveSecond(w)

(* The calls of the client, and the steps inside a call. *)
ClientCall == (\E j \in Jobs : Schedule(j)) \/ BarrierCall \/ StopCall \/ Destroy

ClientStep ==
  \/ BarrierTest \/ BarrierBroadcast
  \/ ClientArriveFirst \/ BarrierReset \/ ClientArriveSecond \/ BarrierReturn
  \/ StopBroadcast \/ StopReturn

Next ==
  \/ \E w \in Workers : WorkerStep(w)
  \/ ClientStep
  \/ ClientCall
  \/ \E t \in Threads : SpuriousWakeup(t)

(* A thread that can run does, and no query runs forever.  The client may  *)
(* make any calls or none.                                                 *)
Fairness == (\A w \in Workers : WF_vars(WorkerStep(w))) /\ WF_vars(ClientStep)

Spec == Init /\ [][Next]_vars

FairSpec == Spec /\ Fairness

-----------------------------------------------------------------------------
(* TypeOK: every variable keeps its type, the queue record included.       *)
TypeOK ==
  /\ q \in QueueType
  /\ bar \in BOOLEAN
  /\ done \in BOOLEAN
  /\ queueLock \in Threads \cup {NoThread}
  /\ cond_nonempty \subseteq Workers
  /\ cond_empty \subseteq {Client}
  /\ pbar \subseteq Threads
  /\ pc \in [Threads -> WorkerLabels \cup ClientLabels]
  /\ job \in [Workers -> Jobs \cup {NoJob}]
  /\ submitted \subseteq Jobs
  /\ rejected \subseteq Jobs
  /\ finished \subseteq Jobs
  /\ rounds \in 0 .. MaxBarriers
  /\ spurious \in 0 .. MaxSpurious

Held == {job[w] : w \in Workers} \ {NoJob}

(* NoJobLost: a job given to job_scheduler_schedule is queued, held by a   *)
(* worker, executed, or was refused by a full queue; nothing else is.      *)
NoJobLost == submitted = Queued(q) \cup Held \cup finished \cup rejected

(* NoJobDuplicated: it is in one of those places only, in one slot of the  *)
(* queue and with one worker: no two workers ever run, and free, the same  *)
(* query_job, whatever the order in which they pop and the client pushes.  *)
NoJobDuplicated ==
  /\ \A i, k \in Live(q) : q.buffer[i] = q.buffer[k] => i = k
  /\ \A v, w \in Workers : job[v] = job[w] /\ job[v] # NoJob => v = w
  /\ Queued(q) \cap (Held \cup finished \cup rejected) = {}
  /\ Held \cap (finished \cup rejected) = {}
  /\ finished \cap rejected = {}

(* BarrierCompletes: past the first wait of job_scheduler_barrier, every   *)
(* job accepted so far has been executed to its end ("Waits until executed *)
(* all jobs in the queue", master.h:346).                                  *)
BarrierCompletes ==
  pc[Client] \in {"arrive2", "in2"} => submitted = finished \cup rejected

(* BarrierRoundsAligned: a worker leaves the two waits of a barrier call   *)
(* before the next call, or the end of the threads, can meet it there: no  *)
(* worker is still before its second wait when the client has returned,    *)
(* and none waits in pbar.                                                 *)
BarrierRoundsAligned ==
  pc[Client] \notin {"bar_bcast", "arrive1", "in1", "arrive2", "in2"} =>
    /\ pbar = {}
    /\ \A w \in Workers : pc[w] \notin {"arrive1", "in1", "arrive2"}

(* StopDrains: when job_scheduler_stop returns, every accepted job was     *)
(* executed ("Waits until all threads finish their job", master.h:356).    *)
StopDrains == pc[Client] \in {"stopped", "destroyed"} =>
                submitted = finished \cup rejected

(* DestroySafe: nobody holds, waits for or is inside what                  *)
(* job_scheduler_destroy takes away.                                       *)
DestroySafe ==
  pc[Client] = "stopped" =>
    /\ queueLock = NoThread
    /\ cond_nonempty = {} /\ cond_empty = {} /\ pbar = {}
    /\ \A w \in Workers : pc[w] = "exited"

(* OnlyStopHangs: the threads come to a standstill in three situations     *)
(* only: between calls of the client, after job_scheduler_destroy, and in  *)
(* the joins of job_scheduler_stop with a worker waiting for cond_nonempty *)
(* (see StopReturns).                                                      *)
OnlyStopHangs ==
  \/ \E w \in Workers : ENABLED WorkerStep(w)
  \/ ENABLED ClientStep
  \/ pc[Client] \in {"idle", "stopped", "destroyed"}
  \/ pc[Client] = "join" /\ cond_nonempty # {}

(* NoJobRunsUnderBarrier: no worker starts a job while bar is raised, so   *)
(* the jobs a barrier waits for are the ones that run when it is raised.   *)
NoJobRunsUnderBarrier ==
  [][bar => \A w \in Workers : pc'[w] = "run" => pc[w] = "run"]_vars

(* BarrierTerminates: a call of job_scheduler_barrier returns.             *)
BarrierTerminates == pc[Client] = "bar_lock" ~> pc[Client] = "idle"

(* JobsComplete: an accepted job is executed in the end, whatever calls    *)
(* follow (also when stop hangs).                                          *)
JobsComplete ==
  \A j \in Jobs : j \in submitted ~> j \in finished \cup rejected

(* StopReturnsUnlessRaced: job_scheduler_stop returns, provided that no    *)
(* worker is between its test of done and pthread_cond_wait when done is   *)
(* written, or that it is asleep by the time of the broadcast.             *)
StopReturnsUnlessRaced ==
  (pc[Client] = "stop_bcast" /\ \A w \in Workers : pc[w] # "sleep")
    ~> pc[Client] = "stopped"

(* StopReturns: "Waits until all threads finish their job, and after that  *)
(* close all threads" (master.h:356): job_scheduler_stop returns.          *)
StopReturns == pc[Client] = "stop_bcast" ~> pc[Client] = "stopped"

(* ScheduledJobsAreAdded: "Add a job in the queue and returns a JobId"     *)
(* (master.h:351): job_scheduler_schedule puts the job into the queue.     *)
ScheduledJobsAreAdded == rejected = {}

-----------------------------------------------------------------------------
(* The client's program counter reduced to what it waits for. *)
WaitsFor ==
  CASE pc[Client] = "idle" -> "active"
    [] pc[Client] \in {"stop_bcast", "join"} -> "stopping"
    [] pc[Client] \in {"stopped", "destroyed"} -> "stopped"
    [] OTHER -> "barrier"

(* The abstract pool, with the queue as a sequence. *)
Pool == INSTANCE JobPool WITH
  Capacity <- QueueSize - 1,
  pending  <- Contents(q),
  running  <- job,
  client   <- WaitsFor

(* BehavesAsPool: every step of the scheduler is one of JobPool or none:   *)
(* the jobs start in the order they were scheduled, each once, at most     *)
(* QueueSize - 1 wait, barrier and stop return only when all are executed. *)
BehavesAsPool == Pool!Init /\ [][Pool!Next]_(Pool!vars)

(* ImplementsPool: every fair behaviour of the scheduler is one of JobPool *)
(* with the fairness that module promises: the workers keep working until  *)
(* the pool is drained, and barrier returns.                               *)
ImplementsPool == Pool!Spec
=============================================================================
