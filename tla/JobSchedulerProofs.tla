------------------------- MODULE JobSchedulerProofs -------------------------
(***************************************************************************)
(* Safety of the job scheduler for any number of workers and jobs, any     *)
(* size of the queue, and any number of barriers and spurious wakeups.     *)
(*                                                                         *)
(* The argument: TypeStep keeps the types, PlaceStep follows the jobs from *)
(* the queue to a worker to finished, and ControlStep follows the threads. *)
(* The three lean on each other in two points only: a worker that runs has *)
(* a job (JobInv), and a pop from a queue that is not empty returns one    *)
(* (TakesJob).  Together they make IInv inductive, and the properties of   *)
(* JobScheduler follow from it state by state.                             *)
(* PoolImplemented maps every step to one of JobPool, or to none.          *)
(***************************************************************************)
EXTENDS JobSchedulerInv, RingQueueProofs

(* TypeStep: every step keeps every variable's type.                       *)
LEMMA TypeStep == TypeOK /\ JobInv /\ [Next]_vars => TypeOK'
  <1> SUFFICES ASSUME TypeOK, JobInv, Next PROVE TypeOK'
    BY DEF TypeOK, vars, sync, history
  <1> USE DEF TypeOK, Threads, WorkerLabels, ClientLabels, sync, history, Goto
  <1>1. ASSUME NEW w \in Workers, Lock(w) PROVE TypeOK'
    BY <1>1 DEF Lock
  <1>2. ASSUME NEW w \in Workers, Test(w) PROVE TypeOK'
    BY <1>2 DEF Test
  <1>3. ASSUME NEW w \in Workers, Sleep(w) PROVE TypeOK'
    BY <1>3 DEF Sleep
  <1>4. ASSUME NEW w \in Workers, Wake(w) PROVE TypeOK'
    BY <1>4 DEF Wake
  <1>5. ASSUME NEW w \in Workers, Take(w) PROVE TypeOK'
    <2>1. q' \in QueueType /\ job' \in [Workers -> Jobs \cup {NoJob}]
      BY <1>5, PopType DEF Take
    <2>2. cond_empty' \subseteq {Client}
      BY <1>5 DEF Take, Signalled
    <2>3. pc' \in [Threads -> WorkerLabels \cup ClientLabels]
      BY <1>5 DEF Take
    <2>4. QED BY <1>5, <2>1, <2>2, <2>3 DEF Take
  <1>6. ASSUME NEW w \in Workers, Run(w) PROVE TypeOK'
    BY <1>6 DEF Run, JobInv
  <1>7. ASSUME NEW w \in Workers, CheckDone(w) PROVE TypeOK'
    BY <1>7 DEF CheckDone
  <1>8. ASSUME NEW w \in Workers, CheckBar(w) PROVE TypeOK'
    BY <1>8 DEF CheckBar
  <1>9. ASSUME NEW w \in Workers, WorkerArriveFirst(w) PROVE TypeOK'
    BY <1>9 DEF WorkerArriveFirst, Arrive
  <1>10. ASSUME NEW w \in Workers, WorkerLeaveFirst(w) PROVE TypeOK'
    BY <1>10 DEF WorkerLeaveFirst
  <1>11. ASSUME NEW w \in Workers, WorkerArriveSecond(w) PROVE TypeOK'
    BY <1>11 DEF WorkerArriveSecond, Arrive
  <1>12. ASSUME NEW w \in Workers, WorkerLeaveSecond(w) PROVE TypeOK'
    BY <1>12 DEF WorkerLeaveSecond
  <1>13. ASSUME BarrierTest PROVE TypeOK'
    BY <1>13 DEF BarrierTest
  <1>14. ASSUME BarrierBroadcast PROVE TypeOK'
    BY <1>14 DEF BarrierBroadcast
  <1>15. ASSUME ClientArriveFirst PROVE TypeOK'
    BY <1>15 DEF ClientArriveFirst, Arrive
  <1>16. ASSUME BarrierReset PROVE TypeOK'
    BY <1>16 DEF BarrierReset
  <1>17. ASSUME ClientArriveSecond PROVE TypeOK'
    BY <1>17 DEF ClientArriveSecond, Arrive
  <1>18. ASSUME BarrierReturn PROVE TypeOK'
    BY <1>18 DEF BarrierReturn
  <1>19. ASSUME StopBroadcast PROVE TypeOK'
    BY <1>19 DEF StopBroadcast
  <1>20. ASSUME StopReturn PROVE TypeOK'
    BY <1>20 DEF StopReturn
  <1>21. ASSUME NEW j \in Jobs, Schedule(j) PROVE TypeOK'
    BY <1>21, PushType DEF Schedule, Signalled
  <1>22. ASSUME BarrierCall PROVE TypeOK'
    BY <1>22, BoundsAssumption DEF BarrierCall
  <1>23. ASSUME StopCall PROVE TypeOK'
    BY <1>23 DEF StopCall
  <1>24. ASSUME Destroy PROVE TypeOK'
    BY <1>24 DEF Destroy
  <1>25. ASSUME NEW t \in Threads, SpuriousWakeup(t) PROVE TypeOK'
    BY <1>25, BoundsAssumption DEF SpuriousWakeup
  <1>26. QED
    BY <1>1, <1>2, <1>3, <1>4, <1>5, <1>6, <1>7, <1>8, <1>9, <1>10, <1>11,
       <1>12, <1>13, <1>14, <1>15, <1>16, <1>17, <1>18, <1>19, <1>20, <1>21,
       <1>22, <1>23, <1>24, <1>25
    DEF Next, WorkerStep, ClientStep, ClientCall

-----------------------------------------------------------------------------
(* TakesJob: a worker that pops from a queue that is not empty gets a job. *)
LEMMA TakesJob ==
  ASSUME q \in QueueType, NoJob \notin Queued(q)
  PROVE  queue_pop_result(q) = NoJob <=> queue_empty(q)
  BY PopQueued DEF queue_pop_result

(* PlaceStep: Schedule puts a new job into one place, Take moves the       *)
(* oldest queued job to one worker, Run moves it on to finished, and no    *)
(* other step touches a job.                                               *)
LEMMA PlaceStep ==
  TypeOK /\ PlaceInv /\ JobInv /\ [Next]_vars => PlaceInv'
  <1> SUFFICES ASSUME TypeOK, PlaceInv, JobInv, [Next]_vars PROVE PlaceInv'
    OBVIOUS
  <1> USE DEF PlaceInv, NoJobLost, NoJobDuplicated, SlotsDistinct
  <1>0. q \in QueueType /\ job \in [Workers -> Jobs \cup {NoJob}]
    BY DEF TypeOK
  <1>1. ASSUME NEW j \in Jobs, Schedule(j) PROVE PlaceInv'
    <2>1. j \notin submitted /\ submitted' = submitted \cup {j}
      BY <1>1 DEF Schedule
    <2>2. Held' = Held /\ finished' = finished /\ job' = job
      BY <1>1 DEF Schedule, Held
    <2>3. CASE queue_full(q)
      BY <1>1, <2>1, <2>2, <2>3 DEF Schedule, queue_push
    <2>4. CASE ~queue_full(q)
      <3>1. Queued(q') = Queued(q) \cup {j} /\ SlotsDistinct(q')
        BY <1>0, <1>1, <2>1, <2>4, PushQueued DEF Schedule
      <3>2. rejected' = rejected
        BY <1>1, <2>4 DEF Schedule
      <3>3. QED BY <2>1, <2>2, <3>1, <3>2, NoJobAssumption
    <2>5. QED BY <2>3, <2>4
  <1>2. ASSUME NEW w \in Workers, Take(w) PROVE PlaceInv'
    <2>1. UNCHANGED <<submitted, finished, rejected>> /\ q' = queue_pop(q)
      BY <1>2 DEF Take, history
    <2>2. job' = [job EXCEPT ![w] = queue_pop_result(q)] /\ job[w] = NoJob
      BY <1>2 DEF Take, JobInv
    <2>3. CASE queue_empty(q)
      <3>1. job' = job /\ q' = q
        BY <1>0, <2>1, <2>2, <2>3 DEF queue_pop, queue_pop_result
      <3>2. QED BY <2>1, <3>1 DEF Held
    <2>4. CASE ~queue_empty(q)
      <3> DEFINE r == queue_pop_result(q)
      <3>1. /\ r \in Queued(q) /\ Queued(q) = Queued(q') \cup {r}
            /\ SlotsDistinct(q') /\ r \notin Queued(q')
        BY <1>0, <2>1, <2>4, PopQueued
      <3>2. r # NoJob
        BY <3>1
      <3>3. \A v \in Workers : job'[v] = IF v = w THEN r ELSE job[v]
        BY <1>0, <2>2
      <3> HIDE DEF r
      <3>4. Held' = Held \cup {r}
        BY <2>2, <3>2, <3>3 DEF Held
      <3>5. r \notin Held
        BY <3>1
      <3>6. \A u, v \in Workers : job'[u] = job'[v] /\ job'[u] # NoJob => u = v
        BY <3>3, <3>5 DEF Held
      <3>7. QED BY <2>1, <3>1, <3>4, <3>5, <3>6
    <2>5. QED BY <2>3, <2>4
  <1>3. ASSUME NEW w \in Workers, Run(w) PROVE PlaceInv'
    <2>1. UNCHANGED <<q, submitted, rejected>> /\ finished' = finished \cup {job[w]}
      BY <1>3 DEF Run
    <2>2. job[w] # NoJob
      BY <1>3 DEF Run, JobInv
    <2>3. \A v \in Workers : job'[v] = IF v = w THEN NoJob ELSE job[v]
      BY <1>0, <1>3 DEF Run
    <2>4. Held' = Held \ {job[w]} /\ job[w] \in Held
      BY <2>2, <2>3 DEF Held
    <2>5. QED BY <2>1, <2>2, <2>3, <2>4
  <1>4. CASE UNCHANGED <<q, job, submitted, rejected, finished>>
    BY <1>4 DEF Held
  <1>5. QED
    <2>1. ASSUME NEW w \in Workers, WorkerStep(w), ~Take(w), ~Run(w)
          PROVE  UNCHANGED <<q, job, submitted, rejected, finished>>
      BY <2>1 DEF WorkerStep, Lock, Test, Sleep, Wake, CheckDone, CheckBar,
           WorkerArriveFirst, WorkerLeaveFirst, WorkerArriveSecond,
           WorkerLeaveSecond, history
    <2>2. ASSUME ClientStep \/ BarrierCall \/ StopCall \/ Destroy
          PROVE  UNCHANGED <<q, job, submitted, rejected, finished>>
      BY <2>2 DEF ClientStep, BarrierTest, BarrierBroadcast, ClientArriveFirst,
           BarrierReset, ClientArriveSecond, BarrierReturn, StopBroadcast,
           StopReturn, BarrierCall, StopCall, Destroy, history
    <2>3. ASSUME NEW t \in Threads, SpuriousWakeup(t)
          PROVE  UNCHANGED <<q, job, submitted, rejected, finished>>
      BY <2>3 DEF SpuriousWakeup
    <2>4. UNCHANGED vars => UNCHANGED <<q, job, submitted, rejected, finished>>
      BY DEF vars, history
    <2>5. QED BY <1>1, <1>2, <1>3, <1>4, <2>1, <2>2, <2>3, <2>4 DEF Next, ClientCall

-----------------------------------------------------------------------------
(* ControlStep: locks, flags and the rounds of pbar follow the program     *)
(* counters.                                                               *)
LEMMA ControlStep ==
  TypeOK /\ ControlInv /\ PlaceInv /\ [Next]_vars => ControlInv'
  <1> SUFFICES ASSUME TypeOK, ControlInv, PlaceInv, Next PROVE ControlInv'
    BY DEF vars, sync, history, TypeOK, ControlInv, LabelInv, LockInv, WaitInv,
       JobInv, FlagInv, EmptyInv, RoundInv, QuietInv, First, Second
  <1> USE ThreadsAssumption
      DEF TypeOK, Threads, WorkerLabels, ClientLabels, sync, history, Goto,
          ControlInv, LabelInv, LockInv, WaitInv, JobInv, FlagInv, EmptyInv,
          RoundInv, QuietInv, First, Second
  <1>1. ASSUME NEW w \in Workers, Lock(w) PROVE ControlInv'
    BY <1>1 DEF Lock
  <1>2. ASSUME NEW w \in Workers, Test(w) PROVE ControlInv'
    BY <1>2 DEF Test
  <1>3. ASSUME NEW w \in Workers, Sleep(w) PROVE ControlInv'
    BY <1>3 DEF Sleep
  <1>4. ASSUME NEW w \in Workers, Wake(w) PROVE ControlInv'
    BY <1>4 DEF Wake
  <1>5. ASSUME NEW w \in Workers, Take(w) PROVE ControlInv'
    <2>1. queue_empty(q) => queue_empty(q') /\ job'[w] = NoJob
      BY <1>5 DEF Take, queue_pop, queue_pop_result
    <2>2. ~queue_empty(q) => job'[w] # NoJob
      BY <1>5, TakesJob DEF Take, PlaceInv
    <2>3. /\ pc[w] = "take" /\ queueLock = w /\ queueLock' = NoThread
          /\ UNCHANGED <<bar, done, pbar, cond_nonempty>>
      BY <1>5 DEF Take
    <2>4. pc' = [pc EXCEPT ![w] = IF job'[w] # NoJob THEN "run" ELSE "check_done"]
      BY <1>5 DEF Take
    <2>5. LabelInv' /\ LockInv' /\ FlagInv' /\ RoundInv'
      BY <1>5, <2>3, <2>4 DEF Take
    <2>6. WaitInv'
      BY <1>5, <2>3, <2>4 DEF Take, Signalled
    <2>7. JobInv'
      BY <1>5, <2>4 DEF Take
    <2>8. EmptyInv' /\ QuietInv'
      BY <2>1, <2>2, <2>3, <2>4
    <2>9. QED BY <2>5, <2>6, <2>7, <2>8
  <1>6. ASSUME NEW w \in Workers, Run(w) PROVE ControlInv'
    BY <1>6 DEF Run
  <1>7. ASSUME NEW w \in Workers, CheckDone(w) PROVE ControlInv'
    BY <1>7 DEF CheckDone
  <1>8. ASSUME NEW w \in Workers, CheckBar(w) PROVE ControlInv'
    BY <1>8 DEF CheckBar
  <1>9. ASSUME NEW w \in Workers, WorkerArriveFirst(w) PROVE ControlInv'
    BY <1>9 DEF WorkerArriveFirst, Arrive
  <1>10. ASSUME NEW w \in Workers, WorkerLeaveFirst(w) PROVE ControlInv'
    BY <1>10 DEF WorkerLeaveFirst, RoundEnded
  <1>11. ASSUME NEW w \in Workers, WorkerArriveSecond(w) PROVE ControlInv'
    BY <1>11 DEF WorkerArriveSecond, Arrive
  <1>12. ASSUME NEW w \in Workers, WorkerLeaveSecond(w) PROVE ControlInv'
    BY <1>12 DEF WorkerLeaveSecond, RoundEnded
  <1>13. ASSUME BarrierTest PROVE ControlInv'
    BY <1>13 DEF BarrierTest
  <1>14. ASSUME BarrierBroadcast PROVE ControlInv'
    BY <1>14 DEF BarrierBroadcast
  <1>15. ASSUME ClientArriveFirst PROVE ControlInv'
    BY <1>15 DEF ClientArriveFirst, Arrive
  <1>16. ASSUME BarrierReset PROVE ControlInv'
    BY <1>16 DEF BarrierReset, RoundEnded
  <1>17. ASSUME ClientArriveSecond PROVE ControlInv'
    BY <1>17 DEF ClientArriveSecond, Arrive
  <1>18. ASSUME BarrierReturn PROVE ControlInv'
    BY <1>18 DEF BarrierReturn, RoundEnded
  <1>19. ASSUME StopBroadcast PROVE ControlInv'
    BY <1>19 DEF StopBroadcast
  <1>20. ASSUME StopReturn PROVE ControlInv'
    BY <1>20 DEF StopReturn
  <1>21. ASSUME NEW j \in Jobs, Schedule(j) PROVE ControlInv'
    BY <1>21 DEF Schedule, Signalled
  <1>22. ASSUME BarrierCall PROVE ControlInv'
    BY <1>22 DEF BarrierCall
  <1>23. ASSUME StopCall PROVE ControlInv'
    BY <1>23 DEF StopCall
  <1>24. ASSUME Destroy PROVE ControlInv'
    BY <1>24 DEF Destroy
  <1>25. ASSUME NEW t \in Threads, SpuriousWakeup(t) PROVE ControlInv'
    BY <1>25 DEF SpuriousWakeup
  <1>26. QED
    BY <1>1, <1>2, <1>3, <1>4, <1>5, <1>6, <1>7, <1>8, <1>9, <1>10, <1>11,
       <1>12, <1>13, <1>14, <1>15, <1>16, <1>17, <1>18, <1>19, <1>20, <1>21,
       <1>22, <1>23, <1>24, <1>25
    DEF Next, WorkerStep, ClientStep, ClientCall

-----------------------------------------------------------------------------
(* Initial: the state job_scheduler_init leaves satisfies the invariant.   *)
LEMMA Initial == Init => IInv
  <1> SUFFICES ASSUME Init PROVE IInv
    OBVIOUS
  <1>1. q \in QueueType /\ queue_empty(q) /\ Queued(q) = {} /\ Live(q) = {}
    BY CreateType DEF Init, Queued
  <1>2. TypeOK
    <2>1. pc \in [Threads -> WorkerLabels \cup ClientLabels]
      BY DEF Init, WorkerLabels, ClientLabels
    <2>2. job \in [Workers -> Jobs \cup {NoJob}]
      BY DEF Init
    <2>3. rounds \in 0 .. MaxBarriers /\ spurious \in 0 .. MaxSpurious
      BY BoundsAssumption DEF Init
    <2>4. QED BY <1>1, <2>1, <2>2, <2>3 DEF Init, TypeOK
  <1>3. ControlInv
    BY <1>1, ThreadsAssumption
    DEF Init, Threads, WorkerLabels, ClientLabels, ControlInv, LabelInv, LockInv,
        WaitInv, JobInv, FlagInv, EmptyInv, RoundInv, QuietInv, First, Second
  <1>4. PlaceInv
    BY <1>1 DEF Init, PlaceInv, NoJobLost, NoJobDuplicated, Held
  <1>5. QED BY <1>2, <1>3, <1>4 DEF IInv

(* Inductive: every step of the scheduler keeps IInv.                      *)
LEMMA Inductive == IInv /\ [Next]_vars => IInv'
  BY TypeStep, PlaceStep, ControlStep DEF IInv, ControlInv

(* Invariance: IInv holds in every reachable state of the scheduler.       *)
THEOREM Invariance == Spec => []IInv
  BY Initial, Inductive, PTL DEF Spec

(* TypeCorrect: every variable of the scheduler keeps its type.            *)
THEOREM TypeCorrect == Spec => []TypeOK
  <1>1. IInv => TypeOK
    BY DEF IInv
  <1>2. QED BY <1>1, Invariance, PTL

(* JobsConserved: a job handed to job_scheduler_schedule is in exactly one *)
(* place: the queue, one worker, finished, or refused by a full queue.     *)
THEOREM JobsConserved == Spec => [](NoJobLost /\ NoJobDuplicated)
  <1>1. IInv => NoJobLost /\ NoJobDuplicated
    BY DEF IInv, PlaceInv
  <1>2. QED BY <1>1, Invariance, PTL

(* BarrierSafe: job_scheduler_barrier does not return before every job     *)
(* accepted so far was executed, and leaves no worker behind in pbar.      *)
THEOREM BarrierSafe == Spec => [](BarrierCompletes /\ BarrierRoundsAligned)
  <1>1. ASSUME IInv, pc[Client] \in {"arrive2", "in2"}
        PROVE  submitted = finished \cup rejected
    <2>1. q \in QueueType /\ queue_empty(q)
      BY <1>1 DEF IInv, TypeOK, ControlInv, EmptyInv
    <2>2. Queued(q) = {}
      BY <2>1, EmptyQueued
    <2>3. Held = {}
      BY <1>1 DEF IInv, ControlInv, QuietInv, JobInv, Held
    <2>4. QED BY <1>1, <2>2, <2>3 DEF IInv, PlaceInv, NoJobLost
  <1>2. ASSUME IInv,
               pc[Client] \notin {"bar_bcast", "arrive1", "in1", "arrive2", "in2"}
        PROVE  /\ pbar = {}
               /\ \A w \in Workers : pc[w] \notin {"arrive1", "in1", "arrive2"}
    <2>1. ~bar /\ ~Second(Client)
      BY <1>2 DEF IInv, ControlInv, FlagInv, Second
    <2>2. \A t \in Threads : ~Second(t)
      BY <1>2, <2>1 DEF IInv, ControlInv, RoundInv, Threads
    <2>3. \A w \in Workers : pc[w] # "arrive1" /\ ~First(w)
      BY <1>2, <2>1 DEF IInv, ControlInv, RoundInv
    <2>4. \A w \in Workers : pc[w] \notin {"arrive1", "in1", "arrive2"}
      BY <2>2, <2>3 DEF First, Second, Threads
    <2>5. pbar \subseteq Threads /\ \A t \in pbar : pc[t] \in {"in1", "in2"}
      BY <1>2 DEF IInv, TypeOK, ControlInv, RoundInv
    <2>6. pbar = {}
      BY <1>2, <2>2, <2>4, <2>5 DEF Second, Threads
    <2>7. QED BY <2>4, <2>6
  <1>3. IInv => BarrierCompletes /\ BarrierRoundsAligned
    BY <1>1, <1>2 DEF BarrierCompletes, BarrierRoundsAligned
  <1>4. QED BY <1>3, Invariance, PTL

(* StopSafe: when job_scheduler_stop has returned, every accepted job was  *)
(* executed, and nobody uses what job_scheduler_destroy takes away.        *)
THEOREM StopSafe == Spec => [](StopDrains /\ DestroySafe)
  <1>1. ASSUME IInv, pc[Client] \in {"stopped", "destroyed"}
        PROVE  submitted = finished \cup rejected
    <2>1. \A w \in Workers : pc[w] = "exited"
      BY <1>1 DEF IInv, ControlInv, QuietInv
    <2>2. q \in QueueType /\ queue_empty(q)
      BY <1>1, <2>1, ThreadsAssumption DEF IInv, TypeOK, ControlInv, EmptyInv
    <2>3. Queued(q) = {}
      BY <2>2, EmptyQueued
    <2>4. Held = {}
      BY <1>1, <2>1 DEF IInv, ControlInv, JobInv, Held
    <2>5. QED BY <1>1, <2>3, <2>4 DEF IInv, PlaceInv, NoJobLost
  <1>2. ASSUME IInv, pc[Client] = "stopped"
        PROVE  /\ queueLock = NoThread
               /\ cond_nonempty = {} /\ cond_empty = {} /\ pbar = {}
               /\ \A w \in Workers : pc[w] = "exited"
    <2>1. \A w \in Workers : pc[w] = "exited"
      BY <1>2 DEF IInv, ControlInv, QuietInv
    <2>2. queueLock = NoThread
      BY <1>2, <2>1 DEF IInv, TypeOK, ControlInv, LockInv, Threads
    <2>3. cond_nonempty = {} /\ cond_empty = {}
      BY <1>2, <2>1 DEF IInv, TypeOK, ControlInv, WaitInv
    <2>4. pbar = {}
      BY <1>2, <2>1 DEF IInv, TypeOK, ControlInv, RoundInv, Threads
    <2>5. QED BY <2>1, <2>2, <2>3, <2>4
  <1>3. IInv => StopDrains /\ DestroySafe
    BY <1>1, <1>2 DEF StopDrains, DestroySafe
  <1>4. QED BY <1>3, Invariance, PTL

(* BarrierQuiet: no worker starts a job while bar is raised.               *)
THEOREM BarrierQuiet == Spec => NoJobRunsUnderBarrier
  <1> DEFINE Quiet == bar => \A w \in Workers : pc'[w] = "run" => pc[w] = "run"
  <1>1. ASSUME IInv, [Next]_vars, bar, NEW w \in Workers, pc'[w] = "run"
        PROVE  pc[w] = "run"
    <2>1. queue_empty(q)
      BY <1>1 DEF IInv, ControlInv, FlagInv, EmptyInv
    <2>2. job'[w] # NoJob
      BY <1>1, Inductive DEF IInv, ControlInv, JobInv
    <2>3. q \in QueueType /\ NoJob \notin Queued(q)
      BY <1>1 DEF IInv, TypeOK, PlaceInv
    <2>4. ASSUME NEW v \in Workers, Take(v) PROVE job' = job
      BY <1>1, <2>1, <2>4 DEF Take, queue_pop_result, IInv, TypeOK, ControlInv, JobInv
    <2>5. ASSUME NEW v \in Workers, Run(v) PROVE \A u \in Workers : job'[u] # NoJob => job[u] # NoJob
      BY <1>1, <2>5 DEF Run, IInv, TypeOK
    <2>6. ASSUME NEW v \in Workers, WorkerStep(v), ~Take(v), ~Run(v) PROVE job' = job
      BY <2>6 DEF WorkerStep, Lock, Test, Sleep, Wake, CheckDone, CheckBar,
           WorkerArriveFirst, WorkerLeaveFirst, WorkerArriveSecond, WorkerLeaveSecond
    <2>7. ASSUME ClientStep \/ ClientCall \/ (\E t \in Threads : SpuriousWakeup(t))
          PROVE  job' = job
      BY <2>7 DEF ClientStep, BarrierTest, BarrierBroadcast, ClientArriveFirst,
           BarrierReset, ClientArriveSecond, BarrierReturn, StopBroadcast, StopReturn,
           ClientCall, Schedule, BarrierCall, StopCall, Destroy, SpuriousWakeup
    <2>8. job[w] # NoJob
      BY <1>1, <2>2, <2>4, <2>5, <2>6, <2>7 DEF Next, vars
    <2>9. QED BY <1>1, <2>8 DEF IInv, ControlInv, JobInv
  <1>2. IInv /\ [Next]_vars => [Quiet]_vars
    BY <1>1
  <1>3. QED BY <1>2, Invariance, PTL DEF Spec, NoJobRunsUnderBarrier

-----------------------------------------------------------------------------
(***************************************************************************)
(* The scheduler implements JobPool: its initial state is one of the pool, *)
(* and every step of a thread is a step of the pool or leaves it as it is. *)
(* Four steps change the pool's jobs or answer a call: a push appends to   *)
(* the pending jobs, a pop starts the oldest, the end of query_job_run     *)
(* finishes one, and a call returns.  That barrier and stop return only    *)
(* when the pool is drained is where the inductive invariant is needed.    *)
(***************************************************************************)
(* What the pool can see. *)
Visible == <<q, job, finished, rejected, WaitsFor>>

(* Hidden: a step that changes nothing of this is a stutter of the pool.   *)
LEMMA Hidden == UNCHANGED Visible => UNCHANGED Pool!vars
  BY DEF Visible, Pool!vars

(* WorkerKeepsClient: the client is where it was after a worker's step.    *)
LEMMA WorkerKeepsClient ==
  ASSUME TypeOK, NEW w \in Workers, WorkerStep(w)
  PROVE  pc'[Client] = pc[Client] /\ WaitsFor' = WaitsFor
  <1>1. Client # w /\ pc \in [Threads -> WorkerLabels \cup ClientLabels] /\ Client \in Threads
    BY ThreadsAssumption DEF TypeOK, Threads
  <1>2. PICK label : pc' = [pc EXCEPT ![w] = label]
    BY DEF WorkerStep, Lock, Test, Sleep, Wake, Take, Run, CheckDone, CheckBar,
           WorkerArriveFirst, WorkerLeaveFirst, WorkerArriveSecond,
           WorkerLeaveSecond, Goto
  <1>3. pc'[Client] = pc[Client]
    BY <1>1, <1>2
  <1>4. QED BY <1>3 DEF WaitsFor

(* ClientAt: what the pool sees of each label.                             *)
LEMMA ClientAt ==
  ASSUME TypeOK, NEW label \in ClientLabels, Goto(Client, label)
  PROVE  /\ pc'[Client] = label
         /\ label = "idle" => WaitsFor' = "active"
         /\ label \in {"stop_bcast", "join"} => WaitsFor' = "stopping"
         /\ label \in {"stopped", "destroyed"} => WaitsFor' = "stopped"
         /\ label \notin {"idle", "stop_bcast", "join", "stopped", "destroyed"}
              => WaitsFor' = "barrier"
  <1>1. pc'[Client] = label
    BY DEF Goto, TypeOK, Threads
  <1>2. QED BY <1>1 DEF WaitsFor

(* ClientIs: the same of the label before a step.                          *)
LEMMA ClientIs ==
  /\ pc[Client] = "idle" => WaitsFor = "active"
  /\ pc[Client] \in {"stop_bcast", "join"} => WaitsFor = "stopping"
  /\ pc[Client] \in {"stopped", "destroyed"} => WaitsFor = "stopped"
  /\ pc[Client] \notin {"idle", "stop_bcast", "join", "stopped", "destroyed"}
       => WaitsFor = "barrier"
  BY DEF WaitsFor

-----------------------------------------------------------------------------
(* ScheduleSubmits: job_scheduler_schedule submits a job the pool does not *)
(* know, which joins the pending ones unless the queue is full.            *)
LEMMA ScheduleSubmits ==
  ASSUME IInv, NEW j \in Jobs, Schedule(j)
  PROVE  Pool!Submit(j)
  <1>1. q \in QueueType
    BY DEF IInv, TypeOK
  <1>2. /\ pc[Client] = "idle" /\ j \notin submitted
        /\ q' = queue_push(q, j)
        /\ rejected' = IF queue_full(q) THEN rejected \cup {j} ELSE rejected
        /\ UNCHANGED <<job, finished, pc>>
    BY DEF Schedule
  <1>3. WaitsFor = "active" /\ WaitsFor' = WaitsFor
    BY <1>2 DEF WaitsFor
  <1>4. j \notin Pool!Known
    <2>1. j # NoJob
      BY NoJobAssumption
    <2>2. j \notin Queued(q) \cup Held \cup finished \cup rejected
      BY <1>2 DEF IInv, PlaceInv, NoJobLost
    <2>3. j \notin {Contents(q)[k] : k \in 1 .. Len(Contents(q))}
      BY <1>1, <2>2, ContentsQueued
    <2>4. QED BY <2>1, <2>2, <2>3 DEF Pool!Known, Held
  <1>5. IF Len(Contents(q)) < QueueSize - 1
          THEN Contents(q)' = Append(Contents(q), j) /\ UNCHANGED rejected
          ELSE rejected' = rejected \cup {j} /\ UNCHANGED Contents(q)
    <2>1. queue_full(q) <=> ~(Len(Contents(q)) < QueueSize - 1)
      BY <1>1, ContentsSeq, QueueSizeAssumption
    <2>2. CASE queue_full(q)
      BY <1>2, <2>1, <2>2 DEF queue_push
    <2>3. CASE ~queue_full(q)
      BY <1>1, <1>2, <2>1, <2>3, PushContents
    <2>4. QED BY <2>2, <2>3
  <1>6. QED BY <1>2, <1>3, <1>4, <1>5 DEF Pool!Submit

(* TakeStarts: a pop starts the oldest pending job on an idle worker, or   *)
(* finds none.                                                             *)
LEMMA TakeStarts ==
  ASSUME IInv, NEW w \in Workers, Take(w)
  PROVE  Pool!Start(w) \/ UNCHANGED Pool!vars
  <1>1. q \in QueueType /\ job \in [Workers -> Jobs \cup {NoJob}] /\ job[w] = NoJob
    BY DEF IInv, TypeOK, ControlInv, JobInv, Take
  <1>2. /\ q' = queue_pop(q) /\ job' = [job EXCEPT ![w] = queue_pop_result(q)]
        /\ UNCHANGED <<finished, rejected>>
    BY DEF Take, history
  <1>3. WaitsFor' = WaitsFor
    BY WorkerKeepsClient DEF IInv, WorkerStep
  <1>4. CASE queue_empty(q)
    <2>1. q' = q /\ job' = job
      BY <1>1, <1>2, <1>4 DEF queue_pop, queue_pop_result
    <2>2. QED BY <1>2, <1>3, <2>1, Hidden DEF Visible
  <1>5. CASE ~queue_empty(q)
    <2>1. /\ Contents(q) # <<>> /\ Head(Contents(q)) = queue_pop_result(q)
          /\ Contents(q)' = Tail(Contents(q))
      BY <1>1, <1>2, <1>5, PopContents
    <2>2. QED BY <1>1, <1>2, <1>3, <2>1 DEF Pool!Start
  <1>6. QED BY <1>4, <1>5

(* RunFinishes: the end of query_job_run finishes the worker's job.        *)
LEMMA RunFinishes ==
  ASSUME IInv, NEW w \in Workers, Run(w)
  PROVE  Pool!Finish(w)
  <1>1. job[w] # NoJob
    BY DEF IInv, ControlInv, JobInv, Run
  <1>2. /\ finished' = finished \cup {job[w]} /\ job' = [job EXCEPT ![w] = NoJob]
        /\ UNCHANGED <<q, rejected>>
    BY DEF Run
  <1>3. WaitsFor' = WaitsFor
    BY WorkerKeepsClient DEF IInv, WorkerStep
  <1>4. QED BY <1>1, <1>2, <1>3 DEF Pool!Finish

(* Drained: no job is pending or running when the client is on its way out *)
(* of a barrier, and when all workers have exited.                         *)
LEMMA DrainedWhenQuiet ==
  ASSUME IInv,
         pc[Client] = "in2" \/ \A w \in Workers : pc[w] = "exited"
  PROVE  Pool!Drained
  <1>1. queue_empty(q) /\ \A w \in Workers : pc[w] # "run"
    BY ThreadsAssumption DEF IInv, ControlInv, EmptyInv, QuietInv
  <1>2. q \in QueueType /\ job \in [Workers -> Jobs \cup {NoJob}]
    BY DEF IInv, TypeOK
  <1>3. \A w \in Workers : job[w] = NoJob
    BY <1>1 DEF IInv, ControlInv, JobInv
  <1>4. job = Pool!Nobody
    BY <1>2, <1>3 DEF Pool!Nobody
  <1>5. Contents(q) = <<>>
    BY <1>1, <1>2, ContentsSeq
  <1>6. QED BY <1>4, <1>5 DEF Pool!Drained

(* HiddenWorkerStep, HiddenClientStep: the steps the pool does not see.    *)
LEMMA HiddenWorkerStep ==
  ASSUME IInv, NEW w \in Workers, WorkerStep(w), ~Take(w), ~Run(w)
  PROVE  UNCHANGED Pool!vars
  <1>1. UNCHANGED <<q, job, finished, rejected>>
    BY DEF WorkerStep, Lock, Test, Sleep, Wake, CheckDone, CheckBar,
           WorkerArriveFirst, WorkerLeaveFirst, WorkerArriveSecond,
           WorkerLeaveSecond, history
  <1>2. WaitsFor' = WaitsFor
    BY WorkerKeepsClient DEF IInv
  <1>3. QED BY <1>1, <1>2, Hidden DEF Visible

LEMMA HiddenClientStep ==
  ASSUME IInv,
         \/ BarrierTest \/ BarrierBroadcast \/ ClientArriveFirst \/ BarrierReset
         \/ ClientArriveSecond \/ StopBroadcast \/ Destroy
         \/ \E t \in Threads : SpuriousWakeup(t)
  PROVE  UNCHANGED Pool!vars
  <1>1. UNCHANGED <<q, job, finished, rejected>>
    BY DEF BarrierTest, BarrierBroadcast, ClientArriveFirst, BarrierReset,
           ClientArriveSecond, StopBroadcast, Destroy, SpuriousWakeup, history
  <1> USE DEF IInv
  <1>2. WaitsFor' = WaitsFor
    <2>1. CASE BarrierTest
      BY <2>1, ClientIs, ClientAt DEF BarrierTest, ClientLabels
    <2>2. CASE BarrierBroadcast
      BY <2>2, ClientIs, ClientAt DEF BarrierBroadcast, ClientLabels
    <2>3. CASE ClientArriveFirst
      BY <2>3, ClientIs, ClientAt DEF ClientArriveFirst, ClientLabels
    <2>4. CASE BarrierReset
      BY <2>4, ClientIs, ClientAt DEF BarrierReset, ClientLabels
    <2>5. CASE ClientArriveSecond
      BY <2>5, ClientIs, ClientAt DEF ClientArriveSecond, ClientLabels
    <2>6. CASE StopBroadcast
      BY <2>6, ClientIs, ClientAt DEF StopBroadcast, ClientLabels
    <2>7. CASE Destroy
      BY <2>7, ClientIs, ClientAt DEF Destroy, ClientLabels
    <2>8. CASE \E t \in Threads : SpuriousWakeup(t)
      BY <2>8 DEF SpuriousWakeup, WaitsFor
    <2>9. QED BY <2>1, <2>2, <2>3, <2>4, <2>5, <2>6, <2>7, <2>8
  <1>3. QED BY <1>1, <1>2, Hidden DEF Visible

(* CallsAnswered: the two calls that wait, and their returns.              *)
LEMMA CallsAnswered ==
  ASSUME IInv
  PROVE  /\ BarrierCall => Pool!Call("barrier")
         /\ StopCall => Pool!Call("stopping")
         /\ BarrierReturn => Pool!BarrierReturn
         /\ StopReturn => Pool!StopReturn
  <1> USE DEF IInv
  <1>1. ASSUME BarrierCall PROVE Pool!Call("barrier")
    <2>1. WaitsFor = "active" /\ WaitsFor' = "barrier"
      BY <1>1, ClientIs, ClientAt DEF BarrierCall, ClientLabels
    <2>2. QED BY <1>1, <2>1 DEF BarrierCall, Pool!Call
  <1>2. ASSUME StopCall PROVE Pool!Call("stopping")
    <2>1. WaitsFor = "active" /\ WaitsFor' = "stopping"
      BY <1>2, ClientIs, ClientAt DEF StopCall, ClientLabels
    <2>2. QED BY <1>2, <2>1 DEF StopCall, Pool!Call, history
  <1>3. ASSUME BarrierReturn PROVE Pool!BarrierReturn
    <2>1. WaitsFor = "barrier" /\ WaitsFor' = "active"
      BY <1>3, ClientIs, ClientAt DEF BarrierReturn, ClientLabels
    <2>2. Pool!Drained
      BY <1>3, DrainedWhenQuiet DEF BarrierReturn
    <2>3. QED BY <1>3, <2>1, <2>2 DEF BarrierReturn, Pool!BarrierReturn, history
  <1>4. ASSUME StopReturn PROVE Pool!StopReturn
    <2>1. WaitsFor = "stopping" /\ WaitsFor' = "stopped"
      BY <1>4, ClientIs, ClientAt DEF StopReturn, ClientLabels
    <2>2. Pool!Drained
      BY <1>4, DrainedWhenQuiet DEF StopReturn
    <2>3. QED BY <1>4, <2>1, <2>2 DEF StopReturn, Pool!StopReturn, history
  <1>5. QED BY <1>1, <1>2, <1>3, <1>4

-----------------------------------------------------------------------------
(* PoolInit: job_scheduler_init leaves a pool without jobs.                *)
LEMMA PoolInit == Init => Pool!Init
  <1> SUFFICES ASSUME Init PROVE Pool!Init
    OBVIOUS
  <1>1. Contents(q) = <<>>
    BY CreateType, ContentsSeq DEF Init
  <1>2. WaitsFor = "active"
    BY ClientIs DEF Init, Threads
  <1>3. QED BY <1>1, <1>2 DEF Init, Pool!Init, Pool!Nobody

(* PoolStep: every step of the scheduler is a step of the pool, or none.   *)
LEMMA PoolStep == IInv /\ [Next]_vars => [Pool!Next]_(Pool!vars)
  <1> SUFFICES ASSUME IInv, [Next]_vars PROVE Pool!Next \/ UNCHANGED Pool!vars
    OBVIOUS
  <1>1. ASSUME NEW w \in Workers, WorkerStep(w) PROVE Pool!Next \/ UNCHANGED Pool!vars
    BY <1>1, TakeStarts, RunFinishes, HiddenWorkerStep DEF Pool!Next
  <1>2. ASSUME ClientStep PROVE Pool!Next \/ UNCHANGED Pool!vars
    BY <1>2, CallsAnswered, HiddenClientStep DEF ClientStep, Pool!Next
  <1>3. ASSUME ClientCall PROVE Pool!Next \/ UNCHANGED Pool!vars
    BY <1>3, ScheduleSubmits, CallsAnswered, HiddenClientStep DEF ClientCall, Pool!Next
  <1>4. ASSUME NEW t \in Threads, SpuriousWakeup(t) PROVE UNCHANGED Pool!vars
    BY <1>4, HiddenClientStep
  <1>5. ASSUME UNCHANGED vars PROVE UNCHANGED Pool!vars
    BY <1>5, Hidden DEF vars, history, Visible, WaitsFor
  <1>6. QED BY <1>1, <1>2, <1>3, <1>4, <1>5 DEF Next

(* PoolImplemented: whatever the threads of the scheduler do, and for any  *)
(* number of them, the client sees a bounded first-in first-out pool:      *)
(* jobs start in the order of job_scheduler_schedule, each once, and       *)
(* job_scheduler_barrier and job_scheduler_stop return when it is drained  *)
(* (BehavesAsPool).                                                        *)
THEOREM PoolImplemented == Spec => BehavesAsPool
  <1>1. QED BY PoolInit, PoolStep, Invariance, PTL DEF Spec, BehavesAsPool
=============================================================================
