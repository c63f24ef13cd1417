---------------------------- MODULE CThreadPool ----------------------------
(***************************************************************************)
(* The thread pool of cthreadpool/threadpool.c.  The tasks of the pool are *)
(* an array; a task is always in the queue of the free tasks, in the queue *)
(* of the tasks to run, or in the hands of the adder that fills it or of   *)
(* the worker that runs it.  Each queue is a ring with its own mutex and   *)
(* condition variable.                                                     *)
(*                                                                         *)
(* A step is one critical section, or what a thread does outside of them   *)
(* on data that others see: reading stop_flag, running a routine.  The     *)
(* callers of threadpool_add_task have returned when threadpool_free is    *)
(* called, as in example.c: the pool is freed under them otherwise.        *)
(***************************************************************************)
EXTENDS Integers, Sequences, FiniteSets

CONSTANTS THREAD_POOL_QUEUE_SIZE,
          Worker,      \* the threads of thr_arr
          Adder,       \* the threads that call threadpool_add_task
          Job,         \* the calls they make, each at most once
          NullJob,     \* the calls whose routine is NULL
          NULL

\* A thread is not one of the names that Places gives to the cells of a queue.
ASSUME PoolAssumption ==
  /\ THREAD_POOL_QUEUE_SIZE \in Nat \ {0}
  /\ NullJob \subseteq Job
  /\ NULL \notin Int \cup Job
  /\ Worker \cap Adder = {}
  /\ (Worker \cup Adder) \cap ({"tasks", "free"} \X Nat) = {}

Task == 0 .. THREAD_POOL_QUEUE_SIZE - 1
Cell == 0 .. THREAD_POOL_QUEUE_SIZE - 1

VARIABLES
  tasks_queue, free_tasks_queue,  \* the rings: [head, tail, num_of_cells, cells]
  routine,     \* routine[k]: the job task k was filled with, or NULL
  stop_flag,
  worker,      \* worker[w]: where w is in worker_thr_routine
  adder,       \* adder[a]: where a is in threadpool_add_task
  freeing,     \* where stop_worker_thr_routines_cb is
  task,        \* task[t]: the local task of a worker or adder
  call,        \* call[a]: [job, blocking], the arguments of the call of a
  result,      \* result[j]: what threadpool_add_task returned for j
  ran,         \* ran[j]: times the routine of j was run
  failed       \* an error path of a queue was taken

vars == <<tasks_queue, free_tasks_queue, routine, stop_flag, worker, adder,
          freeing, task, call, result, ran, failed>>

-----------------------------------------------------------------------------
(* The rings.                                                               *)

\* Mutant: the index does not wrap.
NextCell_NoWrap(c) == c + 1

NextCell(c) == IF c + 1 = THREAD_POOL_QUEUE_SIZE THEN 0 ELSE c + 1

IsEmpty(q) == q.num_of_cells = 0

\* The two error returns of threadpool_queue_enqueue.
EnqueueFails(q) ==
  q.num_of_cells = THREAD_POOL_QUEUE_SIZE \/ q.cells[q.tail] # NULL

Enqueued(q, k) == [head |-> q.head, tail |-> NextCell(q.tail),
                   num_of_cells |-> q.num_of_cells + 1,
                   cells |-> [q.cells EXCEPT ![q.tail] = k]]

First(q) == q.cells[q.head]

\* Mutants: the cell keeps its pointer; head is not reset with tail.
Dequeued_Kept(q) ==
  LET last == q.num_of_cells = 1
  IN [head |-> IF last THEN 0 ELSE NextCell(q.head),
      tail |-> IF last THEN 0 ELSE q.tail,
      num_of_cells |-> q.num_of_cells - 1, cells |-> q.cells]
Dequeued_TailOnly(q) ==
  [head |-> NextCell(q.head),
   tail |-> IF q.num_of_cells = 1 THEN 0 ELSE q.tail,
   num_of_cells |-> q.num_of_cells - 1,
   cells |-> [q.cells EXCEPT ![q.head] = NULL]]

\* A queue that becomes empty starts again at cell 0.
Dequeued(q) ==
  LET last == q.num_of_cells = 1
  IN [head |-> IF last THEN 0 ELSE NextCell(q.head),
      tail |-> IF last THEN 0 ELSE q.tail,
      num_of_cells |-> q.num_of_cells - 1,
      cells |-> [q.cells EXCEPT ![q.head] = NULL]]

\* The elements of a ring, in order.
Elements(q) == [i \in 1 .. q.num_of_cells |->
                  q.cells[(q.head + i - 1) % THREAD_POOL_QUEUE_SIZE]]

\* Mutants: waiters are woken when the queue holds two tasks; never.
MustNotify_Two(q) == q.num_of_cells = 2
MustNotify_Never(q) == FALSE

\* A thread that made a queue non-empty wakes all that wait for it.
MustNotify(q) == q.num_of_cells = 1

WakeAll(threads, pcs, there) ==
  [t \in threads |-> IF pcs[t] = "wait" THEN there ELSE pcs[t]]

-----------------------------------------------------------------------------
\* threadpool_init: all tasks are free, the workers are started.
Init ==
  /\ tasks_queue = [head |-> 0, tail |-> 0, num_of_cells |-> 0,
                    cells |-> [c \in Cell |-> NULL]]
  /\ free_tasks_queue = [head |-> 0, tail |-> 0,
                         num_of_cells |-> THREAD_POOL_QUEUE_SIZE,
                         cells |-> [c \in Cell |-> c]]
  /\ routine = [k \in Task |-> NULL]
  /\ stop_flag = FALSE
  /\ worker = [w \in Worker |-> "get"]
  /\ adder = [a \in Adder |-> "idle"]
  /\ freeing = "no"
  /\ task = [t \in Worker \cup Adder |-> NULL]
  /\ call = [a \in Adder |-> NULL]
  /\ result = [j \in Job |-> NULL]
  /\ ran = [j \in Job |-> 0]
  /\ failed = FALSE

-----------------------------------------------------------------------------
(* threadpool_add_task.                                                     *)

InCall(j) == \E b \in Adder : adder[b] # "idle" /\ call[b].job = j

\* A thread calls for a job not given to the pool yet, before the pool is freed.
CallAdd(a, j, blocking) ==
  /\ adder[a] = "idle" /\ freeing = "no"
  /\ result[j] = NULL /\ ~InCall(j)
  /\ call' = [call EXCEPT ![a] = [job |-> j, blocking |-> blocking]]
  /\ adder' = [adder EXCEPT ![a] = "obtain"]
  /\ UNCHANGED <<tasks_queue, free_tasks_queue, routine, stop_flag, worker,
                 freeing, task, result, ran, failed>>

Return(a, code) ==
  /\ result' = [result EXCEPT ![call[a].job] = code]
  /\ call' = [call EXCEPT ![a] = NULL]
  /\ task' = [task EXCEPT ![a] = NULL]

\* No free task: the call returns -2, or waits on free_tasks_cond.
AddOverloaded(a) ==
  /\ adder[a] = "obtain" /\ IsEmpty(free_tasks_queue) /\ ~call[a].blocking
  /\ Return(a, -2)
  /\ adder' = [adder EXCEPT ![a] = "idle"]
  /\ UNCHANGED <<tasks_queue, free_tasks_queue, routine, stop_flag, worker,
                 freeing, ran, failed>>

AddWait(a) ==
  /\ adder[a] = "obtain" /\ IsEmpty(free_tasks_queue) /\ call[a].blocking
  /\ adder' = [adder EXCEPT ![a] = "wait"]
  /\ UNCHANGED <<tasks_queue, free_tasks_queue, routine, stop_flag, worker,
                 freeing, task, call, result, ran, failed>>

\* Obtains a free task; after the unlock it is filled, seen by nobody else.
AddObtain(a) ==
  /\ adder[a] = "obtain" /\ ~IsEmpty(free_tasks_queue)
  /\ task' = [task EXCEPT ![a] = First(free_tasks_queue)]
  /\ free_tasks_queue' = Dequeued(free_tasks_queue)
  /\ routine' = [routine EXCEPT ![First(free_tasks_queue)] = call[a].job]
  /\ adder' = [adder EXCEPT ![a] = "enqueue"]
  /\ UNCHANGED <<tasks_queue, stop_flag, worker, freeing, call, result, ran,
                 failed>>

AddEnqueue(a) ==
  /\ adder[a] = "enqueue"
  /\ IF EnqueueFails(tasks_queue)
     THEN failed' = TRUE /\ Return(a, -1) /\ UNCHANGED <<tasks_queue, worker>>
     ELSE /\ tasks_queue' = Enqueued(tasks_queue, task[a])
          /\ worker' = IF MustNotify(tasks_queue')
                       THEN WakeAll(Worker, worker, "lock") ELSE worker
          /\ Return(a, 0)
          /\ UNCHANGED failed
  /\ adder' = [adder EXCEPT ![a] = "idle"]
  /\ UNCHANGED <<free_tasks_queue, routine, stop_flag, freeing, ran>>

-----------------------------------------------------------------------------
(* threadpool_task_get_task and worker_thr_routine.                         *)

\* The first test of stop_flag is outside of the mutex.
CheckStop(w) ==
  /\ worker[w] = "get"
  /\ worker' = [worker EXCEPT ![w] = IF stop_flag THEN "exit" ELSE "lock"]
  /\ UNCHANGED <<tasks_queue, free_tasks_queue, routine, stop_flag, adder,
                 freeing, task, call, result, ran, failed>>

Wait(w) ==
  /\ worker[w] = "lock" /\ IsEmpty(tasks_queue) /\ ~stop_flag
  /\ worker' = [worker EXCEPT ![w] = "wait"]
  /\ UNCHANGED <<tasks_queue, free_tasks_queue, routine, stop_flag, adder,
                 freeing, task, call, result, ran, failed>>

ExitStopped(w) ==
  /\ worker[w] = "lock" /\ stop_flag
  /\ worker' = [worker EXCEPT ![w] = "exit"]
  /\ UNCHANGED <<tasks_queue, free_tasks_queue, routine, stop_flag, adder,
                 freeing, task, call, result, ran, failed>>

\* Mutant: stop_flag is not tested again after the wait.
MayGetTask_NoTest(w) == worker[w] = "lock" /\ ~IsEmpty(tasks_queue)

MayGetTask(w) == worker[w] = "lock" /\ ~IsEmpty(tasks_queue) /\ ~stop_flag

GetTask(w) ==
  LET k == First(tasks_queue)
  IN /\ MayGetTask(w) /\ routine[k] \notin NullJob
     /\ tasks_queue' = Dequeued(tasks_queue)
     /\ task' = [task EXCEPT ![w] = k]
     /\ worker' = [worker EXCEPT ![w] = "run"]
     /\ UNCHANGED <<free_tasks_queue, routine, stop_flag, adder, freeing,
                    call, result, ran, failed>>

\* A task without a routine is dropped: it is not given back as a free task.
GetNullTask(w) ==
  /\ MayGetTask(w) /\ routine[First(tasks_queue)] \in NullJob
  /\ tasks_queue' = Dequeued(tasks_queue)
  /\ worker' = [worker EXCEPT ![w] = "get"]
  /\ UNCHANGED <<free_tasks_queue, routine, stop_flag, adder, freeing, task,
                 call, result, ran, failed>>

\* The routine returns and threadpool_task_init clears the task.
EndRoutine(w) ==
  /\ worker[w] = "run"
  /\ ran' = [ran EXCEPT ![routine[task[w]]] = @ + 1]
  /\ routine' = [routine EXCEPT ![task[w]] = NULL]
  /\ worker' = [worker EXCEPT ![w] = "release"]
  /\ UNCHANGED <<tasks_queue, free_tasks_queue, stop_flag, adder, freeing,
                 task, call, result, failed>>

Release(w) ==
  /\ worker[w] = "release"
  /\ IF EnqueueFails(free_tasks_queue)
     THEN /\ failed' = TRUE
          /\ worker' = [worker EXCEPT ![w] = "exit"]
          /\ UNCHANGED <<free_tasks_queue, adder>>
     ELSE /\ free_tasks_queue' = Enqueued(free_tasks_queue, task[w])
          /\ adder' = IF MustNotify(free_tasks_queue')
                      THEN WakeAll(Adder, adder, "obtain") ELSE adder
          /\ worker' = [worker EXCEPT ![w] = "get"]
          /\ UNCHANGED failed
  /\ task' = [task EXCEPT ![w] = NULL]
  /\ UNCHANGED <<tasks_queue, routine, stop_flag, freeing, call, result, ran>>

\* pthread_cond_wait may return without a signal.
SpuriousWakeup ==
  /\ \/ \E w \in Worker : /\ worker[w] = "wait"
                          /\ worker' = [worker EXCEPT ![w] = "lock"]
                          /\ UNCHANGED adder
     \/ \E a \in Adder : /\ adder[a] = "wait"
                         /\ adder' = [adder EXCEPT ![a] = "obtain"]
                         /\ UNCHANGED worker
  /\ UNCHANGED <<tasks_queue, free_tasks_queue, routine, stop_flag, freeing,
                 task, call, result, ran, failed>>

-----------------------------------------------------------------------------
(* threadpool_free, blocking or in a thread of its own.                     *)

RaiseStop ==
  /\ freeing = "no" /\ \A a \in Adder : adder[a] = "idle"
  /\ stop_flag' = TRUE
  /\ freeing' = "broadcast"
  /\ UNCHANGED <<tasks_queue, free_tasks_queue, routine, worker, adder, task,
                 call, result, ran, failed>>

\* Mutant: the sleeping workers are not woken.
WokenToStop_None == worker

WokenToStop == WakeAll(Worker, worker, "lock")

BroadcastStop ==
  /\ freeing = "broadcast"
  /\ worker' = WokenToStop
  /\ freeing' = "join"
  /\ UNCHANGED <<tasks_queue, free_tasks_queue, routine, stop_flag, adder,
                 task, call, result, ran, failed>>

\* The joins, and the release of the memory.
JoinAll ==
  /\ freeing = "join" /\ \A w \in Worker : worker[w] = "exit"
  /\ freeing' = "freed"
  /\ UNCHANGED <<tasks_queue, free_tasks_queue, routine, stop_flag, worker,
                 adder, task, call, result, ran, failed>>

Terminated == freeing = "freed" /\ UNCHANGED vars

WorkerStep(w) ==
  \/ CheckStop(w) \/ Wait(w) \/ ExitStopped(w) \/ GetTask(w) \/ GetNullTask(w)
  \/ EndRoutine(w) \/ Release(w)

AddStep(a) == AddOverloaded(a) \/ AddWait(a) \/ AddObtain(a) \/ AddEnqueue(a)

FreeStep == BroadcastStop \/ JoinAll

Next ==
  \/ \E a \in Adder, j \in Job, blocking \in BOOLEAN : CallAdd(a, j, blocking)
  \/ \E a \in Adder : AddStep(a)
  \/ \E w \in Worker : WorkerStep(w)
  \/ SpuriousWakeup
  \/ RaiseStop \/ FreeStep
  \/ Terminated

Spec == Init /\ [][Next]_vars

\* Every thread is scheduled and routines return; no caller has to call, no
\* wake-up is spurious by necessity.
FairSpec ==
  /\ Spec
  /\ \A w \in Worker : WF_vars(WorkerStep(w))
  /\ \A a \in Adder : WF_vars(AddStep(a))
  /\ WF_vars(FreeStep)

-----------------------------------------------------------------------------
(* Properties.                                                              *)

Ring == [head : Cell, tail : Cell, num_of_cells : 0 .. THREAD_POOL_QUEUE_SIZE,
         cells : [Cell -> Task \cup {NULL}]]

TypeOK ==
  /\ tasks_queue \in Ring
  /\ free_tasks_queue \in Ring
  /\ routine \in [Task -> Job \cup {NULL}]
  /\ stop_flag \in BOOLEAN
  /\ worker \in [Worker -> {"get", "lock", "wait", "run", "release", "exit"}]
  /\ adder \in [Adder -> {"idle", "obtain", "wait", "enqueue"}]
  /\ freeing \in {"no", "broadcast", "join", "freed"}
  /\ task \in [Worker \cup Adder -> Task \cup {NULL}]
  /\ call \in [Adder -> [job : Job, blocking : BOOLEAN] \cup {NULL}]
  /\ result \in [Job -> {0, -1, -2, NULL}]
  /\ ran \in [Job -> Nat]
  /\ failed \in BOOLEAN

\* The places of the pool, and the task in each of them.
Places == ({"tasks", "free"} \X Cell) \cup (Worker \cup Adder)
InRing(q, c) == (c - q.head) % THREAD_POOL_QUEUE_SIZE < q.num_of_cells
AtPlace(x) ==
  IF x \in Worker \cup Adder THEN task[x]
  ELSE LET q == IF x[1] = "tasks" THEN tasks_queue ELSE free_tasks_queue
       IN IF InRing(q, x[2]) THEN q.cells[x[2]] ELSE NULL

\* A task is never in two places, and it is in one unless it was filled with a
\* NULL routine: adders and workers hand tasks over without losing one.
OneOwner ==
  \A k \in Task :
    /\ \A x, y \in Places : AtPlace(x) = k /\ AtPlace(y) = k => x = y
    /\ (\E x \in Places : AtPlace(x) = k) \/ routine[k] \in NullJob

\* threadpool_queue_enqueue never finds a full ring or an occupied cell, so
\* threadpool_add_task never returns -1 and no worker dies of an error.
NoFailure == ~failed /\ \A j \in Job : result[j] # -1

\* A thread sleeps only while there is nothing for it: waking the sleepers of a
\* queue only when it stops being empty (size 1) loses no wake-up, nor does
\* raising stop_flag outside of the mutex.
NoLostWakeup ==
  /\ (\E w \in Worker : worker[w] = "wait") =>
       IsEmpty(tasks_queue) /\ freeing \in {"no", "broadcast"}
  /\ (\E a \in Adder : adder[a] = "wait") => IsEmpty(free_tasks_queue)

\* The pool implements the promise of TaskPool: first come first served, each
\* job once, no more than the size of the queue, none started after the stop.
Pool == INSTANCE TaskPool WITH
  Capacity <- THREAD_POOL_QUEUE_SIZE,
  queue    <- [i \in 1 .. tasks_queue.num_of_cells |-> routine[Elements(tasks_queue)[i]]],
  running  <- {routine[task[w]] : w \in {v \in Worker : worker[v] = "run"}},
  accepted <- {j \in Job : result[j] = 0},
  stopped  <- stop_flag
ImplementsPool == Pool!Spec

\* threadpool_free ends: every worker notices stop_flag, wherever it was.
FreeReturns == (freeing = "broadcast") ~> (freeing = "freed")

\* An accepted job is run, or the pool is stopped.
AcceptedJobsRun ==
  \A j \in Job \ NullJob : (result[j] = 0) ~> (ran[j] = 1 \/ stop_flag)

\* A task filled with a NULL routine and dropped by a worker is in no place.
AllTasksLost == \A k \in Task : routine[k] \in NullJob /\ \A x \in Places : AtPlace(x) # k

\* A blocking threadpool_add_task returns, unless every task was lost to a NULL
\* routine: then the caller waits for ever, although nothing is queued or run.
AddReturns == \A a \in Adder : (adder[a] = "wait") ~> (adder[a] = "idle" \/ AllTasksLost)
=============================================================================
