----------------------------- MODULE AsyncPool -----------------------------
(***************************************************************************)
(* The pool of threadPoolIntel/threadpool.c: a linked list of tasks, a     *)
(* mutex and a condition variable.  A thread that pushes allocates a node  *)
(* and links it after last; a worker takes the node first points to and    *)
(* frees it.  Removing the only node leaves last pointing to it.           *)
(*                                                                         *)
(* A step is one critical section, or what a thread does outside of them   *)
(* with memory: allocating or freeing a node.  The code writes through     *)
(* last also when it points to a freed node.  The write is modelled as the *)
(* build with the usual allocator does it: it lands in the memory of the   *)
(* node, which malloc may or may not have handed out again.                *)
(***************************************************************************)
EXTENDS Integers, Sequences, FiniteSets

CONSTANTS Worker,    \* the threads of the pool
          Caller,    \* the threads that call pthread_async_exec
          Task,      \* the calls they make, each at most once
          Node,      \* the addresses malloc may return
          NULL

ASSUME AsyncAssumption ==
  /\ IsFiniteSet(Worker) /\ IsFiniteSet(Task) /\ IsFiniteSet(Node)
  /\ NULL \notin Node \cup Task \cup {0, -1}
  /\ Worker \cap Caller = {}

VARIABLES
  first, last,   \* the queue
  terminated,
  next,          \* next[n]: the field of node n
  data,          \* data[n]: the task node n was filled with
  heap,          \* heap[n]: whether node n is allocated
  worker,        \* worker[w]: where w is in pthread_pool_routine
  caller,        \* caller[c]: where c is in pthread_pool_exec
  qtask,         \* qtask[t]: the local node of a worker or caller
  task,          \* task[w]: the copy of the task worker w runs
  call,          \* call[c]: the task c was called with
  result,        \* result[j]: what pthread_pool_exec returned for j
  thread_init,
  pushed,        \* the tasks linked so far, in order
  popped         \* the number of nodes taken from the list

vars == <<first, last, terminated, next, data, heap, worker, caller, qtask,
          task, call, result, thread_init, pushed, popped>>

memory  == <<next, data, heap>>
history == <<pushed, popped>>

\* pthread_pool_init, run before main: an empty queue, the workers created.
Init ==
  /\ first = NULL /\ last = NULL
  /\ terminated = FALSE
  /\ next = [n \in Node |-> NULL]
  /\ data = [n \in Node |-> NULL]
  /\ heap = [n \in Node |-> "none"]
  /\ worker = [w \in Worker |-> "start"]
  /\ caller = [c \in Caller |-> "idle"]
  /\ qtask = [t \in Worker \cup Caller |-> NULL]
  /\ task = [w \in Worker |-> NULL]
  /\ call = [c \in Caller |-> NULL]
  /\ result = [j \in Task |-> NULL]
  /\ thread_init = 0
  /\ pushed = <<>> /\ popped = 0

-----------------------------------------------------------------------------
(* pthread_async_exec, pthread_pool_exec and pthread_queue_push.            *)

Given(j) == result[j] # NULL \/ \E c \in Caller : caller[c] # "idle" /\ call[c] = j

\* malloc and pthread_task_init: the node is filled, its next field cleared.
BeginPush(c, j) ==
  /\ caller[c] = "idle" /\ ~terminated /\ ~Given(j)
  /\ \E n \in {m \in Node : heap[m] # "live"} :
       /\ heap' = [heap EXCEPT ![n] = "live"]
       /\ data' = [data EXCEPT ![n] = j]
       /\ next' = [next EXCEPT ![n] = NULL]
       /\ qtask' = [qtask EXCEPT ![c] = n]
  /\ call' = [call EXCEPT ![c] = j]
  /\ caller' = [caller EXCEPT ![c] = "link"]
  /\ UNCHANGED <<first, last, terminated, worker, task, result, thread_init,
                 history>>

\* malloc fails: pthread_pool_exec returns -1.
FailPush(c, j) ==
  /\ caller[c] = "idle" /\ ~terminated /\ ~Given(j)
  /\ result' = [result EXCEPT ![j] = -1]
  /\ UNCHANGED <<first, last, terminated, memory, worker, caller, qtask, task,
                 call, thread_init, history>>

Waiting == {w \in Worker : worker[w] = "wait"}

\* Mutants: the signal is sent only for the first node; it is not sent.
MustSignal_Empty == first = NULL
MustSignal_Never == FALSE

MustSignal == TRUE

\* pthread_cond_signal wakes one of the threads that wait, if there is one.
Signal ==
  IF MustSignal /\ Waiting # {}
  THEN \E w \in Waiting : worker' = [worker EXCEPT ![w] = "woken"]
  ELSE UNCHANGED worker

\* Mutant: the new node goes in front of the list.
Link_First(n) ==
  /\ first' = n /\ last' = IF last = NULL THEN n ELSE last
  /\ next' = [next EXCEPT ![n] = first]

\* Only a list that was never used is told by last = NULL.
Link(n) ==
  /\ first' = IF last = NULL THEN n ELSE first
  /\ last' = n
  /\ next' = IF last = NULL THEN next ELSE [next EXCEPT ![last] = n]

EndPush(c) ==
  /\ caller[c] = "link"
  /\ Link(qtask[c])
  /\ Signal
  /\ pushed' = Append(pushed, call[c])
  /\ result' = [result EXCEPT ![call[c]] = 0]
  /\ caller' = [caller EXCEPT ![c] = "idle"]
  /\ call' = [call EXCEPT ![c] = NULL]
  /\ qtask' = [qtask EXCEPT ![c] = NULL]
  /\ UNCHANGED <<terminated, data, heap, task, thread_init, popped>>

-----------------------------------------------------------------------------
(* pthread_pool_routine and pthread_queue_pop.                              *)

Begin(w) ==
  /\ worker[w] = "start"
  /\ thread_init' = thread_init + 1
  /\ worker' = [worker EXCEPT ![w] = "pop"]
  /\ UNCHANGED <<first, last, terminated, memory, caller, qtask, task, call,
                 result, history>>

\* At the head of the loop of pthread_queue_pop: in a new call, or woken up on
\* a queue that is not terminated.  In a new call terminated is not tested.
AtLoop(w) == worker[w] = "pop" \/ (worker[w] = "woken" /\ ~terminated)

Wait(w) ==
  /\ AtLoop(w) /\ first = NULL
  /\ worker' = [worker EXCEPT ![w] = "wait"]
  /\ UNCHANGED <<first, last, terminated, memory, caller, qtask, task, call,
                 result, thread_init, history>>

\* Mutant: the list is not advanced.
Advanced_Not == first

Advanced == next[first]

\* Takes the first node; last is not touched.
Pop(w) ==
  /\ AtLoop(w) /\ first # NULL
  /\ qtask' = [qtask EXCEPT ![w] = first]
  /\ first' = Advanced
  /\ worker' = [worker EXCEPT ![w] = "copy"]
  /\ popped' = popped + 1
  /\ UNCHANGED <<last, terminated, memory, caller, task, call, result,
                 thread_init, pushed>>

\* A worker that was woken up and finds terminated leaves, whatever is queued.
Leave(w) ==
  /\ worker[w] = "woken" /\ terminated
  /\ worker' = [worker EXCEPT ![w] = "exit"]
  /\ UNCHANGED <<first, last, terminated, memory, caller, qtask, task, call,
                 result, thread_init, history>>

\* After the unlock: the task is copied and the node freed.
CopyAndFree(w) ==
  /\ worker[w] = "copy"
  /\ task' = [task EXCEPT ![w] = data[qtask[w]]]
  /\ heap' = [heap EXCEPT ![qtask[w]] = "freed"]
  /\ qtask' = [qtask EXCEPT ![w] = NULL]
  /\ worker' = [worker EXCEPT ![w] = "run"]
  /\ UNCHANGED <<first, last, terminated, next, data, caller, call, result,
                 thread_init, history>>

\* Mutant: the routine of the pool starts again for each task.
AfterTask_Start == "start"

AfterTask == "pop"

\* The routine of the task returns.
EndTask(w) ==
  /\ worker[w] = "run"
  /\ task' = [task EXCEPT ![w] = NULL]
  /\ worker' = [worker EXCEPT ![w] = AfterTask]
  /\ UNCHANGED <<first, last, terminated, memory, caller, qtask, call, result,
                 thread_init, history>>

\* pthread_cond_wait may return without a signal.
SpuriousWakeup(w) ==
  /\ worker[w] = "wait"
  /\ worker' = [worker EXCEPT ![w] = "woken"]
  /\ UNCHANGED <<first, last, terminated, memory, caller, qtask, task, call,
                 result, thread_init, history>>

\* pthread_pool_destroy, run after main: the flag, a broadcast, the joins.
Terminate ==
  /\ ~terminated /\ \A c \in Caller : caller[c] = "idle"
  /\ terminated' = TRUE
  /\ worker' = [w \in Worker |-> IF worker[w] = "wait" THEN "woken" ELSE worker[w]]
  /\ UNCHANGED <<first, last, memory, caller, qtask, task, call, result,
                 thread_init, history>>

-----------------------------------------------------------------------------
WorkerStep(w) ==
  \/ Begin(w) \/ Wait(w) \/ Pop(w) \/ Leave(w) \/ CopyAndFree(w) \/ EndTask(w)

\* The process is at the joins of pthread_pool_destroy.
Joining == terminated /\ UNCHANGED vars

Next ==
  \/ \E c \in Caller, j \in Task : BeginPush(c, j) \/ FailPush(c, j)
  \/ \E c \in Caller : EndPush(c)
  \/ \E w \in Worker : WorkerStep(w) \/ SpuriousWakeup(w)
  \/ Terminate \/ Joining

Spec == Init /\ [][Next]_vars

\* Every thread is scheduled, routines return, a push once begun ends.
FairSpec ==
  /\ Spec
  /\ \A w \in Worker : WF_vars(WorkerStep(w))
  /\ \A c \in Caller : WF_vars(EndPush(c))

-----------------------------------------------------------------------------
(* Properties.                                                              *)

TypeOK ==
  /\ first \in Node \cup {NULL} /\ last \in Node \cup {NULL}
  /\ terminated \in BOOLEAN
  /\ next \in [Node -> Node \cup {NULL}]
  /\ data \in [Node -> Task \cup {NULL}]
  /\ heap \in [Node -> {"none", "live", "freed"}]
  /\ worker \in [Worker -> {"start", "pop", "wait", "woken", "copy", "run", "exit"}]
  /\ caller \in [Caller -> {"idle", "link"}]
  /\ qtask \in [Worker \cup Caller -> Node \cup {NULL}]
  /\ task \in [Worker -> Task \cup {NULL}]
  /\ call \in [Caller -> Task \cup {NULL}]
  /\ result \in [Task -> {0, -1, NULL}]
  /\ thread_init \in 0 .. Cardinality(Worker)
  /\ pushed \in Seq(Task)
  /\ popped \in Nat

\* The nodes a walk from first along the next fields meets.
InList ==
  LET at[i \in 0 .. Cardinality(Node)] ==
        IF i = 0 THEN first
        ELSE IF at[i - 1] = NULL THEN NULL ELSE next[at[i - 1]]
  IN {at[i] : i \in DOMAIN at} \ {NULL}

Held == {qtask[w] : w \in {v \in Worker : worker[v] = "copy"}}

\* Although last dangles, pthread_queue_pop never reads or frees a freed node:
\* what is in the list and what the workers took is allocated, and nobody has
\* the same node twice.
NoUseAfterFree ==
  /\ \A n \in InList \cup Held : heap[n] = "live"
  /\ InList \cap Held = {}
  /\ \A v, w \in Worker :
       worker[v] = "copy" /\ worker[w] = "copy" /\ v # w => qtask[v] # qtask[w]

Ready == {w \in Worker : worker[w] \in {"start", "pop", "woken"}}

\* One signal per push is enough: while a worker sleeps, at least as many
\* workers as there are tasks in the list are on their way to take one.
NoIdleWorker ==
  ~terminated /\ Waiting # {} => Cardinality(Ready) >= Cardinality(InList)

\* The pool implements the promise of TaskPool: the tasks start in the order in
\* which they were linked, each once.  It has no limit and terminated stops no
\* worker that finds a task.
Pool == INSTANCE TaskPool WITH
  Job      <- Task,
  NullJob  <- {},
  Capacity <- Cardinality(Task) + 1,
  queue    <- SubSeq(pushed, popped + 1, Len(pushed)),
  running  <- {data[n] : n \in Held} \cup {task[w] : w \in {v \in Worker : worker[v] = "run"}},
  accepted <- {pushed[i] : i \in DOMAIN pushed},
  stopped  <- FALSE
ImplementsPool == Pool!Spec

\* A task that is in the list is run, or the pool is terminated.
Listed(j) == \E n \in InList : data[n] = j
Ran(j) ==
  /\ \E i \in 1 .. popped : pushed[i] = j
  /\ j \notin {data[n] : n \in Held}
  /\ \A w \in Worker : task[w] # j
ListedTasksRun == \A j \in Task : Listed(j) ~> (Ran(j) \/ terminated)

\* threadpool.h:27-28, "When a task is waiting to be executed, it is stored
\* here": every task pushed and not yet taken can be reached from first.
PendingTasksStored ==
  \A i \in popped + 1 .. Len(pushed) : Listed(pushed[i])
=============================================================================
