------------------------- MODULE CThreadPoolProofs -------------------------
(***************************************************************************)
(* Theorems about CThreadPool, for any size of the queues, any threads and *)
(* any calls: each task has one owner, no queue overflows, no wake-up is   *)
(* lost, and the pool implements TaskPool.                                 *)
(***************************************************************************)
EXTENDS CThreadPool, FiniteSetTheorems, SequenceTheorems, TLAPS

-----------------------------------------------------------------------------
(* The inductive invariant.                                                 *)

N == THREAD_POOL_QUEUE_SIZE

\* How many cells c lies behind the head of q, around the ring.
Ahead(q, c) == IF c >= q.head THEN c - q.head ELSE c - q.head + N

\* The occupied cells of a ring are those from head up to tail.
Consecutive(q) ==
  /\ q.tail = IF q.head + q.num_of_cells < N THEN q.head + q.num_of_cells
                                             ELSE q.head + q.num_of_cells - N
  /\ \A c \in Cell : Ahead(q, c) < q.num_of_cells <=> q.cells[c] # NULL

Rings == Consecutive(tasks_queue) /\ Consecutive(free_tasks_queue)

Call == [job : Job, blocking : BOOLEAN]

\* What a thread holds, by where it is.
Hands ==
  /\ \A a \in Adder : /\ adder[a] = "enqueue" <=> task[a] # NULL
                      /\ adder[a] # "idle" => call[a] \in Call
  /\ \A w \in Worker : worker[w] \in {"run", "release"} <=> task[w] # NULL
  /\ stop_flag <=> freeing # "no"

\* The task in each place, told by the cells alone.
Content(x) ==
  IF x \in Worker \cup Adder THEN task[x]
  ELSE IF x[1] = "tasks" THEN tasks_queue.cells[x[2]]
  ELSE free_tasks_queue.cells[x[2]]

Owners ==
  \A k \in Task :
    /\ \A x, y \in Places : Content(x) = k /\ Content(y) = k => x = y
    /\ (\E x \in Places : Content(x) = k) \/ routine[k] \in NullJob

IInv == TypeOK /\ Rings /\ Hands /\ Owners /\ NoLostWakeup /\ NoFailure

-----------------------------------------------------------------------------
(* The rings.                                                               *)

LEMMA Size == N \in Nat /\ N > 0 /\ Cell = 0 .. N - 1 /\ Task = Cell /\ NULL \notin Task
BY PoolAssumption DEF PoolAssumption, N, Cell, Task

\* The remainder of the distance of two cells is the distance around the ring.
LEMMA AheadIsRemainder ==
  ASSUME NEW q \in Ring, NEW c \in Cell
  PROVE  (c - q.head) % N = Ahead(q, c)
<1> DEFINE h == q.head
<1>1. h \in 0 .. N - 1 /\ c \in 0 .. N - 1 /\ N \in Nat /\ N > 0
  BY Size DEF Ring
<1> HIDE DEF h
<1>2. \A x \in 0 .. N - 1 : x % N = x
  BY <1>1
<1>3. \A x \in 0 .. N - 1 : (x - N) % N = x % N
  BY <1>1
<1>4. CASE c >= h
  BY <1>1, <1>2, <1>4 DEF Ahead, h
<1>5. CASE c < h
  <2>1. c - h + N \in 0 .. N - 1 /\ c - h = (c - h + N) - N
    BY <1>1, <1>5
  <2>2. (c - h) % N = c - h + N
    BY <2>1, <1>2, <1>3
  <2> QED BY <1>1, <1>5, <2>2 DEF Ahead, h
<1> QED BY <1>1, <1>4, <1>5

\* A ring that is not full has a free cell at its tail, and stays consecutive
\* when it is filled.
LEMMA EnqueueRing ==
  ASSUME NEW q \in Ring, Consecutive(q), NEW k \in Task, q.num_of_cells # N
  PROVE  /\ ~EnqueueFails(q) /\ q.tail \in Cell /\ q.cells[q.tail] = NULL
         /\ Enqueued(q, k) \in Ring /\ Consecutive(Enqueued(q, k))
         /\ Enqueued(q, k).cells = [q.cells EXCEPT ![q.tail] = k]
         /\ Enqueued(q, k).num_of_cells = q.num_of_cells + 1
<1>1. /\ q.head \in 0 .. N - 1 /\ q.tail \in 0 .. N - 1
      /\ q.num_of_cells \in 0 .. N - 1 /\ N \in Nat /\ N > 0
      /\ q.cells \in [Cell -> Task \cup {NULL}]
  BY Size DEF Ring, N
<1>2. Ahead(q, q.tail) = q.num_of_cells
  BY <1>1 DEF Consecutive, Ahead
<1>3. q.tail \in Cell /\ q.cells[q.tail] = NULL
  BY <1>1, <1>2, Size DEF Consecutive
<1>4. ~EnqueueFails(q)
  BY <1>3 DEF EnqueueFails, N
<1> DEFINE r == Enqueued(q, k)
<1>5. /\ r.head = q.head /\ r.tail = NextCell(q.tail) /\ r.num_of_cells = q.num_of_cells + 1
      /\ r.cells = [q.cells EXCEPT ![q.tail] = k]
  BY DEF Enqueued
<1>6. r \in Ring
  <2>1. NextCell(q.tail) \in Cell
    BY <1>1, Size DEF NextCell, N
  <2>2. [q.cells EXCEPT ![q.tail] = k] \in [Cell -> Task \cup {NULL}]
    BY <1>1
  <2>3. q.num_of_cells + 1 \in 0 .. THREAD_POOL_QUEUE_SIZE /\ q.head \in Cell
    BY <1>1, Size DEF N
  <2> QED BY <2>1, <2>2, <2>3 DEF Enqueued, Ring
<1> HIDE DEF r
<1>7. r.tail = IF r.head + r.num_of_cells < N THEN r.head + r.num_of_cells
                                              ELSE r.head + r.num_of_cells - N
  BY <1>1, <1>5 DEF Consecutive, NextCell, N
<1>8. ASSUME NEW c \in Cell
      PROVE  Ahead(r, c) < r.num_of_cells <=> r.cells[c] # NULL
  <2>1. Ahead(r, c) = Ahead(q, c) /\ c \in 0 .. N - 1
    BY <1>5, Size DEF Ahead
  <2>2. Ahead(q, c) < q.num_of_cells <=> q.cells[c] # NULL
    BY DEF Consecutive
  <2>3. CASE c = q.tail
    BY <1>1, <1>2, <1>3, <1>5, <2>1, <2>3, Size
  <2>4. CASE c # q.tail
    <3>1. Ahead(q, c) # q.num_of_cells /\ Ahead(q, c) \in Int
      BY <1>1, <1>2, <2>1, <2>4 DEF Ahead
    <3>2. r.cells[c] = q.cells[c]
      BY <1>1, <1>5, <2>4
    <3> QED BY <1>1, <1>5, <2>1, <2>2, <3>1, <3>2
  <2> QED BY <2>3, <2>4
<1>9. Consecutive(r)
  BY <1>7, <1>8 DEF Consecutive
<1> QED BY <1>3, <1>4, <1>5, <1>6, <1>9 DEF r

\* A ring that is not empty has a task at its head, and stays consecutive when
\* it is taken.
LEMMA DequeueRing ==
  ASSUME NEW q \in Ring, Consecutive(q), ~IsEmpty(q)
  PROVE  /\ q.head \in Cell /\ First(q) \in Task
         /\ Dequeued(q) \in Ring /\ Consecutive(Dequeued(q))
         /\ Dequeued(q).cells = [q.cells EXCEPT ![q.head] = NULL]
         /\ Dequeued(q).num_of_cells = q.num_of_cells - 1
<1>1. /\ q.head \in 0 .. N - 1 /\ q.tail \in 0 .. N - 1
      /\ q.num_of_cells \in 1 .. N /\ N \in Nat /\ N > 0
      /\ q.cells \in [Cell -> Task \cup {NULL}]
  BY Size DEF Ring, N, IsEmpty
<1>2. q.head \in Cell /\ Ahead(q, q.head) = 0
  BY <1>1, Size DEF Ahead
<1>3. First(q) \in Task
  BY <1>1, <1>2 DEF Consecutive, First
<1> DEFINE r == Dequeued(q)
           one == q.num_of_cells = 1
<1>5. /\ r.head = IF one THEN 0 ELSE NextCell(q.head)
      /\ r.tail = IF one THEN 0 ELSE q.tail
      /\ r.num_of_cells = q.num_of_cells - 1
      /\ r.cells = [q.cells EXCEPT ![q.head] = NULL]
  BY DEF Dequeued
<1>6. r \in Ring
  <2>1. NextCell(q.head) \in Cell /\ 0 \in Cell /\ q.tail \in Cell
    BY <1>1, Size DEF NextCell, N
  <2>2. [q.cells EXCEPT ![q.head] = NULL] \in [Cell -> Task \cup {NULL}]
    BY <1>1
  <2>3. q.num_of_cells - 1 \in 0 .. THREAD_POOL_QUEUE_SIZE
    BY <1>1 DEF N
  <2> QED BY <2>1, <2>2, <2>3 DEF Dequeued, Ring
<1> HIDE DEF r
<1>7. r.tail = IF r.head + r.num_of_cells < N THEN r.head + r.num_of_cells
                                              ELSE r.head + r.num_of_cells - N
  BY <1>1, <1>5 DEF Consecutive, NextCell, N
<1>8. ASSUME NEW c \in Cell
      PROVE  Ahead(r, c) < r.num_of_cells <=> r.cells[c] # NULL
  <2>1. c \in 0 .. N - 1
    BY Size
  <2>2. Ahead(q, c) < q.num_of_cells <=> q.cells[c] # NULL
    BY DEF Consecutive
  <2>3. CASE c = q.head
    <3>1. r.cells[c] = NULL
      BY <1>1, <1>5, <2>3
    <3>2. ~(Ahead(r, c) < r.num_of_cells)
      BY <1>1, <1>5, <2>1, <2>3 DEF Ahead, NextCell, N
    <3> QED BY <3>1, <3>2
  <2>4. CASE c # q.head
    <3>1. r.cells[c] = q.cells[c]
      BY <1>1, <1>5, <2>4
    <3>2. Ahead(r, c) < r.num_of_cells <=> Ahead(q, c) < q.num_of_cells
      BY <1>1, <1>5, <2>1, <2>4 DEF Ahead, NextCell, N
    <3> QED BY <2>2, <3>1, <3>2
  <2> QED BY <2>3, <2>4
<1>9. Consecutive(r)
  BY <1>7, <1>8 DEF Consecutive
<1> QED BY <1>2, <1>3, <1>5, <1>6, <1>9 DEF r

\* A function from the cells that never repeats a task has every task.
LEMMA AllTasks ==
  ASSUME NEW f \in [Cell -> Task],
         \A c, d \in Cell : f[c] = f[d] => c = d,
         NEW k \in Task
  PROVE  \E c \in Cell : f[c] = k
<1>1. IsFiniteSet(Task) /\ Cell = Task
  BY Size, FS_Interval
<1>2. f \in Injection(Cell, Task)
  BY DEF Injection, IsInjective
<1>3. f \in Surjection(Cell, Task)
  BY <1>1, <1>2, FS_Injection
<1> QED BY <1>3 DEF Surjection

-----------------------------------------------------------------------------
(* The owners.                                                              *)

LEMMA PlaceKinds ==
  /\ \A t \in Worker \cup Adder : t \in Places
  /\ \A c \in Cell : /\ <<"tasks", c>> \in Places /\ <<"tasks", c>> \notin Worker \cup Adder
                     /\ <<"free", c>> \in Places /\ <<"free", c>> \notin Worker \cup Adder
  /\ \A x \in Places : \/ x \in Worker \cup Adder
                       \/ \E c \in Cell : x = <<"tasks", c>> \/ x = <<"free", c>>
<1>1. \A c \in Cell : c \in Nat
  BY Size
<1> QED BY <1>1, PoolAssumption DEF PoolAssumption, Places

LEMMA ContentOf ==
  /\ \A t \in Worker \cup Adder : Content(t) = task[t]
  /\ \A c \in Cell : /\ Content(<<"tasks", c>>) = tasks_queue.cells[c]
                     /\ Content(<<"free", c>>) = free_tasks_queue.cells[c]
BY PlaceKinds DEF Content

\* Moving a task from one place to an empty one keeps every task in one place.
\* The routine of the task that is moved may change.
LEMMA MoveTask ==
  ASSUME Owners,
         NEW x \in Places, NEW y \in Places, x # y,
         Content(x) \in Task, Content(y) = NULL,
         Content(x)' = NULL, Content(y)' = Content(x),
         \A z \in Places : z # x /\ z # y => Content(z)' = Content(z),
         \A k \in Task : k # Content(x) => routine'[k] = routine[k]
  PROVE  Owners'
<1>1. SUFFICES ASSUME NEW k \in Task
               PROVE  /\ \A z, w \in Places : Content(z)' = k /\ Content(w)' = k => z = w
                      /\ (\E z \in Places : Content(z)' = k) \/ routine'[k] \in NullJob
  BY DEF Owners, Places
<1>2. k # NULL
  BY Size
<1>3. CASE k = Content(x)
  <2>1. ASSUME NEW z \in Places, Content(z)' = k PROVE z = y
    BY <1>2, <1>3, <2>1 DEF Owners
  <2> QED BY <1>3, <2>1
<1>4. CASE k # Content(x)
  <2>1. \A z \in Places : Content(z)' = k <=> Content(z) = k
    BY <1>2, <1>4
  <2> QED BY <1>4, <2>1 DEF Owners
<1> QED BY <1>3, <1>4

\* A step that leaves every place as it was, and changes at most the routine of
\* a task that is in one.
LEMMA StayTasks ==
  ASSUME Owners,
         \A z \in Places : Content(z)' = Content(z),
         \A k \in Task : \/ routine'[k] = routine[k]
                         \/ \E z \in Places : Content(z) = k
  PROVE  Owners'
BY DEF Owners, Places

\* A thread that holds a task never finds a queue full: the tasks in the cells
\* would be all there are, its own among them.
LEMMA NoFullRing ==
  ASSUME TypeOK, Rings, Owners, NEW t \in Worker \cup Adder, task[t] \in Task
  PROVE  tasks_queue.num_of_cells # N /\ free_tasks_queue.num_of_cells # N
<1>1. ASSUME NEW q \in Ring, Consecutive(q), q.num_of_cells = N
      PROVE  q.cells \in [Cell -> Task]
  <2>1. \A c \in Cell : Ahead(q, c) < N
    BY Size, <1>1 DEF Ahead, Ring
  <2> QED BY <1>1, <2>1 DEF Ring, Consecutive
<1>2. ASSUME NEW name \in {"tasks", "free"}, NEW f \in [Cell -> Task],
             \A c \in Cell : Content(<<name, c>>) = f[c]
      PROVE  FALSE
  <2>1. ASSUME NEW c \in Cell, NEW d \in Cell, f[c] = f[d] PROVE c = d
    <3>1. <<name, c>> \in Places /\ <<name, d>> \in Places
      BY PlaceKinds
    <3>2. f[c] \in Task
      OBVIOUS
    <3>3. <<name, c>> = <<name, d>>
      BY <1>2, <2>1, <3>1, <3>2 DEF Owners
    <3> QED BY <3>3
  <2>2. PICK c \in Cell : f[c] = task[t]
    BY <2>1, AllTasks
  <2>3. <<name, c>> \in Places /\ <<name, c>> \notin Worker \cup Adder /\ t \in Places
    BY PlaceKinds
  <2>4. Content(<<name, c>>) = task[t] /\ Content(t) = task[t]
    BY <1>2, <2>2, ContentOf
  <2>5. <<name, c>> = t
    BY <2>3, <2>4 DEF Owners
  <2> QED BY <2>3, <2>5
<1>3. tasks_queue.num_of_cells # N
  <2>1. SUFFICES ASSUME tasks_queue.num_of_cells = N PROVE FALSE
    OBVIOUS
  <2>2. tasks_queue.cells \in [Cell -> Task]
    BY <1>1, <2>1 DEF TypeOK, Rings
  <2> QED BY <1>2, <2>2, ContentOf
<1>4. free_tasks_queue.num_of_cells # N
  <2>1. SUFFICES ASSUME free_tasks_queue.num_of_cells = N PROVE FALSE
    OBVIOUS
  <2>2. free_tasks_queue.cells \in [Cell -> Task]
    BY <1>1, <2>1 DEF TypeOK, Rings
  <2> QED BY <1>2, <2>2, ContentOf
<1> QED BY <1>3, <1>4

-----------------------------------------------------------------------------
(* The inductive invariant holds initially and is preserved.                *)

LEMMA InitInv == Init => IInv
<1> SUFFICES ASSUME Init PROVE IInv
  OBVIOUS
<1> USE DEF Init
<1>1. TypeOK
  <2>1. tasks_queue \in Ring /\ free_tasks_queue \in Ring
    BY Size DEF Ring, N
  <2>2. /\ routine \in [Task -> Job \cup {NULL}] /\ stop_flag \in BOOLEAN
        /\ task \in [Worker \cup Adder -> Task \cup {NULL}]
    OBVIOUS
  <2>3. /\ worker \in [Worker -> {"get", "lock", "wait", "run", "release", "exit"}]
        /\ adder \in [Adder -> {"idle", "obtain", "wait", "enqueue"}]
        /\ freeing \in {"no", "broadcast", "join", "freed"}
    OBVIOUS
  <2>4. /\ call \in [Adder -> [job : Job, blocking : BOOLEAN] \cup {NULL}]
        /\ result \in [Job -> {0, -1, -2, NULL}]
        /\ ran \in [Job -> Nat] /\ failed \in BOOLEAN
    OBVIOUS
  <2> QED BY <2>1, <2>2, <2>3, <2>4 DEF TypeOK
<1>2. Rings
  BY Size DEF Rings, Consecutive, Ahead, N
<1>3. Hands
  BY DEF Hands
<1>4. Owners
  <2>1. ASSUME NEW x \in Places, Content(x) # NULL
        PROVE  Content(x) \in Task /\ x = <<"free", Content(x)>>
    <3>1. x \notin Worker \cup Adder
      BY <2>1, ContentOf
    <3>2. PICK c \in Cell : x = <<"tasks", c>> \/ x = <<"free", c>>
      BY <3>1, PlaceKinds
    <3>3. Content(<<"tasks", c>>) = NULL /\ Content(<<"free", c>>) = c
      BY ContentOf
    <3> QED BY <2>1, <3>2, <3>3, Size
  <2>2. ASSUME NEW k \in Task PROVE Content(<<"free", k>>) = k /\ <<"free", k>> \in Places
    BY PlaceKinds, ContentOf, Size
  <2> QED BY <2>1, <2>2, Size DEF Owners
<1>5. NoLostWakeup /\ NoFailure
  BY PoolAssumption DEF NoLostWakeup, NoFailure, IsEmpty, PoolAssumption
<1> QED BY <1>1, <1>2, <1>3, <1>4, <1>5 DEF IInv

\* A step that leaves the queues, the tasks in hand and the routines alone.
LEMMA SamePlaces ==
  ASSUME IInv, UNCHANGED <<tasks_queue, free_tasks_queue, task, routine>>
  PROVE  Rings' /\ Owners'
<1>1. \A z \in Places : Content(z)' = Content(z)
  BY DEF Content
<1>2. Owners'
  BY <1>1, StayTasks DEF IInv
<1> QED BY <1>2 DEF IInv, Rings

LEMMA CallAddInv ==
  ASSUME IInv, NEW a \in Adder, NEW j \in Job, NEW b \in BOOLEAN, CallAdd(a, j, b)
  PROVE  IInv'
<1> USE DEF CallAdd
<1>1. TypeOK'
  BY DEF IInv, TypeOK
<1>2. Rings' /\ Owners'
  BY SamePlaces
<1>3. Hands'
  BY DEF IInv, TypeOK, Hands, Call
<1>4. NoLostWakeup' /\ NoFailure'
  BY DEF IInv, TypeOK, NoLostWakeup, NoFailure, IsEmpty
<1> QED BY <1>1, <1>2, <1>3, <1>4 DEF IInv

LEMMA AddOverloadedInv ==
  ASSUME IInv, NEW a \in Adder, AddOverloaded(a)
  PROVE  IInv'
<1> USE DEF AddOverloaded, Return
<1>1. call[a].job \in Job /\ task[a] = NULL
  BY DEF IInv, TypeOK, Hands, Call
<1>2. TypeOK'
  BY <1>1 DEF IInv, TypeOK
<1>3. task' = task
  BY <1>1 DEF IInv, TypeOK
<1>4. Rings' /\ Owners'
  BY <1>3, SamePlaces
<1>5. Hands'
  BY <1>3 DEF IInv, TypeOK, Hands
<1>6. NoLostWakeup' /\ NoFailure'
  BY <1>1 DEF IInv, TypeOK, NoLostWakeup, NoFailure, IsEmpty
<1> QED BY <1>2, <1>4, <1>5, <1>6 DEF IInv

LEMMA AddWaitInv ==
  ASSUME IInv, NEW a \in Adder, AddWait(a)
  PROVE  IInv'
<1> USE DEF AddWait
<1>1. TypeOK'
  BY DEF IInv, TypeOK
<1>2. Rings' /\ Owners'
  BY SamePlaces
<1>3. Hands'
  BY DEF IInv, TypeOK, Hands
<1>4. NoLostWakeup' /\ NoFailure'
  BY DEF IInv, TypeOK, NoLostWakeup, NoFailure, IsEmpty
<1> QED BY <1>1, <1>2, <1>3, <1>4 DEF IInv

\* The task at the head of the free tasks goes to the adder.
LEMMA AddObtainInv ==
  ASSUME IInv, NEW a \in Adder, AddObtain(a)
  PROVE  IInv'
<1> USE DEF AddObtain
<1> DEFINE q == free_tasks_queue
           k == First(q)
<1>1. /\ q \in Ring /\ Consecutive(q) /\ ~IsEmpty(q)
      /\ task[a] = NULL /\ call[a].job \in Job
  BY DEF IInv, TypeOK, Rings, Hands, Call
<1>2. /\ q.head \in Cell /\ k \in Task /\ q' \in Ring /\ Consecutive(q)'
      /\ q'.cells = [q.cells EXCEPT ![q.head] = NULL]
      /\ q'.num_of_cells = q.num_of_cells - 1
  <2>1. q' = Dequeued(q)
    OBVIOUS
  <2>2. /\ q.head \in Cell /\ First(q) \in Task
        /\ Dequeued(q) \in Ring /\ Consecutive(Dequeued(q))
        /\ Dequeued(q).cells = [q.cells EXCEPT ![q.head] = NULL]
        /\ Dequeued(q).num_of_cells = q.num_of_cells - 1
    BY <1>1, DequeueRing
  <2>3. Consecutive(q)'
    BY <2>1, <2>2 DEF Consecutive, Ahead
  <2> QED BY <2>1, <2>2, <2>3
<1>3. TypeOK'
  BY <1>1, <1>2 DEF IInv, TypeOK
<1>4. Rings'
  BY <1>2 DEF IInv, Rings
<1>5. Hands'
  BY <1>2, Size, PoolAssumption DEF IInv, TypeOK, Hands, PoolAssumption
<1>6. Owners'
  <2>0. PICK h \in Cell : h = q.head
    BY <1>2
  <2> DEFINE x == <<"free", h>>
  <2>1. x \in Places /\ a \in Places /\ x # a /\ x \notin Worker \cup Adder
    BY PlaceKinds
  <2>2. Content(x) = k /\ Content(a) = NULL
    BY <1>1, <2>0, ContentOf DEF First
  <2>3. Content(x)' = NULL /\ Content(a)' = k
    <3>1. q'.cells[h] = NULL
      BY <1>1, <1>2, <2>0 DEF Ring
    <3>2. task'[a] = k
      BY DEF IInv, TypeOK
    <3> QED BY <2>1, <3>1, <3>2 DEF Content
  <2>4. ASSUME NEW z \in Places, z # x, z # a PROVE Content(z)' = Content(z)
    <3>1. CASE z \in Worker \cup Adder
      BY <2>4, <3>1 DEF Content, IInv, TypeOK
    <3>2. CASE z \notin Worker \cup Adder
      <4>1. PICK c \in Cell : z = <<"tasks", c>> \/ z = <<"free", c>>
        BY <3>2, PlaceKinds
      <4>2. z = <<"free", c>> => c # q.head
        BY <2>0, <2>4
      <4> QED BY <1>1, <1>2, <3>2, <4>1, <4>2 DEF Content, Ring
    <3> QED BY <3>1, <3>2
  <2>5. \A m \in Task : m # k => routine'[m] = routine[m]
    BY <1>2 DEF IInv, TypeOK
  <2> HIDE DEF x, k
  <2> QED BY <1>2, <2>1, <2>2, <2>3, <2>4, <2>5, MoveTask DEF IInv
<1>7. NoLostWakeup' /\ NoFailure'
  BY <1>1 DEF IInv, TypeOK, NoLostWakeup, NoFailure, IsEmpty
<1> QED BY <1>3, <1>4, <1>5, <1>6, <1>7 DEF IInv

\* The task of the adder goes to the tail of the tasks.
LEMMA AddEnqueueInv ==
  ASSUME IInv, NEW a \in Adder, AddEnqueue(a)
  PROVE  IInv'
<1> USE DEF AddEnqueue, Return
<1> DEFINE q == tasks_queue
           k == task[a]
<1>1. /\ q \in Ring /\ Consecutive(q) /\ k \in Task /\ call[a].job \in Job
  BY DEF IInv, TypeOK, Rings, Hands, Call
<1>2. q.num_of_cells # N
  BY <1>1, NoFullRing DEF IInv
<1>3. /\ ~EnqueueFails(q) /\ q.tail \in Cell /\ q.cells[q.tail] = NULL
      /\ Enqueued(q, k) \in Ring /\ Consecutive(Enqueued(q, k))
      /\ Enqueued(q, k).cells = [q.cells EXCEPT ![q.tail] = k]
      /\ Enqueued(q, k).num_of_cells = q.num_of_cells + 1
  BY <1>1, <1>2, EnqueueRing
<1>4. /\ q' = Enqueued(q, k) /\ failed' = failed
      /\ worker' = IF MustNotify(q') THEN WakeAll(Worker, worker, "lock") ELSE worker
      /\ result' = [result EXCEPT ![call[a].job] = 0]
  BY <1>3
<1>5. TypeOK'
  BY <1>1, <1>3, <1>4 DEF IInv, TypeOK, WakeAll
<1>6. Rings'
  <2>1. Consecutive(q)'
    BY <1>3, <1>4 DEF Consecutive, Ahead
  <2> QED BY <2>1 DEF IInv, Rings
<1>7. Hands'
  <2>1. \A w \in Worker : worker'[w] \in {"run", "release"} <=> worker[w] \in {"run", "release"}
    BY <1>4 DEF IInv, TypeOK, WakeAll
  <2> QED BY <1>3, <2>1, PoolAssumption DEF IInv, TypeOK, Hands, PoolAssumption
<1>8. Owners'
  <2>0. PICK h \in Cell : h = q.tail
    BY <1>3
  <2> DEFINE y == <<"tasks", h>>
  <2>1. y \in Places /\ a \in Places /\ y # a /\ y \notin Worker \cup Adder
    BY PlaceKinds
  <2>2. Content(a) = k /\ Content(y) = NULL
    BY <1>3, <2>0, ContentOf
  <2>3. Content(a)' = NULL /\ Content(y)' = k
    <3>1. q'.cells[h] = k
      BY <1>1, <1>3, <1>4, <2>0 DEF Ring
    <3>2. task'[a] = NULL
      BY <1>3 DEF IInv, TypeOK
    <3> QED BY <2>1, <3>1, <3>2 DEF Content
  <2>4. ASSUME NEW z \in Places, z # y, z # a PROVE Content(z)' = Content(z)
    <3>1. CASE z \in Worker \cup Adder
      BY <1>3, <2>4, <3>1 DEF Content, IInv, TypeOK
    <3>2. CASE z \notin Worker \cup Adder
      <4>1. PICK c \in Cell : z = <<"tasks", c>> \/ z = <<"free", c>>
        BY <3>2, PlaceKinds
      <4>2. z = <<"tasks", c>> => c # q.tail
        BY <2>0, <2>4
      <4> QED BY <1>1, <1>3, <1>4, <3>2, <4>1, <4>2 DEF Content, Ring
    <3> QED BY <3>1, <3>2
  <2> HIDE DEF y, k
  <2> QED BY <1>1, <2>1, <2>2, <2>3, <2>4, MoveTask DEF IInv
<1>9. NoLostWakeup'
  <2>1. CASE \E w \in Worker : worker[w] = "wait"
    <3>1. q.num_of_cells = 0 /\ MustNotify(q')
      BY <1>1, <1>3, <1>4, <2>1 DEF IInv, NoLostWakeup, IsEmpty, MustNotify
    <3>2. \A w \in Worker : worker'[w] # "wait"
      BY <1>4, <3>1 DEF WakeAll
    <3> QED BY <3>2 DEF IInv, TypeOK, NoLostWakeup, IsEmpty
  <2>2. CASE ~\E w \in Worker : worker[w] = "wait"
    <3>1. \A w \in Worker : worker'[w] # "wait"
      BY <1>4, <2>2 DEF WakeAll
    <3> QED BY <3>1 DEF IInv, TypeOK, NoLostWakeup, IsEmpty
  <2> QED BY <2>1, <2>2
<1>10. NoFailure'
  BY <1>1, <1>4 DEF IInv, TypeOK, NoFailure
<1> QED BY <1>5, <1>6, <1>7, <1>8, <1>9, <1>10 DEF IInv

\* The steps of a worker that touch no queue and no task.
LEMMA IdleWorkerInv ==
  ASSUME IInv, NEW w \in Worker, CheckStop(w) \/ Wait(w) \/ ExitStopped(w)
  PROVE  IInv'
<1>1. PICK there \in {"lock", "exit", "wait"} :
        /\ worker' = [worker EXCEPT ![w] = there]
        /\ there = "wait" => IsEmpty(tasks_queue) /\ ~stop_flag
        /\ worker[w] \in {"get", "lock"}
  BY DEF CheckStop, Wait, ExitStopped
<1>2. UNCHANGED <<tasks_queue, free_tasks_queue, routine, stop_flag, adder,
                  freeing, task, call, result, ran, failed>>
  BY DEF CheckStop, Wait, ExitStopped
<1>3. TypeOK'
  BY <1>1, <1>2 DEF IInv, TypeOK
<1>4. Rings' /\ Owners'
  BY <1>2, SamePlaces
<1>5. Hands'
  BY <1>1, <1>2 DEF IInv, TypeOK, Hands
<1>6. NoLostWakeup' /\ NoFailure'
  BY <1>1, <1>2 DEF IInv, TypeOK, Hands, NoLostWakeup, NoFailure, IsEmpty
<1> QED BY <1>3, <1>4, <1>5, <1>6 DEF IInv

\* The queue of the tasks after its head was taken.
LEMMA TakenFromTasks ==
  ASSUME IInv, ~IsEmpty(tasks_queue), tasks_queue' = Dequeued(tasks_queue)
  PROVE  /\ tasks_queue \in Ring /\ tasks_queue' \in Ring /\ Consecutive(tasks_queue)'
         /\ tasks_queue.head \in Cell /\ First(tasks_queue) \in Task
         /\ tasks_queue'.cells = [tasks_queue.cells EXCEPT ![tasks_queue.head] = NULL]
<1>1. tasks_queue \in Ring /\ Consecutive(tasks_queue)
  BY DEF IInv, TypeOK, Rings
<1>2. /\ tasks_queue.head \in Cell /\ First(tasks_queue) \in Task
      /\ Dequeued(tasks_queue) \in Ring /\ Consecutive(Dequeued(tasks_queue))
      /\ Dequeued(tasks_queue).cells = [tasks_queue.cells EXCEPT ![tasks_queue.head] = NULL]
  BY <1>1, DequeueRing
<1>3. Consecutive(tasks_queue)'
  BY <1>2 DEF Consecutive, Ahead
<1> QED BY <1>1, <1>2, <1>3

\* Nothing sleeps while the queue of the tasks holds one.
LEMMA AwakeWhileTasks ==
  ASSUME IInv, ~IsEmpty(tasks_queue)
  PROVE  \A w \in Worker : worker[w] # "wait"
BY DEF IInv, NoLostWakeup

\* The task at the head of the tasks goes to the worker.
LEMMA GetTaskInv ==
  ASSUME IInv, NEW w \in Worker, GetTask(w)
  PROVE  IInv'
<1> USE DEF GetTask, MayGetTask
<1> DEFINE q == tasks_queue
           k == First(q)
<1>1. /\ q \in Ring /\ q' \in Ring /\ Consecutive(q)'
      /\ q.head \in Cell /\ k \in Task
      /\ q'.cells = [q.cells EXCEPT ![q.head] = NULL]
  BY TakenFromTasks
<1>2. task[w] = NULL
  BY DEF IInv, Hands
<1>3. TypeOK'
  BY <1>1 DEF IInv, TypeOK
<1>4. Rings'
  BY <1>1 DEF IInv, Rings
<1>5. Hands'
  BY <1>1, Size, PoolAssumption DEF IInv, TypeOK, Hands, PoolAssumption
<1>6. Owners'
  <2>0. PICK h \in Cell : h = q.head
    BY <1>1
  <2> DEFINE x == <<"tasks", h>>
  <2>1. x \in Places /\ w \in Places /\ x # w /\ x \notin Worker \cup Adder
    BY PlaceKinds
  <2>2. Content(x) = k /\ Content(w) = NULL
    BY <1>2, <2>0, ContentOf DEF First
  <2>3. Content(x)' = NULL /\ Content(w)' = k
    <3>1. q'.cells[h] = NULL
      BY <1>1, <2>0 DEF Ring
    <3>2. task'[w] = k
      BY DEF IInv, TypeOK
    <3> QED BY <2>1, <3>1, <3>2 DEF Content
  <2>4. ASSUME NEW z \in Places, z # x, z # w PROVE Content(z)' = Content(z)
    <3>1. CASE z \in Worker \cup Adder
      BY <2>4, <3>1 DEF Content, IInv, TypeOK
    <3>2. CASE z \notin Worker \cup Adder
      <4>1. PICK c \in Cell : z = <<"tasks", c>> \/ z = <<"free", c>>
        BY <3>2, PlaceKinds
      <4>2. z = <<"tasks", c>> => c # q.head
        BY <2>0, <2>4
      <4> QED BY <1>1, <3>2, <4>1, <4>2 DEF Content, Ring
    <3> QED BY <3>1, <3>2
  <2> HIDE DEF x, k
  <2> QED BY <1>1, <2>1, <2>2, <2>3, <2>4, MoveTask DEF IInv
<1>7. NoLostWakeup' /\ NoFailure'
  BY AwakeWhileTasks DEF IInv, TypeOK, NoLostWakeup, NoFailure, IsEmpty
<1> QED BY <1>3, <1>4, <1>5, <1>6, <1>7 DEF IInv

\* The task without a routine is dropped: it is nowhere from now on.
LEMMA GetNullTaskInv ==
  ASSUME IInv, NEW w \in Worker, GetNullTask(w)
  PROVE  IInv'
<1> USE DEF GetNullTask, MayGetTask
<1> DEFINE q == tasks_queue
           k == First(q)
<1>1. /\ q \in Ring /\ q' \in Ring /\ Consecutive(q)'
      /\ q.head \in Cell /\ k \in Task
      /\ q'.cells = [q.cells EXCEPT ![q.head] = NULL]
  BY TakenFromTasks
<1>2. task[w] = NULL
  BY DEF IInv, Hands
<1>3. TypeOK'
  BY <1>1 DEF IInv, TypeOK
<1>4. Rings'
  BY <1>1 DEF IInv, Rings
<1>5. Hands'
  BY <1>2 DEF IInv, TypeOK, Hands
<1>6. Owners'
  <2>0. PICK h \in Cell : h = q.head
    BY <1>1
  <2> DEFINE x == <<"tasks", h>>
  <2>1. x \in Places /\ x \notin Worker \cup Adder /\ Content(x) = k
    BY <2>0, PlaceKinds, ContentOf DEF First
  <2>2. Content(x)' = NULL
    <3>1. q'.cells[h] = NULL
      BY <1>1, <2>0 DEF Ring
    <3> QED BY <2>1, <3>1 DEF Content
  <2>3. ASSUME NEW z \in Places, z # x PROVE Content(z)' = Content(z)
    <3>1. CASE z \in Worker \cup Adder
      BY <3>1 DEF Content
    <3>2. CASE z \notin Worker \cup Adder
      <4>1. PICK c \in Cell : z = <<"tasks", c>> \/ z = <<"free", c>>
        BY <3>2, PlaceKinds
      <4>2. z = <<"tasks", c>> => c # q.head
        BY <2>0, <2>3
      <4> QED BY <1>1, <3>2, <4>1, <4>2 DEF Content, Ring
    <3> QED BY <3>1, <3>2
  <2> HIDE DEF x
  <2>4. SUFFICES ASSUME NEW j \in Task
                 PROVE  /\ \A z, v \in Places : Content(z)' = j /\ Content(v)' = j => z = v
                        /\ (\E z \in Places : Content(z)' = j) \/ routine'[j] \in NullJob
    BY DEF Owners, Places
  <2>5. j # NULL /\ \A z \in Places : Content(z)' = j => Content(z) = j
    BY <2>2, <2>3, Size
  <2>6. \A z, v \in Places : Content(z)' = j /\ Content(v)' = j => z = v
    BY <2>5 DEF IInv, Owners
  <2>7. (\E z \in Places : Content(z)' = j) \/ routine'[j] \in NullJob
    <3>1. CASE j = k
      BY <3>1
    <3>2. CASE j # k
      BY <2>1, <2>3, <3>2 DEF IInv, Owners
    <3> QED BY <3>1, <3>2
  <2> QED BY <2>6, <2>7
<1>7. NoLostWakeup' /\ NoFailure'
  BY AwakeWhileTasks DEF IInv, TypeOK, NoLostWakeup, NoFailure, IsEmpty
<1> QED BY <1>3, <1>4, <1>5, <1>6, <1>7 DEF IInv

\* The routine of the task is cleared, the worker still holds the task.
LEMMA EndRoutineInv ==
  ASSUME IInv, NEW w \in Worker, EndRoutine(w)
  PROVE  IInv'
<1> USE DEF EndRoutine
<1>1. task[w] \in Task
  BY DEF IInv, TypeOK, Hands
<1>2. TypeOK'
  <2>1. ran' \in [Job -> Nat]
    <3> DEFINE j == routine[task[w]]
    <3>1. ran \in [Job -> Nat] /\ ran' = [ran EXCEPT ![j] = ran[j] + 1]
      BY DEF IInv, TypeOK
    <3> HIDE DEF j
    <3>2. \A i \in Job : i = j => ran[j] + 1 \in Nat
      BY <3>1
    <3> QED BY <3>1, <3>2
  <2>2. routine' \in [Task -> Job \cup {NULL}]
    BY <1>1 DEF IInv, TypeOK
  <2> QED BY <1>1, <2>1, <2>2 DEF IInv, TypeOK
<1>3. Rings'
  BY DEF IInv, Rings
<1>4. Hands'
  BY DEF IInv, TypeOK, Hands
<1>5. Owners'
  <2>1. \A z \in Places : Content(z)' = Content(z)
    BY DEF Content
  <2>2. w \in Places /\ Content(w) = task[w]
    BY PlaceKinds, ContentOf
  <2>3. \A k \in Task : routine'[k] = routine[k] \/ k = task[w]
    BY DEF IInv, TypeOK
  <2> QED BY <2>1, <2>2, <2>3, StayTasks DEF IInv
<1>6. NoLostWakeup' /\ NoFailure'
  BY DEF IInv, TypeOK, NoLostWakeup, NoFailure, IsEmpty
<1> QED BY <1>2, <1>3, <1>4, <1>5, <1>6 DEF IInv

\* The task of the worker goes to the tail of the free tasks.
LEMMA ReleaseInv ==
  ASSUME IInv, NEW w \in Worker, Release(w)
  PROVE  IInv'
<1> USE DEF Release
<1> DEFINE q == free_tasks_queue
           k == task[w]
<1>1. /\ q \in Ring /\ Consecutive(q) /\ k \in Task
  BY DEF IInv, TypeOK, Rings, Hands
<1>2. q.num_of_cells # N
  BY <1>1, NoFullRing DEF IInv
<1>3. /\ ~EnqueueFails(q) /\ q.tail \in Cell /\ q.cells[q.tail] = NULL
      /\ Enqueued(q, k) \in Ring /\ Consecutive(Enqueued(q, k))
      /\ Enqueued(q, k).cells = [q.cells EXCEPT ![q.tail] = k]
      /\ Enqueued(q, k).num_of_cells = q.num_of_cells + 1
  BY <1>1, <1>2, EnqueueRing
<1>4. /\ q' = Enqueued(q, k) /\ failed' = failed
      /\ adder' = IF MustNotify(q') THEN WakeAll(Adder, adder, "obtain") ELSE adder
      /\ worker' = [worker EXCEPT ![w] = "get"]
  BY <1>3
<1>5. TypeOK'
  BY <1>1, <1>3, <1>4 DEF IInv, TypeOK, WakeAll
<1>6. Rings'
  <2>1. Consecutive(q)'
    BY <1>3, <1>4 DEF Consecutive, Ahead
  <2> QED BY <2>1 DEF IInv, Rings
<1>7. Hands'
  <2>1. \A a \in Adder : /\ adder'[a] = "enqueue" <=> adder[a] = "enqueue"
                         /\ adder'[a] # "idle" <=> adder[a] # "idle"
    BY <1>4 DEF IInv, TypeOK, WakeAll
  <2> QED BY <1>4, <2>1, PoolAssumption DEF IInv, TypeOK, Hands, PoolAssumption
<1>8. Owners'
  <2>0. PICK h \in Cell : h = q.tail
    BY <1>3
  <2> DEFINE y == <<"free", h>>
  <2>1. y \in Places /\ w \in Places /\ y # w /\ y \notin Worker \cup Adder
    BY PlaceKinds
  <2>2. Content(w) = k /\ Content(y) = NULL
    BY <1>3, <2>0, ContentOf
  <2>3. Content(w)' = NULL /\ Content(y)' = k
    <3>1. q'.cells[h] = k
      BY <1>1, <1>3, <1>4, <2>0 DEF Ring
    <3>2. task'[w] = NULL
      BY DEF IInv, TypeOK
    <3> QED BY <2>1, <3>1, <3>2 DEF Content
  <2>4. ASSUME NEW z \in Places, z # y, z # w PROVE Content(z)' = Content(z)
    <3>1. CASE z \in Worker \cup Adder
      BY <2>4, <3>1 DEF Content, IInv, TypeOK
    <3>2. CASE z \notin Worker \cup Adder
      <4>1. PICK c \in Cell : z = <<"tasks", c>> \/ z = <<"free", c>>
        BY <3>2, PlaceKinds
      <4>2. z = <<"free", c>> => c # q.tail
        BY <2>0, <2>4
      <4> QED BY <1>1, <1>3, <1>4, <3>2, <4>1, <4>2 DEF Content, Ring
    <3> QED BY <3>1, <3>2
  <2> HIDE DEF y, k
  <2> QED BY <1>1, <2>1, <2>2, <2>3, <2>4, MoveTask DEF IInv
<1>9. NoLostWakeup'
  <2>1. \A v \in Worker : worker'[v] = "wait" => worker[v] = "wait"
    BY <1>4 DEF IInv, TypeOK
  <2>2. CASE \E a \in Adder : adder[a] = "wait"
    <3>1. q.num_of_cells = 0 /\ MustNotify(q')
      BY <1>1, <1>3, <1>4, <2>2 DEF IInv, NoLostWakeup, IsEmpty, MustNotify
    <3>2. \A a \in Adder : adder'[a] # "wait"
      BY <1>4, <3>1 DEF WakeAll
    <3> QED BY <2>1, <3>2 DEF IInv, NoLostWakeup, IsEmpty
  <2>3. CASE ~\E a \in Adder : adder[a] = "wait"
    <3>1. \A a \in Adder : adder'[a] # "wait"
      BY <1>4, <2>3 DEF WakeAll
    <3> QED BY <2>1, <3>1 DEF IInv, NoLostWakeup, IsEmpty
  <2> QED BY <2>2, <2>3
<1>10. NoFailure'
  BY <1>4 DEF IInv, NoFailure
<1> QED BY <1>5, <1>6, <1>7, <1>8, <1>9, <1>10 DEF IInv

LEMMA SpuriousWakeupInv ==
  ASSUME IInv, SpuriousWakeup
  PROVE  IInv'
<1> USE DEF SpuriousWakeup
<1>1. TypeOK'
  BY DEF IInv, TypeOK
<1>2. Rings' /\ Owners'
  BY SamePlaces
<1>3. Hands'
  BY DEF IInv, TypeOK, Hands
<1>4. NoLostWakeup' /\ NoFailure'
  BY DEF IInv, TypeOK, NoLostWakeup, NoFailure, IsEmpty
<1> QED BY <1>1, <1>2, <1>3, <1>4 DEF IInv

\* The steps of threadpool_free.
LEMMA FreeInv ==
  ASSUME IInv, RaiseStop \/ BroadcastStop \/ JoinAll
  PROVE  IInv'
<1>1. UNCHANGED <<tasks_queue, free_tasks_queue, routine, adder, task, call, result, ran, failed>>
  BY DEF RaiseStop, BroadcastStop, JoinAll
<1>2. /\ stop_flag' \in BOOLEAN /\ freeing' \in {"broadcast", "join", "freed"} /\ stop_flag'
      /\ worker' = worker \/ worker' = WakeAll(Worker, worker, "lock")
  BY DEF RaiseStop, BroadcastStop, JoinAll, WokenToStop, IInv, TypeOK, Hands
<1>3. TypeOK'
  BY <1>1, <1>2 DEF IInv, TypeOK, WakeAll
<1>4. Rings' /\ Owners'
  BY <1>1, SamePlaces
<1>5. Hands'
  BY <1>1, <1>2 DEF IInv, TypeOK, Hands, WakeAll
<1>6. NoLostWakeup'
  <2>1. CASE RaiseStop
    BY <2>1 DEF RaiseStop, IInv, NoLostWakeup, IsEmpty
  <2>2. CASE BroadcastStop
    <3>1. \A w \in Worker : worker'[w] # "wait"
      BY <2>2 DEF BroadcastStop, WokenToStop, WakeAll
    <3> QED BY <1>1, <3>1 DEF IInv, NoLostWakeup, IsEmpty
  <2>3. CASE JoinAll
    BY <2>3 DEF JoinAll, IInv, NoLostWakeup, IsEmpty
  <2> QED BY <2>1, <2>2, <2>3
<1>7. NoFailure'
  BY <1>1 DEF IInv, NoFailure
<1> QED BY <1>3, <1>4, <1>5, <1>6, <1>7 DEF IInv

LEMMA Inductive == IInv /\ [Next]_vars => IInv'
<1> SUFFICES ASSUME IInv, [Next]_vars PROVE IInv'
  OBVIOUS
<1>1. ASSUME NEW a \in Adder, AddStep(a) PROVE IInv'
  BY <1>1, AddOverloadedInv, AddWaitInv, AddObtainInv, AddEnqueueInv DEF AddStep
<1>2. ASSUME NEW w \in Worker, WorkerStep(w) PROVE IInv'
  BY <1>2, IdleWorkerInv, GetTaskInv, GetNullTaskInv, EndRoutineInv, ReleaseInv DEF WorkerStep
<1>3. CASE UNCHANGED vars
  <2>1. Rings' /\ Owners'
    BY <1>3, SamePlaces DEF vars
  <2>2. TypeOK' /\ Hands' /\ NoLostWakeup' /\ NoFailure'
    BY <1>3 DEF vars, IInv, TypeOK, Hands, NoLostWakeup, NoFailure, IsEmpty
  <2> QED BY <2>1, <2>2 DEF IInv
<1> QED
  BY <1>1, <1>2, <1>3, CallAddInv, SpuriousWakeupInv, FreeInv DEF Next, FreeStep, Terminated

LEMMA Invariance == Spec => []IInv
BY InitInv, Inductive, PTL DEF Spec

-----------------------------------------------------------------------------
(* The theorems.                                                            *)

\* Every variable of the pool keeps its type.
THEOREM PoolTyped == Spec => []TypeOK
<1>1. IInv => TypeOK
  BY DEF IInv
<1> QED BY <1>1, Invariance, PTL

\* Every task of the pool is in one place: one of the two queues, or the hands of
\* one adder or worker; only a task filled with a NULL routine gets lost.
THEOREM TasksHaveOneOwner == Spec => []OneOwner
<1>1. IInv => OneOwner
  <2> SUFFICES ASSUME IInv PROVE OneOwner
    OBVIOUS
  <2>1. ASSUME NEW q \in Ring, Consecutive(q), NEW c \in Cell
        PROVE  (IF InRing(q, c) THEN q.cells[c] ELSE NULL) = q.cells[c]
    <3>1. InRing(q, c) <=> Ahead(q, c) < q.num_of_cells
      BY AheadIsRemainder DEF InRing, N
    <3> QED BY <2>1, <3>1 DEF Consecutive
  <2>2. tasks_queue \in Ring /\ free_tasks_queue \in Ring /\ Rings
    BY DEF IInv, TypeOK
  <2>3. ASSUME NEW x \in Places PROVE AtPlace(x) = Content(x)
    <3>1. CASE x \in Worker \cup Adder
      BY <3>1 DEF AtPlace, Content
    <3>2. CASE x \notin Worker \cup Adder
      <4>1. PICK c \in Cell : x = <<"tasks", c>> \/ x = <<"free", c>>
        BY <3>2, PlaceKinds
      <4>2. /\ (IF InRing(tasks_queue, c) THEN tasks_queue.cells[c] ELSE NULL) = tasks_queue.cells[c]
            /\ (IF InRing(free_tasks_queue, c) THEN free_tasks_queue.cells[c] ELSE NULL)
                 = free_tasks_queue.cells[c]
        BY <2>1, <2>2 DEF Rings
      <4>3. CASE x = <<"tasks", c>>
        BY <3>2, <4>2, <4>3 DEF AtPlace, Content
      <4>4. CASE x = <<"free", c>>
        BY <3>2, <4>2, <4>4 DEF AtPlace, Content
      <4> QED BY <4>1, <4>3, <4>4
    <3> QED BY <3>1, <3>2
  <2> QED BY <2>3 DEF IInv, Owners, OneOwner
<1> QED BY <1>1, Invariance, PTL

\* threadpool_queue_enqueue finds neither a full ring nor an occupied cell, so no
\* call returns -1 and no worker dies of an error.
THEOREM QueuesNeverOverflow == Spec => []NoFailure
<1>1. IInv => NoFailure
  BY DEF IInv
<1> QED BY <1>1, Invariance, PTL

\* A thread sleeps only while its queue is empty, and no worker sleeps after the
\* broadcast of threadpool_free.
THEOREM NobodySleepsInVain == Spec => []NoLostWakeup
<1>1. IInv => NoLostWakeup
  BY DEF IInv
<1> QED BY <1>1, Invariance, PTL

-----------------------------------------------------------------------------
(* The jobs: what the routines of the tasks are, by where the tasks are.    *)

\* A call under way has no result yet, is the only one for its job, and fills
\* the task it holds; a job is the routine of one task only, from the call on.
Jobs ==
  /\ \A a \in Adder : adder[a] # "idle" =>
       /\ result[call[a].job] = NULL /\ freeing = "no"
       /\ \A b \in Adder : adder[b] # "idle" /\ call[b].job = call[a].job => a = b
  /\ \A a \in Adder : adder[a] = "enqueue" => routine[task[a]] = call[a].job
  /\ \A k, l \in Task : routine[k] = routine[l] /\ routine[k] # NULL => k = l
  /\ \A k \in Task : routine[k] # NULL =>
       result[routine[k]] = 0 \/ \E a \in Adder : adder[a] = "enqueue" /\ task[a] = k
  /\ \A w \in Worker : worker[w] = "run" => routine[task[w]] \in Job \ NullJob
  /\ \A c \in Cell : tasks_queue.cells[c] # NULL => routine[tasks_queue.cells[c]] \in Job

LEMMA InitJobs == Init => Jobs
BY Size DEF Init, Jobs

LEMMA CallAddJobs ==
  ASSUME IInv, Jobs, NEW a \in Adder, NEW j \in Job, NEW b \in BOOLEAN, CallAdd(a, j, b)
  PROVE  Jobs'
<1> USE DEF CallAdd
<1>1. adder \in [Adder -> {"idle", "obtain", "wait", "enqueue"}]
  BY DEF IInv, TypeOK
<1>2. DOMAIN call = Adder
  BY DEF IInv, TypeOK
<1>3. call'[a].job = j /\ adder'[a] = "obtain" /\ result[j] = NULL
  BY <1>1, <1>2
<1>4. \A c \in Adder : c # a => call'[c] = call[c] /\ adder'[c] = adder[c]
  BY <1>1, <1>2
<1>5. \A c \in Adder : c # a /\ adder[c] # "idle" => call[c].job # j
  BY DEF InCall
<1> QED BY <1>3, <1>4, <1>5 DEF Jobs

LEMMA AddOverloadedJobs ==
  ASSUME IInv, Jobs, NEW a \in Adder, AddOverloaded(a)
  PROVE  Jobs'
<1> USE DEF AddOverloaded, Return
<1>1. /\ adder \in [Adder -> {"idle", "obtain", "wait", "enqueue"}]
      /\ call[a].job \in Job /\ result \in [Job -> {0, -1, -2, NULL}]
      /\ \A c \in Adder : adder[c] # "idle" => call[c].job \in Job
      /\ DOMAIN call = Adder /\ DOMAIN task = Worker \cup Adder /\ task[a] = NULL
      /\ routine \in [Task -> Job \cup {NULL}]
  BY DEF IInv, TypeOK, Hands, Call
<1>2. task' = task
  BY <1>1 DEF IInv, TypeOK
<1>3. /\ \A c \in Adder : c # a => call'[c] = call[c] /\ adder'[c] = adder[c]
      /\ adder'[a] = "idle"
  BY <1>1
<1>4. \A c \in Adder : c # a /\ adder[c] # "idle" => result'[call[c].job] = result[call[c].job]
  BY <1>1 DEF Jobs
<1>5. \A k \in Task : routine[k] # NULL /\ result[routine[k]] = 0 => result'[routine[k]] = 0
  BY <1>1, PoolAssumption DEF Jobs, PoolAssumption
<1> QED BY <1>2, <1>3, <1>4, <1>5 DEF Jobs

LEMMA AddWaitJobs ==
  ASSUME IInv, Jobs, NEW a \in Adder, AddWait(a)
  PROVE  Jobs'
<1>1. \A c \in Adder : /\ adder'[c] # "idle" <=> adder[c] # "idle"
                       /\ adder'[c] = "enqueue" <=> adder[c] = "enqueue"
  BY DEF AddWait, IInv, TypeOK
<1> QED BY <1>1 DEF AddWait, Jobs

LEMMA AddObtainJobs ==
  ASSUME IInv, Jobs, NEW a \in Adder, AddObtain(a)
  PROVE  Jobs'
<1> USE DEF AddObtain
<1> DEFINE q == free_tasks_queue
           k == First(q)
           j == call[a].job
<1>1. /\ adder \in [Adder -> {"idle", "obtain", "wait", "enqueue"}]
      /\ j \in Job /\ j # NULL
      /\ DOMAIN task = Worker \cup Adder /\ routine \in [Task -> Job \cup {NULL}]
      /\ \A c \in Adder : adder[c] = "enqueue" => task[c] \in Task
      /\ \A w \in Worker : worker[w] = "run" => task[w] \in Task
      /\ tasks_queue \in Ring
  BY PoolAssumption DEF IInv, TypeOK, Hands, Call, PoolAssumption
<1>2. k \in Task /\ q.head \in Cell
  BY DequeueRing DEF IInv, TypeOK, Rings
\* The task was free, so it is nowhere else.
<1>3. /\ \A t \in Worker \cup Adder : task[t] # k
      /\ \A c \in Cell : tasks_queue.cells[c] # k
  <2>1. Content(<<"free", q.head>>) = k /\ <<"free", q.head>> \in Places
    BY <1>2, ContentOf, PlaceKinds DEF First
  <2>2. \A z \in Places : Content(z) = k => z = <<"free", q.head>>
    BY <1>2, <2>1 DEF IInv, Owners
  <2> QED BY <1>2, <2>2, ContentOf, PlaceKinds
<1>4. /\ routine'[k] = j /\ \A l \in Task : l # k => routine'[l] = routine[l]
      /\ task'[a] = k /\ \A t \in Worker \cup Adder : t # a => task'[t] = task[t]
      /\ adder'[a] = "enqueue" /\ \A c \in Adder : c # a => adder'[c] = adder[c]
  BY <1>1, <1>2
<1>5. UNCHANGED <<worker, tasks_queue, call, result, freeing>>
  OBVIOUS
<1> HIDE DEF j, k, AddObtain
<1>6. adder[a] = "obtain" /\ j = call[a].job
  BY DEF AddObtain, j
<1>7. \A l \in Task : routine[l] # j
  <2>1. SUFFICES ASSUME NEW l \in Task, routine[l] = j PROVE FALSE
    OBVIOUS
  <2>2. PICK c \in Adder : adder[c] = "enqueue" /\ task[c] = l
    BY <1>1, <1>6, <2>1, PoolAssumption DEF Jobs, PoolAssumption
  <2>3. call[c].job = j
    BY <2>1, <2>2 DEF Jobs
  <2> QED BY <1>6, <2>2, <2>3 DEF Jobs
<1>8. \A c \in Adder : adder'[c] # "idle" =>
        /\ result'[call'[c].job] = NULL /\ freeing' = "no"
        /\ \A b \in Adder : adder'[b] # "idle" /\ call'[b].job = call'[c].job => c = b
  BY <1>4, <1>5, <1>6 DEF Jobs
<1>9. \A c \in Adder : adder'[c] = "enqueue" => routine'[task'[c]] = call'[c].job
  BY <1>1, <1>3, <1>4, <1>5, <1>6 DEF Jobs
<1>10. \A l, m \in Task : routine'[l] = routine'[m] /\ routine'[l] # NULL => l = m
  BY <1>2, <1>4, <1>7 DEF Jobs
<1>11. \A l \in Task : routine'[l] # NULL =>
         result'[routine'[l]] = 0 \/ \E c \in Adder : adder'[c] = "enqueue" /\ task'[c] = l
  <2>1. SUFFICES ASSUME NEW l \in Task, routine'[l] # NULL, l # k
                 PROVE  result'[routine'[l]] = 0 \/ \E c \in Adder : adder'[c] = "enqueue" /\ task'[c] = l
    BY <1>4
  <2>2. routine'[l] = routine[l]
    BY <1>4, <2>1
  <2>3. \A c \in Adder : adder[c] = "enqueue" => adder'[c] = "enqueue" /\ task'[c] = task[c]
    BY <1>4, <1>6
  <2> QED BY <1>5, <2>1, <2>2, <2>3 DEF Jobs
<1>12. \A w \in Worker : worker'[w] = "run" => routine'[task'[w]] \in Job \ NullJob
  <2>1. \A w \in Worker : w # a
    BY PoolAssumption DEF PoolAssumption
  <2> QED BY <1>1, <1>3, <1>4, <1>5, <2>1 DEF Jobs
<1>13. \A c \in Cell : tasks_queue'.cells[c] # NULL => routine'[tasks_queue'.cells[c]] \in Job
  BY <1>1, <1>3, <1>4, <1>5 DEF Jobs, Ring
<1> QED BY <1>8, <1>9, <1>10, <1>11, <1>12, <1>13 DEF Jobs

LEMMA AddEnqueueJobs ==
  ASSUME IInv, Jobs, NEW a \in Adder, AddEnqueue(a)
  PROVE  Jobs'
<1> DEFINE q == tasks_queue
           k == task[a]
           j == call[a].job
<1>1. /\ adder \in [Adder -> {"idle", "obtain", "wait", "enqueue"}]
      /\ q \in Ring /\ Consecutive(q) /\ k \in Task /\ j \in Job
      /\ DOMAIN call = Adder /\ DOMAIN task = Worker \cup Adder
      /\ routine \in [Task -> Job \cup {NULL}] /\ result \in [Job -> {0, -1, -2, NULL}]
      /\ \A c \in Adder : adder[c] # "idle" => call[c].job \in Job
      /\ worker \in [Worker -> {"get", "lock", "wait", "run", "release", "exit"}]
  BY DEF IInv, TypeOK, Rings, Hands, Call, AddEnqueue
<1>2. /\ ~EnqueueFails(q) /\ q.tail \in Cell
      /\ Enqueued(q, k).cells = [q.cells EXCEPT ![q.tail] = k]
  BY <1>1, NoFullRing, EnqueueRing DEF IInv
<1>3. /\ q' = Enqueued(q, k)
      /\ worker' = IF MustNotify(q') THEN WakeAll(Worker, worker, "lock") ELSE worker
      /\ result' = [result EXCEPT ![j] = 0]
      /\ task' = [task EXCEPT ![a] = NULL] /\ call' = [call EXCEPT ![a] = NULL]
      /\ adder' = [adder EXCEPT ![a] = "idle"] /\ adder[a] = "enqueue"
      /\ UNCHANGED <<routine, freeing>>
  BY <1>2 DEF AddEnqueue, Return
<1>4. \A w \in Worker : worker'[w] = "run" => worker[w] = "run" /\ task'[w] = task[w]
  BY <1>1, <1>3, PoolAssumption DEF WakeAll, PoolAssumption
<1>5. /\ \A c \in Adder : c # a => /\ call'[c] = call[c] /\ adder'[c] = adder[c]
                                   /\ task'[c] = task[c]
      /\ adder'[a] = "idle"
  BY <1>1, <1>3
<1>6. routine[k] = j /\ result'[j] = 0
  BY <1>1, <1>3 DEF Jobs
<1>7. \A c \in Adder : adder'[c] # "idle" =>
        /\ result'[call'[c].job] = NULL /\ freeing' = "no"
        /\ \A b \in Adder : adder'[b] # "idle" /\ call'[b].job = call'[c].job => c = b
  BY <1>1, <1>3, <1>5 DEF Jobs
<1>8. \A l \in Task : routine'[l] # NULL =>
        result'[routine'[l]] = 0 \/ \E c \in Adder : adder'[c] = "enqueue" /\ task'[c] = l
  BY <1>1, <1>3, <1>5, <1>6 DEF Jobs
<1>9. \A c \in Cell : q'.cells[c] # NULL => routine'[q'.cells[c]] \in Job
  BY <1>1, <1>2, <1>3, <1>6 DEF Jobs, Ring
<1> HIDE DEF q, k, j
<1> QED BY <1>3, <1>4, <1>5, <1>7, <1>8, <1>9 DEF Jobs, q

\* A step that moves no job: no call, no queue of tasks and no routine changes, and
\* no worker begins to run one.
LEMMA SameJobs ==
  ASSUME Jobs, UNCHANGED <<routine, tasks_queue, call, result>>,
         \A a \in Adder : /\ adder'[a] # "idle" <=> adder[a] # "idle"
                          /\ adder'[a] = "enqueue" <=> adder[a] = "enqueue"
                          /\ task'[a] = task[a] /\ (adder[a] # "idle" => freeing' = "no"),
         \A w \in Worker : worker'[w] = "run" => worker[w] = "run" /\ task'[w] = task[w]
  PROVE  Jobs'
BY DEF Jobs

LEMMA GetTaskJobs ==
  ASSUME IInv, Jobs, NEW w \in Worker, GetTask(w)
  PROVE  Jobs'
<1> USE DEF GetTask, MayGetTask
<1> DEFINE q == tasks_queue
           k == First(q)
<1>1. /\ q \in Ring /\ q.head \in Cell /\ k \in Task
      /\ q'.cells = [q.cells EXCEPT ![q.head] = NULL]
  BY TakenFromTasks
<1>2. routine[k] \in Job \ NullJob
  BY <1>1, Size DEF First, Jobs
<1>3. \A c \in Adder : task'[c] = task[c]
  BY PoolAssumption DEF PoolAssumption, IInv, TypeOK
<1>4. \A v \in Worker : worker'[v] = "run" => routine'[task'[v]] \in Job \ NullJob
  BY <1>2 DEF Jobs, IInv, TypeOK
<1>5. \A c \in Cell : q'.cells[c] # NULL => routine'[q'.cells[c]] \in Job
  BY <1>1 DEF Jobs, Ring
<1> QED BY <1>3, <1>4, <1>5 DEF Jobs

LEMMA GetNullTaskJobs ==
  ASSUME IInv, Jobs, NEW w \in Worker, GetNullTask(w)
  PROVE  Jobs'
<1> USE DEF GetNullTask, MayGetTask
<1> DEFINE q == tasks_queue
<1>1. /\ q \in Ring /\ q.head \in Cell
      /\ q'.cells = [q.cells EXCEPT ![q.head] = NULL]
  BY TakenFromTasks
<1>2. \A v \in Worker : worker'[v] = "run" => worker[v] = "run"
  BY DEF IInv, TypeOK
<1>3. \A c \in Cell : q'.cells[c] # NULL => routine'[q'.cells[c]] \in Job
  BY <1>1 DEF Jobs, Ring
<1> QED BY <1>2, <1>3 DEF Jobs

\* Two workers that run a routine hold different tasks, and no adder holds one of
\* them.
LEMMA RunningApart ==
  ASSUME IInv, NEW v \in Worker, worker[v] = "run"
  PROVE  /\ task[v] \in Task
         /\ \A u \in Worker \cup Adder : task[u] = task[v] => u = v
         /\ \A c \in Cell : tasks_queue.cells[c] # task[v]
<1>1. task[v] \in Task
  BY DEF IInv, TypeOK, Hands
<1>2. \A x, y \in Places : Content(x) = task[v] /\ Content(y) = task[v] => x = y
  BY <1>1 DEF IInv, Owners
<1>3. v \in Places /\ Content(v) = task[v]
  BY PlaceKinds, ContentOf
<1> QED BY <1>1, <1>2, <1>3, PlaceKinds, ContentOf

LEMMA EndRoutineJobs ==
  ASSUME IInv, Jobs, NEW w \in Worker, EndRoutine(w)
  PROVE  Jobs'
<1> USE DEF EndRoutine
<1> DEFINE k == task[w]
<1>1. /\ k \in Task /\ routine \in [Task -> Job \cup {NULL}] /\ tasks_queue \in Ring
      /\ \A c \in Adder : adder[c] = "enqueue" => task[c] \in Task
      /\ \A v \in Worker : worker[v] = "run" => task[v] \in Task
      /\ worker \in [Worker -> {"get", "lock", "wait", "run", "release", "exit"}]
  BY DEF IInv, TypeOK, Hands
<1>2. /\ routine'[k] = NULL /\ \A l \in Task : l # k => routine'[l] = routine[l]
      /\ \A v \in Worker : worker'[v] = "run" => worker[v] = "run" /\ v # w
  BY <1>1
<1>3. /\ \A u \in Worker \cup Adder : task[u] = k => u = w
      /\ \A c \in Cell : tasks_queue.cells[c] # k
  BY RunningApart
<1>4. \A c \in Adder : task[c] # k
  BY <1>3, PoolAssumption DEF PoolAssumption
<1>5. UNCHANGED <<tasks_queue, adder, task, call, result, freeing>>
  OBVIOUS
<1> HIDE DEF k, EndRoutine
<1>6. \A c \in Adder : adder'[c] = "enqueue" => routine'[task'[c]] = call'[c].job
  BY <1>1, <1>2, <1>4, <1>5 DEF Jobs
<1>7. \A v \in Worker : worker'[v] = "run" => routine'[task'[v]] \in Job \ NullJob
  BY <1>1, <1>2, <1>3, <1>5 DEF Jobs
<1>8. \A c \in Cell : tasks_queue'.cells[c] # NULL => routine'[tasks_queue'.cells[c]] \in Job
  BY <1>1, <1>2, <1>3, <1>5 DEF Jobs, Ring
<1>9. \A l, m \in Task : routine'[l] = routine'[m] /\ routine'[l] # NULL => l = m
  BY <1>2 DEF Jobs
<1>10. \A l \in Task : routine'[l] # NULL =>
         result'[routine'[l]] = 0 \/ \E c \in Adder : adder'[c] = "enqueue" /\ task'[c] = l
  BY <1>2, <1>5 DEF Jobs
<1> QED BY <1>5, <1>6, <1>7, <1>8, <1>9, <1>10 DEF Jobs

LEMMA ReleaseJobs ==
  ASSUME IInv, Jobs, NEW w \in Worker, Release(w)
  PROVE  Jobs'
<1>1. \A v \in Worker : worker'[v] = "run" => worker[v] = "run" /\ v # w
  BY DEF Release, IInv, TypeOK
<1>2. \A a \in Adder : /\ adder'[a] # "idle" <=> adder[a] # "idle"
                       /\ adder'[a] = "enqueue" <=> adder[a] = "enqueue"
  BY DEF Release, WakeAll, IInv, TypeOK
<1>3. \A t \in Worker \cup Adder : t # w => task'[t] = task[t]
  BY DEF Release, IInv, TypeOK
<1>4. UNCHANGED <<routine, tasks_queue, call, result, freeing>>
  BY DEF Release
<1>5. \A a \in Adder : a # w
  BY PoolAssumption DEF PoolAssumption
<1>6. \A a \in Adder : adder[a] # "idle" => freeing' = "no"
  BY <1>4 DEF Jobs
<1> QED BY <1>1, <1>2, <1>3, <1>4, <1>5, <1>6, SameJobs

LEMMA OtherJobs ==
  ASSUME IInv, Jobs,
         \/ \E w \in Worker : CheckStop(w) \/ Wait(w) \/ ExitStopped(w)
         \/ SpuriousWakeup \/ RaiseStop \/ BroadcastStop \/ JoinAll \/ UNCHANGED vars
  PROVE  Jobs'
<1>1. UNCHANGED <<routine, tasks_queue, call, result, task>>
  BY DEF CheckStop, Wait, ExitStopped, SpuriousWakeup, RaiseStop, BroadcastStop, JoinAll, vars
<1>2. \A v \in Worker : worker'[v] = "run" => worker[v] = "run"
  BY DEF CheckStop, Wait, ExitStopped, SpuriousWakeup, RaiseStop, BroadcastStop, WokenToStop,
         WakeAll, JoinAll, vars, IInv, TypeOK
<1>3. \A a \in Adder : /\ adder'[a] # "idle" <=> adder[a] # "idle"
                       /\ adder'[a] = "enqueue" <=> adder[a] = "enqueue"
  BY DEF CheckStop, Wait, ExitStopped, SpuriousWakeup, RaiseStop, BroadcastStop, JoinAll, vars,
         IInv, TypeOK
<1>4. \A a \in Adder : adder[a] # "idle" => freeing' = "no"
  BY DEF CheckStop, Wait, ExitStopped, SpuriousWakeup, RaiseStop, BroadcastStop, JoinAll, vars, Jobs
<1> QED BY <1>1, <1>2, <1>3, <1>4, SameJobs

LEMMA StepJobs == IInv /\ Jobs /\ [Next]_vars => Jobs'
<1> SUFFICES ASSUME IInv, Jobs, [Next]_vars PROVE Jobs'
  OBVIOUS
<1>1. ASSUME NEW a \in Adder, AddStep(a) PROVE Jobs'
  BY <1>1, AddOverloadedJobs, AddWaitJobs, AddObtainJobs, AddEnqueueJobs DEF AddStep
<1>2. ASSUME NEW w \in Worker, WorkerStep(w) PROVE Jobs'
  BY <1>2, OtherJobs, GetTaskJobs, GetNullTaskJobs, EndRoutineJobs, ReleaseJobs DEF WorkerStep
<1> QED
  BY <1>1, <1>2, CallAddJobs, OtherJobs DEF Next, FreeStep, Terminated

LEMMA JobsInvariance == Spec => [](IInv /\ Jobs)
BY InitInv, Inductive, InitJobs, StepJobs, PTL DEF Spec

-----------------------------------------------------------------------------
(* The ring as a sequence.                                                  *)

\* The cell with the i-th element of a ring.
Nth(q, i) == IF q.head + i - 1 < N THEN q.head + i - 1 ELSE q.head + i - 1 - N

LEMMA NthElement ==
  ASSUME NEW q \in Ring, Consecutive(q), NEW i \in 1 .. q.num_of_cells
  PROVE  /\ Nth(q, i) \in Cell /\ Ahead(q, Nth(q, i)) = i - 1
         /\ Elements(q)[i] = q.cells[Nth(q, i)] /\ Elements(q)[i] \in Task
<1>1. /\ q.head \in 0 .. N - 1 /\ q.num_of_cells \in 0 .. N /\ N \in Nat /\ N > 0
      /\ q.cells \in [Cell -> Task \cup {NULL}] /\ i \in Nat /\ i >= 1 /\ i <= N
      /\ i <= q.num_of_cells
  BY Size DEF Ring, N
<1>2. Nth(q, i) \in Cell /\ Ahead(q, Nth(q, i)) = i - 1
  BY <1>1, Size DEF Nth, Ahead
<1>3. (q.head + i - 1) % N = Nth(q, i)
  <2> DEFINE x == q.head + i - 1
  <2>1. x \in 0 .. 2 * N - 1
    BY <1>1
  <2>2. \A y \in 0 .. N - 1 : y % N = y
    BY <1>1
  <2>3. \A y \in 0 .. N - 1 : (y + N) % N = y % N
    BY <1>1
  <2>4. CASE x < N
    BY <1>1, <2>1, <2>2, <2>4 DEF Nth
  <2>5. CASE x >= N
    <3>1. x - N \in 0 .. N - 1 /\ x = (x - N) + N
      BY <1>1, <2>1, <2>5
    <3>2. x % N = x - N
      <4> HIDE DEF x
      <4> QED BY <2>2, <2>3, <3>1
    <3> QED BY <1>1, <2>1, <2>5, <3>2 DEF Nth
  <2> QED BY <1>1, <2>4, <2>5
<1>4. Elements(q)[i] = q.cells[Nth(q, i)]
  BY <1>3 DEF Elements, N
<1>5. q.cells[Nth(q, i)] # NULL
  BY <1>1, <1>2 DEF Consecutive
<1> QED BY <1>1, <1>2, <1>4, <1>5

\* Enqueueing adds an element at the end.
LEMMA EnqueueElements ==
  ASSUME NEW q \in Ring, Consecutive(q), NEW k \in Task, q.num_of_cells # N
  PROVE  /\ \A i \in 1 .. q.num_of_cells : Elements(Enqueued(q, k))[i] = Elements(q)[i]
         /\ Elements(Enqueued(q, k))[q.num_of_cells + 1] = k
<1> DEFINE r == Enqueued(q, k)
<1>1. /\ r \in Ring /\ Consecutive(r) /\ q.tail \in Cell
      /\ r.cells = [q.cells EXCEPT ![q.tail] = k] /\ r.num_of_cells = q.num_of_cells + 1
  BY EnqueueRing
<1>2. r.head = q.head
  BY DEF Enqueued
<1> HIDE DEF r
<1>3. /\ q.num_of_cells \in Nat /\ q.head \in 0 .. N - 1 /\ N \in Nat
      /\ q.cells \in [Cell -> Task \cup {NULL}] /\ q.cells[q.tail] = NULL
      /\ q.num_of_cells <= N
  BY EnqueueRing, Size DEF Ring, N
<1>4. ASSUME NEW i \in 1 .. q.num_of_cells PROVE Elements(r)[i] = Elements(q)[i]
  <2>1. i \in 1 .. r.num_of_cells
    BY <1>1, <1>3
  <2>2. Nth(r, i) = Nth(q, i)
    BY <1>2 DEF Nth
  <2>3. /\ Nth(q, i) \in Cell /\ Elements(q)[i] = q.cells[Nth(q, i)] /\ Elements(q)[i] \in Task
        /\ Elements(r)[i] = r.cells[Nth(r, i)]
    BY <1>1, <2>1, NthElement
  <2>4. Nth(q, i) # q.tail
    BY <1>3, <2>3, Size
  <2> QED BY <1>1, <1>3, <2>2, <2>3, <2>4
<1>5. Elements(r)[q.num_of_cells + 1] = k
  <2>1. r.num_of_cells \in 1 .. r.num_of_cells
    BY <1>1, <1>3
  <2>2. Elements(r)[r.num_of_cells] = r.cells[Nth(r, r.num_of_cells)]
    BY <1>1, <2>1, NthElement
  <2>3. Nth(r, r.num_of_cells) = q.tail
    BY <1>1, <1>2, <1>3 DEF Nth, Consecutive
  <2> QED BY <1>1, <1>3, <2>2, <2>3
<1> QED BY <1>4, <1>5 DEF r

\* Dequeueing takes the first element.
LEMMA DequeueElements ==
  ASSUME NEW q \in Ring, Consecutive(q), ~IsEmpty(q)
  PROVE  /\ Elements(q)[1] = First(q)
         /\ \A i \in 1 .. q.num_of_cells - 1 : Elements(Dequeued(q))[i] = Elements(q)[i + 1]
<1> DEFINE r == Dequeued(q)
<1>1. /\ r \in Ring /\ Consecutive(r) /\ q.head \in Cell
      /\ r.cells = [q.cells EXCEPT ![q.head] = NULL] /\ r.num_of_cells = q.num_of_cells - 1
  BY DequeueRing
<1>2. q.num_of_cells # 1 => r.head = NextCell(q.head)
  BY DEF Dequeued
<1> HIDE DEF r
<1>3. /\ q.num_of_cells \in 1 .. N /\ q.head \in 0 .. N - 1 /\ N \in Nat /\ N > 0
      /\ q.cells \in [Cell -> Task \cup {NULL}]
  BY Size DEF Ring, N, IsEmpty
<1>4. Elements(q)[1] = First(q)
  <2>1. 1 \in 1 .. q.num_of_cells /\ Nth(q, 1) = q.head
    BY <1>3 DEF Nth
  <2> QED BY <2>1, NthElement DEF First
<1>5. ASSUME NEW i \in 1 .. q.num_of_cells - 1 PROVE Elements(r)[i] = Elements(q)[i + 1]
  <2>1. /\ i \in 1 .. r.num_of_cells /\ i + 1 \in 1 .. q.num_of_cells
        /\ i \in Nat /\ i >= 1 /\ i < N
    BY <1>1, <1>3
  <2>2. Nth(r, i) = Nth(q, i + 1)
    <3>1. r.head = IF q.head + 1 = N THEN 0 ELSE q.head + 1
      BY <1>2, <1>3 DEF NextCell, N
    <3> QED BY <1>3, <2>1, <3>1 DEF Nth
  <2>3. /\ Nth(q, i + 1) \in Cell /\ Elements(q)[i + 1] = q.cells[Nth(q, i + 1)]
        /\ Ahead(q, Nth(q, i + 1)) = (i + 1) - 1
        /\ Elements(r)[i] = r.cells[Nth(r, i)]
    BY <1>1, <2>1, NthElement
  <2>4. Nth(q, i + 1) # q.head
    <3>1. Ahead(q, q.head) = 0
      BY <1>3 DEF Ahead
    <3> QED BY <2>1, <2>3, <3>1
  <2> QED BY <1>1, <1>3, <2>2, <2>3, <2>4
<1> QED BY <1>4, <1>5 DEF r

\* What Append and Tail are, as functions.
LEMMA AppendedSeq ==
  ASSUME NEW S, NEW s \in Seq(S), NEW x \in S
  PROVE  Append(s, x) = [i \in 1 .. Len(s) + 1 |-> IF i = Len(s) + 1 THEN x ELSE s[i]]
<1> DEFINE t == Append(s, x)
<1>1. /\ t \in Seq(S) /\ Len(t) = Len(s) + 1
      /\ \A i \in 1 .. Len(s) : t[i] = s[i]
      /\ t[Len(s) + 1] = x
  BY AppendProperties
<1>2. t \in [1 .. Len(s) + 1 -> S] /\ Len(s) \in Nat
  BY <1>1, LenProperties
<1> HIDE DEF t
<1>3. \A i \in 1 .. Len(s) + 1 : i \in 1 .. Len(s) \/ i = Len(s) + 1
  BY <1>2
<1>4. t = [i \in 1 .. Len(s) + 1 |-> t[i]]
  BY <1>2
<1>5. \A i \in 1 .. Len(s) + 1 : t[i] = IF i = Len(s) + 1 THEN x ELSE s[i]
  BY <1>1, <1>2, <1>3
<1> QED BY <1>4, <1>5 DEF t

LEMMA TailOfSeq ==
  ASSUME NEW S, NEW s \in Seq(S), s # <<>>
  PROVE  Tail(s) = [i \in 1 .. Len(s) - 1 |-> s[i + 1]]
<1> DEFINE t == Tail(s)
<1>1. /\ t \in Seq(S) /\ Len(t) = Len(s) - 1
      /\ \A i \in 1 .. Len(t) : t[i] = s[i + 1]
  BY HeadTailProperties
<1>2. t \in [1 .. Len(s) - 1 -> S]
  BY <1>1, LenProperties
<1> HIDE DEF t
<1>3. t = [i \in 1 .. Len(s) - 1 |-> t[i]]
  BY <1>2
<1> QED BY <1>1, <1>3 DEF t

-----------------------------------------------------------------------------
(* The state of TaskPool.                                                   *)

Queue    == [i \in 1 .. tasks_queue.num_of_cells |-> routine[Elements(tasks_queue)[i]]]
Running  == {routine[task[w]] : w \in {v \in Worker : worker[v] = "run"}}
Accepted == {j \in Job : result[j] = 0}

LEMMA QueueIsSeq ==
  ASSUME IInv, Jobs
  PROVE  Queue \in Seq(Job) /\ Len(Queue) = tasks_queue.num_of_cells
<1> DEFINE q == tasks_queue
<1>1. q \in Ring /\ Consecutive(q) /\ q.num_of_cells \in Nat
  BY Size DEF IInv, TypeOK, Rings, Ring, N
<1>2. ASSUME NEW i \in 1 .. q.num_of_cells PROVE routine[Elements(q)[i]] \in Job
  <2>1. Nth(q, i) \in Cell /\ Elements(q)[i] = q.cells[Nth(q, i)] /\ Elements(q)[i] \in Task
    BY <1>1, NthElement
  <2> QED BY <2>1, Size DEF Jobs
<1> QED BY <1>1, <1>2 DEF Queue

\* The queue of jobs does not change when the tasks in it keep their routines.
LEMMA QueueKept ==
  ASSUME IInv, UNCHANGED tasks_queue,
         \A c \in Cell : tasks_queue.cells[c] # NULL =>
           routine'[tasks_queue.cells[c]] = routine[tasks_queue.cells[c]]
  PROVE  Queue' = Queue
<1> DEFINE q == tasks_queue
<1>1. q \in Ring /\ Consecutive(q)
  BY DEF IInv, TypeOK, Rings
<1>2. ASSUME NEW i \in 1 .. q.num_of_cells
      PROVE  routine'[Elements(q)[i]] = routine[Elements(q)[i]]
  <2>1. Nth(q, i) \in Cell /\ Elements(q)[i] = q.cells[Nth(q, i)] /\ Elements(q)[i] \in Task
    BY <1>1, NthElement
  <2> QED BY <2>1, Size
<1>3. Elements(tasks_queue)' = Elements(tasks_queue)
  BY DEF Elements
<1> QED BY <1>2, <1>3 DEF Queue

LEMMA RunningKept ==
  ASSUME \A w \in Worker : /\ worker'[w] = "run" <=> worker[w] = "run"
                           /\ worker[w] = "run" => routine'[task'[w]] = routine[task[w]]
  PROVE  Running' = Running
BY DEF Running

LEMMA Stutter ==
  ASSUME Queue' = Queue, Running' = Running, Accepted' = Accepted, UNCHANGED stop_flag
  PROVE  UNCHANGED Pool!vars
BY DEF Pool!vars, Queue, Running, Accepted

\* The tasks of the queue, of the workers that run one and of an adder about to
\* enqueue are different ones, so the pool has room for the adder's job.
LEMMA RoomForJob ==
  ASSUME IInv, Jobs, NEW a \in Adder, adder[a] = "enqueue"
  PROVE  Len(Queue) + Cardinality(Running) < N
<1> DEFINE q == tasks_queue
           n == q.num_of_cells
           QT == {Elements(q)[i] : i \in 1 .. n}
           RT == {task[w] : w \in {v \in Worker : worker[v] = "run"}}
<1>1. q \in Ring /\ Consecutive(q) /\ n \in Nat /\ task[a] \in Task
  BY Size DEF IInv, TypeOK, Rings, Ring, N, Hands
<1>2. /\ IsFiniteSet(Task) /\ Cardinality(Task) = N
  <2>1. Cardinality(0 .. N - 1) = N /\ IsFiniteSet(0 .. N - 1)
    BY Size, FS_Interval
  <2> QED BY <2>1, Size
<1>3. /\ \A i \in 1 .. n : /\ Nth(q, i) \in Cell /\ Ahead(q, Nth(q, i)) = i - 1
                           /\ Elements(q)[i] = q.cells[Nth(q, i)] /\ Elements(q)[i] \in Task
  BY <1>1, NthElement
<1>4. QT \subseteq Task /\ RT \subseteq Task
  <2>1. \A v \in Worker : worker[v] = "run" => task[v] \in Task
    BY RunningApart
  <2> QED BY <1>3, <2>1
<1>5. IsFiniteSet(QT) /\ IsFiniteSet(RT)
  BY <1>2, <1>4, FS_Subset
<1>6. n <= Cardinality(QT)
  <2> DEFINE e == [i \in 1 .. n |-> Elements(q)[i]]
  <2>1. ASSUME NEW i \in 1 .. n, NEW k \in 1 .. n, Elements(q)[i] = Elements(q)[k] PROVE i = k
    <3>1. /\ <<"tasks", Nth(q, i)>> \in Places /\ <<"tasks", Nth(q, k)>> \in Places
          /\ Content(<<"tasks", Nth(q, i)>>) = Elements(q)[i]
          /\ Content(<<"tasks", Nth(q, k)>>) = Elements(q)[k]
      BY <1>3, PlaceKinds, ContentOf
    <3>2. Nth(q, i) = Nth(q, k)
      BY <1>3, <2>1, <3>1 DEF IInv, Owners
    <3> QED BY <1>3, <3>2
  <2>2. e \in Injection(1 .. n, QT)
    BY <2>1 DEF Injection, IsInjective
  <2>3. Cardinality(1 .. n) <= Cardinality(QT)
    BY <1>5, <2>2, FS_Injection
  <2>4. Cardinality(1 .. n) = n
    BY <1>1, FS_Interval
  <2> QED BY <2>3, <2>4
<1>7. IsFiniteSet(Running) /\ Cardinality(Running) <= Cardinality(RT)
  <2> DEFINE f == [k \in RT |-> routine[k]]
  <2>1. f \in Surjection(RT, Running)
    BY DEF Surjection, Running
  <2> QED BY <1>5, <2>1, FS_Surjection
<1>8. QT \cap RT = {} /\ task[a] \notin QT \cup RT
  <2>1. \A i \in 1 .. n : /\ <<"tasks", Nth(q, i)>> \in Places
                          /\ <<"tasks", Nth(q, i)>> \notin Worker \cup Adder
                          /\ Content(<<"tasks", Nth(q, i)>>) = Elements(q)[i]
    BY <1>3, PlaceKinds, ContentOf
  <2>2. \A t \in Worker \cup Adder : t \in Places /\ Content(t) = task[t]
    BY PlaceKinds, ContentOf
  <2>3. \A t \in Worker \cup Adder : task[t] \in Task => task[t] \notin QT
    BY <2>1, <2>2 DEF IInv, Owners
  <2>4. task[a] \notin RT
    BY RunningApart, PoolAssumption DEF PoolAssumption
  <2> QED BY <1>1, <1>4, <2>3, <2>4
<1>9. /\ IsFiniteSet(QT \cup RT)
      /\ Cardinality(QT \cup RT) = Cardinality(QT) + Cardinality(RT)
  <2>1. Cardinality(QT) \in Nat /\ Cardinality(RT) \in Nat
    BY <1>5, FS_CardinalityType
  <2> HIDE DEF QT, RT
  <2>2. /\ IsFiniteSet(QT \cup RT)
        /\ Cardinality(QT \cup RT) = Cardinality(QT) + Cardinality(RT) - Cardinality(QT \cap RT)
    BY <1>5, FS_Union
  <2>3. Cardinality(QT \cap RT) = 0
    BY <1>8, FS_EmptySet
  <2> QED BY <2>1, <2>2, <2>3
<1>10. Cardinality(QT \cup RT) < N
  <2>1. QT \cup RT \in SUBSET Task /\ QT \cup RT # Task
    BY <1>1, <1>4, <1>8
  <2>2. Cardinality(QT \cup RT) <= N /\ Cardinality(QT \cup RT) # N
    BY <1>2, <2>1, FS_Subset
  <2>3. Cardinality(QT \cup RT) \in Nat
    BY <1>9, FS_CardinalityType
  <2> QED BY <2>2, <2>3, Size
<1>11. Len(Queue) = n
  BY QueueIsSeq
<1>12. Cardinality(QT) \in Nat /\ Cardinality(RT) \in Nat /\ Cardinality(Running) \in Nat
  BY <1>5, <1>7, FS_CardinalityType
<1> HIDE DEF QT, RT, n
<1> QED BY <1>1, <1>6, <1>7, <1>9, <1>10, <1>11, <1>12, Size

-----------------------------------------------------------------------------
(* Every step is one of TaskPool, or a stutter.                             *)

LEMMA InitPool == Init => Pool!Init
<1> SUFFICES ASSUME Init PROVE Pool!Init
  OBVIOUS
<1>1. 1 .. tasks_queue.num_of_cells = {}
  BY DEF Init
<1>2. Queue = <<>>
  BY <1>1 DEF Queue
<1>3. Running = {} /\ Accepted = {}
  BY PoolAssumption DEF Init, Running, Accepted, PoolAssumption
<1> QED BY <1>2, <1>3 DEF Init, Pool!Init, Queue, Running, Accepted

\* The steps of a call before it enqueues, and its return without a task.
LEMMA CallStutters ==
  ASSUME IInv, Jobs, NEW a \in Adder,
         (\E j \in Job, b \in BOOLEAN : CallAdd(a, j, b)) \/ AddOverloaded(a) \/ AddWait(a)
           \/ AddObtain(a)
  PROVE  UNCHANGED Pool!vars
<1>1. CASE (\E j \in Job, b \in BOOLEAN : CallAdd(a, j, b)) \/ AddWait(a)
  <2>1. UNCHANGED <<tasks_queue, routine, worker, task, result, stop_flag>>
    BY <1>1 DEF CallAdd, AddWait
  <2>2. Queue' = Queue /\ Running' = Running /\ Accepted' = Accepted
    BY <2>1, QueueKept, RunningKept DEF Accepted
  <2> QED BY <2>1, <2>2, Stutter
<1>2. CASE AddOverloaded(a)
  <2>1. UNCHANGED <<tasks_queue, routine, worker, stop_flag>>
    BY <1>2 DEF AddOverloaded
  <2>2. \A w \in Worker : task'[w] = task[w]
    BY <1>2, PoolAssumption DEF AddOverloaded, Return, PoolAssumption, IInv, TypeOK
  <2>3. Accepted' = Accepted
    <3>1. /\ call[a].job \in Job /\ result[call[a].job] = NULL
          /\ result \in [Job -> {0, -1, -2, NULL}]
          /\ result' = [result EXCEPT ![call[a].job] = -2]
      BY <1>2 DEF AddOverloaded, Return, IInv, TypeOK, Hands, Call, Jobs
    <3> QED BY <3>1, PoolAssumption DEF Accepted, PoolAssumption
  <2>4. Queue' = Queue /\ Running' = Running
    BY <2>1, <2>2, QueueKept, RunningKept
  <2> QED BY <2>1, <2>3, <2>4, Stutter
<1>3. CASE AddObtain(a)
  <2> DEFINE k == First(free_tasks_queue)
             h == free_tasks_queue.head
  <2>1. k \in Task /\ h \in Cell
    BY <1>3, DequeueRing DEF AddObtain, IInv, TypeOK, Rings
  <2>2. Content(<<"free", h>>) = k /\ <<"free", h>> \in Places
    BY <2>1, ContentOf, PlaceKinds DEF First
  <2>3. \A z \in Places : Content(z) = k => z = <<"free", h>>
    BY <2>1, <2>2 DEF IInv, Owners
  <2>4. /\ \A t \in Worker \cup Adder : task[t] # k
        /\ \A c \in Cell : tasks_queue.cells[c] # k
    BY <2>1, <2>3, ContentOf, PlaceKinds
  <2>5. /\ UNCHANGED <<tasks_queue, worker, result, stop_flag>>
        /\ routine' = [routine EXCEPT ![k] = call[a].job]
        /\ \A w \in Worker : task'[w] = task[w]
    BY <1>3, PoolAssumption DEF AddObtain, PoolAssumption, IInv, TypeOK
  <2>6. \A l \in Task : l # k => routine'[l] = routine[l]
    BY <2>5 DEF IInv, TypeOK
  <2>7. Queue' = Queue
    <3>1. tasks_queue \in Ring
      BY DEF IInv, TypeOK
    <3> QED BY <2>4, <2>5, <2>6, <3>1, QueueKept DEF Ring
  <2>8. Running' = Running
    <3>1. \A w \in Worker : worker[w] = "run" => task[w] \in Task
      BY RunningApart
    <3> QED BY <2>4, <2>5, <2>6, <3>1, RunningKept
  <2>9. Accepted' = Accepted
    BY <2>5 DEF Accepted
  <2> QED BY <2>5, <2>7, <2>8, <2>9, Stutter
<1> QED BY <1>1, <1>2, <1>3

\* Enqueueing the task of a call is where TaskPool accepts its job.
LEMMA EnqueueAccepts ==
  ASSUME IInv, Jobs, NEW a \in Adder, AddEnqueue(a)
  PROVE  \E j \in Job : Pool!Accept(j)
<1> DEFINE q == tasks_queue
           n == q.num_of_cells
           k == task[a]
<1>0. PICK j \in Job : j = call[a].job
  BY DEF IInv, Hands, Call, AddEnqueue
<1>1. /\ q \in Ring /\ Consecutive(q) /\ n \in Nat /\ k \in Task /\ j \in Job
      /\ adder[a] = "enqueue" /\ result \in [Job -> {0, -1, -2, NULL}]
  BY Size DEF IInv, TypeOK, Rings, Ring, N, Hands, AddEnqueue
<1>2. n # N
  BY <1>1, NoFullRing DEF IInv
<1>3. /\ ~EnqueueFails(q) /\ Enqueued(q, k).num_of_cells = n + 1
  BY <1>1, <1>2, EnqueueRing
<1>4. /\ q' = Enqueued(q, k) /\ result' = [result EXCEPT ![j] = 0]
      /\ worker' = IF MustNotify(q') THEN WakeAll(Worker, worker, "lock") ELSE worker
      /\ task' = [task EXCEPT ![a] = NULL] /\ UNCHANGED <<routine, stop_flag>>
  BY <1>0, <1>3 DEF AddEnqueue, Return
<1>5. /\ \A i \in 1 .. n : Elements(Enqueued(q, k))[i] = Elements(q)[i]
      /\ Elements(Enqueued(q, k))[n + 1] = k
  BY <1>1, <1>2, EnqueueElements
<1>6. routine[k] = j /\ result[j] = NULL /\ freeing = "no"
  BY <1>0, <1>1 DEF Jobs
<1>7. ~stop_flag
  BY <1>6 DEF IInv, Hands
<1>8. j \notin Accepted /\ Accepted' = Accepted \cup {j}
  BY <1>1, <1>4, <1>6, PoolAssumption DEF Accepted, PoolAssumption
<1>9. Len(Queue) + Cardinality(Running) < N
  BY <1>1, RoomForJob
<1>10. Running' = Running
  <2>1. \A w \in Worker : worker'[w] = "run" <=> worker[w] = "run"
    BY <1>4 DEF WakeAll, IInv, TypeOK
  <2>2. \A w \in Worker : task'[w] = task[w]
    BY <1>4, PoolAssumption DEF PoolAssumption, IInv, TypeOK
  <2> QED BY <1>4, <2>1, <2>2, RunningKept
<1>11. Queue' = Append(Queue, j)
  <2>1. Queue \in Seq(Job) /\ Len(Queue) = n
    BY QueueIsSeq
  <2>2. Queue' = [i \in 1 .. n + 1 |-> routine[Elements(Enqueued(q, k))[i]]]
    <3>1. q'.num_of_cells = n + 1
      BY <1>3, <1>4
    <3>2. Elements(tasks_queue)' = Elements(Enqueued(q, k))
      BY <1>4 DEF Elements
    <3> QED BY <1>4, <3>1, <3>2 DEF Queue
  <2>3. \A i \in 1 .. n : Queue[i] = routine[Elements(q)[i]]
    BY DEF Queue
  <2> HIDE DEF n, q, k
  <2>4. \A i \in 1 .. n + 1 : (Queue')[i] = IF i = n + 1 THEN j ELSE Queue[i]
    BY <1>1, <1>5, <1>6, <2>2, <2>3
  <2>5. Append(Queue, j) = [i \in 1 .. n + 1 |-> IF i = n + 1 THEN j ELSE Queue[i]]
    BY <1>1, <2>1, AppendedSeq
  <2> QED BY <1>1, <2>2, <2>4, <2>5
<1>12. /\ Queue' = Append(Queue, j) /\ Running' = Running /\ Accepted' = Accepted \cup {j}
       /\ j \notin Accepted /\ Len(Queue) + Cardinality(Running) < N
       /\ ~stop_flag /\ stop_flag' = stop_flag
  BY <1>4, <1>7, <1>8, <1>9, <1>10, <1>11
<1>13. Pool!Accept(j)
  <2>1. ~stop_flag /\ j \notin {i \in Job : result[i] = 0}
    BY <1>12 DEF Accepted
  <2>2. Len(Queue) + Pool!Cardinality(Running) < THREAD_POOL_QUEUE_SIZE
    <3>1. Pool!Cardinality(Running) = Cardinality(Running)
      BY DEF Pool!Cardinality, Cardinality
    <3> QED BY <1>12, <3>1 DEF N
  <2>3. Queue' = Append(Queue, j)
    BY <1>12
  <2>4. {i \in Job : result[i] = 0}' = {i \in Job : result[i] = 0} \cup {j}
    BY <1>12 DEF Accepted
  <2>5. Running' = Running /\ stop_flag' = stop_flag
    BY <1>12
  <2> QED BY <2>1, <2>2, <2>3, <2>4, <2>5, Zenon DEF Pool!Accept, Queue, Running
<1> QED BY <1>13

\* Dequeueing the head of the tasks takes the head of the queue of jobs.
LEMMA DequeueTail ==
  ASSUME IInv, Jobs, ~IsEmpty(tasks_queue), tasks_queue' = Dequeued(tasks_queue),
         UNCHANGED routine
  PROVE  /\ Queue # <<>> /\ Head(Queue) = routine[First(tasks_queue)]
         /\ Queue' = Tail(Queue)
<1> DEFINE q == tasks_queue
           n == q.num_of_cells
<1>1. q \in Ring /\ Consecutive(q) /\ n \in Nat /\ n >= 1
  BY Size DEF IInv, TypeOK, Rings, Ring, N, IsEmpty
<1>2. Dequeued(q).num_of_cells = n - 1
  BY <1>1, DequeueRing
<1>3. /\ Elements(q)[1] = First(q)
      /\ \A i \in 1 .. n - 1 : Elements(Dequeued(q))[i] = Elements(q)[i + 1]
  BY <1>1, DequeueElements
<1>4. Queue \in Seq(Job) /\ Len(Queue) = n
  BY QueueIsSeq
<1>5. \A i \in 1 .. n : Queue[i] = routine[Elements(q)[i]]
  BY DEF Queue
<1>6. Queue' = [i \in 1 .. n - 1 |-> routine[Elements(Dequeued(q))[i]]]
  <2>1. q'.num_of_cells = n - 1
    BY <1>2
  <2>2. Elements(tasks_queue)' = Elements(Dequeued(q))
    BY DEF Elements
  <2> QED BY <2>1, <2>2 DEF Queue
<1>7. Queue # <<>> /\ Head(Queue) = routine[First(q)]
  <2> HIDE DEF n, q
  <2> QED BY <1>1, <1>3, <1>4, <1>5
<1>8. Queue' = Tail(Queue)
  <2> HIDE DEF n, q
  <2>1. Tail(Queue) = [i \in 1 .. n - 1 |-> Queue[i + 1]]
    BY <1>1, <1>4, <1>7, TailOfSeq
  <2>2. \A i \in 1 .. n - 1 : i \in 1 .. n - 1 /\ i + 1 \in 1 .. n
    BY <1>1
  <2>3. \A i \in 1 .. n - 1 : routine[Elements(Dequeued(q))[i]] = Queue[i + 1]
    BY <1>3, <1>5, <2>2
  <2> QED BY <1>6, <2>1, <2>3
<1> QED BY <1>7, <1>8

\* A worker that takes a task starts its job; a job without a routine is over.
LEMMA TakeStarts ==
  ASSUME IInv, Jobs, NEW w \in Worker, GetTask(w) \/ GetNullTask(w)
  PROVE  Pool!Start
<1> DEFINE k == First(tasks_queue)
<1>1. /\ ~stop_flag /\ ~IsEmpty(tasks_queue) /\ tasks_queue' = Dequeued(tasks_queue)
      /\ UNCHANGED <<routine, result, stop_flag>>
  BY DEF GetTask, GetNullTask, MayGetTask
<1>2. Queue # <<>> /\ Head(Queue) = routine[k] /\ Queue' = Tail(Queue)
  BY <1>1, DequeueTail
<1>3. Accepted' = Accepted
  BY <1>1 DEF Accepted
<1>4. Running' = Running \cup ({routine[k]} \ NullJob)
  <2>1. CASE GetTask(w)
    <3>1. /\ routine[k] \notin NullJob /\ worker[w] = "lock"
          /\ worker' = [worker EXCEPT ![w] = "run"] /\ task' = [task EXCEPT ![w] = k]
      BY <2>1 DEF GetTask, MayGetTask
    <3>2. /\ worker'[w] = "run" /\ task'[w] = k
          /\ \A v \in Worker : v # w => worker'[v] = worker[v] /\ task'[v] = task[v]
      BY <3>1 DEF IInv, TypeOK
    <3> HIDE DEF k
    <3>3. Running' = Running \cup {routine[k]}
      BY <1>1, <3>1, <3>2 DEF Running
    <3> QED BY <3>1, <3>3
  <2>2. CASE GetNullTask(w)
    <3>1. /\ routine[k] \in NullJob /\ worker[w] = "lock" /\ UNCHANGED task
          /\ worker' = [worker EXCEPT ![w] = "get"]
      BY <2>2 DEF GetNullTask, MayGetTask
    <3>2. Running' = Running
      BY <1>1, <3>1, RunningKept DEF IInv, TypeOK
    <3> QED BY <3>1, <3>2
  <2> QED BY <2>1, <2>2
<1> QED BY <1>1, <1>2, <1>3, <1>4 DEF Pool!Start, Queue, Running, Accepted

\* The end of a routine finishes its job.
LEMMA EndFinishes ==
  ASSUME IInv, Jobs, NEW w \in Worker, EndRoutine(w)
  PROVE  \E j \in Job : Pool!Finish(j)
<1> DEFINE k == task[w]
<1>0. PICK j \in Job : j = routine[k]
  BY DEF EndRoutine, Jobs
<1>1. /\ worker[w] = "run" /\ worker' = [worker EXCEPT ![w] = "release"]
      /\ routine' = [routine EXCEPT ![k] = NULL]
      /\ UNCHANGED <<tasks_queue, task, result, stop_flag>>
  BY DEF EndRoutine
<1>2. /\ k \in Task /\ \A u \in Worker \cup Adder : task[u] = k => u = w
      /\ \A c \in Cell : tasks_queue.cells[c] # k
  BY <1>1, RunningApart
<1>3. j # NULL /\ j \in Running
  BY <1>0, <1>1, PoolAssumption DEF Jobs, PoolAssumption, Running
<1>4. \A l \in Task : l # k => routine'[l] = routine[l]
  BY <1>1 DEF IInv, TypeOK
<1>5. Queue' = Queue
  <2>1. tasks_queue \in Ring
    BY DEF IInv, TypeOK
  <2> QED BY <1>1, <1>2, <1>4, <2>1, QueueKept DEF Ring
<1>6. Running' = Running \ {j}
  <2>1. \A v \in Worker : worker[v] = "run" => task[v] \in Task
    BY RunningApart
  <2>2. \A v \in Worker : worker'[v] = "run" <=> worker[v] = "run" /\ v # w
    BY <1>1 DEF IInv, TypeOK
  <2>3. \A v \in Worker : worker[v] = "run" /\ v # w =>
          routine'[task'[v]] = routine[task[v]] /\ routine[task[v]] # j
    <3>1. SUFFICES ASSUME NEW v \in Worker, worker[v] = "run", v # w
                   PROVE  routine'[task'[v]] = routine[task[v]] /\ routine[task[v]] # j
      OBVIOUS
    <3>2. task[v] \in Task /\ task[v] # k
      BY <1>2, <2>1, <3>1
    <3> QED BY <1>0, <1>1, <1>2, <1>3, <1>4, <3>2 DEF Jobs
  <2> HIDE DEF k
  <2>4. \A v \in Worker : worker[v] = "run" /\ v = w => routine[task[v]] = j
    BY <1>0 DEF k
  <2> QED BY <2>2, <2>3, <2>4 DEF Running
<1>7. Accepted' = Accepted
  BY <1>1 DEF Accepted
<1>8. Pool!Finish(j)
  BY <1>1, <1>3, <1>5, <1>6, <1>7 DEF Pool!Finish, Queue, Running, Accepted
<1> QED BY <1>8

\* The steps that TaskPool does not see.
LEMMA OtherStutters ==
  ASSUME IInv, Jobs,
         \/ \E w \in Worker : CheckStop(w) \/ Wait(w) \/ ExitStopped(w) \/ Release(w)
         \/ SpuriousWakeup \/ BroadcastStop \/ JoinAll \/ UNCHANGED vars
  PROVE  UNCHANGED Pool!vars
<1>1. UNCHANGED <<tasks_queue, routine, result, stop_flag>>
  BY DEF CheckStop, Wait, ExitStopped, Release, SpuriousWakeup, BroadcastStop, JoinAll, vars
<1>2. \A v \in Worker : worker'[v] = "run" <=> worker[v] = "run"
  BY DEF CheckStop, Wait, ExitStopped, Release, SpuriousWakeup, BroadcastStop, WokenToStop,
         WakeAll, JoinAll, vars, IInv, TypeOK
<1>3. \A v \in Worker : worker[v] = "run" => task'[v] = task[v]
  BY DEF CheckStop, Wait, ExitStopped, Release, SpuriousWakeup, BroadcastStop, JoinAll, vars,
         IInv, TypeOK
<1>4. Queue' = Queue /\ Running' = Running /\ Accepted' = Accepted
  BY <1>1, <1>2, <1>3, QueueKept, RunningKept DEF Accepted
<1> QED BY <1>1, <1>4, Stutter

\* threadpool_free raises stop_flag: TaskPool stops.
LEMMA RaiseStops ==
  ASSUME IInv, Jobs, RaiseStop
  PROVE  Pool!Stop
<1>1. /\ ~stop_flag /\ stop_flag'
      /\ UNCHANGED <<tasks_queue, routine, worker, task, result>>
  BY DEF RaiseStop, IInv, Hands
<1>2. Queue' = Queue /\ Running' = Running /\ Accepted' = Accepted
  BY <1>1, QueueKept, RunningKept DEF Accepted
<1> QED BY <1>1, <1>2 DEF RaiseStop, Pool!Stop, Queue, Running, Accepted

LEMMA StepImplements == IInv /\ Jobs /\ [Next]_vars => [Pool!Next]_Pool!vars
<1> SUFFICES ASSUME IInv, Jobs, [Next]_vars PROVE Pool!Next \/ UNCHANGED Pool!vars
  OBVIOUS
<1>1. ASSUME NEW a \in Adder, AddStep(a) PROVE Pool!Next \/ UNCHANGED Pool!vars
  <2>1. CASE AddEnqueue(a)
    <3>1. PICK j \in Job : Pool!Accept(j)
      BY <2>1, EnqueueAccepts
    <3> QED BY <3>1 DEF Pool!Next
  <2> QED BY <1>1, <2>1, CallStutters DEF AddStep
<1>2. ASSUME NEW w \in Worker, WorkerStep(w) PROVE Pool!Next \/ UNCHANGED Pool!vars
  <2>1. CASE GetTask(w) \/ GetNullTask(w)
    BY <2>1, TakeStarts DEF Pool!Next
  <2>2. CASE EndRoutine(w)
    <3>1. PICK j \in Job : Pool!Finish(j)
      BY <2>2, EndFinishes
    <3> QED BY <3>1 DEF Pool!Next
  <2> QED BY <1>2, <2>1, <2>2, OtherStutters DEF WorkerStep
<1>3. CASE RaiseStop
  BY <1>3, RaiseStops DEF Pool!Next
<1> QED
  BY <1>1, <1>2, <1>3, CallStutters, OtherStutters DEF Next, FreeStep, Terminated

\* The pool refines TaskPool: jobs start in the order in which they were accepted,
\* each once, the pool never holds more than its tasks, and nothing starts after
\* threadpool_free raised the flag.
THEOREM PoolImplementsTaskPool == Spec => ImplementsPool
BY InitPool, StepImplements, JobsInvariance, PTL DEF ImplementsPool, Pool!Spec, Spec
=============================================================================
