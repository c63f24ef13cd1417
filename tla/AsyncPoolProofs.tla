-------------------------- MODULE AsyncPoolProofs --------------------------
(***************************************************************************)
(* Theorems about AsyncPool, for any number of threads, tasks and nodes:   *)
(* no freed node is read or freed again, no worker sleeps beside a task,   *)
(* and the pool implements TaskPool.                                       *)
(***************************************************************************)
EXTENDS AsyncPool, FiniteSetTheorems, SequenceTheorems, Arithmetic, TLAPS

-----------------------------------------------------------------------------
(* The inductive invariant.                                                 *)

Thread == Worker \cup Caller

\* What the local variables hold, by where the thread is, and that no two
\* threads hold the same node.
Locals ==
  /\ \A w \in Worker : worker[w] = "copy" <=> qtask[w] # NULL
  /\ \A c \in Caller : /\ caller[c] = "link" <=> qtask[c] # NULL
                       /\ caller[c] = "link" <=> call[c] # NULL
                       /\ caller[c] = "link" => data[qtask[c]] = call[c]
  /\ \A t \in Thread : qtask[t] # NULL => heap[qtask[t]] = "live"
  /\ \A s, t \in Thread : qtask[s] # NULL /\ qtask[s] = qtask[t] => s = t

\* A task is pushed once, and only then has a result other than an error.
Pushes ==
  /\ popped <= Len(pushed)
  /\ \A i, j \in 1 .. Len(pushed) : pushed[i] = pushed[j] => i = j
  /\ \A i \in 1 .. Len(pushed) : result[pushed[i]] # NULL
  /\ \A c \in Caller : call[c] # NULL => result[call[c]] = NULL
  /\ \A c, d \in Caller : call[c] # NULL /\ call[c] = call[d] => c = d

Busy == {w \in Worker : worker[w] \in {"copy", "run"}}
Doing(w) == IF worker[w] = "copy" THEN data[qtask[w]] ELSE task[w]

\* The workers are busy with tasks taken from the list, each with another one.
Started ==
  /\ \A w \in Busy : \E i \in 1 .. popped : Doing(w) = pushed[i]
  /\ \A v, w \in Busy : Doing(v) = Doing(w) => v = w

\* The nodes of the list in their order: node[i] holds the task pushed as i-th.
Chain(node) ==
  /\ node[popped + 1] = first /\ node[Len(pushed)] = last
  /\ \A i, j \in popped + 1 .. Len(pushed) : node[i] = node[j] => i = j
  /\ \A i \in popped + 1 .. Len(pushed) :
       /\ heap[node[i]] = "live" /\ data[node[i]] = pushed[i]
       /\ next[node[i]] = IF i = Len(pushed) THEN NULL ELSE node[i + 1]
       /\ \A t \in Thread : qtask[t] # node[i]

\* While the list was never used or has a node, it holds all tasks not popped,
\* and the nodes to be linked have no successor.  Once it has run empty, last
\* dangles and nothing is ever taken again.
Listing ==
  /\ last = NULL => first = NULL /\ pushed = <<>>
  /\ last = NULL \/ first # NULL =>
       \A c \in Caller : qtask[c] # NULL => next[qtask[c]] = NULL
  /\ first # NULL =>
       /\ popped < Len(pushed)
       /\ \E node \in [popped + 1 .. Len(pushed) -> Node] : Chain(node)

\* The tasks a worker can still take.
Pending == IF first = NULL THEN 0 ELSE Len(pushed) - popped

AwakeForPending ==
  ~terminated /\ Waiting # {} => Cardinality(Ready) >= Pending

InitCounted == thread_init = Cardinality({w \in Worker : worker[w] # "start"})

IInv ==
  /\ TypeOK /\ InitCounted /\ Locals /\ Pushes /\ Started /\ Listing
  /\ AwakeForPending

-----------------------------------------------------------------------------
(* The sets of workers the invariant counts.                                *)

\* Any set of workers is finite, and one more makes one more.
LEMMA WorkerSets ==
  ASSUME NEW S, S \subseteq Worker
  PROVE  /\ IsFiniteSet(S) /\ Cardinality(S) \in Nat
         /\ Cardinality(S) <= Cardinality(Worker) /\ Cardinality(Worker) \in Nat
         /\ \A w \in Worker \ S : Cardinality(S \cup {w}) = Cardinality(S) + 1
<1>1. IsFiniteSet(Worker)
  BY AsyncAssumption
<1>2. IsFiniteSet(S) /\ Cardinality(S) <= Cardinality(Worker)
  BY <1>1, FS_Subset
<1> QED BY <1>1, <1>2, FS_CardinalityType, FS_AddElement

\* A step of worker w alone that takes it from one place to another.
Moves(w, place) == worker' = [worker EXCEPT ![w] = place]

LEMMA ReadyAfterMove ==
  ASSUME TypeOK, NEW w \in Worker, NEW place, Moves(w, place)
  PROVE  /\ Ready' = IF place \in {"start", "pop", "woken"} THEN Ready \cup {w} ELSE Ready \ {w}
         /\ Waiting' = IF place = "wait" THEN Waiting \cup {w} ELSE Waiting \ {w}
         /\ \A v \in Worker : worker'[v] = IF v = w THEN place ELSE worker[v]
BY DEF TypeOK, Moves, Ready, Waiting

\* A worker that is not ready becomes ready: one more.  No worker leaves
\* without a task less.
LEMMA ReadyCounts ==
  ASSUME TypeOK, NEW w \in Worker, NEW place, Moves(w, place)
  PROVE  /\ Cardinality(Ready) \in Nat /\ Cardinality(Ready') \in Nat
         /\ Cardinality(Ready') =
              Cardinality(Ready)
                + (IF w \notin Ready /\ place \in {"start", "pop", "woken"} THEN 1 ELSE 0)
                - (IF w \in Ready /\ place \notin {"start", "pop", "woken"} THEN 1 ELSE 0)
<1>1. Ready \subseteq Worker /\ Ready' \subseteq Worker
  BY DEF Ready
<1>2. Cardinality(Ready) \in Nat /\ Cardinality(Ready') \in Nat
  BY <1>1, WorkerSets
<1>3. CASE place \in {"start", "pop", "woken"}
  <2>1. Ready' = Ready \cup {w}
    BY <1>3, ReadyAfterMove
  <2>2. w \notin Ready => Cardinality(Ready') = Cardinality(Ready) + 1
    BY <1>1, <2>1, WorkerSets
  <2>3. w \in Ready => Ready' = Ready
    BY <2>1
  <2> QED BY <1>2, <1>3, <2>2, <2>3
<1>4. CASE place \notin {"start", "pop", "woken"}
  <2>1. Ready' = Ready \ {w}
    BY <1>4, ReadyAfterMove
  <2>2. ASSUME w \in Ready PROVE Cardinality(Ready) = Cardinality(Ready') + 1
    <3>1. Ready = Ready' \cup {w} /\ w \in Worker \ Ready'
      BY <2>1, <2>2
    <3> QED BY <1>1, <3>1, WorkerSets
  <2>3. w \notin Ready => Ready' = Ready
    BY <2>1
  <2> QED BY <1>2, <1>4, <2>2, <2>3
<1> QED BY <1>3, <1>4

LEMMA PendingIsNat == TypeOK /\ Pushes => Pending \in Nat /\ Len(pushed) \in Nat
BY LenProperties DEF TypeOK, Pushes, Pending

\* The count of the threads that began stays when none begins.
LEMMA InitCountKept ==
  ASSUME InitCounted, UNCHANGED thread_init,
         \A v \in Worker : worker'[v] = "start" <=> worker[v] = "start"
  PROVE  InitCounted'
BY DEF InitCounted

-----------------------------------------------------------------------------
(* The initial states.                                                      *)

LEMMA InitInv == Init => IInv
<1> SUFFICES ASSUME Init PROVE IInv
  OBVIOUS
<1> USE DEF Init
<1>1. TypeOK
  <2>1. 0 \in 0 .. Cardinality(Worker)
    BY WorkerSets
  <2>2. <<>> \in Seq(Task)
    OBVIOUS
  <2> QED BY <2>1, <2>2 DEF TypeOK
<1>2. InitCounted
  <2>1. {w \in Worker : worker[w] # "start"} = {}
    OBVIOUS
  <2> QED BY <2>1, FS_EmptySet DEF InitCounted
<1>3. Locals
  BY DEF Locals, Thread
<1>4. Pushes /\ Started /\ Listing
  BY DEF Pushes, Started, Busy, Listing
<1>5. AwakeForPending
  BY DEF AwakeForPending, Waiting
<1> QED BY <1>1, <1>2, <1>3, <1>4, <1>5 DEF IInv

-----------------------------------------------------------------------------
(* What a step that touches neither the list nor the nodes keeps.           *)

LEMMA ListKept ==
  ASSUME Listing, UNCHANGED <<first, last, memory, qtask, pushed, popped>>
  PROVE  Listing'
<1>1. \A c \in Caller : qtask'[c] = qtask[c]
  OBVIOUS
<1>2. \A node : Chain(node)' = Chain(node)
  BY DEF Chain, memory
<1> QED BY <1>1, <1>2 DEF Listing, memory

LEMMA PushesKept ==
  ASSUME Pushes, UNCHANGED <<pushed, popped, result, call>>
  PROVE  Pushes'
BY DEF Pushes

\* A worker moves between places where it holds no task.
LEMMA IdleMove ==
  ASSUME IInv, NEW w \in Worker, NEW place \in {"pop", "wait", "woken", "exit"},
         worker[w] \notin {"copy", "run"}, Moves(w, place),
         UNCHANGED <<first, last, terminated, memory, caller, qtask, task, call,
                     result, history>>
  PROVE  Locals' /\ Pushes' /\ Started' /\ Listing'
<1>1. \A v \in Worker : worker'[v] = IF v = w THEN place ELSE worker[v]
  BY ReadyAfterMove DEF IInv
<1>2. Locals'
  <2>1. \A v \in Worker : worker'[v] = "copy" <=> worker[v] = "copy"
    BY <1>1
  <2> QED BY <2>1 DEF IInv, Locals, Thread, memory
<1>3. Started'
  <2>1. Busy' = Busy
    BY <1>1 DEF Busy
  <2>2. \A v \in Busy : Doing(v)' = Doing(v)
    BY <1>1 DEF Busy, Doing, memory
  <2> QED BY <2>1, <2>2 DEF IInv, Started, history
<1> QED BY <1>2, <1>3, ListKept, PushesKept DEF IInv, history

LEMMA BeginInv == ASSUME IInv, NEW w \in Worker, Begin(w) PROVE IInv'
<1>1. /\ worker[w] = "start" /\ Moves(w, "pop") /\ thread_init' = thread_init + 1
      /\ UNCHANGED <<first, last, terminated, memory, caller, qtask, task, call,
                     result, history>>
  BY DEF Begin, Moves
<1>2. \A v \in Worker : worker'[v] = IF v = w THEN "pop" ELSE worker[v]
  BY <1>1, ReadyAfterMove DEF IInv
<1> DEFINE S == {v \in Worker : worker[v] # "start"}
<1>3. /\ S' = S \cup {w} /\ w \in Worker \ S
      /\ S \subseteq Worker /\ S' \subseteq Worker
  BY <1>1, <1>2
<1>4. Cardinality(S') = Cardinality(S) + 1 /\ Cardinality(S') \in 0 .. Cardinality(Worker)
  BY <1>3, WorkerSets
<1>5. InitCounted'
  BY <1>1, <1>4 DEF IInv, InitCounted
<1>6. TypeOK'
  <2>1. thread_init' \in 0 .. Cardinality(Worker)
    BY <1>4, <1>5 DEF InitCounted
  <2>2. worker' \in [Worker -> {"start", "pop", "wait", "woken", "copy", "run", "exit"}]
    BY <1>1 DEF IInv, TypeOK, Moves
  <2> QED BY <1>1, <2>1, <2>2 DEF IInv, TypeOK, memory, history
<1>7. Locals' /\ Pushes' /\ Started' /\ Listing'
  BY <1>1, IdleMove
<1>8. AwakeForPending'
  <2>1. Ready' = Ready /\ Waiting' = Waiting
    BY <1>1, ReadyAfterMove DEF IInv, Ready, Waiting
  <2>2. Pending' = Pending
    BY <1>1 DEF Pending, history
  <2> QED BY <1>1, <2>1, <2>2 DEF IInv, AwakeForPending
<1> QED BY <1>5, <1>6, <1>7, <1>8 DEF IInv

LEMMA WaitInv == ASSUME IInv, NEW w \in Worker, Wait(w) PROVE IInv'
<1>1. /\ worker[w] \in {"pop", "woken"} /\ first = NULL /\ Moves(w, "wait")
      /\ UNCHANGED <<first, last, terminated, memory, caller, qtask, task, call,
                     result, thread_init, history>>
  BY DEF Wait, AtLoop, Moves
<1>2. \A v \in Worker : worker'[v] = IF v = w THEN "wait" ELSE worker[v]
  BY <1>1, ReadyAfterMove DEF IInv
<1>3. TypeOK'
  <2>1. worker' \in [Worker -> {"start", "pop", "wait", "woken", "copy", "run", "exit"}]
    BY <1>1 DEF IInv, TypeOK, Moves
  <2> QED BY <1>1, <2>1 DEF IInv, TypeOK, memory, history
<1>4. InitCounted'
  BY <1>1, <1>2, InitCountKept DEF IInv
<1>5. Locals' /\ Pushes' /\ Started' /\ Listing'
  BY <1>1, IdleMove
<1>6. AwakeForPending'
  <2>1. Pending' = 0
    BY <1>1 DEF Pending
  <2>2. Cardinality(Ready') \in Nat
    BY <1>1, ReadyCounts DEF IInv
  <2> QED BY <2>1, <2>2 DEF AwakeForPending
<1> QED BY <1>3, <1>4, <1>5, <1>6 DEF IInv

LEMMA LeaveInv == ASSUME IInv, NEW w \in Worker, Leave(w) PROVE IInv'
<1>1. /\ worker[w] = "woken" /\ terminated /\ Moves(w, "exit")
      /\ UNCHANGED <<first, last, terminated, memory, caller, qtask, task, call,
                     result, thread_init, history>>
  BY DEF Leave, Moves
<1>2. \A v \in Worker : worker'[v] = IF v = w THEN "exit" ELSE worker[v]
  BY <1>1, ReadyAfterMove DEF IInv
<1>3. TypeOK'
  <2>1. worker' \in [Worker -> {"start", "pop", "wait", "woken", "copy", "run", "exit"}]
    BY <1>1 DEF IInv, TypeOK, Moves
  <2> QED BY <1>1, <2>1 DEF IInv, TypeOK, memory, history
<1>4. InitCounted'
  BY <1>1, <1>2, InitCountKept DEF IInv
<1>5. Locals' /\ Pushes' /\ Started' /\ Listing'
  BY <1>1, IdleMove
<1>6. AwakeForPending'
  BY <1>1 DEF AwakeForPending
<1> QED BY <1>3, <1>4, <1>5, <1>6 DEF IInv

\* A worker that becomes ready while the list stays does no harm.
LEMMA MoreReady ==
  ASSUME IInv, NEW w \in Worker, w \notin Ready, NEW place \in {"pop", "woken"},
         Moves(w, place), UNCHANGED <<first, terminated, history>>
  PROVE  AwakeForPending'
<1>1. Cardinality(Ready) \in Nat /\ Cardinality(Ready') = Cardinality(Ready) + 1
  BY ReadyCounts DEF IInv
<1>2. Waiting' # {} => Waiting # {}
  BY ReadyAfterMove DEF IInv
<1>3. Pending' = Pending /\ Pending \in Nat
  BY PendingIsNat DEF IInv, Pending, history
<1>4. ~terminated' /\ Waiting' # {} => Cardinality(Ready) >= Pending
  BY <1>2 DEF IInv, AwakeForPending
<1> QED BY <1>1, <1>3, <1>4 DEF AwakeForPending

LEMMA SpuriousWakeupInv ==
  ASSUME IInv, NEW w \in Worker, SpuriousWakeup(w) PROVE IInv'
<1>1. /\ worker[w] = "wait" /\ Moves(w, "woken")
      /\ UNCHANGED <<first, last, terminated, memory, caller, qtask, task, call,
                     result, thread_init, history>>
  BY DEF SpuriousWakeup, Moves
<1>2. \A v \in Worker : worker'[v] = IF v = w THEN "woken" ELSE worker[v]
  BY <1>1, ReadyAfterMove DEF IInv
<1>3. TypeOK'
  <2>1. worker' \in [Worker -> {"start", "pop", "wait", "woken", "copy", "run", "exit"}]
    BY <1>1 DEF IInv, TypeOK, Moves
  <2> QED BY <1>1, <2>1 DEF IInv, TypeOK, memory, history
<1>4. InitCounted'
  BY <1>1, <1>2, InitCountKept DEF IInv
<1>5. Locals' /\ Pushes' /\ Started' /\ Listing'
  BY <1>1, IdleMove
<1>6. AwakeForPending'
  BY <1>1, MoreReady DEF Ready
<1> QED BY <1>3, <1>4, <1>5, <1>6 DEF IInv

LEMMA EndTaskInv == ASSUME IInv, NEW w \in Worker, EndTask(w) PROVE IInv'
<1>1. /\ worker[w] = "run" /\ Moves(w, "pop") /\ task' = [task EXCEPT ![w] = NULL]
      /\ UNCHANGED <<first, last, terminated, memory, caller, qtask, call, result,
                     thread_init, history>>
  BY DEF EndTask, AfterTask, Moves
<1>2. \A v \in Worker : worker'[v] = IF v = w THEN "pop" ELSE worker[v]
  BY <1>1, ReadyAfterMove DEF IInv
<1>3. TypeOK'
  <2>1. /\ worker' \in [Worker -> {"start", "pop", "wait", "woken", "copy", "run", "exit"}]
        /\ task' \in [Worker -> Task \cup {NULL}]
    BY <1>1 DEF IInv, TypeOK, Moves
  <2> QED BY <1>1, <2>1 DEF IInv, TypeOK, memory, history
<1>4. InitCounted'
  BY <1>1, <1>2, InitCountKept DEF IInv
<1>5. Locals'
  <2>1. \A v \in Worker : worker'[v] = "copy" <=> worker[v] = "copy"
    BY <1>1, <1>2
  <2> QED BY <1>1, <2>1 DEF IInv, Locals, Thread, memory
<1>6. Pushes' /\ Listing'
  BY <1>1, ListKept, PushesKept DEF IInv, history
<1>7. Started'
  <2>1. Busy' \subseteq Busy /\ w \notin Busy'
    BY <1>2 DEF Busy
  <2>2. \A v \in Busy' : Doing(v)' = Doing(v)
    BY <1>1, <1>2, <2>1 DEF Busy, Doing, memory, IInv, TypeOK
  <2> QED BY <1>1, <2>1, <2>2 DEF IInv, Started, history
<1>8. AwakeForPending'
  BY <1>1, MoreReady DEF Ready
<1> QED BY <1>3, <1>4, <1>5, <1>6, <1>7, <1>8 DEF IInv

LEMMA TerminateInv == ASSUME IInv, Terminate PROVE IInv'
<1>1. /\ terminated' = TRUE
      /\ worker' = [w \in Worker |-> IF worker[w] = "wait" THEN "woken" ELSE worker[w]]
      /\ UNCHANGED <<first, last, memory, caller, qtask, task, call, result,
                     thread_init, history>>
  BY DEF Terminate
<1>2. \A v \in Worker : worker'[v] = IF worker[v] = "wait" THEN "woken" ELSE worker[v]
  BY <1>1
<1>3. TypeOK'
  <2>1. worker' \in [Worker -> {"start", "pop", "wait", "woken", "copy", "run", "exit"}]
    BY <1>1 DEF IInv, TypeOK
  <2> QED BY <1>1, <2>1 DEF IInv, TypeOK, memory, history
<1>4. InitCounted'
  BY <1>1, <1>2, InitCountKept DEF IInv
<1>5. Locals'
  <2>1. \A v \in Worker : worker'[v] = "copy" <=> worker[v] = "copy"
    BY <1>2
  <2> QED BY <1>1, <2>1 DEF IInv, Locals, Thread, memory
<1>6. Pushes' /\ Listing'
  BY <1>1, ListKept, PushesKept DEF IInv, history
<1>7. Started'
  <2>1. Busy' = Busy
    BY <1>2 DEF Busy
  <2>2. \A v \in Busy : Doing(v)' = Doing(v)
    BY <1>1, <1>2 DEF Busy, Doing, memory
  <2> QED BY <1>1, <2>1, <2>2 DEF IInv, Started, history
<1>8. AwakeForPending'
  BY <1>1 DEF AwakeForPending
<1> QED BY <1>3, <1>4, <1>5, <1>6, <1>7, <1>8 DEF IInv

\* Where no thread moves the workers owe the list what they owed.
LEMMA SameReady ==
  ASSUME IInv, UNCHANGED <<worker, first, terminated, history>>
  PROVE  AwakeForPending'
BY DEF IInv, AwakeForPending, Ready, Waiting, Pending, history

\* A task that was not given is not in the list and no caller has it.
LEMMA NotGiven ==
  ASSUME IInv, NEW j \in Task, ~Given(j)
  PROVE  /\ result[j] = NULL
         /\ \A c \in Caller : call[c] # j
         /\ \A i \in 1 .. Len(pushed) : pushed[i] # j
<1>1. result[j] = NULL
  BY DEF Given
<1>2. \A c \in Caller : call[c] # j
  BY AsyncAssumption DEF Given, IInv, Locals, TypeOK
<1> QED BY <1>1, <1>2 DEF IInv, Pushes

LEMMA FailPushInv ==
  ASSUME IInv, NEW c \in Caller, NEW j \in Task, FailPush(c, j) PROVE IInv'
<1>1. /\ ~Given(j) /\ result' = [result EXCEPT ![j] = -1]
      /\ UNCHANGED <<first, last, terminated, memory, worker, caller, qtask, task,
                     call, thread_init, history>>
  BY DEF FailPush
<1>2. /\ result[j] = NULL
      /\ \A d \in Caller : call[d] # j
      /\ \A i \in 1 .. Len(pushed) : pushed[i] # j
  BY <1>1, NotGiven
<1>3. TypeOK'
  <2>1. result' \in [Task -> {0, -1, NULL}]
    BY <1>1 DEF IInv, TypeOK
  <2> QED BY <1>1, <2>1 DEF IInv, TypeOK, memory, history
<1>4. InitCounted'
  BY <1>1 DEF IInv, InitCounted
<1>5. Locals'
  BY <1>1 DEF IInv, Locals, Thread, memory
<1>6. Pushes'
  <2>1. \A k \in Task : k # j => result'[k] = result[k]
    BY <1>1 DEF IInv, TypeOK
  <2>2. \A i \in 1 .. Len(pushed) : pushed[i] \in Task
    BY LenProperties DEF IInv, TypeOK
  <2>3. \A d \in Caller : call[d] # NULL => call[d] \in Task
    BY DEF IInv, TypeOK
  <2> QED BY <1>1, <1>2, <2>1, <2>2, <2>3 DEF IInv, Pushes, history
<1>7. Started'
  BY <1>1 DEF IInv, Started, Busy, Doing, memory, history
<1>8. Listing' /\ AwakeForPending'
  BY <1>1, ListKept, SameReady DEF IInv, history
<1> QED BY <1>3, <1>4, <1>5, <1>6, <1>7, <1>8 DEF IInv

-----------------------------------------------------------------------------
(* A node is allocated and filled: nobody has it, and it is not listed.     *)

LEMMA BeginPushDoing ==
  ASSUME IInv, NEW c \in Caller, NEW j \in Task, BeginPush(c, j)
  PROVE  Busy' = Busy /\ \A w \in Busy : Doing(w)' = Doing(w)
<1>1. UNCHANGED <<worker, task>>
  BY DEF BeginPush
<1>2. PICK n \in Node : /\ heap[n] # "live"
                        /\ data' = [data EXCEPT ![n] = j]
                        /\ qtask' = [qtask EXCEPT ![c] = n]
  BY DEF BeginPush
<1>3. Busy' = Busy
  BY <1>1 DEF Busy
<1>4. ASSUME NEW w \in Busy PROVE Doing(w)' = Doing(w)
  <2>1. CASE worker[w] = "copy"
    <3>1. w \in Worker /\ w \in Thread /\ w # c
      BY AsyncAssumption DEF Busy, Thread
    <3>2. qtask[w] \in Node /\ qtask[w] # n
      BY <1>2, <2>1, <3>1 DEF IInv, Locals, TypeOK
    <3>3. qtask'[w] = qtask[w] /\ data'[qtask[w]] = data[qtask[w]]
      BY <1>2, <3>1, <3>2 DEF IInv, TypeOK
    <3> QED BY <1>1, <2>1, <3>3 DEF Doing
  <2>2. CASE worker[w] # "copy"
    BY <1>1, <2>2 DEF Doing
  <2> QED BY <2>1, <2>2
<1> QED BY <1>3, <1>4

LEMMA BeginPushInv ==
  ASSUME IInv, NEW c \in Caller, NEW j \in Task, BeginPush(c, j) PROVE IInv'
<1>1. /\ caller[c] = "idle" /\ ~Given(j)
      /\ call' = [call EXCEPT ![c] = j] /\ caller' = [caller EXCEPT ![c] = "link"]
      /\ UNCHANGED <<first, last, terminated, worker, task, result, thread_init,
                     history>>
  BY DEF BeginPush
<1>2. PICK n \in Node : /\ heap[n] # "live"
                        /\ heap' = [heap EXCEPT ![n] = "live"]
                        /\ data' = [data EXCEPT ![n] = j]
                        /\ next' = [next EXCEPT ![n] = NULL]
                        /\ qtask' = [qtask EXCEPT ![c] = n]
  BY DEF BeginPush
<1>3. /\ result[j] = NULL
      /\ \A d \in Caller : call[d] # j
      /\ \A i \in 1 .. Len(pushed) : pushed[i] # j
  BY <1>1, NotGiven
<1>4. /\ c \notin Worker /\ c \in Thread /\ n # NULL /\ j # NULL
      /\ \A t \in Thread : qtask'[t] = IF t = c THEN n ELSE qtask[t]
      /\ \A d \in Caller : /\ call'[d] = IF d = c THEN j ELSE call[d]
                           /\ caller'[d] = IF d = c THEN "link" ELSE caller[d]
      /\ \A m \in Node : /\ heap'[m] = IF m = n THEN "live" ELSE heap[m]
                         /\ data'[m] = IF m = n THEN j ELSE data[m]
                         /\ next'[m] = IF m = n THEN NULL ELSE next[m]
  BY <1>1, <1>2, AsyncAssumption DEF IInv, TypeOK, Thread
<1>5. \A t \in Thread : qtask[t] # n /\ qtask[t] \in Node \cup {NULL}
  BY <1>2, <1>4 DEF IInv, Locals, TypeOK, Thread
<1>6. TypeOK'
  <2>1. /\ next' \in [Node -> Node \cup {NULL}] /\ data' \in [Node -> Task \cup {NULL}]
        /\ heap' \in [Node -> {"none", "live", "freed"}]
    BY <1>2 DEF IInv, TypeOK
  <2>2. /\ qtask' \in [Worker \cup Caller -> Node \cup {NULL}]
        /\ call' \in [Caller -> Task \cup {NULL}] /\ caller' \in [Caller -> {"idle", "link"}]
    BY <1>1, <1>2 DEF IInv, TypeOK
  <2> QED BY <1>1, <2>1, <2>2 DEF IInv, TypeOK, history
<1>7. InitCounted'
  BY <1>1 DEF IInv, InitCounted
<1>8. Locals'
  <2>1. \A w \in Worker : worker'[w] = "copy" <=> qtask'[w] # NULL
    BY <1>1, <1>4 DEF IInv, Locals, Thread
  <2>2. \A d \in Caller : /\ caller'[d] = "link" <=> qtask'[d] # NULL
                          /\ caller'[d] = "link" <=> call'[d] # NULL
    BY <1>4 DEF IInv, Locals, Thread
  <2>3. \A d \in Caller : caller'[d] = "link" => data'[qtask'[d]] = call'[d]
    <3>1. SUFFICES ASSUME NEW d \in Caller, caller'[d] = "link" PROVE data'[qtask'[d]] = call'[d]
      OBVIOUS
    <3>2. CASE d = c
      BY <1>4, <3>2
    <3>3. CASE d # c
      <4>1. caller[d] = "link" /\ qtask[d] # NULL /\ data[qtask[d]] = call[d]
        BY <1>4, <3>1, <3>3 DEF IInv, Locals
      <4>2. d \in Thread /\ qtask[d] \in Node /\ qtask[d] # n
        BY <1>5, <4>1 DEF Thread
      <4> QED BY <1>4, <3>3, <4>1, <4>2
    <3> QED BY <3>2, <3>3
  <2>4. \A t \in Thread : qtask'[t] # NULL => heap'[qtask'[t]] = "live"
    BY <1>4, <1>5 DEF IInv, Locals
  <2>5. \A s, t \in Thread : qtask'[s] # NULL /\ qtask'[s] = qtask'[t] => s = t
    BY <1>4, <1>5 DEF IInv, Locals
  <2>6. Thread' = Thread
    BY DEF Thread
  <2> QED BY <2>1, <2>2, <2>3, <2>4, <2>5, <2>6 DEF Locals
<1>9. Pushes'
  BY <1>1, <1>3, <1>4 DEF IInv, Pushes, history
<1>10. Started'
  BY <1>1, BeginPushDoing DEF IInv, Started, history
<1>11. Listing'
  <2>1. last' = NULL \/ first' # NULL =>
          \A d \in Caller : qtask'[d] # NULL => next'[qtask'[d]] = NULL
    BY <1>1, <1>4, <1>5 DEF IInv, Listing, Thread
  <2>2. ASSUME NEW node \in [popped + 1 .. Len(pushed) -> Node], Chain(node)
        PROVE  Chain(node)'
    <3>1. \A i \in popped + 1 .. Len(pushed) : node[i] \in Node /\ node[i] # n
      BY <1>2, <2>2 DEF Chain
    <3>2. \A i \in popped + 1 .. Len(pushed) : \A t \in Thread : qtask'[t] # node[i]
      BY <1>4, <2>2, <3>1 DEF Chain
    <3>3. UNCHANGED <<first, last, popped, pushed>> /\ Thread' = Thread
      BY <1>1 DEF history, Thread
    <3>4. \A i \in popped + 1 .. Len(pushed) :
            /\ heap'[node[i]] = "live" /\ data'[node[i]] = pushed[i]
            /\ next'[node[i]] = IF i = Len(pushed) THEN NULL ELSE node[i + 1]
      BY <1>4, <2>2, <3>1 DEF Chain
    <3> QED BY <2>2, <3>2, <3>3, <3>4 DEF Chain
  <2> QED BY <1>1, <2>1, <2>2 DEF IInv, Listing, history
<1>12. AwakeForPending'
  BY <1>1, SameReady
<1> QED BY <1>6, <1>7, <1>8, <1>9, <1>10, <1>11, <1>12 DEF IInv

-----------------------------------------------------------------------------
(* A worker frees the node it took: no other thread has it, no list has it. *)

LEMMA CopyAndFreeDoing ==
  ASSUME IInv, NEW w \in Worker, CopyAndFree(w)
  PROVE  Busy' = Busy /\ \A v \in Busy : Doing(v)' = Doing(v)
<1>1. /\ worker[w] = "copy" /\ Moves(w, "run") /\ UNCHANGED data
      /\ task' = [task EXCEPT ![w] = data[qtask[w]]]
      /\ qtask' = [qtask EXCEPT ![w] = NULL]
  BY DEF CopyAndFree, Moves
<1>2. /\ \A v \in Worker : worker'[v] = (IF v = w THEN "run" ELSE worker[v])
      /\ \A v \in Worker : task'[v] = (IF v = w THEN data[qtask[w]] ELSE task[v])
      /\ \A v \in Worker : v # w => qtask'[v] = qtask[v]
  <2>1. \A v \in Worker : worker'[v] = (IF v = w THEN "run" ELSE worker[v])
    BY <1>1, ReadyAfterMove DEF IInv
  <2>2. \A v \in Worker : task'[v] = (IF v = w THEN data[qtask[w]] ELSE task[v])
    BY <1>1 DEF IInv, TypeOK
  <2>3. \A v \in Worker : v # w => qtask'[v] = qtask[v]
    BY <1>1 DEF IInv, TypeOK
  <2> QED BY <2>1, <2>2, <2>3
<1>3. Busy' = Busy
  BY <1>1, <1>2 DEF Busy
<1>4. \A v \in Busy : Doing(v)' = Doing(v)
  <2>1. SUFFICES ASSUME NEW v \in Busy PROVE Doing(v)' = Doing(v)
    OBVIOUS
  <2>2. v \in Worker
    BY DEF Busy
  <2>3. CASE v = w
    BY <1>1, <1>2, <2>2, <2>3 DEF Doing
  <2>4. CASE v # w
    BY <1>1, <1>2, <2>2, <2>4 DEF Doing
  <2> QED BY <2>3, <2>4
<1> QED BY <1>3, <1>4

LEMMA CopyAndFreeInv ==
  ASSUME IInv, NEW w \in Worker, CopyAndFree(w) PROVE IInv'
<1> DEFINE n == qtask[w]
<1>1. /\ worker[w] = "copy" /\ Moves(w, "run")
      /\ task' = [task EXCEPT ![w] = data[n]] /\ heap' = [heap EXCEPT ![n] = "freed"]
      /\ qtask' = [qtask EXCEPT ![w] = NULL]
      /\ UNCHANGED <<first, last, terminated, next, data, caller, call, result,
                     thread_init, history>>
  BY DEF CopyAndFree, Moves
<1>2. \A v \in Worker : worker'[v] = IF v = w THEN "run" ELSE worker[v]
  BY <1>1, ReadyAfterMove DEF IInv
<1>3. /\ w \in Thread /\ w \notin Caller /\ n # NULL /\ n \in Node
      /\ \A t \in Thread : qtask'[t] = IF t = w THEN NULL ELSE qtask[t]
      /\ \A m \in Node : heap'[m] = IF m = n THEN "freed" ELSE heap[m]
      /\ \A v \in Worker : task'[v] = IF v = w THEN data[n] ELSE task[v]
      /\ \A t \in Thread : qtask[t] \in Node \cup {NULL} /\ (qtask[t] = n => t = w)
  BY <1>1, AsyncAssumption DEF IInv, TypeOK, Thread, Locals
<1>4. TypeOK'
  <2>1. /\ heap' \in [Node -> {"none", "live", "freed"}]
        /\ qtask' \in [Worker \cup Caller -> Node \cup {NULL}]
        /\ worker' \in [Worker -> {"start", "pop", "wait", "woken", "copy", "run", "exit"}]
    BY <1>1 DEF IInv, TypeOK, Moves
  <2>2. data[n] \in Task \cup {NULL}
    BY <1>3 DEF IInv, TypeOK
  <2>3. task' \in [Worker -> Task \cup {NULL}]
    BY <1>1, <2>2 DEF IInv, TypeOK
  <2> QED BY <1>1, <2>1, <2>3 DEF IInv, TypeOK, history
<1>5. InitCounted'
  BY <1>1, <1>2, InitCountKept DEF IInv
<1>6. Locals'
  <2>1. \A v \in Worker : worker'[v] = "copy" <=> qtask'[v] # NULL
    BY <1>2, <1>3 DEF IInv, Locals, Thread
  <2>2. \A c \in Caller : qtask'[c] = qtask[c]
    BY <1>3 DEF Thread
  <2>3. \A t \in Thread : qtask'[t] # NULL => heap'[qtask'[t]] = "live"
    BY <1>3 DEF IInv, Locals
  <2>4. \A s, t \in Thread : qtask'[s] # NULL /\ qtask'[s] = qtask'[t] => s = t
    BY <1>3 DEF IInv, Locals
  <2>5. Thread' = Thread
    BY DEF Thread
  <2> QED BY <1>1, <2>1, <2>2, <2>3, <2>4, <2>5 DEF IInv, Locals
<1>7. Pushes'
  BY <1>1, PushesKept DEF IInv, history
<1>8. Started'
  BY <1>1, CopyAndFreeDoing DEF IInv, Started, history
<1>9. Listing'
  <2>1. \A c \in Caller : qtask'[c] = qtask[c]
    BY <1>3 DEF Thread
  <2>2. ASSUME NEW node \in [popped + 1 .. Len(pushed) -> Node], Chain(node)
        PROVE  Chain(node)'
    <3>1. \A i \in popped + 1 .. Len(pushed) : node[i] \in Node /\ node[i] # n
      BY <1>3, <2>2 DEF Chain
    <3>2. \A i \in popped + 1 .. Len(pushed) : \A t \in Thread : qtask'[t] # node[i]
      BY <1>3, <2>2, <3>1, AsyncAssumption DEF Chain
    <3>3. UNCHANGED <<first, last, popped, pushed, next, data>> /\ Thread' = Thread
      BY <1>1 DEF history, Thread
    <3>4. \A i \in popped + 1 .. Len(pushed) : heap'[node[i]] = "live"
      BY <1>3, <2>2, <3>1 DEF Chain
    <3> QED BY <2>2, <3>2, <3>3, <3>4 DEF Chain
  <2> QED BY <1>1, <2>1, <2>2 DEF IInv, Listing, history
<1>10. AwakeForPending'
  <2>1. Ready' = Ready /\ Waiting' = Waiting
    BY <1>1, ReadyAfterMove DEF IInv, Ready, Waiting
  <2>2. Pending' = Pending
    BY <1>1 DEF Pending, history
  <2> QED BY <1>1, <2>1, <2>2 DEF IInv, AwakeForPending
<1> QED BY <1>4, <1>5, <1>6, <1>7, <1>8, <1>9, <1>10 DEF IInv

-----------------------------------------------------------------------------
(* A worker takes the first node: it holds the task pushed next.            *)

LEMMA PopFacts ==
  ASSUME IInv, NEW w \in Worker, Pop(w)
  PROVE  /\ worker[w] \in {"pop", "woken"} /\ Moves(w, "copy") /\ w \in Thread
         /\ first \in Node /\ first # NULL
         /\ qtask' = [qtask EXCEPT ![w] = first] /\ first' = next[first]
         /\ popped' = popped + 1
         /\ UNCHANGED <<last, terminated, memory, caller, task, call, result,
                        thread_init, pushed>>
         /\ \A t \in Thread : qtask'[t] = IF t = w THEN first ELSE qtask[t]
         /\ popped \in Nat /\ Len(pushed) \in Nat /\ popped < Len(pushed)
         /\ heap[first] = "live" /\ data[first] = pushed[popped + 1]
         /\ next[first] = NULL <=> popped + 1 = Len(pushed)
         /\ \A t \in Thread : qtask[t] # first
<1>1. /\ worker[w] \in {"pop", "woken"} /\ Moves(w, "copy") /\ w \in Thread
      /\ first \in Node /\ first # NULL
      /\ qtask' = [qtask EXCEPT ![w] = first] /\ first' = next[first]
      /\ popped' = popped + 1
      /\ UNCHANGED <<last, terminated, memory, caller, task, call, result,
                     thread_init, pushed>>
  BY DEF Pop, Advanced, AtLoop, Moves, Thread, IInv, TypeOK
<1>2. \A t \in Thread : qtask'[t] = IF t = w THEN first ELSE qtask[t]
  BY <1>1 DEF IInv, TypeOK, Thread
<1>3. popped \in Nat /\ Len(pushed) \in Nat /\ popped < Len(pushed)
  BY <1>1, LenProperties DEF IInv, TypeOK, Listing
<1>4. PICK node \in [popped + 1 .. Len(pushed) -> Node] : Chain(node)
  BY <1>1 DEF IInv, Listing
<1>5. popped + 1 \in popped + 1 .. Len(pushed) /\ node[popped + 1] = first
  BY <1>3, <1>4 DEF Chain
<1>6. /\ heap[first] = "live" /\ data[first] = pushed[popped + 1]
      /\ next[first] = IF popped + 1 = Len(pushed) THEN NULL ELSE node[popped + 2]
      /\ \A t \in Thread : qtask[t] # first
  BY <1>3, <1>4, <1>5 DEF Chain
<1>7. popped + 1 # Len(pushed) => node[popped + 2] \in Node
  <2>1. popped + 1 # Len(pushed) => popped + 2 \in popped + 1 .. Len(pushed)
    BY <1>3
  <2> QED BY <1>4, <2>1
<1>8. next[first] = NULL <=> popped + 1 = Len(pushed)
  BY <1>6, <1>7, AsyncAssumption
<1> QED BY <1>1, <1>2, <1>3, <1>6, <1>8

LEMMA PopDoing ==
  ASSUME IInv, NEW w \in Worker, Pop(w)
  PROVE  /\ Busy' = Busy \cup {w} /\ w \notin Busy
         /\ \A v \in Busy : Doing(v)' = Doing(v)
         /\ Doing(w)' = pushed[popped + 1]
<1>1. /\ worker[w] \in {"pop", "woken"} /\ Moves(w, "copy") /\ w \in Thread
      /\ UNCHANGED <<data, task>> /\ data[first] = pushed[popped + 1]
      /\ \A t \in Thread : qtask'[t] = IF t = w THEN first ELSE qtask[t]
  BY PopFacts DEF memory
<1>2. \A v \in Worker : worker'[v] = IF v = w THEN "copy" ELSE worker[v]
  BY <1>1, ReadyAfterMove DEF IInv
<1>3. Busy' = Busy \cup {w} /\ w \notin Busy
  BY <1>1, <1>2 DEF Busy
<1>4. ASSUME NEW v \in Busy PROVE Doing(v)' = Doing(v)
  <2>1. v # w /\ v \in Worker /\ v \in Thread
    BY <1>3 DEF Busy, Thread
  <2> QED BY <1>1, <1>2, <2>1 DEF Doing
<1>5. Doing(w)' = pushed[popped + 1]
  BY <1>1, <1>2 DEF Doing
<1> QED BY <1>3, <1>4, <1>5

LEMMA PopInv == ASSUME IInv, NEW w \in Worker, Pop(w) PROVE IInv'
<1>1. /\ worker[w] \in {"pop", "woken"} /\ Moves(w, "copy") /\ w \in Thread
      /\ first \in Node /\ first # NULL
      /\ qtask' = [qtask EXCEPT ![w] = first] /\ first' = next[first]
      /\ popped' = popped + 1
      /\ UNCHANGED <<last, terminated, memory, caller, task, call, result,
                     thread_init, pushed>>
  BY PopFacts
<1>2. /\ \A t \in Thread : qtask'[t] = IF t = w THEN first ELSE qtask[t]
      /\ popped \in Nat /\ Len(pushed) \in Nat /\ popped < Len(pushed)
      /\ heap[first] = "live" /\ data[first] = pushed[popped + 1]
      /\ next[first] = NULL <=> popped + 1 = Len(pushed)
      /\ \A t \in Thread : qtask[t] # first
  BY PopFacts
<1>3. \A v \in Worker : worker'[v] = IF v = w THEN "copy" ELSE worker[v]
  BY <1>1, ReadyAfterMove DEF IInv
<1>4. TypeOK'
  <2>1. /\ qtask' \in [Worker \cup Caller -> Node \cup {NULL}]
        /\ worker' \in [Worker -> {"start", "pop", "wait", "woken", "copy", "run", "exit"}]
    BY <1>1 DEF IInv, TypeOK, Moves
  <2>2. first' \in Node \cup {NULL} /\ popped' \in Nat
    BY <1>1, <1>2 DEF IInv, TypeOK
  <2> QED BY <1>1, <2>1, <2>2 DEF IInv, TypeOK, memory
<1>5. InitCounted'
  BY <1>1, <1>3, InitCountKept DEF IInv
<1>6. Locals'
  <2>1. \A v \in Worker : worker'[v] = "copy" <=> qtask'[v] # NULL
    BY <1>1, <1>2, <1>3 DEF IInv, Locals, Thread
  <2>2. \A c \in Caller : qtask'[c] = qtask[c]
    BY <1>2, AsyncAssumption DEF Thread
  <2>3. \A t \in Thread : qtask'[t] # NULL => heap'[qtask'[t]] = "live"
    BY <1>1, <1>2 DEF IInv, Locals, memory
  <2>4. \A s, t \in Thread : qtask'[s] # NULL /\ qtask'[s] = qtask'[t] => s = t
    BY <1>2 DEF IInv, Locals
  <2>5. Thread' = Thread
    BY DEF Thread
  <2> QED BY <1>1, <2>1, <2>2, <2>3, <2>4, <2>5 DEF IInv, Locals, memory
<1>7. Pushes'
  BY <1>1, <1>2 DEF IInv, Pushes
<1>8. Started'
  <2>1. Busy' = Busy \cup {w} /\ w \notin Busy
    BY PopDoing
  <2>2. \A v \in Busy : Doing(v)' = Doing(v)
    BY PopDoing
  <2>3. Doing(w)' = pushed[popped + 1]
    BY PopDoing
  <2>4. popped + 1 \in 1 .. popped' /\ popped + 1 \in 1 .. Len(pushed)
    BY <1>1, <1>2
  <2>5. \A v \in Busy' : \E i \in 1 .. popped' : Doing(v)' = pushed'[i]
    <3>1. SUFFICES ASSUME NEW v \in Busy' PROVE \E i \in 1 .. popped' : Doing(v)' = pushed'[i]
      OBVIOUS
    <3>2. CASE v = w
      BY <1>1, <2>3, <2>4, <3>2
    <3>3. CASE v \in Busy
      <4>1. PICK i \in 1 .. popped : Doing(v) = pushed[i]
        BY <3>3 DEF IInv, Started
      <4>2. i \in 1 .. popped' /\ Doing(v)' = pushed'[i]
        BY <1>1, <1>2, <2>2, <3>3, <4>1
      <4> QED BY <4>2
    <3> QED BY <2>1, <3>2, <3>3
  <2>6. \A v \in Busy : Doing(v)' # Doing(w)'
    <3>1. SUFFICES ASSUME NEW v \in Busy PROVE Doing(v)' # Doing(w)'
      OBVIOUS
    <3>2. PICK i \in 1 .. popped : Doing(v) = pushed[i]
      BY DEF IInv, Started
    <3>3. i \in 1 .. Len(pushed) /\ i # popped + 1
      BY <1>2, <3>2
    <3>4. pushed[i] # pushed[popped + 1]
      BY <2>4, <3>3 DEF IInv, Pushes
    <3> QED BY <2>2, <2>3, <3>2, <3>4
  <2>7. \A u, v \in Busy' : Doing(u)' = Doing(v)' => u = v
    BY <2>1, <2>2, <2>6 DEF IInv, Started
  <2> QED BY <2>5, <2>7 DEF Started
<1>9. Listing'
  <2>1. last # NULL
    <3>1. pushed # <<>>
      BY <1>2
    <3> QED BY <3>1 DEF IInv, Listing
  <2>2. \A c \in Caller : qtask'[c] # NULL => next'[qtask'[c]] = NULL
    <3>1. \A c \in Caller : qtask'[c] = qtask[c]
      BY <1>2, AsyncAssumption DEF Thread
    <3> QED BY <1>1, <3>1 DEF IInv, Listing, memory
  <2>3. ASSUME first' # NULL
        PROVE  /\ popped' < Len(pushed')
               /\ \E node \in [popped' + 1 .. Len(pushed') -> Node] : Chain(node)'
    <3>1. popped + 1 # Len(pushed) /\ popped' < Len(pushed')
      BY <1>1, <1>2, <2>3
    <3>2. PICK old \in [popped + 1 .. Len(pushed) -> Node] : Chain(old)
      BY <1>1 DEF IInv, Listing
    <3>3. PICK node \in [popped' + 1 .. Len(pushed') -> Node] :
            \A i \in popped' + 1 .. Len(pushed') :
               i \in popped + 1 .. Len(pushed) /\ i # popped + 1 /\ node[i] = old[i]
      <4> DEFINE f == [i \in popped' + 1 .. Len(pushed') |-> old[i]]
      <4>1. \A i \in popped' + 1 .. Len(pushed') :
               i \in popped + 1 .. Len(pushed) /\ i # popped + 1 /\ f[i] = old[i]
        BY <1>1, <1>2
      <4>2. f \in [popped' + 1 .. Len(pushed') -> Node]
        BY <3>2, <4>1
      <4> QED BY <4>1, <4>2
    <3>4. /\ popped + 2 \in popped' + 1 .. Len(pushed') /\ popped' + 1 = popped + 2
          /\ popped + 1 \in popped + 1 .. Len(pushed)
          /\ Len(pushed') \in popped' + 1 .. Len(pushed')
      BY <1>1, <1>2, <3>1
    <3>5. node[popped' + 1] = first'
      <4>1. next[old[popped + 1]] = old[popped + 2] /\ old[popped + 1] = first
        BY <1>2, <3>1, <3>2, <3>4 DEF Chain
      <4> QED BY <1>1, <3>3, <3>4, <4>1
    <3>6. node[Len(pushed')] = last'
      BY <1>1, <3>2, <3>3, <3>4 DEF Chain
    <3>7. \A i, j \in popped' + 1 .. Len(pushed') : node[i] = node[j] => i = j
      BY <3>2, <3>3 DEF Chain
    <3>8. \A i \in popped' + 1 .. Len(pushed') :
            /\ heap'[node[i]] = "live" /\ data'[node[i]] = pushed'[i]
            /\ next'[node[i]] = IF i = Len(pushed') THEN NULL ELSE node[i + 1]
      <4>1. SUFFICES ASSUME NEW i \in popped' + 1 .. Len(pushed')
                     PROVE  /\ heap'[node[i]] = "live" /\ data'[node[i]] = pushed'[i]
                            /\ next'[node[i]] = IF i = Len(pushed') THEN NULL ELSE node[i + 1]
        OBVIOUS
      <4>2. /\ heap[old[i]] = "live" /\ data[old[i]] = pushed[i]
            /\ next[old[i]] = IF i = Len(pushed) THEN NULL ELSE old[i + 1]
        BY <3>2, <3>3 DEF Chain
      <4>3. i # Len(pushed) => i + 1 \in popped' + 1 .. Len(pushed')
        BY <1>1, <1>2
      <4> QED BY <1>1, <3>3, <4>2, <4>3 DEF memory
    <3>9. \A i \in popped' + 1 .. Len(pushed') : \A t \in Thread' : qtask'[t] # node[i]
      <4>1. SUFFICES ASSUME NEW i \in popped' + 1 .. Len(pushed'), NEW t \in Thread
                     PROVE  qtask'[t] # node[i]
        BY DEF Thread
      <4>2. qtask[t] # old[i] /\ first = old[popped + 1] /\ old[i] # old[popped + 1]
        BY <3>2, <3>3, <3>4 DEF Chain
      <4> QED BY <1>2, <3>3, <4>2
    <3>10. Chain(node)'
      BY <3>5, <3>6, <3>7, <3>8, <3>9 DEF Chain
    <3> QED BY <3>1, <3>3, <3>10
  <2> QED BY <1>1, <2>1, <2>2, <2>3 DEF Listing
<1>10. AwakeForPending'
  <2>0. w \in Ready /\ w \notin Waiting
    BY <1>1 DEF Ready, Waiting
  <2>1. Cardinality(Ready) \in Nat /\ Cardinality(Ready') = Cardinality(Ready) - 1
    BY <1>1, <2>0, ReadyCounts DEF IInv
  <2>2. Waiting' = Waiting
    <3>1. Waiting' = Waiting \ {w}
      BY <1>1, ReadyAfterMove DEF IInv
    <3> QED BY <2>0, <3>1
  <2>3. Pending' = Pending - 1 /\ Pending \in Nat
    <3>1. Pending = Len(pushed) - popped
      BY <1>1 DEF Pending
    <3>2. Pending' = IF popped + 1 = Len(pushed) THEN 0 ELSE Len(pushed) - (popped + 1)
      BY <1>1, <1>2 DEF Pending
    <3> QED BY <1>2, <3>1, <3>2
  <2> QED BY <1>1, <2>1, <2>2, <2>3 DEF IInv, AwakeForPending
<1> QED BY <1>4, <1>5, <1>6, <1>7, <1>8, <1>9, <1>10 DEF IInv

-----------------------------------------------------------------------------
(* A caller links its node after last: into the list, or to no effect when  *)
(* last dangles.                                                            *)

LEMMA EndPushFacts ==
  ASSUME IInv, NEW c \in Caller, EndPush(c)
  PROVE  /\ caller[c] = "link" /\ c \in Thread /\ qtask[c] \in Node /\ call[c] \in Task
         /\ first' = (IF last = NULL THEN qtask[c] ELSE first) /\ last' = qtask[c]
         /\ next' = IF last = NULL THEN next ELSE [next EXCEPT ![last] = qtask[c]]
         /\ pushed' = Append(pushed, call[c])
         /\ result' = [result EXCEPT ![call[c]] = 0]
         /\ caller' = [caller EXCEPT ![c] = "idle"]
         /\ call' = [call EXCEPT ![c] = NULL]
         /\ qtask' = [qtask EXCEPT ![c] = NULL]
         /\ UNCHANGED <<terminated, data, heap, task, thread_init, popped>>
         /\ data[qtask[c]] = call[c] /\ heap[qtask[c]] = "live"
         /\ \A t \in Thread : qtask'[t] = IF t = c THEN NULL ELSE qtask[t]
         /\ \A d \in Caller : /\ call'[d] = IF d = c THEN NULL ELSE call[d]
                              /\ caller'[d] = IF d = c THEN "idle" ELSE caller[d]
<1>1. /\ caller[c] = "link" /\ qtask[c] # NULL /\ call[c] # NULL
      /\ data[qtask[c]] = call[c] /\ heap[qtask[c]] = "live" /\ c \in Thread
  BY DEF EndPush, IInv, Locals, Thread
<1>2. qtask[c] \in Node /\ call[c] \in Task
  BY <1>1 DEF IInv, TypeOK
<1>3. /\ first' = (IF last = NULL THEN qtask[c] ELSE first) /\ last' = qtask[c]
      /\ next' = IF last = NULL THEN next ELSE [next EXCEPT ![last] = qtask[c]]
      /\ pushed' = Append(pushed, call[c])
      /\ result' = [result EXCEPT ![call[c]] = 0]
      /\ caller' = [caller EXCEPT ![c] = "idle"]
      /\ call' = [call EXCEPT ![c] = NULL]
      /\ qtask' = [qtask EXCEPT ![c] = NULL]
      /\ UNCHANGED <<terminated, data, heap, task, thread_init, popped>>
  BY DEF EndPush, Link
<1>4. /\ \A t \in Thread : qtask'[t] = IF t = c THEN NULL ELSE qtask[t]
      /\ \A d \in Caller : /\ call'[d] = IF d = c THEN NULL ELSE call[d]
                           /\ caller'[d] = IF d = c THEN "idle" ELSE caller[d]
  BY <1>3 DEF IInv, TypeOK, Thread
<1> QED BY <1>1, <1>2, <1>3, <1>4

LEMMA PushedAfter ==
  ASSUME IInv, NEW c \in Caller, EndPush(c)
  PROVE  /\ pushed \in Seq(Task) /\ pushed' \in Seq(Task)
         /\ Len(pushed) \in Nat /\ Len(pushed') = Len(pushed) + 1
         /\ \A i \in 1 .. Len(pushed) : pushed'[i] = pushed[i]
         /\ pushed'[Len(pushed) + 1] = call[c]
<1>1. pushed \in Seq(Task) /\ call[c] \in Task /\ pushed' = Append(pushed, call[c])
  BY EndPushFacts DEF IInv, TypeOK
<1> QED BY <1>1, LenProperties, AppendProperties

\* The signal wakes one of the workers that wait, if there is one.
LEMMA SignalWakes ==
  ASSUME IInv, NEW c \in Caller, EndPush(c)
  PROVE  \/ Waiting = {} /\ UNCHANGED worker
         \/ \E w \in Waiting : Moves(w, "woken")
BY DEF EndPush, Signal, MustSignal, Moves

LEMMA EndPushWorkers ==
  ASSUME IInv, NEW c \in Caller, EndPush(c)
  PROVE  /\ worker' \in [Worker -> {"start", "pop", "wait", "woken", "copy", "run", "exit"}]
         /\ \A v \in Worker : \/ worker'[v] = worker[v]
                              \/ worker[v] = "wait" /\ worker'[v] = "woken"
<1>1. CASE UNCHANGED worker
  BY <1>1 DEF IInv, TypeOK
<1>2. CASE \E w \in Waiting : Moves(w, "woken")
  <2>1. PICK w \in Waiting : Moves(w, "woken")
    BY <1>2
  <2>2. w \in Worker /\ worker[w] = "wait"
    BY DEF Waiting
  <2>3. \A v \in Worker : worker'[v] = IF v = w THEN "woken" ELSE worker[v]
    BY <2>1, <2>2, ReadyAfterMove DEF IInv
  <2>4. worker' \in [Worker -> {"start", "pop", "wait", "woken", "copy", "run", "exit"}]
    BY <2>1, <2>2 DEF IInv, TypeOK, Moves
  <2> QED BY <2>2, <2>3, <2>4
<1> QED BY <1>1, <1>2, SignalWakes

\* One task more is pending at most.
LEMMA EndPushPending ==
  ASSUME IInv, NEW c \in Caller, EndPush(c)
  PROVE  Pending \in Nat /\ Pending' \in Nat /\ Pending' <= Pending + 1
<1>1. /\ first' = (IF last = NULL THEN qtask[c] ELSE first) /\ qtask[c] \in Node
      /\ popped' = popped
  BY EndPushFacts
<1>2. Len(pushed) \in Nat /\ Len(pushed') = Len(pushed) + 1
  BY PushedAfter
<1>3. popped \in Nat /\ popped <= Len(pushed)
  BY DEF IInv, TypeOK, Pushes
<1>4. last = NULL => first = NULL /\ Len(pushed) = 0
  <2>1. last = NULL => first = NULL /\ pushed = <<>>
    BY DEF IInv, Listing
  <2>2. Len(<<>>) = 0
    OBVIOUS
  <2> QED BY <2>1, <2>2
<1>5. qtask[c] # NULL
  BY <1>1, AsyncAssumption
<1> QED BY <1>1, <1>2, <1>3, <1>4, <1>5 DEF Pending

LEMMA EndPushAwake == ASSUME IInv, NEW c \in Caller, EndPush(c) PROVE AwakeForPending'
<1>1. Pending \in Nat /\ Pending' \in Nat /\ Pending' <= Pending + 1 /\ UNCHANGED terminated
  BY EndPushPending, EndPushFacts
<1>2. CASE Waiting = {} /\ UNCHANGED worker
  <2>1. Waiting' = {}
    BY <1>2 DEF Waiting
  <2> QED BY <2>1 DEF AwakeForPending
<1>3. CASE \E w \in Waiting : Moves(w, "woken")
  <2>1. PICK w \in Waiting : Moves(w, "woken")
    BY <1>3
  <2>2. w \in Worker /\ w \notin Ready /\ Waiting # {}
    BY DEF Waiting, Ready
  <2>3. Cardinality(Ready) \in Nat /\ Cardinality(Ready') = Cardinality(Ready) + 1
    BY <2>1, <2>2, ReadyCounts DEF IInv
  <2>4. ~terminated => Cardinality(Ready) >= Pending
    BY <2>2 DEF IInv, AwakeForPending
  <2> QED BY <1>1, <2>3, <2>4 DEF AwakeForPending
<1> QED BY <1>2, <1>3, SignalWakes

LEMMA EndPushLocals == ASSUME IInv, NEW c \in Caller, EndPush(c) PROVE Locals'
<1>1. /\ c \in Thread /\ c \notin Worker
      /\ \A t \in Thread : qtask'[t] = IF t = c THEN NULL ELSE qtask[t]
      /\ \A d \in Caller : /\ call'[d] = IF d = c THEN NULL ELSE call[d]
                           /\ caller'[d] = IF d = c THEN "idle" ELSE caller[d]
      /\ UNCHANGED <<data, heap>>
  BY EndPushFacts, AsyncAssumption
<1>2. \A v \in Worker : worker'[v] = "copy" <=> worker[v] = "copy"
  BY EndPushWorkers
<1>3. \A v \in Worker : worker'[v] = "copy" <=> qtask'[v] # NULL
  BY <1>1, <1>2 DEF IInv, Locals, Thread
<1>4. \A d \in Caller : /\ caller'[d] = "link" <=> qtask'[d] # NULL
                        /\ caller'[d] = "link" <=> call'[d] # NULL
                        /\ caller'[d] = "link" => data'[qtask'[d]] = call'[d]
  BY <1>1 DEF IInv, Locals, Thread
<1>5. \A t \in Thread : qtask'[t] # NULL => heap'[qtask'[t]] = "live"
  BY <1>1 DEF IInv, Locals
<1>6. \A s, t \in Thread : qtask'[s] # NULL /\ qtask'[s] = qtask'[t] => s = t
  BY <1>1 DEF IInv, Locals
<1>7. Thread' = Thread
  BY DEF Thread
<1> QED BY <1>3, <1>4, <1>5, <1>6, <1>7 DEF Locals

LEMMA EndPushPushes == ASSUME IInv, NEW c \in Caller, EndPush(c) PROVE Pushes'
<1>1. /\ call[c] \in Task /\ call[c] # NULL /\ UNCHANGED popped
      /\ result' = [result EXCEPT ![call[c]] = 0]
      /\ \A d \in Caller : call'[d] = IF d = c THEN NULL ELSE call[d]
  BY EndPushFacts, AsyncAssumption
<1>2. /\ pushed \in Seq(Task) /\ Len(pushed) \in Nat /\ Len(pushed') = Len(pushed) + 1
      /\ \A i \in 1 .. Len(pushed) : pushed'[i] = pushed[i]
      /\ pushed'[Len(pushed) + 1] = call[c]
  BY PushedAfter
<1>3. /\ \A i \in 1 .. Len(pushed) : pushed[i] \in Task /\ pushed[i] # call[c]
      /\ \A d \in Caller : call'[d] # NULL => call[d] \in Task /\ call[d] # call[c]
  BY <1>1, <1>2, LenProperties DEF IInv, TypeOK, Pushes
<1>4. \A k \in Task : result'[k] = IF k = call[c] THEN 0 ELSE result[k]
  BY <1>1 DEF IInv, TypeOK
<1>5. \A i \in 1 .. Len(pushed') : i \in 1 .. Len(pushed) \/ i = Len(pushed) + 1
  BY <1>2
<1>6. popped' <= Len(pushed')
  BY <1>1, <1>2 DEF IInv, Pushes, TypeOK
<1>7. \A i, j \in 1 .. Len(pushed') : pushed'[i] = pushed'[j] => i = j
  BY <1>2, <1>3, <1>5 DEF IInv, Pushes
<1>8. \A i \in 1 .. Len(pushed') : result'[pushed'[i]] # NULL
  BY <1>1, <1>2, <1>3, <1>4, <1>5, AsyncAssumption DEF IInv, Pushes
<1>9. \A d \in Caller : call'[d] # NULL => result'[call'[d]] = NULL
  BY <1>1, <1>3, <1>4 DEF IInv, Pushes
<1>10. \A d, e \in Caller : call'[d] # NULL /\ call'[d] = call'[e] => d = e
  BY <1>1 DEF IInv, Pushes
<1> QED BY <1>6, <1>7, <1>8, <1>9, <1>10 DEF Pushes

LEMMA EndPushDoing ==
  ASSUME IInv, NEW c \in Caller, EndPush(c)
  PROVE  Busy' = Busy /\ \A v \in Busy : Doing(v)' = Doing(v)
<1>1. UNCHANGED <<data, task, popped>> /\ \A w \in Worker : qtask'[w] = qtask[w]
  BY EndPushFacts, AsyncAssumption DEF Thread
<1>2. Busy' = Busy
  BY EndPushWorkers DEF Busy
<1>3. \A v \in Busy : v \in Worker /\ worker'[v] = worker[v]
  BY EndPushWorkers DEF Busy
<1> QED BY <1>1, <1>2, <1>3 DEF Doing

LEMMA EndPushStarted == ASSUME IInv, NEW c \in Caller, EndPush(c) PROVE Started'
<1>1. UNCHANGED popped
  BY EndPushFacts
<1>2. /\ Len(pushed) \in Nat
      /\ \A i \in 1 .. Len(pushed) : pushed'[i] = pushed[i]
  BY PushedAfter
<1>3. popped \in Nat /\ popped <= Len(pushed)
  BY DEF IInv, TypeOK, Pushes
<1>4. \A i \in 1 .. popped : pushed'[i] = pushed[i]
  BY <1>2, <1>3
<1> QED BY <1>1, <1>4, EndPushDoing DEF IInv, Started

LEMMA EndPushListing == ASSUME IInv, NEW c \in Caller, EndPush(c) PROVE Listing'
<1> DEFINE n == qtask[c]
<1>1. /\ c \in Thread /\ n \in Node /\ n # NULL
      /\ first' = (IF last = NULL THEN n ELSE first) /\ last' = n
      /\ next' = IF last = NULL THEN next ELSE [next EXCEPT ![last] = n]
      /\ UNCHANGED <<data, heap, popped>>
      /\ data[n] = call[c] /\ heap[n] = "live"
      /\ \A t \in Thread : qtask'[t] = IF t = c THEN NULL ELSE qtask[t]
  BY EndPushFacts, AsyncAssumption
<1>2. /\ Len(pushed) \in Nat /\ Len(pushed') = Len(pushed) + 1
      /\ \A i \in 1 .. Len(pushed) : pushed'[i] = pushed[i]
      /\ pushed'[Len(pushed) + 1] = call[c]
  BY PushedAfter
<1>3. popped \in Nat /\ popped <= Len(pushed) /\ Thread' = Thread
  BY DEF IInv, TypeOK, Pushes, Thread
<1>4. \A t \in Thread : t # c => qtask[t] # n
  BY <1>1 DEF IInv, Locals
\* The first node of all.
<1>5. CASE last = NULL
  <2>1. first = NULL /\ Len(pushed) = 0 /\ popped = 0
    <3>1. first = NULL /\ pushed = <<>>
      BY <1>5 DEF IInv, Listing
    <3>2. Len(<<>>) = 0
      OBVIOUS
    <3> QED BY <1>3, <3>1, <3>2
  <2>2. \A d \in Caller : qtask[d] # NULL => next[qtask[d]] = NULL
    BY <1>5 DEF IInv, Listing
  <2>3. next[n] = NULL
    BY <1>1, <2>2
  <2>4. \A d \in Caller : qtask'[d] # NULL => next'[qtask'[d]] = NULL
    BY <1>1, <1>5, <2>2 DEF Thread
  <2> DEFINE node == [i \in popped + 1 .. 1 |-> n]
  <2>5. /\ popped' + 1 .. Len(pushed') = popped + 1 .. 1
        /\ popped + 1 = 1 /\ Len(pushed') = 1 /\ popped' = 0
    BY <1>1, <1>2, <2>1
  <2>6. /\ node \in [popped + 1 .. 1 -> Node]
        /\ \A i \in popped + 1 .. 1 : i = 1 /\ node[i] = n
        /\ 1 \in popped + 1 .. 1
    BY <1>1, <2>1
  <2> HIDE DEF node
  <2>7. PICK g \in [popped' + 1 .. Len(pushed') -> Node] :
          \A i \in popped' + 1 .. Len(pushed') : i = 1 /\ g[i] = n
    BY <2>5, <2>6
  <2>8. \A t \in Thread : qtask'[t] # n
    BY <1>1, <1>4
  <2>9. pushed'[1] = data'[n] /\ heap'[n] = "live" /\ next'[n] = NULL /\ first' = n /\ last' = n
    BY <1>1, <1>2, <1>5, <2>1, <2>3
  <2>10. 1 \in popped' + 1 .. Len(pushed') /\ popped' + 1 = 1 /\ g[1] = n
    BY <2>5, <2>7
  <2>11. \A i \in popped' + 1 .. Len(pushed') :
           /\ heap'[g[i]] = "live" /\ data'[g[i]] = pushed'[i]
           /\ next'[g[i]] = IF i = Len(pushed') THEN NULL ELSE g[i + 1]
           /\ \A t \in Thread' : qtask'[t] # g[i]
    BY <1>3, <2>5, <2>7, <2>8, <2>9
  <2>12. Chain(g)'
    BY <2>5, <2>7, <2>9, <2>10, <2>11 DEF Chain
  <2> QED BY <1>1, <2>4, <2>5, <2>12 DEF Listing
\* The list has run empty: nothing comes into it.
<1>6. CASE last # NULL /\ first = NULL
  BY <1>1, <1>6 DEF Listing
\* The node comes behind the last one.
<1>7. CASE last # NULL /\ first # NULL
  <2>1. PICK old \in [popped + 1 .. Len(pushed) -> Node] : Chain(old)
    BY <1>7 DEF IInv, Listing
  <2>2. popped < Len(pushed)
    BY <1>7 DEF IInv, Listing
  <2>3. /\ Len(pushed) \in popped + 1 .. Len(pushed) /\ old[Len(pushed)] = last
        /\ popped + 1 \in popped + 1 .. Len(pushed) /\ old[popped + 1] = first
    BY <1>2, <1>3, <2>1, <2>2 DEF Chain
  <2>4. /\ last \in Node /\ \A t \in Thread : qtask[t] # last
        /\ \A m \in Node : next'[m] = IF m = last THEN n ELSE next[m]
    BY <1>1, <1>7, <2>1, <2>3 DEF Chain, IInv, TypeOK
  <2>5. \A d \in Caller : qtask[d] # NULL => next[qtask[d]] = NULL /\ qtask[d] \in Node
    BY <1>7 DEF IInv, Listing, TypeOK
  <2>6. next'[n] = NULL
    BY <1>1, <2>4, <2>5
  <2>7. \A d \in Caller : qtask'[d] # NULL => next'[qtask'[d]] = NULL
    BY <1>1, <2>4, <2>5 DEF Thread
  <2>8. PICK g \in [popped' + 1 .. Len(pushed') -> Node] :
          \A i \in popped' + 1 .. Len(pushed') : g[i] = IF i = Len(pushed) + 1 THEN n ELSE old[i]
    <3> DEFINE f == [i \in popped' + 1 .. Len(pushed') |-> IF i = Len(pushed) + 1 THEN n ELSE old[i]]
    <3>1. \A i \in popped' + 1 .. Len(pushed') :
            i # Len(pushed) + 1 => i \in popped + 1 .. Len(pushed)
      BY <1>1, <1>2, <1>3
    <3>2. f \in [popped' + 1 .. Len(pushed') -> Node]
      BY <1>1, <2>1, <3>1
    <3> QED BY <3>2
  <2>9. /\ \A i \in popped' + 1 .. Len(pushed') :
             i = Len(pushed) + 1 \/ i \in popped + 1 .. Len(pushed)
        /\ \A i \in popped + 1 .. Len(pushed) :
             /\ i \in popped' + 1 .. Len(pushed') /\ i # Len(pushed) + 1 /\ i \in 1 .. Len(pushed)
             /\ i # Len(pushed) => i + 1 \in popped + 1 .. Len(pushed)
             /\ i + 1 \in popped' + 1 .. Len(pushed')
        /\ Len(pushed) + 1 \in popped' + 1 .. Len(pushed')
        /\ popped' + 1 = popped + 1
    BY <1>1, <1>2, <1>3
  <2>10. /\ g[Len(pushed) + 1] = n
         /\ \A i \in popped + 1 .. Len(pushed) : g[i] = old[i] /\ old[i] \in Node /\ old[i] # n
    BY <1>1, <2>1, <2>8, <2>9 DEF Chain
  <2>11. g[popped' + 1] = first' /\ g[Len(pushed')] = last'
    BY <1>1, <1>2, <1>7, <2>3, <2>9, <2>10
  <2>12. \A i, j \in popped' + 1 .. Len(pushed') : g[i] = g[j] => i = j
    BY <2>1, <2>9, <2>10 DEF Chain
  <2>13. ASSUME NEW i \in popped' + 1 .. Len(pushed')
         PROVE  /\ heap'[g[i]] = "live" /\ data'[g[i]] = pushed'[i]
                /\ next'[g[i]] = IF i = Len(pushed') THEN NULL ELSE g[i + 1]
                /\ \A t \in Thread' : qtask'[t] # g[i]
    <3>1. CASE i = Len(pushed) + 1
      BY <1>1, <1>2, <1>3, <1>4, <2>6, <2>10, <3>1
    <3>2. CASE i \in popped + 1 .. Len(pushed)
      <4>1. /\ heap[old[i]] = "live" /\ data[old[i]] = pushed[i]
            /\ next[old[i]] = IF i = Len(pushed) THEN NULL ELSE old[i + 1]
            /\ \A t \in Thread : qtask[t] # old[i]
        BY <2>1, <3>2 DEF Chain
      <4>2. old[i] = last <=> i = Len(pushed)
        BY <2>1, <2>3, <3>2 DEF Chain
      <4>3. /\ g[i] = old[i] /\ old[i] \in Node /\ i # Len(pushed') /\ pushed'[i] = pushed[i]
            /\ g[i + 1] = IF i = Len(pushed) THEN n ELSE old[i + 1]
        BY <1>2, <2>9, <2>10, <3>2
      <4>4. next'[old[i]] = IF i = Len(pushed) THEN n ELSE next[old[i]]
        BY <2>4, <4>2, <4>3
      <4>5. \A t \in Thread : qtask'[t] # old[i]
        BY <1>1, <4>1, <4>3, AsyncAssumption
      <4> QED BY <1>1, <1>3, <4>1, <4>3, <4>4, <4>5
    <3> QED BY <2>9, <3>1, <3>2
  <2>14. Chain(g)'
    BY <2>11, <2>12, <2>13 DEF Chain
  <2>15. popped' < Len(pushed') /\ last' # NULL
    BY <1>1, <1>2, <1>3
  <2> QED BY <2>7, <2>14, <2>15 DEF Listing
<1> QED BY <1>5, <1>6, <1>7

LEMMA EndPushInv == ASSUME IInv, NEW c \in Caller, EndPush(c) PROVE IInv'
<1>1. /\ c \in Thread /\ qtask[c] \in Node /\ call[c] \in Task
      /\ first' = (IF last = NULL THEN qtask[c] ELSE first) /\ last' = qtask[c]
      /\ next' = IF last = NULL THEN next ELSE [next EXCEPT ![last] = qtask[c]]
      /\ result' = [result EXCEPT ![call[c]] = 0]
      /\ caller' = [caller EXCEPT ![c] = "idle"]
      /\ call' = [call EXCEPT ![c] = NULL]
      /\ qtask' = [qtask EXCEPT ![c] = NULL]
      /\ UNCHANGED <<terminated, data, heap, task, thread_init, popped>>
  BY EndPushFacts
<1>2. TypeOK'
  <2>1. next' \in [Node -> Node \cup {NULL}] /\ first' \in Node \cup {NULL} /\ last' \in Node \cup {NULL}
    BY <1>1 DEF IInv, TypeOK
  <2>2. /\ result' \in [Task -> {0, -1, NULL}] /\ caller' \in [Caller -> {"idle", "link"}]
        /\ call' \in [Caller -> Task \cup {NULL}]
        /\ qtask' \in [Worker \cup Caller -> Node \cup {NULL}]
    BY <1>1 DEF IInv, TypeOK
  <2>3. pushed' \in Seq(Task)
    BY PushedAfter
  <2>4. worker' \in [Worker -> {"start", "pop", "wait", "woken", "copy", "run", "exit"}]
    BY EndPushWorkers
  <2> QED BY <1>1, <2>1, <2>2, <2>3, <2>4 DEF IInv, TypeOK
<1>3. InitCounted'
  <2>1. \A v \in Worker : worker'[v] = "start" <=> worker[v] = "start"
    BY EndPushWorkers
  <2> QED BY <1>1, <2>1, InitCountKept DEF IInv
<1> QED BY <1>2, <1>3, EndPushLocals, EndPushPushes, EndPushStarted, EndPushListing,
           EndPushAwake DEF IInv

LEMMA Inductive == IInv /\ [Next]_vars => IInv'
<1> SUFFICES ASSUME IInv, [Next]_vars PROVE IInv'
  OBVIOUS
<1>1. CASE \E c \in Caller, j \in Task : BeginPush(c, j) \/ FailPush(c, j)
  BY <1>1, BeginPushInv, FailPushInv
<1>2. CASE \E c \in Caller : EndPush(c)
  BY <1>2, EndPushInv
<1>3. CASE \E w \in Worker : WorkerStep(w) \/ SpuriousWakeup(w)
  BY <1>3, BeginInv, WaitInv, PopInv, LeaveInv, CopyAndFreeInv, EndTaskInv,
     SpuriousWakeupInv DEF WorkerStep
<1>4. CASE Terminate
  BY <1>4, TerminateInv
<1>5. CASE UNCHANGED vars
  <2>1. Thread' = Thread /\ Busy' = Busy /\ Waiting' = Waiting /\ Ready' = Ready
        /\ Pending' = Pending
    BY <1>5 DEF vars, Thread, Busy, Waiting, Ready, Pending
  <2>2. \A w : Doing(w)' = Doing(w)
    BY <1>5 DEF vars, Doing
  <2>3. TypeOK' /\ InitCounted' /\ Locals' /\ Pushes'
    BY <1>5, <2>1 DEF vars, IInv, TypeOK, InitCounted, Locals, Pushes
  <2>4. Started' /\ AwakeForPending'
    BY <1>5, <2>1, <2>2 DEF vars, IInv, Started, AwakeForPending
  <2>5. Listing'
    BY <1>5, ListKept DEF IInv, vars, memory
  <2> QED BY <2>3, <2>4, <2>5 DEF IInv
<1> QED BY <1>1, <1>2, <1>3, <1>4, <1>5 DEF Next, Joining

LEMMA Invariance == Spec => []IInv
BY InitInv, Inductive, PTL DEF Spec

-----------------------------------------------------------------------------
\* Every variable of the pool keeps its type; thread_init never counts more
\* threads than pthread_pool_init creates.
THEOREM AsyncTyped == Spec => []TypeOK
<1>1. IInv => TypeOK
  BY DEF IInv
<1> QED BY <1>1, Invariance, PTL

-----------------------------------------------------------------------------
(* The walk through the list.                                               *)

\* f is the walk of InList: it follows the next fields from first on.
Follows(f) ==
  f = [i \in 0 .. Cardinality(Node) |->
         IF i = 0 THEN first ELSE IF f[i - 1] = NULL THEN NULL ELSE next[f[i - 1]]]

Walk == CHOOSE f : Follows(f)

LEMMA InListIsWalk == InList = {Walk[i] : i \in DOMAIN Walk} \ {NULL}
BY DEF InList, Walk, Follows

LEMMA WalkFollows == ASSUME NEW f, Follows(f) PROVE Follows(Walk)
BY DEF Walk

\* With the nodes of the chain the walk is known: they come one after the other,
\* and after the last one there is NULL.
LEMMA WalkIsChain ==
  ASSUME IInv, NEW node \in [popped + 1 .. Len(pushed) -> Node],
         first # NULL => Chain(node)
  PROVE  /\ DOMAIN Walk = 0 .. Cardinality(Node)
         /\ \A i \in 0 .. Cardinality(Node) :
              Walk[i] = IF first # NULL /\ popped + 1 + i <= Len(pushed)
                        THEN node[popped + 1 + i] ELSE NULL
<1> DEFINE K == Cardinality(Node)
           At(k) == IF first # NULL /\ popped + 1 + k <= Len(pushed)
                    THEN node[popped + 1 + k] ELSE NULL
           f == [k \in 0 .. K |-> At(k)]
<1>1. K \in Nat
  BY AsyncAssumption, FS_CardinalityType
<1>2. popped \in Nat /\ Len(pushed) \in Nat
  BY LenProperties DEF IInv, TypeOK
<1>3. At(0) = first
  <2>1. CASE first = NULL
    BY <2>1
  <2>2. CASE first # NULL
    <3>1. popped < Len(pushed) /\ node[popped + 1] = first
      BY <2>2 DEF IInv, Listing, Chain
    <3> QED BY <1>2, <2>2, <3>1
  <2> QED BY <2>1, <2>2
<1>4. ASSUME NEW k \in Nat \ {0}
      PROVE  At(k) = IF At(k - 1) = NULL THEN NULL ELSE next[At(k - 1)]
  <2>1. k \in Nat /\ k - 1 \in Nat /\ popped + 1 + (k - 1) = popped + k
    BY <1>2
  <2>2. CASE ~(first # NULL /\ popped + k <= Len(pushed))
    <3>1. At(k - 1) = NULL
      BY <1>2, <2>1, <2>2
    <3>2. At(k) = NULL
      BY <1>2, <2>1, <2>2
    <3> QED BY <3>1, <3>2
  <2>3. CASE first # NULL /\ popped + k <= Len(pushed)
    <3>1. popped + k \in popped + 1 .. Len(pushed)
      BY <1>2, <2>1, <2>3
    <3>2. At(k - 1) = node[popped + k] /\ node[popped + k] # NULL
      BY <1>2, <2>1, <2>3, <3>1, AsyncAssumption
    <3>3. next[node[popped + k]] = IF popped + k = Len(pushed) THEN NULL ELSE node[popped + k + 1]
      BY <2>3, <3>1 DEF Chain
    <3>4. At(k) = IF popped + k = Len(pushed) THEN NULL ELSE node[popped + k + 1]
      <4>1. popped + 1 + k = popped + k + 1
        BY <1>2, <2>1
      <4>2. popped + 1 + k <= Len(pushed) <=> popped + k # Len(pushed)
        BY <1>2, <2>1, <2>3
      <4> QED BY <2>3, <4>1, <4>2
    <3> QED BY <3>2, <3>3, <3>4
  <2> QED BY <2>2, <2>3
<1> HIDE DEF At
<1>5. Follows(f)
  <2>1. ASSUME NEW k \in 0 .. K
        PROVE  At(k) = IF k = 0 THEN first ELSE IF f[k - 1] = NULL THEN NULL ELSE next[f[k - 1]]
    <3>1. CASE k = 0
      BY <1>3, <3>1
    <3>2. CASE k # 0
      <4>1. k \in Nat \ {0} /\ k - 1 \in 0 .. K
        BY <1>1, <3>2
      <4>2. f[k - 1] = At(k - 1)
        BY <4>1
      <4> QED BY <1>4, <3>2, <4>1, <4>2
    <3> QED BY <3>1, <3>2
  <2> QED BY <2>1 DEF Follows
<1>6. Follows(Walk)
  BY <1>5, WalkFollows
<1>7. \A k \in 0 .. K :
        Walk[k] = IF k = 0 THEN first ELSE IF Walk[k - 1] = NULL THEN NULL ELSE next[Walk[k - 1]]
  BY <1>6 DEF Follows
<1> DEFINE S == {k \in Nat : k <= K => Walk[k] = At(k)}
<1>8. 0 \in S
  BY <1>1, <1>3, <1>7
<1>9. ASSUME NEW k \in Nat, k \in S PROVE k + 1 \in S
  <2>1. SUFFICES ASSUME k + 1 <= K PROVE Walk[k + 1] = At(k + 1)
    OBVIOUS
  <2>2. k + 1 \in 0 .. K /\ k + 1 # 0 /\ (k + 1) - 1 = k /\ k <= K /\ k + 1 \in Nat \ {0}
    BY <1>1, <2>1
  <2>3. Walk[k + 1] = IF Walk[k] = NULL THEN NULL ELSE next[Walk[k]]
    BY <1>7, <2>2
  <2>4. At(k + 1) = IF At(k) = NULL THEN NULL ELSE next[At(k)]
    BY <1>4, <2>2
  <2>5. Walk[k] = At(k)
    BY <1>9, <2>2
  <2> QED BY <2>3, <2>4, <2>5
<1>10. Nat \subseteq S
  <2> HIDE DEF S
  <2> QED BY <1>8, <1>9, SetInduction
<1>11. \A k \in 0 .. K : Walk[k] = At(k)
  BY <1>1, <1>10
<1>12. DOMAIN Walk = 0 .. K
  BY <1>6 DEF Follows
<1> QED BY <1>11, <1>12 DEF At

\* The list has no node but those of the chain, and not more than are pending.
LEMMA ListIsChain ==
  ASSUME IInv, NEW node \in [popped + 1 .. Len(pushed) -> Node], first # NULL, Chain(node)
  PROVE  InList \subseteq {node[i] : i \in popped + 1 .. Len(pushed)}
<1>1. popped \in Nat /\ Len(pushed) \in Nat /\ Cardinality(Node) \in Nat
  BY LenProperties, AsyncAssumption, FS_CardinalityType DEF IInv, TypeOK
<1>2. SUFFICES ASSUME NEW k \in 0 .. Cardinality(Node), Walk[k] # NULL
               PROVE  \E i \in popped + 1 .. Len(pushed) : Walk[k] = node[i]
  BY WalkIsChain, InListIsWalk
<1>3. popped + 1 + k <= Len(pushed) /\ Walk[k] = node[popped + 1 + k]
  BY <1>2, WalkIsChain
<1>4. popped + 1 + k \in popped + 1 .. Len(pushed)
  BY <1>1, <1>3
<1> QED BY <1>3, <1>4

LEMMA EmptyList == ASSUME IInv, first = NULL PROVE InList = {}
<1>1. Cardinality(Node) \in Nat /\ popped \in Nat /\ Len(pushed) \in Nat
  BY LenProperties, AsyncAssumption, FS_CardinalityType DEF IInv, TypeOK
<1> DEFINE f == [i \in 0 .. Cardinality(Node) |-> NULL]
<1>2. Follows(f)
  BY <1>1 DEF Follows
<1>3. Follows(Walk)
  BY <1>2, WalkFollows
<1>4. /\ DOMAIN Walk = 0 .. Cardinality(Node)
      /\ \A k \in 0 .. Cardinality(Node) :
           Walk[k] = IF k = 0 THEN first ELSE IF Walk[k - 1] = NULL THEN NULL ELSE next[Walk[k - 1]]
  BY <1>3 DEF Follows
<1> DEFINE S == {k \in Nat : k <= Cardinality(Node) => Walk[k] = NULL}
<1>5. 0 \in S
  BY <1>1, <1>4
<1>6. ASSUME NEW k \in Nat, k \in S PROVE k + 1 \in S
  <2>1. SUFFICES ASSUME k + 1 <= Cardinality(Node) PROVE Walk[k + 1] = NULL
    OBVIOUS
  <2>2. k + 1 \in 0 .. Cardinality(Node) /\ k + 1 # 0 /\ (k + 1) - 1 = k /\ k <= Cardinality(Node)
    BY <1>1, <2>1
  <2>3. Walk[k] = NULL
    BY <1>6, <2>2
  <2> QED BY <1>4, <2>2, <2>3
<1>7. Nat \subseteq S
  <2> HIDE DEF S
  <2> QED BY <1>5, <1>6, SetInduction
<1>8. \A k \in 0 .. Cardinality(Node) : Walk[k] = NULL
  BY <1>1, <1>7
<1> QED BY <1>4, <1>8, InListIsWalk

-----------------------------------------------------------------------------
\* pthread_queue_pop and pthread_pool_routine: for any number of threads and
\* tasks, whatever a worker can take or has taken is allocated, and no two have
\* the same node, although last is left pointing to a node that was freed.
THEOREM NodesAreLive == Spec => []NoUseAfterFree
<1>1. ASSUME IInv PROVE NoUseAfterFree
  <2>1. /\ \A n \in Held : heap[n] = "live" /\ \E t \in Thread : qtask[t] = n
        /\ \A v, w \in Worker :
             worker[v] = "copy" /\ worker[w] = "copy" /\ v # w => qtask[v] # qtask[w]
    BY <1>1 DEF IInv, Locals, Held, Thread
  <2>2. CASE first = NULL
    BY <1>1, <2>1, <2>2, EmptyList DEF NoUseAfterFree
  <2>3. CASE first # NULL
    <3>1. PICK node \in [popped + 1 .. Len(pushed) -> Node] : Chain(node)
      BY <1>1, <2>3 DEF IInv, Listing
    <3>2. InList \subseteq {node[i] : i \in popped + 1 .. Len(pushed)}
      BY <1>1, <2>3, <3>1, ListIsChain
    <3>3. \A n \in InList : heap[n] = "live" /\ \A t \in Thread : qtask[t] # n
      BY <3>1, <3>2 DEF Chain
    <3> QED BY <2>1, <3>3 DEF NoUseAfterFree
  <2> QED BY <2>2, <2>3
<1> QED BY <1>1, Invariance, PTL

\* pthread_queue_push signals once for every node: for any number of workers and
\* tasks no worker sleeps while a task is in the list that the others, on their
\* way to the list, do not take.
THEOREM NoWorkerIdles == Spec => []NoIdleWorker
<1>1. ASSUME IInv PROVE NoIdleWorker
  <2>1. popped \in Nat /\ Len(pushed) \in Nat /\ Pending \in Nat /\ Cardinality(Ready) \in Nat
    <3>1. Ready \subseteq Worker
      BY DEF Ready
    <3> QED BY <1>1, <3>1, LenProperties, PendingIsNat, WorkerSets DEF IInv, TypeOK
  <2>2. IsFiniteSet(InList) /\ Cardinality(InList) \in Nat /\ Cardinality(InList) <= Pending
    <3>1. CASE first = NULL
      <4>1. InList = {}
        BY <1>1, <3>1, EmptyList
      <4> QED BY <2>1, <4>1, FS_EmptySet
    <3>2. CASE first # NULL
      <4>1. PICK node \in [popped + 1 .. Len(pushed) -> Node] : Chain(node)
        BY <1>1, <3>2 DEF IInv, Listing
      <4> DEFINE I == popped + 1 .. Len(pushed)
                 N == {node[i] : i \in I}
      <4>2. InList \subseteq N
        BY <1>1, <3>2, <4>1, ListIsChain
      <4>3. popped < Len(pushed)
        BY <1>1, <3>2 DEF IInv, Listing
      <4>4. IsFiniteSet(I) /\ Cardinality(I) = Len(pushed) - popped
        BY <2>1, <4>3, FS_Interval
      <4>5. IsFiniteSet(N) /\ Cardinality(N) <= Cardinality(I)
        <5>1. node \in Surjection(I, N)
          BY <4>1 DEF Surjection
        <5> QED BY <4>4, <5>1, FS_Surjection
      <4>6. IsFiniteSet(InList) /\ Cardinality(InList) <= Cardinality(N)
        BY <4>2, <4>5, FS_Subset
      <4> QED BY <2>1, <3>2, <4>4, <4>5, <4>6, FS_CardinalityType DEF Pending
    <3> QED BY <3>1, <3>2
  <2> QED BY <1>1, <2>1, <2>2 DEF IInv, AwakeForPending, NoIdleWorker
<1> QED BY <1>1, Invariance, PTL

-----------------------------------------------------------------------------
(* The pool implements TaskPool: a push accepts a task, taking its node     *)
(* starts it, its return finishes it, and every other step is a stutter.    *)

Running == {data[n] : n \in Held} \cup {task[w] : w \in {v \in Worker : worker[v] = "run"}}
Queue == SubSeq(pushed, popped + 1, Len(pushed))
Accepted == {pushed[i] : i \in DOMAIN pushed}

LEMMA RunningIsDoing == Running = {Doing(w) : w \in Busy}
BY DEF Running, Held, Doing, Busy

\* Where the busy workers go on with their tasks, the tasks that run stay.
LEMMA RunningKept ==
  ASSUME Busy' = Busy, \A w \in Busy : Doing(w)' = Doing(w)
  PROVE  Running' = Running
<1>1. Running' = {Doing(w)' : w \in Busy'}
  BY DEF Running, Held, Doing, Busy
<1> QED BY <1>1, RunningIsDoing

LEMMA Stutter ==
  ASSUME Running' = Running, UNCHANGED <<pushed, popped>>
  PROVE  UNCHANGED Pool!vars
BY DEF Running, Pool!vars

\* The numbers from 1 to n are n numbers.
LEMMA CountInterval ==
  ASSUME NEW n \in Nat PROVE IsFiniteSet(1 .. n) /\ Cardinality(1 .. n) = n
BY FS_Interval

\* There is room for a task that is not in the pool yet.
LEMMA RoomForTask ==
  ASSUME IInv
  PROVE  Len(Queue) + Cardinality(Running) < Cardinality(Task) + 1
<1>1. /\ pushed \in Seq(Task) /\ Len(pushed) \in Nat /\ popped \in Nat /\ popped <= Len(pushed)
      /\ \A i \in 1 .. Len(pushed) : pushed[i] \in Task
  BY LenProperties DEF IInv, TypeOK, Pushes
<1>2. Len(Queue) = Len(pushed) - popped
  BY <1>1, SubSeqProperties DEF Queue
<1>3. Cardinality(Running) \in Nat /\ Cardinality(Running) <= popped
  <2> DEFINE I == 1 .. popped
             P == {pushed[i] : i \in I}
             f == [i \in I |-> pushed[i]]
  <2>1. Running \subseteq P
    BY RunningIsDoing DEF IInv, Started
  <2>2. IsFiniteSet(I) /\ Cardinality(I) = popped
    BY <1>1, FS_Interval
  <2>3. f \in Surjection(I, P)
    BY DEF Surjection
  <2>4. IsFiniteSet(P) /\ Cardinality(P) <= Cardinality(I)
    BY <2>2, <2>3, FS_Surjection
  <2>5. IsFiniteSet(Running) /\ Cardinality(Running) <= Cardinality(P)
    BY <2>1, <2>4, FS_Subset
  <2> QED BY <1>1, <2>2, <2>4, <2>5, FS_CardinalityType
<1>4. Cardinality(Task) \in Nat /\ Len(pushed) <= Cardinality(Task)
  <2> DEFINE I == 1 .. Len(pushed)
             f == [i \in I |-> pushed[i]]
  <2>1. IsFiniteSet(I) /\ Cardinality(I) = Len(pushed)
    BY <1>1, CountInterval
  <2>2. f \in [I -> Task]
    BY <1>1
  <2>3. \A i, j \in I : f[i] = f[j] => i = j
    BY DEF IInv, Pushes
  <2> HIDE DEF f, I
  <2>4. f \in Injection(I, Task)
    <3>1. DOMAIN f = I
      BY <2>2
    <3> QED BY <2>2, <2>3, <3>1 DEF Injection, IsInjective
  <2>5. IsFiniteSet(Task) /\ Cardinality(Task) \in Nat
    BY AsyncAssumption, FS_CardinalityType
  <2>6. Cardinality(I) <= Cardinality(Task)
    BY <2>4, <2>5, FS_Injection
  <2> QED BY <2>1, <2>5, <2>6
<1> QED BY <1>1, <1>2, <1>3, <1>4

LEMMA InitPool == Init => Pool!Init
<1> SUFFICES ASSUME Init PROVE Pool!Init
  OBVIOUS
<1>1. Queue = <<>>
  BY SubSeqEmpty DEF Init, Queue
<1>2. Running = {}
  BY DEF Init, Running, Held
<1>3. Accepted = {}
  BY DEF Init, Accepted
<1> QED BY <1>1, <1>2, <1>3 DEF Pool!Init, Queue, Running, Accepted

LEMMA PushAccepts ==
  ASSUME IInv, NEW c \in Caller, EndPush(c) PROVE \E j \in Task : Pool!Accept(j)
<1>1. /\ pushed \in Seq(Task) /\ Len(pushed) \in Nat /\ Len(pushed') = Len(pushed) + 1
      /\ pushed' \in Seq(Task)
      /\ \A i \in 1 .. Len(pushed) : pushed'[i] = pushed[i]
      /\ pushed'[Len(pushed) + 1] = call[c]
  BY PushedAfter
<1>2. /\ call[c] \in Task /\ call[c] # NULL /\ UNCHANGED popped
      /\ pushed' = Append(pushed, call[c])
  BY EndPushFacts, AsyncAssumption
<1>3. popped \in Nat /\ popped <= Len(pushed)
  BY DEF IInv, TypeOK, Pushes
<1>4. DOMAIN pushed = 1 .. Len(pushed) /\ DOMAIN pushed' = 1 .. Len(pushed) + 1
  BY <1>1, LenProperties
<1>5. call[c] \notin Accepted
  <2>1. result[call[c]] = NULL
    BY <1>2 DEF IInv, Pushes
  <2> QED BY <1>4, <2>1 DEF IInv, Pushes, Accepted
<1>6. Accepted' = Accepted \cup {call[c]}
  <2>1. 1 .. Len(pushed) + 1 = (1 .. Len(pushed)) \cup {Len(pushed) + 1}
    BY <1>1
  <2> QED BY <1>1, <1>4, <2>1 DEF Accepted
<1>7. Queue' = Append(Queue, call[c])
  <2> DEFINE m == popped + 1
             n == Len(pushed)
  <2>1. /\ Queue \in Seq(Task) /\ Len(Queue) = n - popped
        /\ \A i \in 1 .. n - popped : Queue[i] = pushed[popped + i]
    <3>1. \A i \in m .. n : pushed[i] \in Task
      BY <1>1, <1>3, LenProperties
    <3>2. /\ Queue \in Seq(Task)
          /\ Len(Queue) = IF m <= n THEN n - m + 1 ELSE 0
          /\ \A i \in 1 .. n - m + 1 : Queue[i] = pushed[m + i - 1]
      BY <1>1, <1>3, <3>1, SubSeqProperties DEF Queue
    <3>3. n - m + 1 = n - popped /\ \A i \in 1 .. n - popped : m + i - 1 = popped + i
      BY <1>1, <1>3
    <3>4. Len(Queue) = n - popped
      BY <1>1, <1>3, <3>2
    <3> QED BY <3>2, <3>3, <3>4
  <2>2. /\ Queue' \in Seq(Task) /\ Len(Queue') = n + 1 - popped
        /\ \A i \in 1 .. n + 1 - popped : Queue'[i] = pushed'[popped + i]
    <3>1. \A i \in m .. n + 1 : pushed'[i] \in Task
      BY <1>1, <1>3, <1>4, LenProperties
    <3>2. Queue' = SubSeq(pushed', m, n + 1)
      BY <1>1, <1>2 DEF Queue
    <3>3. /\ Queue' \in Seq(Task)
          /\ Len(Queue') = IF m <= n + 1 THEN (n + 1) - m + 1 ELSE 0
          /\ \A i \in 1 .. (n + 1) - m + 1 : Queue'[i] = pushed'[m + i - 1]
      BY <1>1, <1>3, <3>1, <3>2, SubSeqProperties
    <3>4. (n + 1) - m + 1 = n + 1 - popped
          /\ \A i \in 1 .. n + 1 - popped : m + i - 1 = popped + i
      BY <1>1, <1>3
    <3>5. Len(Queue') = n + 1 - popped
      BY <1>1, <1>3, <3>3
    <3> QED BY <3>3, <3>4, <3>5
  <2>3. /\ Append(Queue, call[c]) \in Seq(Task) /\ Len(Append(Queue, call[c])) = n + 1 - popped
        /\ \A i \in 1 .. n - popped : Append(Queue, call[c])[i] = Queue[i]
        /\ Append(Queue, call[c])[n - popped + 1] = call[c]
    <3>1. /\ Append(Queue, call[c]) \in Seq(Task) /\ Len(Append(Queue, call[c])) = Len(Queue) + 1
          /\ \A i \in 1 .. Len(Queue) : Append(Queue, call[c])[i] = Queue[i]
          /\ Append(Queue, call[c])[Len(Queue) + 1] = call[c]
      BY <1>2, <2>1, AppendProperties
    <3>2. n - popped + 1 = n + 1 - popped
      BY <1>1, <1>3
    <3> QED BY <2>1, <3>1, <3>2
  <2>4. \A i \in 1 .. n + 1 - popped : Queue'[i] = Append(Queue, call[c])[i]
    <3>1. SUFFICES ASSUME NEW i \in 1 .. n + 1 - popped
                   PROVE  pushed'[popped + i] = Append(Queue, call[c])[i]
      BY <2>2
    <3>2. CASE i = n - popped + 1
      <4>1. popped + i = n + 1
        BY <1>1, <1>3, <3>2
      <4> QED BY <1>1, <2>3, <3>2, <4>1
    <3>3. CASE i # n - popped + 1
      <4>1. i \in 1 .. n - popped /\ popped + i \in 1 .. n
        BY <1>1, <1>3, <3>3
      <4> QED BY <1>1, <2>1, <2>3, <4>1
    <3> QED BY <3>2, <3>3
  <2> QED BY <2>2, <2>3, <2>4, SeqEqual
<1>8. Running' = Running
  BY EndPushDoing, RunningKept
<1>9. Len(Queue) + Pool!Cardinality(Running) < Cardinality(Task) + 1
  <2>1. Pool!Cardinality(Running) = Cardinality(Running)
    BY DEF Pool!Cardinality, Cardinality
  <2> QED BY <2>1, RoomForTask
<1>10. PICK j \in Task : j = call[c]
  BY <1>2
<1>11. Pool!Accept(j)
  BY <1>5, <1>6, <1>7, <1>8, <1>9, <1>10, Zenon DEF Pool!Accept, Queue, Running, Accepted
<1> QED BY <1>11

LEMMA PopStarts == ASSUME IInv, NEW w \in Worker, Pop(w) PROVE Pool!Start
<1>1. /\ popped \in Nat /\ Len(pushed) \in Nat /\ popped < Len(pushed)
      /\ popped' = popped + 1 /\ UNCHANGED pushed /\ pushed \in Seq(Task)
  BY PopFacts DEF IInv, TypeOK
<1>2. popped + 1 \in 1 .. Len(pushed) /\ Len(pushed) \in popped + 1 .. Len(pushed)
      /\ (popped + 1) + 1 = popped' + 1
  BY <1>1
<1>3. Head(Queue) = pushed[popped + 1] /\ Tail(Queue) = Queue'
  <2>1. /\ Head(Queue) = pushed[popped + 1]
        /\ Tail(Queue) = SubSeq(pushed, (popped + 1) + 1, Len(pushed))
    BY <1>1, <1>2, HeadTailOfSubSeq DEF Queue
  <2> QED BY <1>1, <1>2, <2>1 DEF Queue
<1>4. Queue # <<>>
  <2>1. Len(Queue) = IF popped + 1 <= Len(pushed) THEN Len(pushed) - (popped + 1) + 1 ELSE 0
    <3>1. \A i \in popped + 1 .. Len(pushed) : pushed[i] \in Task
      BY <1>1, LenProperties
    <3> QED BY <1>1, <3>1, SubSeqProperties DEF Queue
  <2>2. Len(<<>>) = 0
    OBVIOUS
  <2> QED BY <1>1, <2>1, <2>2
<1>5. Running' = Running \cup {pushed[popped + 1]}
  <2>1. /\ Busy' = Busy \cup {w} /\ \A v \in Busy : Doing(v)' = Doing(v)
        /\ Doing(w)' = pushed[popped + 1]
    BY PopDoing
  <2>2. Running' = {Doing(v)' : v \in Busy'}
    BY DEF Running, Held, Doing, Busy
  <2> QED BY <2>1, <2>2, RunningIsDoing
<1> QED BY <1>1, <1>3, <1>4, <1>5 DEF Pool!Start, Queue, Running

LEMMA EndFinishes == ASSUME IInv, NEW w \in Worker, EndTask(w) PROVE \E j \in Task : Pool!Finish(j)
<1>1. /\ worker[w] = "run" /\ Moves(w, "pop") /\ UNCHANGED <<data, qtask, pushed, popped>>
      /\ task' = [task EXCEPT ![w] = NULL]
  BY DEF EndTask, AfterTask, Moves, memory, history
<1>2. \A v \in Worker : worker'[v] = IF v = w THEN "pop" ELSE worker[v]
  BY <1>1, ReadyAfterMove DEF IInv
<1>3. w \in Busy /\ Doing(w) = task[w] /\ Busy' = Busy \ {w}
  BY <1>1, <1>2 DEF Busy, Doing
<1>4. \A v \in Busy \ {w} : Doing(v)' = Doing(v)
  BY <1>1, <1>2 DEF Busy, Doing, IInv, TypeOK
<1>5. \A v \in Busy \ {w} : Doing(v) # task[w]
  BY <1>3 DEF IInv, Started
<1>6. Running' = {Doing(v)' : v \in Busy'}
  BY DEF Running, Held, Doing, Busy
<1>7. Running' = Running \ {task[w]} /\ task[w] \in Running
  BY <1>3, <1>4, <1>5, <1>6, RunningIsDoing
<1>8. PICK j \in Task : j = task[w]
  <2>1. PICK i \in 1 .. popped : task[w] = pushed[i]
    BY <1>3 DEF IInv, Started
  <2>2. i \in 1 .. Len(pushed) /\ pushed \in Seq(Task)
    BY <2>1, LenProperties DEF IInv, TypeOK, Pushes
  <2> QED BY <2>1, <2>2, ElementOfSeq
<1>9. Pool!Finish(j)
  BY <1>1, <1>7, <1>8 DEF Pool!Finish, Running
<1> QED BY <1>9

LEMMA StepImplements == IInv /\ [Next]_vars => [Pool!Next]_Pool!vars
<1> SUFFICES ASSUME IInv, [Next]_vars PROVE Pool!Next \/ UNCHANGED Pool!vars
  OBVIOUS
<1>1. ASSUME NEW c \in Caller, EndPush(c) PROVE Pool!Next
  <2>1. PICK j \in Task : Pool!Accept(j)
    BY <1>1, PushAccepts
  <2> QED BY <2>1 DEF Pool!Next
<1>2. ASSUME NEW w \in Worker, Pop(w) PROVE Pool!Next
  BY <1>2, PopStarts DEF Pool!Next
<1>3. ASSUME NEW w \in Worker, EndTask(w) PROVE Pool!Next
  <2>1. PICK j \in Task : Pool!Finish(j)
    BY <1>3, EndFinishes
  <2> QED BY <2>1 DEF Pool!Next
<1>4. ASSUME NEW c \in Caller, NEW j \in Task, BeginPush(c, j) PROVE UNCHANGED Pool!vars
  <2>1. UNCHANGED <<pushed, popped>>
    BY <1>4 DEF BeginPush, history
  <2> QED BY <1>4, <2>1, BeginPushDoing, RunningKept, Stutter
<1>5. ASSUME NEW c \in Caller, NEW j \in Task, FailPush(c, j) PROVE UNCHANGED Pool!vars
  BY <1>5, Stutter DEF FailPush, history, memory, Running, Held
<1>6. ASSUME NEW w \in Worker, Begin(w) \/ Wait(w) \/ Leave(w) \/ SpuriousWakeup(w)
      PROVE  UNCHANGED Pool!vars
  <2>1. PICK place \in {"pop", "wait", "woken", "exit"} :
          worker[w] \notin {"copy", "run"} /\ Moves(w, place)
    BY <1>6 DEF Begin, Wait, AtLoop, Leave, SpuriousWakeup, Moves
  <2>2. UNCHANGED <<data, qtask, task, pushed, popped>>
    BY <1>6 DEF Begin, Wait, Leave, SpuriousWakeup, memory, history
  <2>3. \A v \in Worker : worker'[v] = IF v = w THEN place ELSE worker[v]
    BY <2>1, ReadyAfterMove DEF IInv
  <2>4. Busy' = Busy /\ \A v \in Busy : Doing(v)' = Doing(v)
    BY <2>1, <2>2, <2>3 DEF Busy, Doing
  <2> QED BY <2>2, <2>4, RunningKept, Stutter
<1>7. ASSUME NEW w \in Worker, CopyAndFree(w) PROVE UNCHANGED Pool!vars
  <2>1. UNCHANGED <<pushed, popped>>
    BY <1>7 DEF CopyAndFree, history
  <2> QED BY <1>7, <2>1, CopyAndFreeDoing, RunningKept, Stutter
<1>8. CASE Terminate
  <2>1. UNCHANGED <<data, qtask, task, pushed, popped>>
        /\ \A v \in Worker : worker'[v] = IF worker[v] = "wait" THEN "woken" ELSE worker[v]
    BY <1>8 DEF Terminate, memory, history
  <2>2. Busy' = Busy /\ \A v \in Busy : Doing(v)' = Doing(v)
    BY <2>1 DEF Busy, Doing
  <2> QED BY <2>1, <2>2, RunningKept, Stutter
<1>9. CASE UNCHANGED vars
  BY <1>9, Stutter DEF vars, Running, Held
<1> QED BY <1>1, <1>2, <1>3, <1>4, <1>5, <1>6, <1>7, <1>8, <1>9
        DEF Next, WorkerStep, Joining

\* The whole of threadPoolIntel/threadpool.c: the tasks start in the order in
\* which they were linked, each at most once, for any number of threads, tasks
\* and nodes.
THEOREM AsyncPoolImplementsTaskPool == Spec => ImplementsPool
BY InitPool, StepImplements, Invariance, PTL DEF ImplementsPool, Pool!Spec, Spec
=============================================================================
