\* Two workers, two callers, a queue of two tasks, two jobs and two without a
\* routine; the threads are scheduled fairly.
CONSTANTS
  w1 = w1
  w2 = w2
  a1 = a1
  a2 = a2
  j1 = j1
  j2 = j2
  n1 = n1
  n2 = n2
  NULL = NULL
  THREAD_POOL_QUEUE_SIZE = 2
  Worker = {w1, w2}
  Adder = {a1, a2}
  Job = {j1, j2, n1, n2}
  NullJob = {n1, n2}
SPECIFICATION FairSpec
INVARIANTS
  TypeOK
  OneOwner
  NoFailure
  NoLostWakeup
PROPERTIES
  ImplementsPool
  FreeReturns
  AcceptedJobsRun
  AddReturns
