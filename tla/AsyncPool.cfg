\* Two workers, two callers, three tasks; the threads are scheduled fairly.
CONSTANTS
  NULL = NULL
  Worker = {w1, w2}
  Caller = {c1, c2}
  Task = {j1, j2, j3}
  Node = {n1, n2, n3}
SPECIFICATION FairSpec
INVARIANTS
  TypeOK
  NoUseAfterFree
  NoIdleWorker
PROPERTIES
  ImplementsPool
  ListedTasksRun
