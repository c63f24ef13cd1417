\* The constants of AsyncPool.cfg.
CONSTANTS
  NULL = NULL
  Worker = {w1, w2}
  Caller = {c1, c2}
  Task = {j1, j2, j3}
  Node = {n1, n2, n3}
SPECIFICATION Spec
INVARIANT PendingTasksStored
