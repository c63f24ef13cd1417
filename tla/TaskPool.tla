------------------------------ MODULE TaskPool ------------------------------
(***************************************************************************)
(* What a thread pool promises: the jobs it accepts start in the order of  *)
(* their acceptance, each once, never more than Capacity at the same time  *)
(* in the pool, and none starts after the pool was told to stop.           *)
(***************************************************************************)
EXTENDS Naturals, Sequences, FiniteSets

CONSTANTS Job,        \* what a caller may give to the pool
          NullJob,    \* the jobs without a routine: nothing to run
          Capacity    \* jobs the pool can hold

VARIABLES queue,      \* accepted jobs that have not started
          running,    \* jobs that have started and not ended
          accepted,   \* jobs accepted so far
          stopped

vars == <<queue, running, accepted, stopped>>

Init == queue = <<>> /\ running = {} /\ accepted = {} /\ stopped = FALSE

Accept(j) ==
  /\ ~stopped /\ j \notin accepted
  /\ Len(queue) + Cardinality(running) < Capacity
  /\ queue' = Append(queue, j)
  /\ accepted' = accepted \cup {j}
  /\ UNCHANGED <<running, stopped>>

Start ==
  /\ ~stopped /\ queue # <<>>
  /\ queue' = Tail(queue)
  /\ running' = running \cup ({Head(queue)} \ NullJob)
  /\ UNCHANGED <<accepted, stopped>>

Finish(j) ==
  /\ j \in running
  /\ running' = running \ {j}
  /\ UNCHANGED <<queue, accepted, stopped>>

Stop == ~stopped /\ stopped' = TRUE /\ UNCHANGED <<queue, running, accepted>>

Next == Start \/ Stop \/ \E j \in Job : Accept(j) \/ Finish(j)

Spec == Init /\ [][Next]_vars
=============================================================================
