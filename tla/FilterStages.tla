---------------------------- MODULE FilterStages ----------------------------
(***************************************************************************)
(* What the pipeline promises, with no thread, buffer or semaphore: every  *)
(* filter is applied once to every band, in the order of the command line, *)
(* and a blur is applied to a band only when all the bands of its image    *)
(* have had the filters before it.                                         *)
(***************************************************************************)
EXTENDS Naturals

CONSTANTS Filter, Packet, Blur

VARIABLE stage       \* stage[p]: the number of filters applied to band p

SameImage(p) == {q \in Packet : q[1] = p[1]}

Init == stage = [p \in Packet |-> 0]

Apply(p) ==
  /\ stage[p] \in Filter
  /\ stage[p] \in Blur => \A q \in SameImage(p) : stage[q] >= stage[p]
  /\ stage' = [stage EXCEPT ![p] = @ + 1]

Next == \E p \in Packet : Apply(p)

Spec == Init /\ [][Next]_stage
=============================================================================
