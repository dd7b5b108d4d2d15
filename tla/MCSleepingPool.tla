--------------------------- MODULE MCSleepingPool ---------------------------
(* Instances of SleepingPool for TLC.                                      *)
EXTENDS SleepingPool

CONSTANTS w1, w2, w3

Symmetry == Permutations(Worker)

(* An application that launches independent work and never destroys the    *)
(* pool: the part of the state space where the pool strands a launch.      *)
IndependentLaunches == ~terminate /\ \A l \in Launched : deps[l] = {}
=============================================================================
